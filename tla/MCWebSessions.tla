--------------------------- MODULE MCWebSessions ---------------------------
(***************************************************************************)
(* Instances of WebSessions for TLC: two saved chats and the name of a     *)
(* third, two tabs, two clients of the session endpoints.                  *)
(***************************************************************************)
EXTENDS WebSessions, TLC

CONSTANTS home, work, trip, s1, s2, r1, r2

\* The two tabs are interchangeable, and so are the two clients.
WebSymmetry == Permutations({s1, s2}) \cup Permutations({r1, r2})
=============================================================================
