---------------------------- MODULE SharedEngine ----------------------------
(***************************************************************************)
(* What a server promises about the one engine that all its chats share,   *)
(* without locks, threads, rooms or sockets: one owner uses the engine at  *)
(* a time; a guest, who calls the model without owning the engine, finds   *)
(* it free but keeps nobody out; only an owner is told to stop or asks its *)
(* user, and it takes no order and no question with it when it ends; and   *)
(* an allowance is only ever given in answer to an owner's question.       *)
(***************************************************************************)
CONSTANTS Owners, Allowances

VARIABLES using,     \* the owners that use the engine
          guests,    \* those who call the model without owning it
          told,      \* those of them that were told to stop
          asking,    \* those whose user is being asked
          answered,  \* those whose question has an answer nobody has read
          allowed    \* what users have allowed until further notice

vars == <<using, guests, told, asking, answered, allowed>>

TypeOK ==
    /\ using \in SUBSET Owners /\ guests \in SUBSET Owners
    /\ told \in SUBSET Owners
    /\ asking \in SUBSET Owners /\ answered \in SUBSET Owners
    /\ allowed \in SUBSET Allowances

Init ==
    /\ using = {} /\ guests = {}
    /\ told = {} /\ asking = {} /\ answered = {} /\ allowed = {}

\* An owner takes the engine, which nobody owns: a guest may still be there.
Begin(o) ==
    /\ using = {}
    /\ using' = {o}
    /\ UNCHANGED <<guests, told, asking, answered, allowed>>

\* A guest comes when nobody uses the engine, and leaves nothing behind.
Enter(o) ==
    /\ using = {} /\ guests = {}
    /\ guests' = {o}
    /\ UNCHANGED <<using, told, asking, answered, allowed>>

Depart(o) ==
    /\ o \in guests
    /\ guests' = guests \ {o}
    /\ UNCHANGED <<using, told, asking, answered, allowed>>

\* A user tells the running turn to stop, by leaving too: then nobody is left to
\* answer what it asks.
Tell(o) ==
    /\ o \in using
    /\ told' = told \cup {o}
    /\ answered' \in {answered, asking}
    /\ UNCHANGED <<using, guests, asking, allowed>>

\* The running turn asks its user, one thing at a time ...
Ask(o) ==
    /\ o \in using /\ asking = {}
    /\ asking' = {o}
    /\ UNCHANGED <<using, guests, told, answered, allowed>>

\* ... who answers ...
Answer(o) ==
    /\ o \in asking
    /\ answered' = answered \cup {o}
    /\ UNCHANGED <<using, guests, told, asking, allowed>>

\* ... and the turn goes on, or gives up waiting.  An answer may allow more.
Settle(o) ==
    /\ o \in asking
    /\ asking' = {} /\ answered' = {}
    /\ \/ allowed' = allowed
       \/ o \in answered /\ \E a \in Allowances : allowed' = allowed \cup {a}
    /\ UNCHANGED <<using, guests, told>>

\* Allowances are taken back.
Revoke ==
    /\ allowed' \in SUBSET allowed
    /\ UNCHANGED <<using, guests, told, asking, answered>>

\* An owner is done, its question settled; what it did may revoke allowances.
End(o) ==
    /\ o \in using /\ o \notin asking
    /\ using' = using \ {o}
    /\ told' = told \ {o}
    /\ allowed' \in SUBSET allowed
    /\ UNCHANGED <<guests, asking, answered>>

Next ==
    \/ \E o \in Owners :
          \/ Begin(o) \/ Tell(o) \/ Ask(o) \/ Answer(o) \/ Settle(o) \/ End(o)
          \/ Enter(o) \/ Depart(o)
    \/ Revoke

Spec == Init /\ [][Next]_vars

\* The promise in one state: one owner, and one guest beside it at most; orders and
\* questions are the owner's.
Sound ==
    /\ \A o, p \in using : o = p
    /\ \A o, p \in guests : o = p
    /\ using \cap guests = {}
    /\ told \subseteq using /\ answered \subseteq asking /\ asking \subseteq using
=============================================================================
