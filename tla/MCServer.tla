------------------------------ MODULE MCServer ------------------------------
(***************************************************************************)
(* The web server: its task store with the workers (DurableTask) and its   *)
(* chats (WebSessions).  The two keep their state apart, so that each      *)
(* behaviour is of one of them: `part` says which.                         *)
(***************************************************************************)
EXTENDS MCDurableTask, MCWebSessions

VARIABLE part

all == <<vars, webVars, part>>

\* In the behaviours of a task the server shows its first chat.
InitAll ==
    /\ part \in {"tasks", "chats"}
    /\ Init /\ WebInit /\ (part = "tasks" => heap[view].name = home)

\* A bound: at most one of the command lines is in run_task; the other takes commands.
TaskStep(A) ==
    /\ part = "tasks" /\ A
    /\ \E p \in Pids \ Servers : \A t \in Tasks : pc'[p][t] = "idle"
    /\ UNCHANGED <<webVars, part>>
ChatStep(A) == part = "chats" /\ A /\ UNCHANGED <<vars, part>>

NextAll == TaskStep(Next) \/ ChatStep(WebNext)

SpecAll == InitAll /\ [][NextAll]_all

\* The command lines are interchangeable, as the tabs are whose values they share.
Symmetry == WebSymmetry
=============================================================================
