--------------------------- MODULE TaskLifecycle ---------------------------
(***************************************************************************)
(* What the durable-task store promises, without processes' program        *)
(* counters, statements or pids in rows: a task has one life, at most one  *)
(* holder works on it, the user's decision to end it is final, and it is   *)
(* deleted only when nobody holds it.                                      *)
(***************************************************************************)
CONSTANTS Tasks, Workers, Nobody

VARIABLES life,    \* "absent" -> "open" -> "ended" or "done" -> "gone"
          holder   \* the worker that holds the task

vars == <<life, holder>>

Lives == {"absent", "open", "ended", "done", "gone"}

TypeOK ==
    /\ life \in [Tasks -> Lives]
    /\ holder \in [Tasks -> Workers \cup {Nobody}]

Init ==
    /\ life = [t \in Tasks |-> "absent"]
    /\ holder = [t \in Tasks |-> Nobody]

\* A user starts a task.
Create(t) ==
    /\ life[t] = "absent"
    /\ life' = [life EXCEPT ![t] = "open"]
    /\ UNCHANGED holder

\* A worker takes an open task nobody holds.
Acquire(w, t) ==
    /\ life[t] = "open" /\ holder[t] = Nobody
    /\ holder' = [holder EXCEPT ![t] = w]
    /\ UNCHANGED life

\* The holder, and only it, finishes an open task.
Finish(t) ==
    /\ life[t] = "open" /\ holder[t] # Nobody
    /\ life' = [life EXCEPT ![t] = "done"]
    /\ UNCHANGED holder

\* A user ends an open task, held or not.
End(t) ==
    /\ life[t] = "open"
    /\ life' = [life EXCEPT ![t] = "ended"]
    /\ UNCHANGED holder

\* A holder lets go of a task, or of all of its tasks when it dies.
Release(w, held) ==
    /\ held # {} /\ \A t \in held : holder[t] = w
    /\ holder' = [t \in Tasks |-> IF t \in held THEN Nobody ELSE holder[t]]
    /\ UNCHANGED life

\* A user deletes a task nobody holds.
Delete(t) ==
    /\ life[t] \in {"open", "ended", "done"} /\ holder[t] = Nobody
    /\ life' = [life EXCEPT ![t] = "gone"]
    /\ UNCHANGED holder

Next ==
    \/ \E t \in Tasks : Create(t) \/ Finish(t) \/ End(t) \/ Delete(t)
    \/ \E w \in Workers, t \in Tasks : Acquire(w, t)
    \/ \E w \in Workers, held \in SUBSET Tasks : Release(w, held)

Spec == Init /\ [][Next]_vars
=============================================================================
