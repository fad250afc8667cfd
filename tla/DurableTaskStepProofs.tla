----------------------- MODULE DurableTaskStepProofs -----------------------
(***************************************************************************)
(* What no step of the store and its workers ever does: the action         *)
(* properties of DurableTask, from the invariant of DurableTaskProofs; the *)
(* claims that nobody serves; and what a worker may still do before it     *)
(* leaves.                                                                 *)
(***************************************************************************)
EXTENDS DurableTaskProofs

USE NoPidAssumption, ServersAssumption
\* The program labels and states are plain sets of names.
USE DEF Owns, Owning, Guarded, InAgent, Entering, RowStates, Live, Ending, NoRow, OpStates,
        NoReq, At, Present

\* A worker's step moves no other worker.
LEMMA GotoMoves ==
    ASSUME TypeOK, NEW q \in Pids, NEW u \in Tasks, NEW label, Goto(q, u, label)
    PROVE  \A p \in Pids, t \in Tasks :
              pc'[p][t] = IF p = q /\ t = u THEN label ELSE pc[p][t]
BY DEF Goto, TypeOK

\* A worker stops owning a task by releasing it, by an exception outside the try
\* block that leaves the claim behind, or with its process.
LEMMA OwnershipEnds ==
    ASSUME IInv, Next, NEW p \in Pids, NEW t \in Tasks, Owns(p, t), ~Owns(p, t)'
    PROVE  FinishCancellation(p, t) \/ Escape(p, t) \/ Crash(p)
<1>0. TypeOK
  BY DEF IInv
<1>1. ASSUME NEW q \in Pids, NEW u \in Tasks, EnterRun(q, u) PROVE FALSE
  <2>1. At(q, u, pc[q][u]) /\ pc[q][u] \in Entering /\ \E l : Goto(q, u, l)
    BY <1>1 DEF EnterRun, Enter, CheckEnding, CheckRunning, RecoverEnding, RecoverRunning,
                Claim, ClaimFails
  <2> QED BY <2>1, <1>0, GotoMoves
<1>2. ASSUME NEW q \in Pids, NEW u \in Tasks, InSlice(q, u) PROVE FALSE
  <2>1. UNCHANGED pc \/ \E l \in Owning : Goto(q, u, l)
    BY <1>2 DEF InSlice, StartOperation, FinishOperation, SaveRead, SaveWrite, AgentEnds,
                AgentReturns, AgentRaises
  <2> QED BY <2>1, <1>0, GotoMoves
<1>3. ASSUME NEW q \in Pids, NEW u \in Tasks, AfterSlice(q, u) PROVE FALSE
  <2>1. \E l \in Owning : Goto(q, u, l)
    BY <1>3 DEF AfterSlice, FailRead, FailWrite, AnswerRead, AnswerWrite, CheckEnded,
                Complete, Requeue, Exhaust
  <2> QED BY <2>1, <1>0, GotoMoves
<1>4. ASSUME NEW q \in Pids, NEW u \in Tasks, EnterTry(q, u) \/ BeginSlice(q, u) PROVE FALSE
  <2>1. \E l \in Owning : Goto(q, u, l)
    BY <1>4 DEF EnterTry, BeginSlice
  <2> QED BY <2>1, <1>0, GotoMoves
<1>5. ASSUME NEW q \in Pids, NEW u \in Tasks, FinishCancellation(q, u)
      PROVE  FinishCancellation(p, t)
  <2>1. q = p /\ u = t
    BY <1>5, <1>0, GotoMoves DEF FinishCancellation
  <2> QED BY <1>5, <2>1
<1>6. ASSUME NEW q \in Pids, NEW u \in Tasks, Close(q, u) PROVE FALSE
  BY <1>6, <1>0, GotoMoves DEF Close
<1>7. ASSUME NEW q \in Pids, NEW u \in Tasks, Request(q, u) PROVE FALSE
  <2>1. CASE Create(q, u)
    <3>1. u # t
      BY <2>1 DEF Create, IInv, OwnerHolds
    <3> QED BY <2>1, <3>1, <1>0 DEF Create, TypeOK
  <2>2. CASE ResumeCli(q, u)
    BY <2>2, <1>0 DEF ResumeCli, Free, TypeOK
  <2> QED BY <1>7, <2>1, <2>2 DEF Request, Cancel, Delete
<1>8. ASSUME NEW s \in Servers, Resume(s) PROVE FALSE
  <2>1. CASE ResumeStart(s)
    BY <2>1, <1>0 DEF ResumeStart, TypeOK
  <2> QED BY <1>8, <2>1 DEF Resume, ResumeRead, ResumeCheck, ResumeRecover
<1>9. ASSUME NEW q \in Pids, Fault(q) PROVE Escape(p, t) \/ Crash(p)
  <2>1. ASSUME NEW u \in Tasks, Unwind(q, u) PROVE FALSE
    BY <2>1, <1>0, GotoMoves DEF Unwind
  <2>2. ASSUME NEW u \in Tasks, Escape(q, u) PROVE Escape(p, t)
    BY <2>2, <1>0, GotoMoves DEF Escape
  <2>3. CASE Crash(q)
    BY <1>0, <2>3 DEF Crash, TypeOK
  <2>4. ~Restart(q)
    BY DEF Restart
  <2> QED BY <1>9, <2>1, <2>2, <2>3, <2>4 DEF Fault
<1> QED BY <1>1, <1>2, <1>3, <1>4, <1>5, <1>6, <1>7, <1>8, <1>9 DEF Next, Work

\* A live worker's claim cannot be taken away: it is the worker that releases it.
THEOREM ClaimsAreKept == Spec => ClaimIsKept
<1>1. ASSUME IInv, IInv', [Next]_vars, NEW p \in Pids, NEW t \in Tasks,
             Owns(p, t), p \in alive', worker'[t] # p
      PROVE  pc[p][t] = "leave" /\ pc'[p][t] = "closing"
  <2>1. ~Owns(p, t)'
    BY <1>1 DEF IInv, OwnerHolds
  <2>2. Next
    BY <1>1, <2>1 DEF vars
  <2>3. FinishCancellation(p, t) \/ Escape(p, t) \/ Crash(p)
    BY <1>1, <2>1, <2>2, OwnershipEnds
  <2>4. worker[t] = p
    BY <1>1 DEF IInv, OwnerHolds
  <2> QED BY <1>1, <2>3, <2>4
          DEF FinishCancellation, Escape, Crash, Goto, row, IInv, TypeOK
<1>2. IInv /\ IInv' /\ [Next]_vars =>
        [\A p \in Pids, t \in Tasks :
            Owns(p, t) /\ p \in alive' /\ worker'[t] # p
               => pc[p][t] = "leave" /\ pc'[p][t] = "closing"]_vars
  BY <1>1
<1> QED BY <1>2, Invariance, PTL DEF Spec, ClaimIsKept

-----------------------------------------------------------------------------
\* Once a task is being ended, or completed, its state moves by being settled or
\* deleted only.
EndKept(t) ==
    /\ state[t] \in Ending => state'[t] \in Ending \cup {"gone"}
    /\ state[t] = "completed" => state'[t] \in {"completed", "gone"}

\* A guarded write to a row that a worker is working on ends only what its user ended.
LEMMA WriteKeepsEnds ==
    ASSUME TypeOK, NEW u \in Tasks, NEW new, SetState(u, new),
           state[u] \in {"running", "queued", "cancelling"}, NEW t \in Tasks
    PROVE  EndKept(t)
BY DEF SetState, Written, EndKept, TypeOK

\* Every step keeps what was ended or completed.
LEMMA EndedRows ==
    ASSUME IInv, Next, NEW t \in Tasks
    PROVE  EndKept(t)
<1> USE DEF row
<1>0. TypeOK
  BY DEF IInv
<1>1. ASSUME UNCHANGED state PROVE EndKept(t)
  BY <1>1 DEF EndKept
<1>2. ASSUME NEW u \in Tasks, Recover(u) PROVE EndKept(t)
  BY <1>2, <1>0 DEF Recover, RecoverApplies, Recovered, EndKept, TypeOK
<1>3. ASSUME NEW q \in Pids, NEW u \in Tasks, pc[q][u] \in Owning \ {"leave"},
             NEW new, SetState(u, new)
      PROVE  EndKept(t)
  BY <1>0, <1>3, WriteKeepsEnds DEF IInv, WorkingRow
<1>4. ASSUME NEW q \in Pids, NEW u \in Tasks, EnterRun(q, u) PROVE EndKept(t)
  <2>1. CASE Claim(q, u)
    BY <1>0, <2>1 DEF Claim, Claimable, EndKept, TypeOK
  <2> QED BY <1>1, <1>2, <1>4, <2>1
          DEF EnterRun, Enter, CheckEnding, CheckRunning, RecoverEnding, RecoverRunning,
              ClaimFails
<1>5. ASSUME NEW q \in Pids, NEW u \in Tasks, InSlice(q, u) PROVE EndKept(t)
  BY <1>1, <1>3, <1>5
     DEF InSlice, StartOperation, FinishOperation, SaveRead, SaveWrite, AgentEnds,
         AgentReturns, AgentRaises
<1>6. ASSUME NEW q \in Pids, NEW u \in Tasks, AfterSlice(q, u) PROVE EndKept(t)
  BY <1>1, <1>3, <1>6
     DEF AfterSlice, FailRead, FailWrite, AnswerRead, AnswerWrite, CheckEnded,
         Complete, Requeue, Exhaust
<1>7. ASSUME NEW q \in Pids, NEW u \in Tasks, FinishCancellation(q, u) PROVE EndKept(t)
  BY <1>0, <1>7 DEF FinishCancellation, EndKept, TypeOK
<1>8. ASSUME NEW q \in Pids, NEW u \in Tasks,
             EnterTry(q, u) \/ BeginSlice(q, u) \/ Close(q, u)
      PROVE  EndKept(t)
  BY <1>1, <1>8 DEF EnterTry, BeginSlice, Close
<1>9. ASSUME NEW q \in Pids, NEW u \in Tasks, Request(q, u) PROVE EndKept(t)
  <2>1. CASE Create(q, u)
    BY <1>0, <2>1 DEF Create, EndKept, TypeOK
  <2>2. CASE Cancel(q, u)
    BY <1>0, <2>2 DEF Cancel, EndKept, TypeOK
  <2>3. CASE Delete(q, u)
    BY <1>0, <2>3 DEF Delete, EndKept, TypeOK
  <2> QED BY <1>1, <1>9, <2>1, <2>2, <2>3 DEF Request, ResumeCli
<1>10. ASSUME NEW s \in Servers, Resume(s) PROVE EndKept(t)
  <2>1. ResumeRecover(s) => req[s].task \in Tasks
    BY <1>0 DEF ResumeRecover, TypeOK, ReqStates
  <2> QED BY <1>1, <1>2, <1>10, <2>1
          DEF Resume, ResumeRead, ResumeCheck, ResumeRecover, ResumeStart
<1>11. ASSUME NEW q \in Pids, Fault(q) PROVE EndKept(t)
  BY <1>1, <1>11 DEF Fault, Unwind, Escape, Crash, Restart
<1> QED BY <1>4, <1>5, <1>6, <1>7, <1>8, <1>9, <1>10, <1>11 DEF Next, Work

\* No write of a worker revives a task that its user has ended.
THEOREM CancelsAreFinal == Spec => CancelIsFinal
<1>1. IInv /\ [Next]_vars =>
        [\A t \in Tasks : state[t] \in Ending => state'[t] \in Ending \cup {"gone"}]_vars
  BY EndedRows DEF EndKept
<1> QED BY <1>1, Invariance, PTL DEF Spec, CancelIsFinal

\* A completed task stays completed until it is deleted.
THEOREM CompletionsAreFinal == Spec => CompletedIsFinal
<1>1. IInv /\ [Next]_vars =>
        [\A t \in Tasks : state[t] = "completed" => state'[t] \in {"completed", "gone"}]_vars
  BY EndedRows DEF EndKept
<1> QED BY <1>1, Invariance, PTL DEF Spec, CompletedIsFinal

-----------------------------------------------------------------------------
Settled == {"completed", "blocked", "unknown"}

\* Recovery leaves a settled operation alone, and one it marks unknown is open in
\* no worker.
LEMMA RecoverKeepsLedger ==
    ASSUME IInv, NEW t \in Tasks, Recover(t), NEW u \in Tasks, NEW o \in Ops
    PROVE  /\ ops[u][o] \in Settled => ops'[u][o] = ops[u][o]
           /\ ops'[u][o] = "unknown" /\ ops[u][o] # "unknown"
                => \A p \in Pids : o \notin cur[p][u]
<1>1. ops[u][o] \in Settled => ops'[u][o] = ops[u][o]
  BY DEF Recover, Interrupted, Settled, IInv, TypeOK
<1>2. ASSUME ops'[u][o] # ops[u][o], NEW p \in Pids, o \in cur[p][u] PROVE FALSE
  <2>1. Owns(p, u)
    BY <1>2 DEF IInv, OpenOpsInAgent
  <2> QED BY <1>2, <2>1, RecoverSparesOwners
<1> QED BY <1>1, <1>2

\* The ledger through one step.
LEMMA LedgerStep ==
    ASSUME IInv, Next, NEW t \in Tasks, NEW o \in Ops
    PROVE  /\ ops[t][o] \in Settled /\ state'[t] # "gone" => ops'[t][o] = ops[t][o]
           /\ ops'[t][o] = "unknown" /\ ops[t][o] # "unknown"
                => \A p \in Pids : o \notin cur[p][t]
<1>1. CASE \E u \in Tasks : Recover(u)
  BY <1>1, RecoverKeepsLedger
<1>2. CASE \E q \in Pids, u \in Tasks : Delete(q, u)
  BY <1>2 DEF Delete, IInv, TypeOK
<1>3. CASE \E q \in Pids, u \in Tasks : StartOperation(q, u) \/ FinishOperation(q, u)
  <2>1. PICK q \in Pids, u \in Tasks : StartOperation(q, u) \/ FinishOperation(q, u)
    BY <1>3
  <2>2. PICK p \in Ops, s \in {"started", "completed", "blocked"} :
           ops[u][p] \in {"unused", "started"} /\ ops' = [ops EXCEPT ![u][p] = s]
    <3>1. CASE StartOperation(q, u)
      BY <3>1 DEF StartOperation
    <3>2. CASE FinishOperation(q, u)
      <4>1. PICK p \in cur[q][u], s \in {"completed", "blocked"} :
               ops' = [ops EXCEPT ![u][p] = s]
        BY <3>2 DEF FinishOperation
      <4>2. p \in Ops /\ ops[u][p] = "started"
        BY DEF IInv, TypeOK, OpenOpsAreRecorded
      <4> QED BY <4>1, <4>2
    <3> QED BY <2>1, <3>1, <3>2
  <2> QED BY <2>2 DEF Settled, IInv, TypeOK
<1>4. CASE UNCHANGED ops
  BY <1>4
<1>5. CASE \E q \in Pids, u \in Tasks : Work(q, u)
  BY <1>1, <1>3, <1>4, <1>5
     DEF Work, EnterRun, Enter, CheckEnding, CheckRunning, RecoverEnding, RecoverRunning,
         Claim, ClaimFails, EnterTry, BeginSlice, InSlice, SaveRead, SaveWrite, AgentEnds,
         AgentReturns, AgentRaises, AfterSlice, FailRead, FailWrite, AnswerRead, AnswerWrite,
         CheckEnded, Complete, Requeue, Exhaust, FinishCancellation, Close
<1>6. CASE \E q \in Pids, u \in Tasks : Request(q, u)
  BY <1>2, <1>4, <1>6 DEF Request, Create, Cancel, ResumeCli
<1>7. CASE \E s \in Servers : Resume(s)
  <2>1. \A s \in Servers : ResumeRecover(s) => req[s].task \in Tasks
    BY DEF ResumeRecover, IInv, TypeOK, ReqStates
  <2> QED BY <1>1, <1>4, <1>7, <2>1
          DEF Resume, ResumeRead, ResumeCheck, ResumeRecover, ResumeStart
<1>8. CASE \E q \in Pids : Fault(q)
  BY <1>4, <1>8 DEF Fault, Unwind, Escape, Crash, Restart
<1> QED BY <1>5, <1>6, <1>7, <1>8 DEF Next

\* The ledger is append-only, and recovery never calls an open operation unknown.
THEOREM LedgerIsAppendOnly == Spec => LedgerAppendOnly
<1>1. IInv /\ [Next]_vars =>
        [\A t \in Tasks, o \in Ops :
            /\ ops[t][o] \in {"completed", "blocked", "unknown"} /\ state'[t] # "gone"
                  => ops'[t][o] = ops[t][o]
            /\ ops'[t][o] = "unknown" /\ ops[t][o] # "unknown"
                  => \A p \in Pids : o \notin cur[p][t]]_vars
  BY LedgerStep DEF Settled
<1> QED BY <1>1, Invariance, PTL DEF Spec, LedgerAppendOnly
-----------------------------------------------------------------------------
(* Where the two violated promises come from: what leaves a claim behind.  *)

\* A live process is recorded as the worker of a task that it does not work on.
Unserved(t) == worker[t] \in alive /\ ~Owns(worker[t], t)

\* A paused task that no worker works on is still recorded as claimed.
Stranded(t) ==
    state[t] = "paused" /\ worker[t] # NoPid /\ \A p \in Pids : ~Owns(p, t)

\* A claim appears by being claimed.
LEMMA ClaimsAreMade ==
    ASSUME IInv, Next, NEW t \in Tasks, worker'[t] # worker[t], worker'[t] # NoPid
    PROVE  Claim(worker'[t], t) /\ worker[t] = NoPid /\ worker'[t] \in Pids
<1>0. TypeOK
  BY DEF IInv
<1>1. ASSUME NEW u \in Tasks, Recover(u) PROVE FALSE
  BY <1>0, <1>1 DEF Recover, TypeOK
<1>2. ASSUME NEW q \in Pids, NEW u \in Tasks, Claim(q, u) PROVE q = worker'[t] /\ u = t
  BY <1>0, <1>2 DEF Claim, TypeOK
<1>3. ASSUME NEW q \in Pids, NEW u \in Tasks, Delete(q, u) \/ FinishCancellation(q, u)
      PROVE  FALSE
  BY <1>0, <1>3 DEF Delete, FinishCancellation, TypeOK
<1>4. ASSUME UNCHANGED worker PROVE FALSE
  BY <1>4
<1>5. PICK q \in Pids, u \in Tasks : Claim(q, u)
  <2> USE DEF row
  <2>1. CASE \E q \in Pids, u \in Tasks : Work(q, u)
    BY <2>1, <1>1, <1>3, <1>4
       DEF Work, EnterRun, Enter, CheckEnding, CheckRunning, RecoverEnding, RecoverRunning,
           ClaimFails, EnterTry, BeginSlice, InSlice, StartOperation, FinishOperation,
           SaveRead, SaveWrite, AgentEnds, AgentReturns, AgentRaises, AfterSlice, FailRead,
           FailWrite, AnswerRead, AnswerWrite, CheckEnded, Complete, Requeue, Exhaust,
           Close, SetState
  <2>2. CASE \E q \in Pids, u \in Tasks : Request(q, u)
    BY <2>2, <1>3, <1>4 DEF Request, Create, Cancel, ResumeCli
  <2>3. CASE \E s \in Servers : Resume(s)
    <3>1. \A s \in Servers : ResumeRecover(s) => req[s].task \in Tasks
      BY <1>0 DEF ResumeRecover, TypeOK, ReqStates
    <3> QED BY <2>3, <3>1, <1>1, <1>4
            DEF Resume, ResumeRead, ResumeCheck, ResumeRecover, ResumeStart
  <2>4. CASE \E q \in Pids : Fault(q)
    BY <2>4, <1>4 DEF Fault, Unwind, Escape, Crash, Restart
  <2> QED BY <2>1, <2>2, <2>3, <2>4 DEF Next
<1>6. q = worker'[t] /\ u = t
  BY <1>2, <1>5
<1> QED BY <1>5, <1>6 DEF Claim, Claimable

\* The live processes grow by a start only.
LEMMA AliveGrows ==
    ASSUME Next, NEW p, p \in alive', p \notin alive
    PROVE  \E q \in Pids : Restart(q)
<1>1. ASSUME UNCHANGED alive PROVE FALSE
  BY <1>1
<1>2. CASE \E q \in Pids, u \in Tasks : Work(q, u)
  BY <1>1, <1>2
     DEF Work, EnterRun, Enter, CheckEnding, CheckRunning, RecoverEnding, RecoverRunning,
         Claim, ClaimFails, EnterTry, BeginSlice, InSlice, StartOperation, FinishOperation,
         SaveRead, SaveWrite, AgentEnds, AgentReturns, AgentRaises, AfterSlice, FailRead,
         FailWrite, AnswerRead, AnswerWrite, CheckEnded, Complete, Requeue, Exhaust,
         FinishCancellation, Close
<1>3. CASE \E q \in Pids, u \in Tasks : Request(q, u)
  BY <1>1, <1>3 DEF Request, Create, Cancel, Delete, ResumeCli
<1>4. CASE \E s \in Servers : Resume(s)
  BY <1>1, <1>4 DEF Resume, ResumeRead, ResumeCheck, ResumeRecover, ResumeStart
<1>5. CASE \E q \in Pids : Fault(q)
  BY <1>1, <1>5 DEF Fault, Unwind, Escape, Crash
<1> QED BY <1>2, <1>3, <1>4, <1>5 DEF Next

\* A worker comes to own a task by claiming it.
LEMMA OwnershipBegins ==
    ASSUME IInv, Next, NEW p \in Pids, NEW t \in Tasks, ~Owns(p, t), Owns(p, t)'
    PROVE  Claim(p, t)
<1>0. TypeOK
  BY DEF IInv
<1>1. ASSUME UNCHANGED pc PROVE FALSE
  BY <1>1
<1>2. ASSUME NEW q \in Pids, NEW u \in Tasks, NEW l, Goto(q, u, l),
             l \notin Owning \/ pc[q][u] \in Owning
      PROVE  FALSE
  BY <1>0, <1>2, GotoMoves
<1>3. ASSUME NEW q \in Pids, NEW u \in Tasks, EnterRun(q, u) PROVE Claim(p, t)
  <2>1. CASE Claim(q, u)
    <3>1. q = p /\ u = t
      BY <1>0, <2>1, GotoMoves DEF Claim
    <3> QED BY <2>1, <3>1
  <2>2. CASE \E l \in Entering \cup {"closing"} : Goto(q, u, l)
    BY <1>2, <2>2
  <2> QED BY <1>3, <2>1, <2>2
          DEF EnterRun, Enter, CheckEnding, CheckRunning, RecoverEnding, RecoverRunning,
              ClaimFails
<1>4. ASSUME NEW q \in Pids, NEW u \in Tasks,
             \/ EnterTry(q, u) \/ BeginSlice(q, u) \/ InSlice(q, u) \/ AfterSlice(q, u)
             \/ FinishCancellation(q, u) \/ Close(q, u)
      PROVE  FALSE
  <2>1. UNCHANGED pc \/ \E l : Goto(q, u, l) /\ (l = "idle" \/ pc[q][u] \in Owning)
    BY <1>4
       DEF EnterTry, BeginSlice, InSlice, StartOperation, FinishOperation, SaveRead,
           SaveWrite, AgentEnds, AgentReturns, AgentRaises, AfterSlice, FailRead, FailWrite,
           AnswerRead, AnswerWrite, CheckEnded, Complete, Requeue, Exhaust,
           FinishCancellation, Close
  <2> QED BY <1>1, <1>2, <2>1
<1>5. ASSUME NEW q \in Pids, NEW u \in Tasks, Request(q, u) PROVE FALSE
  <2>1. CASE Create(q, u)
    <3>1. pc' = [pc EXCEPT ![q][u] = IF q \in Servers THEN "enter" ELSE "claim"]
      BY <2>1 DEF Create
    <3> QED BY <1>0, <3>1 DEF TypeOK
  <2>2. CASE ResumeCli(q, u)
    BY <1>0, <2>2 DEF ResumeCli, TypeOK
  <2> QED BY <1>1, <1>5, <2>1, <2>2 DEF Request, Cancel, Delete
<1>6. ASSUME NEW s \in Servers, Resume(s) PROVE FALSE
  <2>1. CASE ResumeStart(s)
    BY <1>0, <2>1 DEF ResumeStart, TypeOK
  <2> QED BY <1>1, <1>6, <2>1 DEF Resume, ResumeRead, ResumeCheck, ResumeRecover
<1>7. ASSUME NEW q \in Pids, Fault(q) PROVE FALSE
  <2>1. ASSUME NEW u \in Tasks, Unwind(q, u) \/ Escape(q, u) PROVE FALSE
    <3>1. \E l : Goto(q, u, l) /\ (l \notin Owning \/ pc[q][u] \in Owning)
      BY <2>1 DEF Unwind, Escape
    <3> QED BY <1>2, <3>1
  <2>2. CASE Crash(q)
    BY <1>0, <2>2 DEF Crash, TypeOK
  <2> QED BY <1>1, <1>7, <2>1, <2>2 DEF Fault, Restart
<1> QED BY <1>3, <1>4, <1>5, <1>6, <1>7 DEF Next, Work

\* What can happen to the row of a task that no worker works on.
LEMMA UnownedRow ==
    ASSUME IInv, Next, NEW t \in Tasks, \A p \in Pids : ~Owns(p, t)
    PROVE  \/ state'[t] = state[t] /\ worker'[t] = worker[t]
           \/ \E p \in Pids :
                  Claim(p, t) \/ Create(p, t) \/ Cancel(p, t) \/ Delete(p, t)
           \/ RecoverApplies(t) /\ Recover(t)
<1> DEFINE Kept == state'[t] = state[t] /\ worker'[t] = worker[t]
           Told == \E p \in Pids :
                      Claim(p, t) \/ Create(p, t) \/ Cancel(p, t) \/ Delete(p, t)
           Mended == RecoverApplies(t) /\ Recover(t)
<1> USE DEF row
<1>0. TypeOK
  BY DEF IInv
<1>1. ASSUME UNCHANGED <<state, worker>> PROVE Kept
  BY <1>1
<1>2. ASSUME NEW u \in Tasks, Recover(u) PROVE Kept \/ Mended
  <2>1. CASE u = t
    BY <1>2, <2>1 DEF Recover
  <2>2. CASE u # t
    BY <1>0, <1>2, <2>2 DEF Recover, TypeOK
  <2> QED BY <2>1, <2>2
<1>3. ASSUME NEW q \in Pids, NEW u \in Tasks, Owns(q, u), NEW new, SetState(u, new)
      PROVE  Kept
  <2>1. u # t
    BY <1>3
  <2> QED BY <1>0, <1>3, <2>1 DEF SetState, TypeOK
<1>4. ASSUME NEW q \in Pids, NEW u \in Tasks, EnterRun(q, u) PROVE Kept \/ Told \/ Mended
  <2>1. CASE Claim(q, u)
    <3>1. CASE u = t
      BY <2>1, <3>1
    <3>2. CASE u # t
      BY <1>0, <2>1, <3>2 DEF Claim, TypeOK
    <3> QED BY <3>1, <3>2
  <2> QED BY <1>1, <1>2, <1>4, <2>1
          DEF EnterRun, Enter, CheckEnding, CheckRunning, RecoverEnding, RecoverRunning,
              ClaimFails
<1>5. ASSUME NEW q \in Pids, NEW u \in Tasks, InSlice(q, u) PROVE Kept
  BY <1>1, <1>3, <1>5
     DEF InSlice, StartOperation, FinishOperation, SaveRead, SaveWrite, AgentEnds,
         AgentReturns, AgentRaises
<1>6. ASSUME NEW q \in Pids, NEW u \in Tasks, AfterSlice(q, u) PROVE Kept
  BY <1>1, <1>3, <1>6
     DEF AfterSlice, FailRead, FailWrite, AnswerRead, AnswerWrite, CheckEnded,
         Complete, Requeue, Exhaust
<1>7. ASSUME NEW q \in Pids, NEW u \in Tasks,
             \/ EnterTry(q, u) \/ BeginSlice(q, u) \/ FinishCancellation(q, u)
             \/ Close(q, u)
      PROVE  Kept
  <2>1. CASE FinishCancellation(q, u)
    <3>1. u # t
      BY <2>1 DEF FinishCancellation
    <3> QED BY <1>0, <2>1, <3>1 DEF FinishCancellation, TypeOK
  <2> QED BY <1>1, <1>7, <2>1 DEF EnterTry, BeginSlice, Close
<1>8. ASSUME NEW q \in Pids, NEW u \in Tasks, Request(q, u) PROVE Kept \/ Told
  <2>1. CASE u = t
    BY <1>1, <1>8, <2>1 DEF Request, ResumeCli
  <2>2. CASE u # t
    BY <1>0, <1>8, <2>2 DEF Request, Create, Cancel, Delete, ResumeCli, TypeOK
  <2> QED BY <2>1, <2>2
<1>9. ASSUME NEW s \in Servers, Resume(s) PROVE Kept \/ Mended
  <2>1. ResumeRecover(s) => req[s].task \in Tasks
    BY <1>0 DEF ResumeRecover, TypeOK, ReqStates
  <2> QED BY <1>1, <1>2, <1>9, <2>1
          DEF Resume, ResumeRead, ResumeCheck, ResumeRecover, ResumeStart
<1>10. ASSUME NEW q \in Pids, Fault(q) PROVE Kept
  BY <1>1, <1>10 DEF Fault, Unwind, Escape, Crash, Restart
<1> QED BY <1>4, <1>5, <1>6, <1>7, <1>8, <1>9, <1>10 DEF Next, Work

\* A claim without a worker has one of two origins: a process that starts under
\* the recorded process id (the promise RestartSafe states fails by it), and an
\* exception of a live one, in the two reads between its claim and the try block
\* or in the transaction of finish_cancellation.
THEOREM ClaimsAreServed ==
    Spec => [][\A t \in Tasks : ~Unserved(t) /\ Unserved(t)' =>
                   \E p \in Pids :
                      \/ Restart(p)
                      \/ pc[p][t] \in {"claimed", "leave"} /\ Escape(p, t)]_vars
<1>1. ASSUME IInv, IInv', Next, NEW t \in Tasks, ~Unserved(t), Unserved(t)'
      PROVE  \E p \in Pids :
                \/ Restart(p)
                \/ pc[p][t] \in {"claimed", "leave"} /\ Escape(p, t)
  <2>0. PICK p \in Pids : p = worker'[t] /\ p \in alive' /\ ~Owns(p, t)'
    <3>1. worker'[t] \in alive' /\ alive' \subseteq Pids /\ pc'[worker'[t]][t] \notin Owning
      BY <1>1 DEF Unserved, IInv, TypeOK
    <3> QED BY <3>1
  <2>1. p # NoPid
    BY <2>0
  <2>2. worker[t] = p
    <3>1. ASSUME worker[t] # p PROVE FALSE
      <4>1. Claim(p, t)
        BY <1>1, <2>0, <2>1, <3>1, ClaimsAreMade
      <4>2. TypeOK /\ Goto(p, t, "claimed")
        BY <1>1, <4>1 DEF Claim, IInv
      <4>3. pc'[p][t] = "claimed"
        BY <4>2, GotoMoves
      <4> QED BY <2>0, <4>3
    <3> QED BY <3>1
  <2>3. CASE p \notin alive
    <3>1. \E q \in Pids : Restart(q)
      BY <1>1, <2>0, <2>3, AliveGrows
    <3> QED BY <3>1
  <2>4. CASE p \in alive
    <3>1. Owns(p, t)
      BY <1>1, <2>2, <2>4 DEF Unserved
    <3>2. FinishCancellation(p, t) \/ Escape(p, t) \/ Crash(p)
      BY <1>1, <2>0, <3>1, OwnershipEnds
    <3>3. ~Crash(p)
      BY <2>0 DEF Crash
    <3>4. ~FinishCancellation(p, t)
      BY <1>1, <2>0, <2>1 DEF FinishCancellation, IInv, TypeOK
    <3>5. Escape(p, t) => pc[p][t] \in {"claimed", "leave"}
      BY <3>1 DEF Escape
    <3> QED BY <2>0, <3>2, <3>3, <3>4, <3>5
  <2> QED BY <2>3, <2>4
<1>2. IInv /\ IInv' /\ [Next]_vars =>
        [\A t \in Tasks : ~Unserved(t) /\ Unserved(t)' =>
             \E p \in Pids :
                \/ Restart(p)
                \/ pc[p][t] \in {"claimed", "leave"} /\ Escape(p, t)]_vars
  BY <1>1
<1> QED BY <1>2, Invariance, PTL DEF Spec

\* What InterruptedIsResumable promises holds of every task that is not stranded: one
\* that a dead worker left unfinished can be claimed, or recovered and then claimed.
THEOREM ResumableUnlessStranded ==
    Spec => [](\A t \in Tasks :
                  Stranded(t) \/ (state[t] \in Live /\ WorkerDead(t)
                                    => worker[t] = NoPid \/ RecoverApplies(t)))
<1>1. ASSUME IInv, NEW t \in Tasks, state[t] \in Live, WorkerDead(t), worker[t] # NoPid,
             ~RecoverApplies(t)
      PROVE  Stranded(t)
  <2>1. state[t] = "paused"
    BY <1>1 DEF RecoverApplies
  <2>2. \A p \in Pids : ~Owns(p, t)
    BY <1>1 DEF WorkerDead, IInv, OwnerHolds
  <2> QED BY <1>1, <2>1, <2>2 DEF Stranded
<1>2. IInv => \A t \in Tasks :
                  Stranded(t) \/ (state[t] \in Live /\ WorkerDead(t)
                                    => worker[t] = NoPid \/ RecoverApplies(t))
  BY <1>1
<1> QED BY <1>2, Invariance, PTL

\* A task becomes stranded in one window: its worker has written "paused" and the
\* transaction that gives the claim back does not happen, because the process dies
\* before it or because it fails.
THEOREM StrandedAtLeave ==
    Spec => [][\A t \in Tasks : ~Stranded(t) /\ Stranded(t)' =>
                   \E p \in Pids : pc[p][t] = "leave" /\ (Crash(p) \/ Escape(p, t))]_vars
<1>1. ASSUME IInv, IInv', Next, NEW t \in Tasks, ~Stranded(t), Stranded(t)'
      PROVE  \E p \in Pids : pc[p][t] = "leave" /\ (Crash(p) \/ Escape(p, t))
  <2>0. PICK p \in Pids : /\ p = worker'[t] /\ p # NoPid
                         /\ ~Owns(p, t)' /\ state'[t] = "paused"
    <3>1. worker'[t] \in Pids /\ state'[t] = "paused" /\ \A p \in Pids : pc'[p][t] \notin Owning
      BY <1>1 DEF Stranded, IInv, TypeOK
    <3> QED BY <3>1
  <2>2. worker[t] = p
    <3>1. ASSUME worker[t] # p PROVE FALSE
      <4>1. Claim(p, t)
        BY <1>1, <2>0, <3>1, ClaimsAreMade
      <4>2. TypeOK /\ Goto(p, t, "claimed")
        BY <1>1, <4>1 DEF Claim, IInv
      <4>3. pc'[p][t] = "claimed"
        BY <4>2, GotoMoves
      <4> QED BY <2>0, <4>3
    <3> QED BY <3>1
  <2>3. CASE Owns(p, t)
    <3>1. FinishCancellation(p, t) \/ Escape(p, t) \/ Crash(p)
      BY <1>1, <2>0, <2>3, OwnershipEnds
    <3>2. ~FinishCancellation(p, t)
      BY <1>1, <2>0 DEF FinishCancellation, IInv, TypeOK
    <3>3. state[t] = "paused" => pc[p][t] = "leave"
      BY <1>1, <2>0, <2>3 DEF IInv, WorkingRow
    <3>4. CASE Escape(p, t)
      BY <2>0, <3>3, <3>4 DEF Escape, row
    <3>5. CASE Crash(p)
      BY <2>0, <3>3, <3>5 DEF Crash, row
    <3> QED BY <3>1, <3>2, <3>4, <3>5
  <2>4. CASE ~Owns(p, t)
    <3>1. \A q \in Pids : ~Owns(q, t)
      BY <1>1, <2>2, <2>4 DEF IInv, OwnerHolds
    <3>2. state[t] # "paused"
      BY <1>1, <2>0, <2>2, <3>1 DEF Stranded
    <3>3. /\ ~(state'[t] = state[t] /\ worker'[t] = worker[t])
          /\ ~\E q \in Pids : Claim(q, t) \/ Create(q, t) \/ Cancel(q, t) \/ Delete(q, t)
      BY <1>1, <2>0, <3>2 DEF Claim, Create, Cancel, Delete, IInv, TypeOK
    <3>4. RecoverApplies(t) /\ Recover(t)
      BY <1>1, <3>1, <3>3, UnownedRow
    <3>5. worker'[t] = NoPid
      BY <1>1, <3>4 DEF Recover, IInv, TypeOK
    <3> QED BY <2>0, <3>5
  <2> QED BY <2>3, <2>4
<1>2. IInv /\ IInv' /\ [Next]_vars =>
        [\A t \in Tasks : ~Stranded(t) /\ Stranded(t)' =>
             \E p \in Pids : pc[p][t] = "leave" /\ (Crash(p) \/ Escape(p, t))]_vars
  BY <1>1 DEF vars, Stranded, Owns
<1> QED BY <1>2, Invariance, PTL DEF Spec

\* A stranded task can be neither claimed, recovered nor deleted: all that its
\* user can still do is end it.
THEOREM StrandedUntilEnded ==
    Spec => [][\A t \in Tasks : Stranded(t) => Stranded(t)' \/ state'[t] = "cancelling"]_vars
<1>1. ASSUME IInv, IInv', Next, NEW t \in Tasks, Stranded(t), state'[t] # "cancelling"
      PROVE  Stranded(t)'
  <2>1. state[t] = "paused" /\ worker[t] # NoPid /\ \A p \in Pids : ~Owns(p, t)
    BY <1>1 DEF Stranded
  <2>2. ~RecoverApplies(t)
    BY <2>1 DEF RecoverApplies
  <2>3. ~\E q \in Pids : Claim(q, t) \/ Create(q, t) \/ Cancel(q, t) \/ Delete(q, t)
    BY <1>1, <2>1 DEF Claim, Claimable, Create, Cancel, Delete, Deletable, IInv, TypeOK
  <2>4. state'[t] = state[t] /\ worker'[t] = worker[t]
    BY <1>1, <2>1, <2>2, <2>3, UnownedRow
  <2>5. \A p \in Pids : ~Owns(p, t)'
    BY <1>1, <2>1, <2>3, OwnershipBegins
  <2> QED BY <2>1, <2>4, <2>5 DEF Stranded
<1>2. IInv /\ IInv' /\ [Next]_vars =>
        [\A t \in Tasks : Stranded(t) => Stranded(t)' \/ state'[t] = "cancelling"]_vars
  BY <1>1
<1> QED BY <1>2, Invariance, PTL DEF Spec

-----------------------------------------------------------------------------
(* How much a worker has left to do.                                       *)

\* No worker and no resume request is about a task that was never created.
Unborn(t) ==
    state[t] = "absent" =>
        /\ \A p \in Pids : pc[p][t] = "idle"
        /\ \A s \in Servers : req[s] # NoReq => req[s].task # t

\* No step undoes the creation of a task.
LEMMA BirthIsFinal ==
    ASSUME IInv, [Next]_vars, NEW t \in Tasks, state'[t] = "absent"
    PROVE  state[t] = "absent"
<1>0. TypeOK
  BY DEF IInv
<1>1. ASSUME NEW u \in Tasks, Recover(u) PROVE state[t] = "absent"
  BY <1>0, <1>1 DEF Recover, RecoverApplies, Recovered, TypeOK
<1>2. ASSUME NEW u \in Tasks, NEW s \in RowStates, SetState(u, s) PROVE state[t] = "absent"
  BY <1>0, <1>2 DEF SetState, Written, TypeOK
<1>3. ASSUME NEW q \in Pids, NEW u \in Tasks, Work(q, u) PROVE state[t] = "absent"
  <2>1. CASE EnterRun(q, u)
    BY <1>0, <1>1, <2>1
       DEF EnterRun, Enter, CheckEnding, CheckRunning, RecoverEnding, RecoverRunning,
           Claim, ClaimFails, row, TypeOK
  <2>2. CASE InSlice(q, u)
    <3>1. state' = state \/ \E s \in RowStates : SetState(u, s)
      <4>1. snap[q][u] \in RowStates
        BY <1>0 DEF TypeOK
      <4> QED BY <2>2, <4>1
              DEF InSlice, StartOperation, FinishOperation, SaveRead, SaveWrite, AgentEnds,
                  AgentReturns, AgentRaises, row
    <3> QED BY <1>2, <3>1
  <2>3. CASE AfterSlice(q, u)
    <3>1. state' = state \/ \E s \in RowStates : SetState(u, s)
      <4>1. snap[q][u] \in RowStates
        BY <1>0 DEF TypeOK
      <4> QED BY <2>3, <4>1
              DEF AfterSlice, FailRead, FailWrite, AnswerRead, AnswerWrite, CheckEnded,
                  Complete, Requeue, Exhaust, row
    <3> QED BY <1>2, <3>1
  <2>4. CASE EnterTry(q, u) \/ BeginSlice(q, u) \/ FinishCancellation(q, u) \/ Close(q, u)
    BY <1>0, <2>4 DEF EnterTry, BeginSlice, FinishCancellation, Close, row, TypeOK
  <2> QED BY <1>3, <2>1, <2>2, <2>3, <2>4 DEF Work
<1>4. ASSUME NEW q \in Pids, NEW u \in Tasks, Request(q, u) PROVE state[t] = "absent"
  BY <1>0, <1>4 DEF Request, Create, Cancel, Delete, ResumeCli, row, TypeOK
<1>5. ASSUME NEW s \in Servers, Resume(s) PROVE state[t] = "absent"
  <2>1. CASE ResumeRecover(s)
    <3>1. req[s].task \in Tasks
      BY <1>0, <2>1 DEF ResumeRecover, TypeOK, ReqStates
    <3> QED BY <2>1, <3>1, <1>1 DEF ResumeRecover
  <2> QED BY <1>5, <2>1 DEF Resume, ResumeRead, ResumeCheck, ResumeStart, row
<1>6. ASSUME NEW q \in Pids, Fault(q) PROVE state[t] = "absent"
  BY <1>6 DEF Fault, Unwind, Escape, Crash, Restart, row
<1> QED BY <1>3, <1>4, <1>5, <1>6 DEF Next, vars

\* A worker's step is a step of a worker that has not finished, and moves it alone.
LEMMA WorkersAreBusy ==
    ASSUME TypeOK, NEW q \in Pids, NEW u \in Tasks, Work(q, u)
    PROVE  /\ pc[q][u] # "idle"
           /\ UNCHANGED req
           /\ \A p \in Pids, t \in Tasks :
                 p # q \/ t # u => pc'[p][t] = pc[p][t] /\ left'[p][t] = left[p][t]
<1>1. pc[q][u] # "idle" /\ (UNCHANGED pc \/ \E l : Goto(q, u, l))
  <2>1. CASE EnterRun(q, u)
    BY <2>1 DEF EnterRun, Enter, CheckEnding, CheckRunning, RecoverEnding, RecoverRunning,
                Claim, ClaimFails
  <2>2. CASE InSlice(q, u)
    BY <2>2 DEF InSlice, StartOperation, FinishOperation, SaveRead, SaveWrite, AgentEnds,
                AgentReturns, AgentRaises
  <2>3. CASE AfterSlice(q, u)
    BY <2>3 DEF AfterSlice, FailRead, FailWrite, AnswerRead, AnswerWrite, CheckEnded,
                Complete, Requeue, Exhaust
  <2>4. CASE EnterTry(q, u) \/ BeginSlice(q, u) \/ FinishCancellation(q, u) \/ Close(q, u)
    BY <2>4 DEF EnterTry, BeginSlice, FinishCancellation, Close
  <2> QED BY <2>1, <2>2, <2>3, <2>4 DEF Work
<1>2. UNCHANGED left \/ \E n : left' = [left EXCEPT ![q][u] = n]
  <2>1. ASSUME BeginSlice(q, u) PROVE \E n : left' = [left EXCEPT ![q][u] = n]
    <3>1. left' = [left EXCEPT ![q][u] = IF state[u] \in Ending THEN left[q][u]
                                         ELSE left[q][u] - 1]
      BY <2>1 DEF BeginSlice, TypeOK
    <3> QED BY <3>1
  <2> QED BY <2>1
          DEF Work, EnterRun, Enter, CheckEnding, CheckRunning, RecoverEnding,
              RecoverRunning, Claim, ClaimFails, EnterTry, InSlice, StartOperation,
              FinishOperation, SaveRead, SaveWrite, AgentEnds, AgentReturns, AgentRaises,
              AfterSlice, FailRead, FailWrite, AnswerRead, AnswerWrite, CheckEnded,
              Complete, Requeue, Exhaust, FinishCancellation, Close, locals
<1>3. UNCHANGED req
  BY DEF Work, EnterRun, Enter, CheckEnding, CheckRunning, RecoverEnding,
         RecoverRunning, Claim, ClaimFails, EnterTry, BeginSlice, InSlice, StartOperation,
         FinishOperation, SaveRead, SaveWrite, AgentEnds, AgentReturns, AgentRaises,
         AfterSlice, FailRead, FailWrite, AnswerRead, AnswerWrite, CheckEnded,
         Complete, Requeue, Exhaust, FinishCancellation, Close
<1>4. \A p \in Pids, t \in Tasks : p # q \/ t # u => pc'[p][t] = pc[p][t]
  BY <1>1, GotoMoves
<1>5. \A p \in Pids, t \in Tasks : p # q \/ t # u => left'[p][t] = left[p][t]
  BY <1>2 DEF TypeOK
<1> QED BY <1>1, <1>3, <1>4, <1>5

\* The steps keep Unborn.
LEMMA UnbornKept ==
    ASSUME IInv, [Next]_vars, NEW t \in Tasks, Unborn(t)
    PROVE  Unborn(t)'
<1>0. TypeOK
  BY DEF IInv
<1> SUFFICES ASSUME state'[t] = "absent"
             PROVE  /\ \A p \in Pids : pc'[p][t] = "idle"
                    /\ \A s \in Servers : req'[s] # NoReq => req'[s].task # t
  BY DEF Unborn
<1>1. /\ state[t] = "absent"
      /\ \A p \in Pids : pc[p][t] = "idle"
      /\ \A s \in Servers : req[s] # NoReq => req[s].task # t
  BY BirthIsFinal DEF Unborn
<1> DEFINE Still == /\ \A p \in Pids : pc'[p][t] = "idle"
                    /\ \A s \in Servers : req'[s] # NoReq => req'[s].task # t
<1>2. ASSUME NEW q \in Pids, NEW u \in Tasks, Work(q, u) PROVE Still
  BY <1>0, <1>1, <1>2, WorkersAreBusy
<1>3. ASSUME NEW q \in Pids, NEW u \in Tasks, Request(q, u) PROVE Still
  <2>1. UNCHANGED req
    BY <1>3 DEF Request, Create, Cancel, Delete, ResumeCli
  <2>2. \A p \in Pids : pc'[p][t] = "idle"
    <3>1. CASE Create(q, u)
      <4>1. u # t /\ \E l : Goto(q, u, l)
        BY <1>0, <3>1 DEF Create, Goto, TypeOK
      <4> QED BY <1>0, <1>1, <4>1, GotoMoves
    <3>2. CASE ResumeCli(q, u)
      <4>1. u # t /\ Goto(q, u, "enter")
        BY <1>1, <3>2 DEF ResumeCli, Goto
      <4> QED BY <1>0, <1>1, <4>1, GotoMoves
    <3> QED BY <1>1, <1>3, <3>1, <3>2 DEF Request, Cancel, Delete
  <2> QED BY <1>1, <2>1, <2>2
<1>4. ASSUME NEW s \in Servers, Resume(s) PROVE Still
  <2>1. \A p \in Pids : pc'[p][t] = "idle"
    <3>1. CASE ResumeStart(s)
      <4>1. req[s] # NoReq /\ req[s].task \in Tasks
        BY <1>0, <3>1 DEF ResumeStart, TypeOK, ReqStates
      <4>2. UNCHANGED pc \/ Goto(s, req[s].task, "enter")
        BY <3>1 DEF ResumeStart, Goto
      <4> QED BY <1>0, <1>1, <4>1, <4>2, GotoMoves
    <3> QED BY <1>1, <1>4, <3>1 DEF Resume, ResumeRead, ResumeCheck, ResumeRecover
  <2>2. \A z \in Servers : req'[z] # NoReq => req'[z].task # t
    <3>1. ASSUME NEW u \in Tasks, ResumeRead(s, u)
          PROVE  \A z \in Servers : req'[z] # NoReq => req'[z].task # t
      BY <1>0, <1>1, <3>1 DEF ResumeRead, TypeOK
    <3>2. CASE ResumeCheck(s) \/ ResumeRecover(s) \/ ResumeStart(s)
      <4>1. /\ req[s] # NoReq
            /\ req'[s] = NoReq \/ req'[s].task = req[s].task
            /\ \A z \in Servers : z # s => req'[z] = req[z]
        BY <1>0, <3>2 DEF ResumeCheck, ResumeRecover, ResumeStart, TypeOK
      <4> QED BY <1>1, <4>1
    <3> QED BY <1>4, <3>1, <3>2 DEF Resume
  <2> QED BY <2>1, <2>2
<1>5. ASSUME NEW q \in Pids, Fault(q) PROVE Still
  <2>1. ASSUME NEW u \in Tasks, Unwind(q, u) \/ Escape(q, u) PROVE Still
    <3>1. u # t /\ Goto(q, u, pc'[q][u]) /\ UNCHANGED req
      BY <1>0, <1>1, <2>1 DEF Unwind, Escape, Goto, TypeOK
    <3> QED BY <1>0, <1>1, <3>1, GotoMoves
  <2>2. CASE Crash(q)
    BY <1>0, <1>1, <2>2 DEF Crash, TypeOK
  <2>3. CASE Restart(q)
    BY <1>1, <2>3 DEF Restart
  <2> QED BY <1>5, <2>1, <2>2, <2>3 DEF Fault
<1>6. CASE UNCHANGED vars
  BY <1>1, <1>6 DEF vars
<1> QED BY <1>2, <1>3, <1>4, <1>5, <1>6 DEF Next

\* The steps from a label to the end of the slice, or of the thread; the three
\* labels of the agent's call are one.
Rank(label) ==
    CASE label = "idle" -> 0
      [] label \in {"closing", "leaked"} -> 1
      [] label = "leave" -> 2
      [] label \in {"exhausted", "failSave"} -> 3
      [] label \in {"top", "failed"} -> 4
      [] label \in {"claimed", "judge"} -> 5
      [] label \in {"claim", "endingRecover", "saved"} -> 6
      [] label \in {"endingCheck", "runningRecover", "answerSave"} -> 7
      [] label \in {"runningCheck", "answered"} -> 8
      [] OTHER -> 9

\* A worker that has not reached its slice loop has all the slices before it.
SlicesAhead(p, t) ==
    IF pc[p][t] \in Entering \cup {"claimed"} THEN MaxSlices ELSE left[p][t]

\* What the worker of p for t may still do: ten for each slice it may begin, and
\* the steps to the end of this one.
Ahead(p, t) == 10 * SlicesAhead(p, t) + Rank(pc[p][t])

\* The step brings the worker nearer to its end.
Nearer(p, t) == Ahead(p, t)' \in Nat /\ Ahead(p, t)' < Ahead(p, t)

\* The step leaves the worker where it is, or moves it within its agent call.
Stays(p, t) ==
    /\ pc'[p][t] = pc[p][t] \/ {pc[p][t], pc'[p][t]} \subseteq InAgent
    /\ Ahead(p, t)' = Ahead(p, t)

\* A worker that keeps its label and its count keeps its distance.
LEMMA StandsStill ==
    ASSUME NEW p \in Pids, NEW t \in Tasks,
           pc'[p][t] = pc[p][t], left'[p][t] = left[p][t]
    PROVE  Stays(p, t)
BY DEF Stays, Ahead, SlicesAhead

\* run_task up to the claim, and the way into its try block.
LEMMA EnterRunIsNearer ==
    ASSUME TypeOK, TypeOK', NEW q \in Pids, NEW u \in Tasks, EnterRun(q, u) \/ EnterTry(q, u)
    PROVE  Nearer(q, u)
<1>1. /\ Ahead(q, u) = 10 * MaxSlices + Rank(pc[q][u])
      /\ pc[q][u] \in Entering \cup {"claimed"}
  BY DEF EnterRun, EnterTry, Enter, CheckEnding, CheckRunning, RecoverEnding,
         RecoverRunning, Claim, ClaimFails, Ahead, SlicesAhead
<1>2. Rank(pc'[q][u]) < Rank(pc[q][u])
  <2>1. CASE EnterRun(q, u)
    <3>1. \/ /\ pc[q][u] = "enter"
             /\ \E l \in {"closing", "endingCheck", "runningCheck", "claim"} : Goto(q, u, l)
          \/ /\ pc[q][u] = "endingCheck"
             /\ \E l \in {"closing", "endingRecover"} : Goto(q, u, l)
          \/ /\ pc[q][u] = "runningCheck"
             /\ \E l \in {"closing", "runningRecover"} : Goto(q, u, l)
          \/ pc[q][u] = "endingRecover" /\ Goto(q, u, "closing")
          \/ pc[q][u] = "runningRecover" /\ Goto(q, u, "claim")
          \/ pc[q][u] = "claim" /\ \E l \in {"claimed", "closing"} : Goto(q, u, l)
      BY <2>1 DEF EnterRun, Enter, CheckEnding, CheckRunning, RecoverEnding,
                  RecoverRunning, Claim, ClaimFails
    <3> QED BY <3>1, GotoMoves DEF Rank
  <2>2. CASE EnterTry(q, u)
    BY <2>2, GotoMoves DEF EnterTry, Rank
  <2> QED BY <2>1, <2>2
<1>3. SlicesAhead(q, u)' \in 0..MaxSlices
  BY MaxSlicesAssumption DEF SlicesAhead, TypeOK
<1>4. Rank(pc[q][u]) \in Nat /\ Rank(pc'[q][u]) \in Nat
  BY DEF Rank
<1> QED BY <1>1, <1>2, <1>3, <1>4, MaxSlicesAssumption DEF Nearer, Ahead

\* A step down the slice keeps the count of slices.
LEMMA DownIsNearer ==
    ASSUME TypeOK, TypeOK', NEW q \in Pids, NEW u \in Tasks, NEW l \in Guarded \cup {"closing", "leaked"},
           Goto(q, u, l), left' = left, pc[q][u] \in Guarded, Rank(l) < Rank(pc[q][u])
    PROVE  Nearer(q, u)
<1>1. pc'[q][u] = l
  BY GotoMoves
<1>2. SlicesAhead(q, u) = left[q][u] /\ SlicesAhead(q, u)' = left[q][u]
  BY <1>1 DEF SlicesAhead
<1>3. left[q][u] \in Nat /\ Rank(l) \in Nat /\ Rank(pc[q][u]) \in Nat
  BY DEF TypeOK, Rank
<1> QED BY <1>1, <1>2, <1>3 DEF Nearer, Ahead

\* A slice pays for itself: it begins with one less ahead.
LEMMA BeginSliceIsNearer ==
    ASSUME IInv, IInv', NEW q \in Pids, NEW u \in Tasks, BeginSlice(q, u)
    PROVE  Nearer(q, u)
<1>0. TypeOK /\ TypeOK'
  BY DEF IInv
<1>1. CASE state[u] \in Ending
  BY <1>0, <1>1, DownIsNearer DEF BeginSlice, Rank, TypeOK
<1>2. CASE state[u] \notin Ending
  <2>1. pc[q][u] = "top" /\ left[q][u] \in Nat /\ left[q][u] > 0
    BY <1>0 DEF BeginSlice, IInv, SlicesLeft, TypeOK
  <2>2. pc'[q][u] = "agent" /\ left'[q][u] = left[q][u] - 1
    BY <1>0, <1>2, GotoMoves DEF BeginSlice, TypeOK
  <2>3. Ahead(q, u) = 10 * left[q][u] + 4 /\ Ahead(q, u)' = 10 * (left[q][u] - 1) + 9
    BY <2>1, <2>2 DEF Ahead, SlicesAhead, Rank
  <2> QED BY <2>1, <2>3 DEF Nearer
<1> QED BY <1>1, <1>2

\* Inside the agent's call the distance stands still; its end is nearer.
LEMMA InSliceIsNearer ==
    ASSUME TypeOK, TypeOK', NEW q \in Pids, NEW u \in Tasks, InSlice(q, u)
    PROVE  Nearer(q, u) \/ Stays(q, u)
<1>1. left' = left /\ pc[q][u] \in InAgent
  BY DEF InSlice, StartOperation, FinishOperation, SaveRead, SaveWrite, AgentEnds,
         AgentReturns, AgentRaises, locals
<1>2. UNCHANGED pc \/ \E l \in InAgent \cup {"answered", "failed"} : Goto(q, u, l)
  BY DEF InSlice, StartOperation, FinishOperation, SaveRead, SaveWrite, AgentEnds,
         AgentReturns, AgentRaises
<1>3. CASE UNCHANGED pc
  BY <1>1, <1>3, StandsStill
<1>4. ASSUME NEW l \in InAgent, Goto(q, u, l) PROVE Stays(q, u)
  <2>1. pc'[q][u] = l
    BY <1>4, GotoMoves
  <2>2. Rank(l) = 9 /\ Rank(pc[q][u]) = 9
    BY <1>1 DEF Rank
  <2> QED BY <1>1, <2>1, <2>2 DEF Stays, Ahead, SlicesAhead
<1>5. ASSUME NEW l \in {"answered", "failed"}, Goto(q, u, l) PROVE Nearer(q, u)
  BY <1>1, <1>5, DownIsNearer DEF Rank
<1> QED BY <1>2, <1>3, <1>4, <1>5

\* What follows the agent's call, and the release.
LEMMA AfterSliceIsNearer ==
    ASSUME TypeOK, TypeOK', NEW q \in Pids, NEW u \in Tasks,
           AfterSlice(q, u) \/ FinishCancellation(q, u)
    PROVE  Nearer(q, u)
<1>1. left' = left
  BY DEF AfterSlice, FailRead, FailWrite, AnswerRead, AnswerWrite, CheckEnded, Complete,
         Requeue, Exhaust, FinishCancellation, locals
<1>2. \/ pc[q][u] = "failed" /\ Goto(q, u, "failSave")
      \/ pc[q][u] = "failSave" /\ Goto(q, u, "leave")
      \/ pc[q][u] = "answered" /\ Goto(q, u, "answerSave")
      \/ pc[q][u] = "answerSave" /\ Goto(q, u, "saved")
      \/ pc[q][u] = "saved" /\ \E l \in {"leave", "judge"} : Goto(q, u, l)
      \/ pc[q][u] = "judge" /\ \E l \in {"leave", "exhausted", "top"} : Goto(q, u, l)
      \/ pc[q][u] = "exhausted" /\ Goto(q, u, "leave")
      \/ pc[q][u] = "leave" /\ Goto(q, u, "closing")
  BY DEF AfterSlice, FailRead, FailWrite, AnswerRead, AnswerWrite, CheckEnded, Complete,
         Requeue, Exhaust, FinishCancellation
<1>3. pc[q][u] \in Guarded
      /\ \E l \in Guarded \cup {"closing"} : Goto(q, u, l) /\ Rank(l) < Rank(pc[q][u])
  BY <1>2 DEF Rank
<1> QED BY <1>1, <1>3, DownIsNearer

\* The last step of a thread.
LEMMA CloseIsNearer ==
    ASSUME TypeOK, TypeOK', NEW q \in Pids, NEW u \in Tasks, Close(q, u)
    PROVE  Nearer(q, u)
<1>1. pc[q][u] \in {"closing", "leaked"} /\ pc'[q][u] = "idle" /\ left'[q][u] = 0 /\ left[q][u] \in Nat
  BY GotoMoves DEF Close, TypeOK
<1> QED BY <1>1 DEF Nearer, Ahead, SlicesAhead, Rank

\* An exception takes a worker to its finally or out of run_task, and a death ends it.
LEMMA FaultIsNearer ==
    ASSUME TypeOK, TypeOK', NEW q \in Pids, Fault(q),
           NEW p \in Pids, NEW t \in Tasks, pc[p][t] # "idle"
    PROVE  Nearer(p, t) \/ Stays(p, t)
<1>1. ASSUME NEW u \in Tasks, Unwind(q, u) PROVE Nearer(p, t) \/ Stays(p, t)
  <2>1. left' = left /\ Goto(q, u, "leave")
    BY <1>1 DEF Unwind
  <2>2. CASE p = q /\ t = u
    <3>1. pc[q][u] \in Guarded /\ Rank("leave") < Rank(pc[q][u])
      BY <1>1 DEF Unwind, Rank
    <3> QED BY <2>1, <2>2, <3>1, DownIsNearer
  <2>3. CASE ~(p = q /\ t = u)
    BY <2>1, <2>3, GotoMoves, StandsStill
  <2> QED BY <2>2, <2>3
<1>2. ASSUME NEW u \in Tasks, Escape(q, u) PROVE Nearer(p, t) \/ Stays(p, t)
  <2>1. PICK l \in {"closing", "leaked"} : left' = left /\ Goto(q, u, l)
    BY <1>2 DEF Escape, locals
  <2>2. CASE p = q /\ t = u
    <3>1. pc[q][u] \in Entering \cup {"claimed", "leave"}
      BY <1>2 DEF Escape
    <3>2. pc'[p][t] = l /\ left[p][t] \in 0..MaxSlices /\ left'[p][t] = left[p][t]
      BY <2>1, <2>2, GotoMoves DEF TypeOK
    <3> QED BY <2>1, <2>2, <3>1, <3>2, MaxSlicesAssumption DEF Nearer, Ahead, SlicesAhead, Rank
  <2>3. CASE ~(p = q /\ t = u)
    BY <2>1, <2>3, GotoMoves, StandsStill
  <2> QED BY <2>2, <2>3
<1>3. CASE Crash(q)
  <2>1. CASE p = q
    <3>1. pc'[p][t] = "idle" /\ left'[p][t] = 0
      BY <1>3, <2>1 DEF Crash, TypeOK
    <3>2. Ahead(p, t)' = 0
      BY <3>1 DEF Ahead, SlicesAhead, Rank
    <3>3. Rank(pc[p][t]) \in Nat /\ Rank(pc[p][t]) > 0 /\ SlicesAhead(p, t) \in Nat
      BY MaxSlicesAssumption DEF Rank, SlicesAhead, TypeOK
    <3>4. Ahead(p, t) \in Nat /\ Ahead(p, t) > 0
      BY <3>3 DEF Ahead
    <3> QED BY <3>2, <3>4 DEF Nearer
  <2>2. CASE p # q
    BY <1>3, <2>2, StandsStill DEF Crash, TypeOK
  <2> QED BY <2>1, <2>2
<1>4. CASE Restart(q)
  BY <1>4, StandsStill DEF Restart, locals
<1> QED BY <1>1, <1>2, <1>3, <1>4 DEF Fault

\* A request touches no worker that is at work.
LEMMA RequestsSpareWorkers ==
    ASSUME IInv, NEW p \in Pids, NEW t \in Tasks, pc[p][t] # "idle", Unborn(t),
           \/ \E q \in Pids, u \in Tasks : Request(q, u)
           \/ \E s \in Servers : Resume(s)
    PROVE  Stays(p, t)
<1>0. TypeOK
  BY DEF IInv
<1>1. left' = left
  BY DEF Request, Create, Cancel, Delete, ResumeCli, Resume, ResumeRead, ResumeCheck,
         ResumeRecover, ResumeStart, locals
<1>2. ASSUME NEW q \in Pids, NEW u \in Tasks, Request(q, u) PROVE pc'[p][t] = pc[p][t]
  <2>1. CASE Create(q, u)
    <3>1. u # t /\ \E l : Goto(q, u, l)
      BY <2>1 DEF Create, Unborn, Goto
    <3> QED BY <1>0, <3>1, GotoMoves
  <2>2. CASE ResumeCli(q, u)
    <3>1. ~(p = q /\ t = u) /\ Goto(q, u, "enter")
      BY <2>2 DEF ResumeCli, Free, Goto
    <3> QED BY <1>0, <3>1, GotoMoves
  <2> QED BY <1>2, <2>1, <2>2 DEF Request, Cancel, Delete
<1>3. ASSUME NEW s \in Servers, Resume(s) PROVE pc'[p][t] = pc[p][t]
  <2>1. CASE ResumeStart(s)
    <3>1. req[s].task \in Tasks
      BY <1>0, <2>1 DEF ResumeStart, TypeOK, ReqStates
    <3>2. UNCHANGED pc \/ (Goto(s, req[s].task, "enter") /\ pc[s][req[s].task] = "idle")
      BY <2>1 DEF ResumeStart, Goto
    <3> QED BY <1>0, <3>1, <3>2, GotoMoves
  <2> QED BY <1>3, <2>1 DEF Resume, ResumeRead, ResumeCheck, ResumeRecover
<1> QED BY <1>1, <1>2, <1>3, StandsStill

\* Whatever its process, the others and its user do, a worker that has begun comes
\* nearer to its end with every step it takes outside its agent's call, and no step
\* takes it further away: at most MaxSlices slices, of at most ten steps each, and
\* nine more.  That is the whole of ClaimIsReleased but for the fairness: the agent
\* call returns, and the thread of a live process keeps running.
THEOREM WorkIsBounded ==
    Spec => [][\A p \in Pids, t \in Tasks :
                  pc[p][t] # "idle" => Nearer(p, t) \/ Stays(p, t)]_vars
<1>1. ASSUME IInv, IInv', Next, NEW p \in Pids, NEW t \in Tasks, Unborn(t), pc[p][t] # "idle"
      PROVE  Nearer(p, t) \/ Stays(p, t)
  <2>0. TypeOK /\ TypeOK'
    BY <1>1 DEF IInv
  <2>1. ASSUME NEW q \in Pids, NEW u \in Tasks, Work(q, u)
        PROVE  Nearer(p, t) \/ Stays(p, t)
    <3>1. CASE p = q /\ t = u
      BY <1>1, <2>0, <2>1, <3>1, EnterRunIsNearer, BeginSliceIsNearer, InSliceIsNearer,
         AfterSliceIsNearer, CloseIsNearer DEF Work
    <3>2. CASE ~(p = q /\ t = u)
      BY <2>0, <2>1, <3>2, WorkersAreBusy, StandsStill
    <3> QED BY <3>1, <3>2
  <2>2. CASE \E q \in Pids : Fault(q)
    BY <1>1, <2>0, <2>2, FaultIsNearer
  <2>3. CASE \/ \E q \in Pids, u \in Tasks : Request(q, u)
             \/ \E s \in Servers : Resume(s)
    BY <1>1, <2>3, RequestsSpareWorkers
  <2> QED BY <1>1, <2>1, <2>2, <2>3 DEF Next
<1>2. (\A t \in Tasks : Unborn(t)) /\ IInv /\ [Next]_vars => (\A t \in Tasks : Unborn(t))'
  BY UnbornKept
<1>3. Init => \A t \in Tasks : Unborn(t)
  BY DEF Init, Unborn
<1>4. (\A t \in Tasks : Unborn(t)) /\ IInv /\ IInv' /\ [Next]_vars =>
        [\A p \in Pids, t \in Tasks :
            pc[p][t] # "idle" => Nearer(p, t) \/ Stays(p, t)]_vars
  BY <1>1
<1> QED BY <1>2, <1>3, <1>4, Invariance, PTL DEF Spec
=============================================================================
