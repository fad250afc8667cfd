-------------------- MODULE DurableTaskRefinementProofs --------------------
(***************************************************************************)
(* DurableTask implements TaskLifecycle, for every value of the constants; *)
(* that an ended or completed task stays so follows from the abstract life.*)
(***************************************************************************)
EXTENDS DurableTaskProofs

USE NoPidAssumption, ServersAssumption
USE DEF Owns, Owning, Guarded, InAgent, Entering, PcStates,
        RowStates, Live, Ending, NoRow, At, Goto, Present

\* Under the invariant the holder of a task is the worker that owns it.
LEMMA HolderIsOwner ==
    ASSUME IInv, NEW p \in Pids, NEW t \in Tasks
    PROVE  HolderMap[t] = p <=> Owns(p, t)
BY DEF HolderMap, IInv, OwnerHolds, TypeOK

\* A task that no worker owns has no holder.
LEMMA NobodyHolds ==
    ASSUME IInv, NEW t \in Tasks
    PROVE  HolderMap[t] = NoPid <=> \A p \in Pids : ~Owns(p, t)
BY DEF HolderMap, IInv, OwnerHolds, TypeOK

\* A step that moves no claim leaves the holders as they are.
LEMMA SameHolders ==
    ASSUME IInv, IInv',
           \A q \in Pids, u \in Tasks : Owns(q, u)' <=> Owns(q, u)
    PROVE  HolderMap' = HolderMap
<1>1. ASSUME NEW u \in Tasks
      PROVE  (IF worker[u] \in Pids /\ Owns(worker[u], u) THEN worker[u] ELSE NoPid)'
              = IF worker[u] \in Pids /\ Owns(worker[u], u) THEN worker[u] ELSE NoPid
  BY DEF IInv, OwnerHolds, TypeOK
<1>2. QED BY <1>1 DEF HolderMap

\* A step that changes no row's place in the task life leaves the lives alone.
LEMMA SameLives ==
    ASSUME \A u \in Tasks : LifeOf(state[u])' = LifeOf(state[u])
    PROVE  LifeMap' = LifeMap
BY DEF LifeMap

\* A step that changes neither holders nor lives is a stutter of the task life.
LEMMA QuietStep ==
    ASSUME IInv, IInv',
           \A u \in Tasks : LifeOf(state[u])' = LifeOf(state[u]),
           \A q \in Pids, u \in Tasks : Owns(q, u)' <=> Owns(q, u)
    PROVE  UNCHANGED Lifecycle!vars
BY SameHolders, SameLives DEF Lifecycle!vars
\* Entering run_task, losing the race for the claim, and closing.
LEMMA EnterQuiet ==
    ASSUME IInv, IInv', NEW p \in Pids, NEW t \in Tasks,
           Enter(p, t) \/ CheckEnding(p, t) \/ CheckRunning(p, t) \/ ClaimFails(p, t)
           \/ Close(p, t)
    PROVE  UNCHANGED Lifecycle!vars
<1>1. CASE Enter(p, t)
  <2>1. \A u \in Tasks : LifeOf(state[u])' = LifeOf(state[u])
    BY <1>1 DEF Enter, locals, row, LifeOf, IInv, TypeOK, OwnerHolds, WorkingRow, SnapOK
  <2>2. \A q \in Pids, u \in Tasks : Owns(q, u)' <=> Owns(q, u)
    BY <1>1 DEF Enter, locals, row, IInv, TypeOK, OwnerHolds, WorkingRow, SnapOK
  <2>3. QED BY <2>1, <2>2, QuietStep
<1>2. CASE CheckEnding(p, t)
  <2>1. \A u \in Tasks : LifeOf(state[u])' = LifeOf(state[u])
    BY <1>2 DEF CheckEnding, locals, row, LifeOf, IInv, TypeOK, OwnerHolds, WorkingRow, SnapOK
  <2>2. \A q \in Pids, u \in Tasks : Owns(q, u)' <=> Owns(q, u)
    BY <1>2 DEF CheckEnding, locals, row, IInv, TypeOK, OwnerHolds, WorkingRow, SnapOK
  <2>3. QED BY <2>1, <2>2, QuietStep
<1>3. CASE CheckRunning(p, t)
  <2>1. \A u \in Tasks : LifeOf(state[u])' = LifeOf(state[u])
    BY <1>3 DEF CheckRunning, locals, row, LifeOf, IInv, TypeOK, OwnerHolds, WorkingRow, SnapOK
  <2>2. \A q \in Pids, u \in Tasks : Owns(q, u)' <=> Owns(q, u)
    BY <1>3 DEF CheckRunning, locals, row, IInv, TypeOK, OwnerHolds, WorkingRow, SnapOK
  <2>3. QED BY <2>1, <2>2, QuietStep
<1>4. CASE ClaimFails(p, t)
  <2>1. \A u \in Tasks : LifeOf(state[u])' = LifeOf(state[u])
    BY <1>4 DEF ClaimFails, locals, row, LifeOf, IInv, TypeOK, OwnerHolds, WorkingRow, SnapOK
  <2>2. \A q \in Pids, u \in Tasks : Owns(q, u)' <=> Owns(q, u)
    BY <1>4 DEF ClaimFails, locals, row, IInv, TypeOK, OwnerHolds, WorkingRow, SnapOK
  <2>3. QED BY <2>1, <2>2, QuietStep
<1>5. CASE Close(p, t)
  <2>1. \A u \in Tasks : LifeOf(state[u])' = LifeOf(state[u])
    BY <1>5 DEF Close, locals, row, LifeOf, IInv, TypeOK, OwnerHolds, WorkingRow, SnapOK
  <2>2. \A q \in Pids, u \in Tasks : Owns(q, u)' <=> Owns(q, u)
    BY <1>5 DEF Close, locals, row, IInv, TypeOK, OwnerHolds, WorkingRow, SnapOK
  <2>3. QED BY <2>1, <2>2, QuietStep
<1>q. QED BY <1>1, <1>2, <1>3, <1>4, <1>5

\* A slice: its writes keep the task open, or ended if it was.
LEMMA SliceQuiet ==
    ASSUME IInv, IInv', NEW p \in Pids, NEW t \in Tasks,
           EnterTry(p, t) \/ BeginSlice(p, t) \/ StartOperation(p, t) \/ FinishOperation(p, t)
           \/ SaveRead(p, t) \/ SaveWrite(p, t) \/ AgentReturns(p, t) \/ AgentRaises(p, t)
    PROVE  UNCHANGED Lifecycle!vars
<1>1. CASE EnterTry(p, t)
  <2>1. \A u \in Tasks : LifeOf(state[u])' = LifeOf(state[u])
    BY <1>1 DEF EnterTry, locals, row, LifeOf, IInv, TypeOK, OwnerHolds, WorkingRow, SnapOK
  <2>2. \A q \in Pids, u \in Tasks : Owns(q, u)' <=> Owns(q, u)
    BY <1>1 DEF EnterTry, locals, row, IInv, TypeOK, OwnerHolds, WorkingRow, SnapOK
  <2>3. QED BY <2>1, <2>2, QuietStep
<1>2. CASE BeginSlice(p, t)
  <2>1. \A u \in Tasks : LifeOf(state[u])' = LifeOf(state[u])
    BY <1>2 DEF BeginSlice, locals, row, LifeOf, IInv, TypeOK, OwnerHolds, WorkingRow, SnapOK
  <2>2. \A q \in Pids, u \in Tasks : Owns(q, u)' <=> Owns(q, u)
    BY <1>2 DEF BeginSlice, locals, row, IInv, TypeOK, OwnerHolds, WorkingRow, SnapOK
  <2>3. QED BY <2>1, <2>2, QuietStep
<1>3. CASE StartOperation(p, t)
  <2>1. \A u \in Tasks : LifeOf(state[u])' = LifeOf(state[u])
    BY <1>3 DEF StartOperation, locals, row, LifeOf, IInv, TypeOK, OwnerHolds, WorkingRow, SnapOK
  <2>2. \A q \in Pids, u \in Tasks : Owns(q, u)' <=> Owns(q, u)
    BY <1>3 DEF StartOperation, locals, row, IInv, TypeOK, OwnerHolds, WorkingRow, SnapOK
  <2>3. QED BY <2>1, <2>2, QuietStep
<1>4. CASE FinishOperation(p, t)
  <2>1. \A u \in Tasks : LifeOf(state[u])' = LifeOf(state[u])
    BY <1>4 DEF FinishOperation, locals, row, LifeOf, IInv, TypeOK, OwnerHolds, WorkingRow, SnapOK
  <2>2. \A q \in Pids, u \in Tasks : Owns(q, u)' <=> Owns(q, u)
    BY <1>4 DEF FinishOperation, locals, row, IInv, TypeOK, OwnerHolds, WorkingRow, SnapOK
  <2>3. QED BY <2>1, <2>2, QuietStep
<1>5. CASE SaveRead(p, t)
  <2>1. \A u \in Tasks : LifeOf(state[u])' = LifeOf(state[u])
    BY <1>5 DEF SaveRead, locals, row, LifeOf, IInv, TypeOK, OwnerHolds, WorkingRow, SnapOK
  <2>2. \A q \in Pids, u \in Tasks : Owns(q, u)' <=> Owns(q, u)
    BY <1>5 DEF SaveRead, locals, row, IInv, TypeOK, OwnerHolds, WorkingRow, SnapOK
  <2>3. QED BY <2>1, <2>2, QuietStep
<1>6. CASE SaveWrite(p, t)
  <2>1. \A u \in Tasks : LifeOf(state[u])' = LifeOf(state[u])
    BY <1>6 DEF SaveWrite, locals, row, SetState, Written, Forget, LifeOf, IInv, TypeOK, OwnerHolds, WorkingRow, SnapOK
  <2>2. \A q \in Pids, u \in Tasks : Owns(q, u)' <=> Owns(q, u)
    BY <1>6 DEF SaveWrite, locals, row, SetState, Written, Forget, IInv, TypeOK, OwnerHolds, WorkingRow, SnapOK
  <2>3. QED BY <2>1, <2>2, QuietStep
<1>7. CASE AgentReturns(p, t)
  <2>1. \A u \in Tasks : LifeOf(state[u])' = LifeOf(state[u])
    BY <1>7 DEF AgentReturns, locals, row, LifeOf, IInv, TypeOK, OwnerHolds, WorkingRow, SnapOK
  <2>2. \A q \in Pids, u \in Tasks : Owns(q, u)' <=> Owns(q, u)
    BY <1>7 DEF AgentReturns, locals, row, IInv, TypeOK, OwnerHolds, WorkingRow, SnapOK
  <2>3. QED BY <2>1, <2>2, QuietStep
<1>8. CASE AgentRaises(p, t)
  <2>1. \A u \in Tasks : LifeOf(state[u])' = LifeOf(state[u])
    BY <1>8 DEF AgentRaises, locals, row, Forget, LifeOf, IInv, TypeOK, OwnerHolds, WorkingRow, SnapOK
  <2>2. \A q \in Pids, u \in Tasks : Owns(q, u)' <=> Owns(q, u)
    BY <1>8 DEF AgentRaises, locals, row, Forget, IInv, TypeOK, OwnerHolds, WorkingRow, SnapOK
  <2>3. QED BY <2>1, <2>2, QuietStep
<1>q. QED BY <1>1, <1>2, <1>3, <1>4, <1>5, <1>6, <1>7, <1>8

\* After a slice, and unwinding: likewise.
LEMMA AfterQuiet ==
    ASSUME IInv, IInv', NEW p \in Pids, NEW t \in Tasks,
           FailRead(p, t) \/ FailWrite(p, t) \/ AnswerRead(p, t) \/ AnswerWrite(p, t)
           \/ CheckEnded(p, t) \/ Requeue(p, t) \/ Exhaust(p, t) \/ Unwind(p, t)
    PROVE  UNCHANGED Lifecycle!vars
<1>1. CASE FailRead(p, t)
  <2>1. \A u \in Tasks : LifeOf(state[u])' = LifeOf(state[u])
    BY <1>1 DEF FailRead, locals, row, LifeOf, IInv, TypeOK, OwnerHolds, WorkingRow, SnapOK
  <2>2. \A q \in Pids, u \in Tasks : Owns(q, u)' <=> Owns(q, u)
    BY <1>1 DEF FailRead, locals, row, IInv, TypeOK, OwnerHolds, WorkingRow, SnapOK
  <2>3. QED BY <2>1, <2>2, QuietStep
<1>2. CASE FailWrite(p, t)
  <2>1. \A u \in Tasks : LifeOf(state[u])' = LifeOf(state[u])
    BY <1>2 DEF FailWrite, locals, row, SetState, Written, Forget, LifeOf, IInv, TypeOK, OwnerHolds, WorkingRow, SnapOK
  <2>2. \A q \in Pids, u \in Tasks : Owns(q, u)' <=> Owns(q, u)
    BY <1>2 DEF FailWrite, locals, row, SetState, Written, Forget, IInv, TypeOK, OwnerHolds, WorkingRow, SnapOK
  <2>3. QED BY <2>1, <2>2, QuietStep
<1>3. CASE AnswerRead(p, t)
  <2>1. \A u \in Tasks : LifeOf(state[u])' = LifeOf(state[u])
    BY <1>3 DEF AnswerRead, locals, row, LifeOf, IInv, TypeOK, OwnerHolds, WorkingRow, SnapOK
  <2>2. \A q \in Pids, u \in Tasks : Owns(q, u)' <=> Owns(q, u)
    BY <1>3 DEF AnswerRead, locals, row, IInv, TypeOK, OwnerHolds, WorkingRow, SnapOK
  <2>3. QED BY <2>1, <2>2, QuietStep
<1>4. CASE AnswerWrite(p, t)
  <2>1. \A u \in Tasks : LifeOf(state[u])' = LifeOf(state[u])
    BY <1>4 DEF AnswerWrite, locals, row, SetState, Written, Forget, LifeOf, IInv, TypeOK, OwnerHolds, WorkingRow, SnapOK
  <2>2. \A q \in Pids, u \in Tasks : Owns(q, u)' <=> Owns(q, u)
    BY <1>4 DEF AnswerWrite, locals, row, SetState, Written, Forget, IInv, TypeOK, OwnerHolds, WorkingRow, SnapOK
  <2>3. QED BY <2>1, <2>2, QuietStep
<1>5. CASE CheckEnded(p, t)
  <2>1. \A u \in Tasks : LifeOf(state[u])' = LifeOf(state[u])
    BY <1>5 DEF CheckEnded, locals, row, LifeOf, IInv, TypeOK, OwnerHolds, WorkingRow, SnapOK
  <2>2. \A q \in Pids, u \in Tasks : Owns(q, u)' <=> Owns(q, u)
    BY <1>5 DEF CheckEnded, locals, row, IInv, TypeOK, OwnerHolds, WorkingRow, SnapOK
  <2>3. QED BY <2>1, <2>2, QuietStep
<1>6. CASE Requeue(p, t)
  <2>1. \A u \in Tasks : LifeOf(state[u])' = LifeOf(state[u])
    BY <1>6 DEF Requeue, locals, row, SetState, Written, LifeOf, IInv, TypeOK, OwnerHolds, WorkingRow, SnapOK
  <2>2. \A q \in Pids, u \in Tasks : Owns(q, u)' <=> Owns(q, u)
    BY <1>6 DEF Requeue, locals, row, SetState, Written, IInv, TypeOK, OwnerHolds, WorkingRow, SnapOK
  <2>3. QED BY <2>1, <2>2, QuietStep
<1>7. CASE Exhaust(p, t)
  <2>1. \A u \in Tasks : LifeOf(state[u])' = LifeOf(state[u])
    BY <1>7 DEF Exhaust, locals, row, SetState, Written, LifeOf, IInv, TypeOK, OwnerHolds, WorkingRow, SnapOK
  <2>2. \A q \in Pids, u \in Tasks : Owns(q, u)' <=> Owns(q, u)
    BY <1>7 DEF Exhaust, locals, row, SetState, Written, IInv, TypeOK, OwnerHolds, WorkingRow, SnapOK
  <2>3. QED BY <2>1, <2>2, QuietStep
<1>8. CASE Unwind(p, t)
  <2>1. \A u \in Tasks : LifeOf(state[u])' = LifeOf(state[u])
    BY <1>8 DEF Unwind, locals, row, Forget, LifeOf, IInv, TypeOK, OwnerHolds, WorkingRow, SnapOK
  <2>2. \A q \in Pids, u \in Tasks : Owns(q, u)' <=> Owns(q, u)
    BY <1>8 DEF Unwind, locals, row, Forget, IInv, TypeOK, OwnerHolds, WorkingRow, SnapOK
  <2>3. QED BY <2>1, <2>2, QuietStep
<1>q. QED BY <1>1, <1>2, <1>3, <1>4, <1>5, <1>6, <1>7, <1>8

\* Recovery finds a task nobody holds, and leaves it open or ended.
LEMMA RecoverQuiet ==
    ASSUME IInv, NEW t \in Tasks, Recover(t)
    PROVE  \A u \in Tasks : LifeOf(state[u])' = LifeOf(state[u])
<1>1. CASE RecoverApplies(t)
  <2>1. state' = [state EXCEPT ![t] = Recovered(@)]
    BY <1>1 DEF Recover
  <2>2. QED BY <1>1, <2>1 DEF RecoverApplies, Recovered, LifeOf, IInv, TypeOK
<1>2. CASE ~RecoverApplies(t)
  BY <1>2 DEF Recover
<1>3. QED BY <1>1, <1>2

\* The steps of a worker.
LEMMA WorkRefines ==
    ASSUME IInv, IInv', NEW p \in Pids, NEW t \in Tasks, Work(p, t)
    PROVE  [Lifecycle!Next]_Lifecycle!vars
<1>1. CASE RecoverEnding(p, t)
  <2>1. \A u \in Tasks : LifeOf(state[u])' = LifeOf(state[u])
    BY <1>1, RecoverQuiet DEF RecoverEnding
  <2>2. \A q \in Pids, u \in Tasks : Owns(q, u)' <=> Owns(q, u)
    BY <1>1 DEF RecoverEnding, IInv, TypeOK
  <2>3. QED BY <2>1, <2>2, QuietStep
<1>5. CASE RecoverRunning(p, t)
  <2>1. \A u \in Tasks : LifeOf(state[u])' = LifeOf(state[u])
    BY <1>5, RecoverQuiet DEF RecoverRunning
  <2>2. \A q \in Pids, u \in Tasks : Owns(q, u)' <=> Owns(q, u)
    BY <1>5 DEF RecoverRunning, IInv, TypeOK
  <2>3. QED BY <2>1, <2>2, QuietStep
<1>2. CASE Claim(p, t)
  <2>1. LifeMap[t] = "open" /\ LifeMap' = LifeMap
    BY <1>2 DEF Claim, Claimable, LifeMap, LifeOf, IInv, TypeOK
  <2>2. HolderMap[t] = NoPid
    BY <1>2 DEF Claim, Claimable, HolderMap
  <2>3. HolderMap' = [HolderMap EXCEPT ![t] = p]
    <3>1. HolderMap'[t] = p
      BY <1>2 DEF Claim, HolderMap, IInv, TypeOK
    <3>2. ASSUME NEW u \in Tasks, u # t PROVE HolderMap'[u] = HolderMap[u]
      BY <1>2, <3>2 DEF Claim, HolderMap, IInv, TypeOK
    <3>3. QED BY <3>1, <3>2 DEF HolderMap
  <2>4. Lifecycle!Acquire(p, t)
    BY <2>1, <2>2, <2>3 DEF Lifecycle!Acquire
  <2>5. QED BY <2>4 DEF Lifecycle!Next
<1>3. CASE Complete(p, t)
  <2>1. \A q \in Pids, u \in Tasks : Owns(q, u)' <=> Owns(q, u)
    BY <1>3 DEF Complete, IInv, TypeOK
  <2>2. HolderMap' = HolderMap /\ HolderMap[t] = p
    BY <1>3, <2>1, SameHolders, HolderIsOwner DEF Complete
  <2>3. CASE state[t] = "cancelling"
    <3>1. \A u \in Tasks : LifeOf(state[u])' = LifeOf(state[u])
      BY <1>3, <2>3 DEF Complete, SetState, Written, LifeOf, IInv, TypeOK
    <3>2. QED BY <2>1, <3>1, QuietStep
  <2>4. CASE state[t] # "cancelling"
    <3>1. LifeMap[t] = "open"
      BY <1>3, <2>4 DEF Complete, LifeMap, LifeOf, IInv, WorkingRow
    <3>2. LifeMap' = [LifeMap EXCEPT ![t] = "done"]
      <4>1. LifeMap'[t] = "done"
        BY <1>3, <2>4 DEF Complete, SetState, Written, LifeMap, LifeOf, IInv, TypeOK
      <4>2. ASSUME NEW u \in Tasks, u # t PROVE LifeMap'[u] = LifeMap[u]
        BY <1>3, <4>2 DEF Complete, SetState, LifeMap, IInv, TypeOK
      <4>3. QED BY <4>1, <4>2 DEF LifeMap
    <3>3. Lifecycle!Finish(t)
      BY <2>2, <3>1, <3>2 DEF Lifecycle!Finish
    <3>4. QED BY <3>3 DEF Lifecycle!Next
  <2>5. QED BY <2>3, <2>4
<1>4. CASE FinishCancellation(p, t)
  <2>1. LifeMap' = LifeMap
    <3>1. \A u \in Tasks : LifeOf(state[u])' = LifeOf(state[u])
      BY <1>4 DEF FinishCancellation, LifeOf, IInv, TypeOK
    <3>2. QED BY <3>1, SameLives
  <2>2. HolderMap[t] = p
    BY <1>4, HolderIsOwner DEF FinishCancellation
  <2>3. HolderMap' = [u \in Tasks |-> IF u \in {t} THEN NoPid ELSE HolderMap[u]]
    <3>1. HolderMap'[t] = NoPid
      BY <1>4 DEF FinishCancellation, HolderMap, IInv, TypeOK
    <3>2. ASSUME NEW u \in Tasks, u # t PROVE HolderMap'[u] = HolderMap[u]
      BY <1>4, <3>2 DEF FinishCancellation, HolderMap, IInv, TypeOK
    <3>3. QED BY <3>1, <3>2 DEF HolderMap
  <2>4. Lifecycle!Release(p, {t})
    BY <2>1, <2>2, <2>3 DEF Lifecycle!Release
  <2>5. QED BY <2>4 DEF Lifecycle!Next
<1>q. QED
  BY <1>1, <1>5, <1>2, <1>3, <1>4, EnterQuiet, SliceQuiet, AfterQuiet
     DEF Work, EnterRun, InSlice, AgentEnds, AfterSlice

\* Users' requests.
LEMMA RequestRefines ==
    ASSUME IInv, IInv', NEW p \in Pids, NEW t \in Tasks, Request(p, t)
    PROVE  [Lifecycle!Next]_Lifecycle!vars
<1>1. CASE Create(p, t)
  <2>1. LifeMap[t] = "absent" /\ LifeMap' = [LifeMap EXCEPT ![t] = "open"]
    BY <1>1 DEF Create, LifeMap, LifeOf, IInv, TypeOK
  <2>2. \A q \in Pids, u \in Tasks : Owns(q, u)' <=> Owns(q, u)
    BY <1>1 DEF Create, Free, IInv, TypeOK, OwnerHolds
  <2>3. Lifecycle!Create(t)
    BY <2>1, <2>2, SameHolders DEF Lifecycle!Create
  <2>4. QED BY <2>3 DEF Lifecycle!Next
<1>2. CASE Cancel(p, t)
  <2>1. \A q \in Pids, u \in Tasks : Owns(q, u)' <=> Owns(q, u)
    BY <1>2 DEF Cancel
  <2>2. CASE state[t] \in Live
    <3>1. LifeMap[t] = "open" /\ LifeMap' = [LifeMap EXCEPT ![t] = "ended"]
      BY <1>2, <2>2 DEF Cancel, LifeMap, LifeOf, IInv, TypeOK
    <3>2. Lifecycle!End(t)
      BY <2>1, <3>1, SameHolders DEF Lifecycle!End
    <3>3. QED BY <3>2 DEF Lifecycle!Next
  <2>3. CASE state[t] \notin Live
    <3>1. \A u \in Tasks : LifeOf(state[u])' = LifeOf(state[u])
      BY <1>2, <2>3 DEF Cancel, LifeOf, IInv, TypeOK
    <3>2. QED BY <2>1, <3>1, QuietStep
  <2>4. QED BY <2>2, <2>3
<1>3. CASE Delete(p, t)
  <2>1. /\ LifeMap[t] \in {"open", "ended", "done"}
        /\ LifeMap' = [LifeMap EXCEPT ![t] = "gone"]
    BY <1>3 DEF Delete, Deletable, LifeMap, LifeOf, IInv, TypeOK
  <2>2. HolderMap[t] = NoPid
    BY <1>3, DeleteSparesOwners, NobodyHolds DEF Delete
  <2>3. \A q \in Pids, u \in Tasks : Owns(q, u)' <=> Owns(q, u)
    BY <1>3 DEF Delete
  <2>4. Lifecycle!Delete(t)
    BY <2>1, <2>2, <2>3, SameHolders DEF Lifecycle!Delete
  <2>5. QED BY <2>4 DEF Lifecycle!Next
<1>4. CASE ResumeCli(p, t)
  <2>1. \A u \in Tasks : LifeOf(state[u])' = LifeOf(state[u])
    BY <1>4 DEF ResumeCli, row
  <2>2. \A q \in Pids, u \in Tasks : Owns(q, u)' <=> Owns(q, u)
    BY <1>4 DEF ResumeCli, Free, IInv, TypeOK
  <2>3. QED BY <2>1, <2>2, QuietStep
<1>5. QED BY <1>1, <1>2, <1>3, <1>4 DEF Request

\* The resume endpoint moves no claim.
LEMMA ResumeRefines ==
    ASSUME IInv, IInv', NEW s \in Servers, Resume(s)
    PROVE  UNCHANGED Lifecycle!vars
<1>1. CASE \E t \in Tasks : ResumeRead(s, t)
  BY <1>1, QuietStep DEF ResumeRead, row
<1>2. CASE ResumeCheck(s)
  BY <1>2, QuietStep DEF ResumeCheck, row
<1>3. CASE ResumeRecover(s)
  <2> DEFINE t == req[s].task
  <2>1. t \in Tasks /\ Recover(t)
    BY <1>3 DEF ResumeRecover, IInv, TypeOK, ReqStates, NoReq
  <2>2. \A q \in Pids, u \in Tasks : Owns(q, u)' <=> Owns(q, u)
    BY <1>3 DEF ResumeRecover
  <2>3. QED BY <2>1, <2>2, RecoverQuiet, QuietStep
<1>4. CASE ResumeStart(s)
  <2>1. \A q \in Pids, u \in Tasks : Owns(q, u)' <=> Owns(q, u)
    BY <1>4 DEF ResumeStart, IInv, TypeOK, ReqStates, NoReq
  <2>2. \A u \in Tasks : LifeOf(state[u])' = LifeOf(state[u])
    BY <1>4 DEF ResumeStart, row
  <2>3. QED BY <2>1, <2>2, QuietStep
<1>5. QED BY <1>1, <1>2, <1>3, <1>4 DEF Resume

\* Faults: a dying process releases every task it holds.
LEMMA FaultRefines ==
    ASSUME IInv, IInv', NEW p \in Pids, Fault(p)
    PROVE  [Lifecycle!Next]_Lifecycle!vars
<1>1. ASSUME NEW t \in Tasks, Unwind(p, t) PROVE UNCHANGED Lifecycle!vars
  BY <1>1, AfterQuiet
<1>2. ASSUME NEW t \in Tasks, Escape(p, t) PROVE [Lifecycle!Next]_Lifecycle!vars
  <2>1. LifeMap' = LifeMap
    BY <1>2 DEF Escape, row, LifeMap
  <2>2. CASE pc[p][t] \in Entering
    <3>1. \A q \in Pids, u \in Tasks : Owns(q, u)' <=> Owns(q, u)
      BY <1>2, <2>2 DEF Escape, IInv, TypeOK
    <3> QED BY <1>2, <3>1, QuietStep DEF Escape, row
  <2>3. CASE pc[p][t] \in {"claimed", "leave"}
    <3>1. HolderMap[t] = p
      BY <2>3, HolderIsOwner
    <3>2. HolderMap' = [u \in Tasks |-> IF u \in {t} THEN NoPid ELSE HolderMap[u]]
      <4>1. worker[t] = p
        BY <2>3 DEF IInv, OwnerHolds
      <4>2. HolderMap'[t] = NoPid
        BY <1>2, <2>3, <4>1 DEF Escape, row, HolderMap, IInv, TypeOK
      <4>3. ASSUME NEW u \in Tasks, u # t PROVE HolderMap'[u] = HolderMap[u]
        BY <1>2, <4>3 DEF Escape, row, HolderMap, IInv, TypeOK
      <4>4. QED BY <4>2, <4>3 DEF HolderMap
    <3>3. Lifecycle!Release(p, {t})
      BY <2>1, <3>1, <3>2 DEF Lifecycle!Release
    <3>4. QED BY <3>3 DEF Lifecycle!Next
  <2>4. QED BY <1>2, <2>2, <2>3 DEF Escape
<1>3. CASE Crash(p)
  <2> DEFINE held == {t \in Tasks : Owns(p, t)}
  <2>1. LifeMap' = LifeMap
    BY <1>3 DEF Crash, row, LifeMap
  <2>2. HolderMap' = [u \in Tasks |-> IF u \in held THEN NoPid ELSE HolderMap[u]]
    <3>1. ASSUME NEW u \in held PROVE HolderMap'[u] = NoPid
      <4>1. worker[u] = p /\ ~Owns(p, u)'
        BY <1>3 DEF Crash, IInv, OwnerHolds, TypeOK
      <4>2. QED BY <1>3, <4>1 DEF Crash, row, HolderMap
    <3>2. ASSUME NEW u \in Tasks, u \notin held PROVE HolderMap'[u] = HolderMap[u]
      <4>1. \A q \in Pids : Owns(q, u)' <=> Owns(q, u)
        BY <1>3, <3>2 DEF Crash, IInv, TypeOK
      <4>2. QED BY <1>3, <4>1 DEF Crash, row, HolderMap
    <3>3. QED BY <3>1, <3>2 DEF HolderMap
  <2>3. CASE held = {}
    <3>1. HolderMap' = HolderMap
      BY <2>2, <2>3 DEF HolderMap
    <3>2. QED BY <2>1, <3>1 DEF Lifecycle!vars
  <2>4. CASE held # {}
    <3>1. \A u \in held : HolderMap[u] = p
      BY HolderIsOwner
    <3>2. Lifecycle!Release(p, held)
      BY <2>1, <2>2, <2>4, <3>1 DEF Lifecycle!Release
    <3>3. QED BY <3>2 DEF Lifecycle!Next
  <2>5. QED BY <2>3, <2>4
<1>4. CASE Restart(p)
  BY <1>4, QuietStep DEF Restart, row
<1>5. QED BY <1>1, <1>2, <1>3, <1>4 DEF Fault

-----------------------------------------------------------------------------
\* Every step is a step of the task life or a stutter.
LEMMA StepRefines ==
    IInv /\ IInv' /\ [Next]_vars => [Lifecycle!Next]_Lifecycle!vars
<1> SUFFICES ASSUME IInv, IInv', [Next]_vars
             PROVE  [Lifecycle!Next]_Lifecycle!vars
  OBVIOUS
<1>1. CASE UNCHANGED vars
  BY <1>1 DEF vars, Lifecycle!vars, LifeMap, HolderMap
<1>2. CASE Next
  BY <1>2, WorkRefines, RequestRefines, ResumeRefines, FaultRefines DEF Next
<1>3. QED BY <1>1, <1>2

\* The initial state is one of the task life.
LEMMA InitRefines == Init => Lifecycle!Init
BY DEF Init, Lifecycle!Init, LifeMap, LifeOf, HolderMap

\* The store and its workers implement the life of a task.
THEOREM Refinement == Spec => ImplementsLifecycle
<1>1. Init => Lifecycle!Init
  BY InitRefines
<1>2. IInv /\ IInv' /\ [Next]_vars => [Lifecycle!Next]_Lifecycle!vars
  BY StepRefines
<1>3. QED BY <1>1, <1>2, Invariance, PTL DEF Spec, ImplementsLifecycle, Lifecycle!Spec

=============================================================================
