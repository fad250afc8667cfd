------------------------- MODULE DurableTaskProofs -------------------------
(***************************************************************************)
(* Theorems about DurableTask, for every set of tasks, processes, servers  *)
(* and ledger ids, and whether or not pids are reused.                     *)
(***************************************************************************)
EXTENDS DurableTask, TLAPS

\* A worker in its slice loop has a live or a cancelling row: nobody else, and
\* none of its own earlier writes, has settled it.
WorkingRow ==
    \A p \in Pids, t \in Tasks :
        Owns(p, t) /\ pc[p][t] # "leave"
            => state[t] \in {"running", "queued", "cancelling"}

\* What a checkpoint read before its write: never an ending the row has lost.
SnapOK ==
    \A p \in Pids, t \in Tasks :
        /\ pc[p][t] \in {"save", "answerSave"}
             => /\ snap[p][t] \in {"running", "queued", "cancelling"}
                /\ snap[p][t] = "cancelling" => state[t] = "cancelling"
        /\ pc[p][t] = "failSave"
             => /\ snap[p][t] \in {"paused", "cancelled"}
                /\ snap[p][t] = "cancelled" => state[t] = "cancelling"

SlicesLeft ==
    \A p \in Pids, t \in Tasks : pc[p][t] = "top" => left[p][t] > 0

\* Only a worker in its agent call has operations open.
OpenOpsInAgent ==
    \A p \in Pids, t \in Tasks : cur[p][t] # {} => pc[p][t] \in InAgent

IInv ==
    /\ TypeOK
    /\ OwnerHolds
    /\ WorkingRow
    /\ SnapOK
    /\ SlicesLeft
    /\ OpenOpsInAgent
    /\ OpenOpsAreRecorded
-----------------------------------------------------------------------------
USE NoPidAssumption, MaxSlicesAssumption, ServersAssumption
\* The program labels and states are plain sets of names.
USE DEF Owns, Owning, Guarded, InAgent, Entering, PcStates,
        RowStates, Live, Ending, NoRow, OpStates, ReqStates, NoReq,
        At, Goto, Present

\* The initial state satisfies the invariant.
LEMMA InitIInv == Init => IInv
BY DEF Init, IInv, TypeOK, OwnerHolds, WorkingRow, SnapOK, SlicesLeft,
       OpenOpsInAgent, OpenOpsAreRecorded

\* recover either leaves the tables alone or settles a row whose recorded worker
\* is dead, together with the operations that worker left open.
LEMMA RecoverEffect ==
    ASSUME TypeOK, NEW t \in Tasks, Recover(t)
    PROVE  /\ state' \in [Tasks -> RowStates \cup NoRow]
           /\ worker' \in [Tasks -> Pids \cup {NoPid}]
           /\ ops' \in [Tasks -> [Ops -> OpStates]]
           /\ \/ UNCHANGED <<state, worker, ops>>
              \/ /\ worker[t] \notin alive
                 /\ \A u \in Tasks : u # t => /\ state'[u] = state[u]
                                            /\ worker'[u] = worker[u]
                                            /\ ops'[u] = ops[u]
<1>1. CASE RecoverApplies(t)
  <2>1. /\ state' = [state EXCEPT ![t] = Recovered(@)]
        /\ worker' = [worker EXCEPT ![t] = NoPid]
        /\ ops' = [ops EXCEPT ![t] = [o \in Ops |-> Interrupted(ops[t][o])]]
    BY <1>1 DEF Recover
  <2>2. QED BY <1>1, <2>1 DEF TypeOK, Recovered, Interrupted, RecoverApplies, WorkerDead
<1>2. CASE ~RecoverApplies(t)
  <2>1. UNCHANGED <<state, worker, ops>>
    BY <1>2 DEF Recover
  <2>2. QED BY <2>1 DEF TypeOK
<1>3. QED BY <1>1, <1>2

\* A worker that owns a task sees neither a recovery nor a deletion of it.
LEMMA RecoverSparesOwners ==
    ASSUME IInv, NEW t \in Tasks, Recover(t), NEW q \in Pids, NEW u \in Tasks, Owns(q, u)
    PROVE  state'[u] = state[u] /\ worker'[u] = worker[u] /\ ops'[u] = ops[u]
<1>1. worker[u] \in alive
  BY DEF IInv, OwnerHolds
<1>2. QED BY <1>1, RecoverEffect DEF IInv

\* ... nor is a task deleted under the worker that owns it.
LEMMA DeleteSparesOwners ==
    ASSUME IInv, NEW t \in Tasks, Deletable(t), NEW q \in Pids
    PROVE  ~Owns(q, t)
BY DEF Deletable, WorkerDead, IInv, OwnerHolds, TypeOK

\* A recovery keeps the invariant, wherever it is called from: it changes the row and
\* the ledger of no task that a worker owns.
LEMMA RecoverKeeps ==
    ASSUME IInv, NEW t \in Tasks, Recover(t), UNCHANGED <<alive, locals>>,
           pc' \in [Pids -> [Tasks -> PcStates]],
           req' \in [Servers -> ReqStates \cup {NoReq}],
           \A q \in Pids, u \in Tasks :
              Owns(q, u) \/ Owns(q, u)' => pc'[q][u] = pc[q][u]
    PROVE  IInv'
<1>1. TypeOK'
  BY RecoverEffect DEF locals, IInv, TypeOK
<1>2. ASSUME NEW q \in Pids, NEW u \in Tasks, Owns(q, u)'
      PROVE  /\ Owns(q, u) /\ pc'[q][u] = pc[q][u]
             /\ state'[u] = state[u] /\ worker'[u] = worker[u] /\ ops'[u] = ops[u]
  BY <1>2, RecoverSparesOwners
<1>3. OwnerHolds'
  BY <1>2 DEF IInv, OwnerHolds
<1>4. WorkingRow'
  BY <1>2 DEF IInv, WorkingRow
<1>5. SnapOK'
  BY <1>2 DEF IInv, SnapOK, locals
<1>6. SlicesLeft'
  BY <1>2 DEF IInv, SlicesLeft, locals
<1>7. OpenOpsInAgent'
  BY DEF IInv, OpenOpsInAgent, locals
<1>8. OpenOpsAreRecorded'
  <2> SUFFICES ASSUME NEW q \in Pids, NEW u \in Tasks, NEW o \in cur'[q][u]
               PROVE  ops'[u][o] = "started"
    BY DEF OpenOpsAreRecorded
  <2>1. o \in cur[q][u] /\ Owns(q, u)
    BY DEF locals, IInv, OpenOpsInAgent
  <2> QED BY <2>1, RecoverSparesOwners DEF IInv, OpenOpsAreRecorded
<1> QED BY <1>1, <1>3, <1>4, <1>5, <1>6, <1>7, <1>8 DEF IInv

\* Users' requests.
LEMMA RequestKeeps ==
    ASSUME IInv, NEW p \in Pids, NEW t \in Tasks, Request(p, t)
    PROVE  IInv'
<1> USE DEF row, locals, IInv, TypeOK, OwnerHolds, WorkingRow, SnapOK, SlicesLeft,
            OpenOpsInAgent, OpenOpsAreRecorded
<1>1. ASSUME Create(p, t) PROVE IInv'
  BY <1>1 DEF Create, Free
<1>2. ASSUME Cancel(p, t) PROVE IInv'
  BY <1>2 DEF Cancel, Free
<1>3. ASSUME Delete(p, t) PROVE IInv'
  <2>1. TypeOK'
    BY <1>3 DEF Delete, Free, Deletable, WorkerDead
  <2>2. OwnerHolds'
    BY <1>3 DEF Delete, Free, Deletable, WorkerDead
  <2>3. WorkingRow'
    BY <1>3 DEF Delete, Free, Deletable, WorkerDead
  <2>4. SnapOK'
    BY <1>3 DEF Delete, Free, Deletable, WorkerDead
  <2>5. SlicesLeft'
    BY <1>3 DEF Delete, Free, Deletable, WorkerDead
  <2>6. OpenOpsInAgent'
    BY <1>3 DEF Delete, Free, Deletable, WorkerDead
  <2>7. OpenOpsAreRecorded'
    <3> SUFFICES ASSUME NEW q \in Pids, NEW u \in Tasks, NEW o \in cur'[q][u]
                 PROVE  ops'[u][o] = "started"
      BY DEF OpenOpsAreRecorded
    <3>1. o \in cur[q][u] /\ Owns(q, u) /\ ops[u][o] = "started"
      BY <1>3 DEF Delete, IInv, OpenOpsInAgent, OpenOpsAreRecorded
    <3>2. u # t
      BY <1>3, <3>1, DeleteSparesOwners DEF Delete
    <3>3. QED BY <1>3, <3>1, <3>2 DEF Delete, IInv, TypeOK
  <2>8. QED BY <2>1, <2>2, <2>3, <2>4, <2>5, <2>6, <2>7 DEF IInv
<1>4. ASSUME ResumeCli(p, t) PROVE IInv'
  BY <1>4 DEF ResumeCli, Free
<1>q. QED BY <1>1, <1>2, <1>3, <1>4 DEF Request

\* run_task up to the claim.
LEMMA EnterRunKeeps ==
    ASSUME IInv, NEW p \in Pids, NEW t \in Tasks, EnterRun(p, t)
    PROVE  IInv'
<1>1. ASSUME RecoverEnding(p, t) PROVE IInv'
  BY <1>1, RecoverKeeps DEF RecoverEnding, IInv, TypeOK
<1>2. ASSUME RecoverRunning(p, t) PROVE IInv'
  BY <1>2, RecoverKeeps DEF RecoverRunning, IInv, TypeOK
<1> USE DEF row, locals, IInv, TypeOK, OwnerHolds, WorkingRow, SnapOK, SlicesLeft,
            OpenOpsInAgent, OpenOpsAreRecorded
<1>3. ASSUME Enter(p, t) PROVE IInv'
  BY <1>3 DEF Enter
<1>4. ASSUME CheckEnding(p, t) PROVE IInv'
  BY <1>4 DEF CheckEnding, WorkerDead
<1>5. ASSUME CheckRunning(p, t) PROVE IInv'
  BY <1>5 DEF CheckRunning, WorkerDead
<1>6. ASSUME Claim(p, t) PROVE IInv'
  BY <1>6 DEF Claim, Claimable
<1>7. ASSUME ClaimFails(p, t) PROVE IInv'
  BY <1>7 DEF ClaimFails, Claimable
<1>q. QED BY <1>1, <1>2, <1>3, <1>4, <1>5, <1>6, <1>7 DEF EnterRun

\* The agent call of a slice.
LEMMA InSliceKeeps ==
    ASSUME IInv, NEW p \in Pids, NEW t \in Tasks, InSlice(p, t)
    PROVE  IInv'
<1> USE DEF row, locals, IInv, TypeOK, OwnerHolds, WorkingRow, SnapOK, SlicesLeft,
            OpenOpsInAgent, OpenOpsAreRecorded
<1>1. ASSUME StartOperation(p, t) PROVE IInv'
  BY <1>1 DEF StartOperation
<1>2. ASSUME FinishOperation(p, t) PROVE IInv'
  BY <1>2 DEF FinishOperation
<1>3. ASSUME SaveRead(p, t) PROVE IInv'
  BY <1>3 DEF SaveRead
<1>4. ASSUME SaveWrite(p, t) PROVE IInv'
  BY <1>4 DEF SaveWrite, SetState, Written, Forget
<1>5. ASSUME AgentReturns(p, t) PROVE IInv'
  BY <1>5 DEF AgentReturns
<1>6. ASSUME AgentRaises(p, t) PROVE IInv'
  BY <1>6 DEF AgentRaises, Forget
<1>q. QED BY <1>1, <1>2, <1>3, <1>4, <1>5, <1>6 DEF InSlice, AgentEnds

\* What follows the agent call.
LEMMA AfterSliceKeeps ==
    ASSUME IInv, NEW p \in Pids, NEW t \in Tasks, AfterSlice(p, t)
    PROVE  IInv'
<1> USE DEF row, locals, IInv, TypeOK, OwnerHolds, WorkingRow, SnapOK, SlicesLeft,
            OpenOpsInAgent, OpenOpsAreRecorded
<1>1. ASSUME FailRead(p, t) PROVE IInv'
  BY <1>1 DEF FailRead
<1>2. ASSUME FailWrite(p, t) PROVE IInv'
  BY <1>2 DEF FailWrite, SetState, Written, Forget
<1>3. ASSUME AnswerRead(p, t) PROVE IInv'
  BY <1>3 DEF AnswerRead
<1>4. ASSUME AnswerWrite(p, t) PROVE IInv'
  BY <1>4 DEF AnswerWrite, SetState, Written, Forget
<1>5. ASSUME CheckEnded(p, t) PROVE IInv'
  BY <1>5 DEF CheckEnded
<1>6. ASSUME Complete(p, t) PROVE IInv'
  BY <1>6 DEF Complete, SetState, Written
<1>7. ASSUME Requeue(p, t) PROVE IInv'
  BY <1>7 DEF Requeue, SetState, Written
<1>8. ASSUME Exhaust(p, t) PROVE IInv'
  BY <1>8 DEF Exhaust, SetState, Written
<1>q. QED BY <1>1, <1>2, <1>3, <1>4, <1>5, <1>6, <1>7, <1>8 DEF AfterSlice

\* Every step of a worker.
LEMMA WorkKeeps ==
    ASSUME IInv, NEW p \in Pids, NEW t \in Tasks, Work(p, t)
    PROVE  IInv'
<1> USE DEF row, locals, IInv, TypeOK, OwnerHolds, WorkingRow, SnapOK, SlicesLeft,
            OpenOpsInAgent, OpenOpsAreRecorded
<1>1. ASSUME EnterTry(p, t) PROVE IInv'
  BY <1>1 DEF EnterTry
<1>2. ASSUME BeginSlice(p, t) PROVE IInv'
  BY <1>2 DEF BeginSlice
<1>3. ASSUME FinishCancellation(p, t) PROVE IInv'
  BY <1>3 DEF FinishCancellation
<1>4. ASSUME Close(p, t) PROVE IInv'
  BY <1>4 DEF Close
<1>q. QED BY <1>1, <1>2, <1>3, <1>4, EnterRunKeeps, InSliceKeeps, AfterSliceKeeps DEF Work

\* The resume endpoint.
LEMMA ResumeKeeps ==
    ASSUME IInv, NEW s \in Servers, Resume(s)
    PROVE  IInv'
<1>1. ASSUME ResumeRecover(s) PROVE IInv'
  <2>1. req[s].task \in Tasks
    BY <1>1 DEF ResumeRecover, IInv, TypeOK
  <2>2. state' \in [Tasks -> RowStates \cup NoRow] /\ worker' \in [Tasks -> Pids \cup {NoPid}]
    BY <1>1, <2>1, RecoverEffect DEF ResumeRecover, IInv
  <2>3. req' \in [Servers -> ReqStates \cup {NoReq}]
    BY <1>1, <2>1, <2>2 DEF ResumeRecover, IInv, TypeOK
  <2> QED BY <1>1, <2>1, <2>3, RecoverKeeps DEF ResumeRecover, IInv, TypeOK
<1> USE DEF row, locals, IInv, TypeOK, OwnerHolds, WorkingRow, SnapOK, SlicesLeft,
            OpenOpsInAgent, OpenOpsAreRecorded
<1>2. ASSUME NEW t \in Tasks, ResumeRead(s, t) PROVE IInv'
  BY <1>2 DEF ResumeRead, Free
<1>3. ASSUME ResumeCheck(s) PROVE IInv'
  BY <1>3 DEF ResumeCheck, WorkerDead
<1>4. ASSUME ResumeStart(s) PROVE IInv'
  BY <1>4 DEF ResumeStart
<1>q. QED BY <1>1, <1>2, <1>3, <1>4 DEF Resume

\* Exceptions, deaths and restarts.
LEMMA FaultKeeps ==
    ASSUME IInv, NEW p \in Pids, Fault(p)
    PROVE  IInv'
<1> USE DEF row, locals, IInv, TypeOK, OwnerHolds, WorkingRow, SnapOK, SlicesLeft,
            OpenOpsInAgent, OpenOpsAreRecorded
<1>1. ASSUME NEW t \in Tasks, Unwind(p, t) PROVE IInv'
  BY <1>1 DEF Unwind, Forget
<1>2. ASSUME NEW t \in Tasks, Escape(p, t) PROVE IInv'
  BY <1>2 DEF Escape
<1>3. ASSUME Crash(p) PROVE IInv'
  BY <1>3 DEF Crash
<1>4. ASSUME Restart(p) PROVE IInv'
  BY <1>4 DEF Restart
<1>q. QED BY <1>1, <1>2, <1>3, <1>4 DEF Fault

\* Every step keeps the invariant.
LEMMA NextKeeps == IInv /\ [Next]_vars => IInv'
<1> SUFFICES ASSUME IInv, [Next]_vars PROVE IInv'
  OBVIOUS
<1>1. CASE UNCHANGED vars
  BY <1>1 DEF vars, locals, IInv, TypeOK, OwnerHolds, WorkingRow, SnapOK, SlicesLeft,
              OpenOpsInAgent, OpenOpsAreRecorded
<1>2. CASE Next
  BY <1>2, WorkKeeps, RequestKeeps, ResumeKeeps, FaultKeeps DEF Next
<1>3. QED BY <1>1, <1>2

-----------------------------------------------------------------------------
\* The inductive invariant holds in every reachable state.
THEOREM Invariance == Spec => []IInv
<1>1. Init => IInv
  BY InitIInv
<1>2. IInv /\ [Next]_vars => IInv'
  BY NextKeeps
<1>3. QED BY <1>1, <1>2, PTL DEF Spec

\* Type correctness.
THEOREM TypeCorrect == Spec => []TypeOK
<1>1. IInv => TypeOK
  BY DEF IInv
<1>2. QED BY <1>1, Invariance, PTL

\* A worker's process lives, and the row records its pid.
THEOREM OwnersHold == Spec => []OwnerHolds
<1>1. IInv => OwnerHolds
  BY DEF IInv
<1>2. QED BY <1>1, Invariance, PTL

\* Exactly one worker per task, in every interleaving of claims, recoveries,
\* deletions, crashes and restarts, with pids reused or not.
THEOREM MutualExclusion == Spec => []SingleWorker
<1>1. IInv => SingleWorker
  BY DEF IInv, OwnerHolds, SingleWorker
<1>2. QED BY <1>1, Invariance, PTL

\* A task shown as ended or completed has no worker at work.
THEOREM OverIsIdle == Spec => []OverMeansIdle
<1>1. IInv => OverMeansIdle
  BY DEF IInv, WorkingRow, OverMeansIdle
<1>2. QED BY <1>1, Invariance, PTL

\* Every operation open in a live worker is recorded as started.
THEOREM OpenOpsRecorded == Spec => []OpenOpsAreRecorded
<1>1. IInv => OpenOpsAreRecorded
  BY DEF IInv
<1>2. QED BY <1>1, Invariance, PTL

=============================================================================
