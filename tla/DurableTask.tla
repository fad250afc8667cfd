---------------------------- MODULE DurableTask ----------------------------
(***************************************************************************)
(* Durable tasks: task_runtime.py (TaskStore, TaskRuntime, run_task), the  *)
(* task endpoints of web_server.py and the /task command of cli.py.        *)
(*                                                                         *)
(* Several operating-system processes share one SQLite file.  Each         *)
(* statement or BEGIN IMMEDIATE block of the store is one action; whatever *)
(* the code reads before a later statement is kept in a local variable     *)
(* (snap, req), so other processes may run in between.  A process may die  *)
(* between any two actions.  A web server runs each task in a thread; the  *)
(* command line runs one task in its foreground.                           *)
(***************************************************************************)
EXTENDS Naturals, FiniteSets

CONSTANTS Tasks,      \* task ids (uuid4: an id is never used twice)
          Pids,       \* operating-system process ids
          Servers,    \* the processes that are web servers; the others are CLIs
          Ops,        \* ids of the operation ledger, per task (a bound)
          MaxSlices,  \* run_task's max_slices (8 in both callers)
          NoPid,      \* worker_pid = 0
          ReusePids   \* TRUE: a process may start again under a dead one's pid

ASSUME ServersAssumption == Servers \subseteq Pids
ASSUME NoPidAssumption == NoPid \notin Pids
ASSUME MaxSlicesAssumption == MaxSlices \in Nat \ {0}
ASSUME ReusePidsAssumption == ReusePids \in BOOLEAN

VARIABLES state,  \* the tasks table: its state column
          worker, \* ... and its worker_pid column
          ops,    \* the task_operations table
          alive,  \* the live processes
          pc,     \* where process p's worker for task t is in run_task
          snap,   \* the state that worker read and will write back
          left,   \* slices its loop may still begin
          cur,    \* ledger operations its tool calls have open
          req     \* the resume request a server is serving

row == <<state, worker>>
vars == <<state, worker, ops, alive, pc, snap, left, cur, req>>
locals == <<snap, left, cur>>

Live == {"queued", "running", "paused"}
Ending == {"cancelling", "cancelled"}
RowStates == Live \cup Ending \cup {"completed"}
\* "absent": not yet created; "gone": deleted
NoRow == {"absent", "gone"}
OpStates == {"unused", "started", "completed", "blocked", "unknown"}

\* Inside run_task's try block: its finally will run finish_cancellation.
InAgent == {"agent", "toolDone", "save"}
Guarded == InAgent \cup {"top", "answered", "answerSave", "saved", "judge",
                         "exhausted", "failed", "failSave", "leave"}
\* From a successful claim until finish_cancellation.
Owning == Guarded \cup {"claimed"}
Entering == {"enter", "endingCheck", "endingRecover", "runningCheck",
             "runningRecover", "claim"}
\* "leaked": its exception has left run_task and nothing gave its claim back.
PcStates == Owning \cup Entering \cup {"idle", "closing", "leaked"}

NoReq == [step |-> "none"]
ReqStates == [step : {"check", "recover", "start"}, task : Tasks,
              state : RowStates, pid : Pids \cup {NoPid}]

TypeOK ==
    /\ state \in [Tasks -> RowStates \cup NoRow]
    /\ worker \in [Tasks -> Pids \cup {NoPid}]
    /\ ops \in [Tasks -> [Ops -> OpStates]]
    /\ alive \in SUBSET Pids
    /\ pc \in [Pids -> [Tasks -> PcStates]]
    /\ snap \in [Pids -> [Tasks -> RowStates]]
    /\ left \in [Pids -> [Tasks -> 0..MaxSlices]]
    /\ cur \in [Pids -> [Tasks -> SUBSET Ops]]
    /\ req \in [Servers -> ReqStates \cup {NoReq}]

-----------------------------------------------------------------------------
(* The store.                                                              *)

Present(t) == state[t] \notin NoRow

\* process_is_alive(worker_pid) is false; pid 0 never is.
WorkerDead(t) == worker[t] \notin alive

\* Mutant: update without the CASE.
WrittenBlindly(old, new) == new

\* TaskStore.update's CASE: a requested cancellation outlives later writes.
Written(old, new) == IF old = "cancelling" /\ new # "cancelled" THEN old ELSE new

SetState(t, s) ==
    /\ state' = [state EXCEPT ![t] = Written(@, s)]
    /\ UNCHANGED worker

\* Mutant: recover trusts the caller's liveness check instead of repeating it.
RecoverUnchecked(t) ==
    /\ state[t] \in {"running", "queued", "cancelling"}
    /\ ~(state[t] = "queued" /\ worker[t] = NoPid)

RecoverApplies(t) ==
    /\ state[t] \in {"running", "queued", "cancelling"}
    /\ ~(state[t] = "queued" /\ worker[t] = NoPid)
    /\ WorkerDead(t)

\* Mutant: every operation of the task becomes unknown, finished ones too.
RecoverAllOps(t) ==
    /\ state' = IF RecoverApplies(t) THEN [state EXCEPT ![t] = "paused"] ELSE state
    /\ worker' = IF RecoverApplies(t) THEN [worker EXCEPT ![t] = NoPid] ELSE worker
    /\ ops' = IF RecoverApplies(t)
              THEN [ops EXCEPT ![t] = [o \in Ops |-> "unknown"]] ELSE ops

\* TaskStore.recover: re-reads the row under the write lock and does nothing
\* unless the recorded worker is dead.
Recovered(s) == IF s = "cancelling" THEN "cancelled" ELSE "paused"
Interrupted(s) == IF s = "started" THEN "unknown" ELSE s

Recover(t) ==
    /\ state' = IF RecoverApplies(t)
                THEN [state EXCEPT ![t] = Recovered(@)] ELSE state
    /\ worker' = IF RecoverApplies(t)
                 THEN [worker EXCEPT ![t] = NoPid] ELSE worker
    /\ ops' = IF RecoverApplies(t)
              THEN [ops EXCEPT ![t] = [o \in Ops |-> Interrupted(ops[t][o])]] ELSE ops

-----------------------------------------------------------------------------
(* Requests.  A server serves one request at a time (its handlers never    *)
(* await); a CLI takes a command only when no task runs in its foreground. *)

Free(p) ==
    /\ p \in alive
    /\ IF p \in Servers THEN req[p] = NoReq ELSE \A t \in Tasks : pc[p][t] = "idle"

\* POST /api/tasks and /task start: the row is inserted as queued, unowned; the
\* server's thread then enters run_task with its id, the CLI goes on to claim.
Create(p, t) ==
    /\ Free(p)
    /\ state[t] = "absent"
    /\ state' = [state EXCEPT ![t] = "queued"]
    /\ pc' = [pc EXCEPT ![p][t] = IF p \in Servers THEN "enter" ELSE "claim"]
    /\ UNCHANGED <<worker, ops, alive, locals, req>>

\* Mutants: a cancellation that is final at once, and one of a completed task.
CancelAtOnce(p, t) ==
    /\ Free(p)
    /\ Present(t) /\ state[t] # "completed"
    /\ state' = [state EXCEPT ![t] = "cancelled"]
    /\ UNCHANGED <<worker, ops, alive, pc, locals, req>>

CancelAnything(p, t) ==
    /\ Free(p) /\ Present(t)
    /\ state' = [state EXCEPT ![t] =
                    IF worker[t] # NoPid THEN "cancelling" ELSE "cancelled"]
    /\ UNCHANGED <<worker, ops, alive, pc, locals, req>>

\* TaskStore.cancel: a completed task is left alone.
Cancel(p, t) ==
    /\ Free(p)
    /\ Present(t) /\ state[t] # "completed"
    /\ state' = [state EXCEPT ![t] =
                    IF @ \in {"running", "cancelling"} \/ worker[t] # NoPid
                    THEN "cancelling" ELSE "cancelled"]
    /\ UNCHANGED <<worker, ops, alive, pc, locals, req>>

\* Mutant: a cancelling task is settled without asking whether its worker lives.
DeleteUnderWorker(p, t) ==
    /\ Free(p)
    /\ state[t] \in {"cancelling", "cancelled", "completed"}
    /\ state' = [state EXCEPT ![t] = "gone"]
    /\ worker' = [worker EXCEPT ![t] = NoPid]
    /\ ops' = [ops EXCEPT ![t] = [o \in Ops |-> "unused"]]
    /\ UNCHANGED <<alive, pc, locals, req>>

\* TaskStore.delete: one BEGIN IMMEDIATE block.  A cancellation whose worker is
\* dead is settled by it; otherwise the row goes only if it is unowned and over.
Deletable(t) ==
    \/ state[t] = "cancelling" /\ WorkerDead(t)
    \/ state[t] \in {"paused", "completed", "cancelled"} /\ worker[t] = NoPid

Delete(p, t) ==
    /\ Free(p)
    /\ Deletable(t)
    /\ state' = [state EXCEPT ![t] = "gone"]
    /\ worker' = [worker EXCEPT ![t] = NoPid]
    /\ ops' = [ops EXCEPT ![t] = [o \in Ops |-> "unused"]]
    /\ UNCHANGED <<alive, pc, locals, req>>

\* /task resume resolves the id and calls run_task.
ResumeCli(p, t) ==
    /\ Free(p) /\ p \notin Servers
    /\ Present(t)
    /\ pc' = [pc EXCEPT ![p][t] = "enter"]
    /\ UNCHANGED <<row, ops, alive, locals, req>>

\* POST /api/tasks/{id}/resume, first read.
ResumeRead(s, t) ==
    /\ Free(s) /\ Present(t)
    /\ req' = [req EXCEPT ![s] = [step |-> "check", task |-> t,
                                  state |-> state[t], pid |-> worker[t]]]
    /\ UNCHANGED <<row, ops, alive, pc, locals>>

\* 409 if a worker is in this process or the recorded one lives.  The state is
\* the one read before; worker_is_alive reads the row again.
ResumeCheck(s) ==
    /\ s \in alive /\ req[s].step = "check"
    /\ LET r == req[s]
           busy == /\ r.state \in {"running", "queued", "cancelling"}
                   /\ pc[s][r.task] # "idle" \/ ~WorkerDead(r.task)
           next == IF \/ r.state \in {"running", "cancelling"}
                      \/ r.state = "queued" /\ r.pid # NoPid
                   THEN "recover" ELSE "start"
       IN  req' = [req EXCEPT ![s] = 
                  IF busy THEN NoReq
                  ELSE [step |-> next, task |-> r.task, state |-> r.state, pid |-> r.pid]]
    /\ UNCHANGED <<row, ops, alive, pc, locals>>

ResumeRecover(s) ==
    /\ s \in alive /\ req[s].step = "recover"
    /\ Recover(req[s].task)
    /\ req' = [req EXCEPT ![s] =
                  LET t == req[s].task IN
                  IF state'[t] \in NoRow THEN NoReq
                  ELSE [step |-> "start", task |-> t,
                        state |-> state'[t], pid |-> worker'[t]]]
    /\ UNCHANGED <<alive, pc, locals>>

\* 409 for a task that is over; otherwise _start_durable_task, which does
\* nothing when this process still has a worker registered for the task.
ResumeStart(s) ==
    /\ s \in alive /\ req[s].step = "start"
    /\ LET t == req[s].task IN
       pc' = IF req[s].state \in {"completed", "cancelled"} \/ pc[s][t] # "idle"
             THEN pc ELSE [pc EXCEPT ![s][t] = "enter"]
    /\ req' = [req EXCEPT ![s] = NoReq]
    /\ UNCHANGED <<row, ops, alive, locals>>

-----------------------------------------------------------------------------
(* run_task with a task id, up to the claim.                               *)

\* A local that is not read again has its initial value.
Forget(p, t) == snap' = [snap EXCEPT ![p][t] = "queued"]

At(p, t, label) == p \in alive /\ pc[p][t] = label
Goto(p, t, label) == pc' = [pc EXCEPT ![p][t] = label]

Enter(p, t) ==
    /\ At(p, t, "enter")
    /\ Goto(p, t, CASE state[t] \in NoRow \cup {"completed", "cancelled"} -> "closing"
                    [] state[t] = "cancelling" -> "endingCheck"
                    [] \/ state[t] = "running"
                       \/ state[t] = "queued" /\ worker[t] # NoPid -> "runningCheck"
                    [] OTHER -> "claim")
    /\ UNCHANGED <<row, ops, alive, locals, req>>

\* worker_is_alive reads the row again.
CheckEnding(p, t) ==
    /\ At(p, t, "endingCheck")
    /\ Goto(p, t, IF WorkerDead(t) THEN "endingRecover" ELSE "closing")
    /\ UNCHANGED <<row, ops, alive, locals, req>>

CheckRunning(p, t) ==
    /\ At(p, t, "runningCheck")
    /\ Goto(p, t, IF WorkerDead(t) THEN "runningRecover" ELSE "closing")
    /\ UNCHANGED <<row, ops, alive, locals, req>>

RecoverEnding(p, t) ==
    /\ At(p, t, "endingRecover") /\ Recover(t)
    /\ Goto(p, t, "closing")
    /\ UNCHANGED <<alive, locals, req>>

RecoverRunning(p, t) ==
    /\ At(p, t, "runningRecover") /\ Recover(t)
    /\ Goto(p, t, "claim")
    /\ UNCHANGED <<alive, locals, req>>

\* Mutant: the claim's WHERE clause forgets worker_pid=0.
ClaimableUnowned(t) == state[t] \in {"queued", "paused"}

\* TaskStore.claim: one guarded UPDATE, whose row count tells the outcome.
Claimable(t) == state[t] \in {"queued", "paused"} /\ worker[t] = NoPid

Claim(p, t) ==
    /\ At(p, t, "claim") /\ Claimable(t)
    /\ state' = [state EXCEPT ![t] = "running"]
    /\ worker' = [worker EXCEPT ![t] = p]
    /\ Goto(p, t, "claimed")
    /\ UNCHANGED <<ops, alive, locals, req>>

ClaimFails(p, t) ==
    /\ At(p, t, "claim") /\ ~Claimable(t)
    /\ Goto(p, t, "closing")
    /\ UNCHANGED <<row, ops, alive, locals, req>>

-----------------------------------------------------------------------------
(* _run_claimed_task.                                                      *)

EnterTry(p, t) ==
    /\ At(p, t, "claimed")
    /\ Goto(p, t, "top")
    /\ left' = [left EXCEPT ![p][t] = MaxSlices]
    /\ UNCHANGED <<row, ops, alive, snap, cur, req>>

\* The head of the slice loop: read the row, leave if the task is ending.
BeginSlice(p, t) ==
    /\ At(p, t, "top")
    /\ Goto(p, t, IF state[t] \in Ending THEN "leave" ELSE "agent")
    /\ left' = [left EXCEPT ![p][t] = IF state[t] \in Ending THEN @ ELSE @ - 1]
    /\ UNCHANGED <<row, ops, alive, snap, cur, req>>

\* exec_tool -> before_tool -> start_operation, before the tool runs.
StartOperation(p, t) ==
    /\ At(p, t, "agent")
    /\ \E o \in Ops :
          /\ ops[t][o] = "unused"
          /\ ops' = [ops EXCEPT ![t][o] = "started"]
          /\ cur' = [cur EXCEPT ![p][t] = @ \cup {o}]
    /\ UNCHANGED <<row, alive, pc, snap, left, req>>

\* after_tool -> finish_operation; the checkpoint of the messages follows.
FinishOperation(p, t) ==
    /\ At(p, t, "agent")
    /\ \E o \in cur[p][t], s \in {"completed", "blocked"} :
          /\ ops' = [ops EXCEPT ![t][o] = s]
          /\ cur' = [cur EXCEPT ![p][t] = @ \ {o}]
    /\ Goto(p, t, "toolDone")
    /\ UNCHANGED <<row, alive, snap, left, req>>

\* TaskStore.checkpoint reads the row ...
SaveRead(p, t) ==
    /\ \/ At(p, t, "agent")       \* on_trajectory_state
       \/ At(p, t, "toolDone")    \* after_tool
    /\ Goto(p, t, "save")
    /\ snap' = [snap EXCEPT ![p][t] = state[t]]
    /\ UNCHANGED <<row, ops, alive, left, cur, req>>

\* ... and a later statement writes the state it read back.
SaveWrite(p, t) ==
    /\ At(p, t, "save")
    /\ SetState(t, snap[p][t])
    /\ Forget(p, t)
    /\ Goto(p, t, "agent")
    /\ UNCHANGED <<ops, alive, left, cur, req>>

AgentReturns(p, t) ==
    /\ At(p, t, "agent") /\ cur[p][t] = {}
    /\ Goto(p, t, "answered")
    /\ UNCHANGED <<row, ops, alive, locals, req>>

\* An exception inside the agent call; open operations are simply abandoned.
AgentRaises(p, t) ==
    /\ p \in alive /\ pc[p][t] \in InAgent
    /\ Goto(p, t, "failed")
    /\ cur' = [cur EXCEPT ![p][t] = {}]
    /\ Forget(p, t)
    /\ UNCHANGED <<row, ops, alive, left, req>>

\* The exception handler chooses the state to write from a first read ...
FailRead(p, t) ==
    /\ At(p, t, "failed")
    /\ snap' = [snap EXCEPT ![p][t] =
                   IF state[t] = "cancelling" THEN "cancelled" ELSE "paused"]
    /\ Goto(p, t, "failSave")
    /\ UNCHANGED <<row, ops, alive, left, cur, req>>

\* ... and writes it through the guarded update.
FailWrite(p, t) ==
    /\ At(p, t, "failSave")
    /\ SetState(t, snap[p][t])
    /\ Forget(p, t)
    /\ Goto(p, t, "leave")
    /\ UNCHANGED <<ops, alive, left, cur, req>>

\* The checkpoint of the answer: read, write, then the row is read again.
AnswerRead(p, t) ==
    /\ At(p, t, "answered")
    /\ snap' = [snap EXCEPT ![p][t] = state[t]]
    /\ Goto(p, t, "answerSave")
    /\ UNCHANGED <<row, ops, alive, left, cur, req>>

AnswerWrite(p, t) ==
    /\ At(p, t, "answerSave")
    /\ SetState(t, snap[p][t])
    /\ Forget(p, t)
    /\ Goto(p, t, "saved")
    /\ UNCHANGED <<ops, alive, left, cur, req>>

CheckEnded(p, t) ==
    /\ At(p, t, "saved")
    /\ Goto(p, t, IF state[t] \in Ending THEN "leave" ELSE "judge")
    /\ UNCHANGED <<row, ops, alive, locals, req>>

\* The verdict says done (TASK_COMPLETE, or an explicit verifier).
Complete(p, t) ==
    /\ At(p, t, "judge")
    /\ SetState(t, "completed")
    /\ Goto(p, t, "leave")
    /\ UNCHANGED <<ops, alive, locals, req>>

\* Mutant: the slice loop has no end.
RequeueForever(p, t) ==
    /\ At(p, t, "judge")
    /\ SetState(t, "queued")
    /\ Goto(p, t, "top")
    /\ UNCHANGED <<ops, alive, locals, req>>

\* Not done: checkpoint as queued, still owned, and go round or run out.
Requeue(p, t) ==
    /\ At(p, t, "judge")
    /\ SetState(t, "queued")
    /\ Goto(p, t, IF left[p][t] = 0 THEN "exhausted" ELSE "top")
    /\ UNCHANGED <<ops, alive, locals, req>>

Exhaust(p, t) ==
    /\ At(p, t, "exhausted")
    /\ SetState(t, "paused")
    /\ Goto(p, t, "leave")
    /\ UNCHANGED <<ops, alive, locals, req>>

\* Mutants: only a cancelled worker gives its claim back, and a cancellation
\* whose worker has left stays requested.
FinishOnlyCancelled(p, t) ==
    /\ At(p, t, "leave")
    /\ state' = [state EXCEPT ![t] = IF @ = "cancelling" THEN "cancelled" ELSE @]
    /\ worker' = [worker EXCEPT ![t] = IF state[t] = "cancelling" THEN NoPid ELSE @]
    /\ Goto(p, t, "closing")
    /\ UNCHANGED <<ops, alive, locals, req>>

FinishReleaseOnly(p, t) ==
    /\ At(p, t, "leave")
    /\ worker' = [worker EXCEPT ![t] = NoPid]
    /\ Goto(p, t, "closing")
    /\ UNCHANGED <<state, ops, alive, locals, req>>

\* run_task's finally: finish_cancellation, one transaction.
FinishCancellation(p, t) ==
    /\ At(p, t, "leave")
    /\ state' = [state EXCEPT ![t] = IF @ = "cancelling" THEN "cancelled" ELSE @]
    /\ worker' = [worker EXCEPT ![t] = NoPid]
    /\ Goto(p, t, "closing")
    /\ UNCHANGED <<ops, alive, locals, req>>

\* The worker unregisters (the server's _durable_task_workers.discard).
Close(p, t) ==
    /\ At(p, t, "closing") \/ At(p, t, "leaked")
    /\ Goto(p, t, "idle")
    /\ left' = [left EXCEPT ![p][t] = 0]
    /\ UNCHANGED <<row, ops, alive, snap, cur, req>>

-----------------------------------------------------------------------------
(* Faults.                                                                 *)

\* An exception past the agent's handler (a locked database, on_slice, Ctrl-C
\* at the CLI) unwinds to run_task's finally.
Unwind(p, t) ==
    /\ p \in alive /\ pc[p][t] \in Guarded \ {"leave"}
    /\ Goto(p, t, "leave")
    /\ cur' = [cur EXCEPT ![p][t] = {}]
    /\ Forget(p, t)
    /\ UNCHANGED <<row, ops, alive, left, req>>

\* An exception outside run_task's try block (a locked database, Ctrl-C at the
\* CLI): in a statement before the claim, in the reads between it and the block,
\* or in finish_cancellation, which writes nothing then.  Whoever called run_task
\* catches it, and a claim made by then stays.
Escape(p, t) ==
    /\ p \in alive /\ pc[p][t] \in Entering \cup {"claimed", "leave"}
    /\ Goto(p, t, IF pc[p][t] \in Owning THEN "leaked" ELSE "closing")
    /\ UNCHANGED <<row, ops, alive, locals, req>>

Crash(p) ==
    /\ p \in alive
    /\ alive' = alive \ {p}
    /\ pc' = [pc EXCEPT ![p] = [t \in Tasks |-> "idle"]]
    /\ cur' = [cur EXCEPT ![p] = [t \in Tasks |-> {}]]
    /\ req' = [s \in Servers |-> IF s = p THEN NoReq ELSE req[s]]
    /\ snap' = [snap EXCEPT ![p] = [t \in Tasks |-> "queued"]]
    /\ left' = [left EXCEPT ![p] = [t \in Tasks |-> 0]]
    /\ UNCHANGED <<row, ops>>

\* The process is started again and gets the same pid, as the entry point of a
\* container always does (docker-entrypoint.sh execs it as pid 1).
Restart(p) ==
    /\ ReusePids /\ p \in Pids \ alive
    /\ alive' = alive \cup {p}
    /\ UNCHANGED <<row, ops, pc, locals, req>>

-----------------------------------------------------------------------------
Init ==
    /\ state = [t \in Tasks |-> "absent"]
    /\ worker = [t \in Tasks |-> NoPid]
    /\ ops = [t \in Tasks |-> [o \in Ops |-> "unused"]]
    /\ alive = Pids
    /\ pc = [p \in Pids |-> [t \in Tasks |-> "idle"]]
    /\ snap = [p \in Pids |-> [t \in Tasks |-> "queued"]]
    /\ left = [p \in Pids |-> [t \in Tasks |-> 0]]
    /\ cur = [p \in Pids |-> [t \in Tasks |-> {}]]
    /\ req = [s \in Servers |-> NoReq]

EnterRun(p, t) ==
    \/ Enter(p, t) \/ CheckEnding(p, t) \/ CheckRunning(p, t)
    \/ RecoverEnding(p, t) \/ RecoverRunning(p, t)
    \/ Claim(p, t) \/ ClaimFails(p, t)

AgentEnds(p, t) == AgentReturns(p, t) \/ AgentRaises(p, t)

InSlice(p, t) ==
    \/ StartOperation(p, t) \/ FinishOperation(p, t)
    \/ SaveRead(p, t) \/ SaveWrite(p, t) \/ AgentEnds(p, t)

AfterSlice(p, t) ==
    \/ FailRead(p, t) \/ FailWrite(p, t)
    \/ AnswerRead(p, t) \/ AnswerWrite(p, t) \/ CheckEnded(p, t)
    \/ Complete(p, t) \/ Requeue(p, t) \/ Exhaust(p, t)

Work(p, t) ==
    \/ EnterRun(p, t) \/ EnterTry(p, t) \/ BeginSlice(p, t)
    \/ InSlice(p, t) \/ AfterSlice(p, t)
    \/ FinishCancellation(p, t) \/ Close(p, t)

Request(p, t) == Create(p, t) \/ Cancel(p, t) \/ Delete(p, t) \/ ResumeCli(p, t)

Resume(s) ==
    \/ \E t \in Tasks : ResumeRead(s, t)
    \/ ResumeCheck(s) \/ ResumeRecover(s) \/ ResumeStart(s)

Fault(p) ==
    \/ \E t \in Tasks : Unwind(p, t) \/ Escape(p, t)
    \/ Crash(p) \/ Restart(p)

Next ==
    \/ \E p \in Pids, t \in Tasks : Work(p, t) \/ Request(p, t)
    \/ \E s \in Servers : Resume(s)
    \/ \E p \in Pids : Fault(p)

Spec == Init /\ [][Next]_vars

\* A worker thread that is not dead keeps running, and the agent call returns or
\* raises after finitely many tools and checkpoints: it is bounded by
\* slice_turns, every model request by its timeout.
Fairness ==
    \A p \in Pids, t \in Tasks :
        /\ WF_vars(Work(p, t))
        /\ SF_vars(AgentEnds(p, t))

FairSpec == Spec /\ Fairness
-----------------------------------------------------------------------------
(* Properties.                                                             *)

Owns(p, t) == pc[p][t] \in Owning

\* The worker that believes it owns a task is the one the row records, its
\* process lives, and the row is there for its checkpoints to find.
OwnerHolds ==
    \A p \in Pids, t \in Tasks :
        Owns(p, t) => p \in alive /\ worker[t] = p /\ Present(t)

\* "Atomically claim a queued or paused task for exactly one worker": whatever
\* the interleaving of claims, recoveries, deletions, crashes and restarts, two
\* processes never run the same task.
SingleWorker ==
    \A t \in Tasks, p, q \in Pids : Owns(p, t) /\ Owns(q, t) => p = q

\* A row shown as ended or completed is not being worked on: its worker has
\* at most the release of its claim left to do.
OverMeansIdle ==
    \A p \in Pids, t \in Tasks :
        state[t] \in {"cancelled", "completed"} /\ Owns(p, t) => pc[p][t] = "leave"

\* A live worker's claim cannot be taken away by a recovery, a deletion or a
\* second resume in another process: only the worker or its death ends it.
ClaimIsKept ==
    [][\A p \in Pids, t \in Tasks :
          Owns(p, t) /\ p \in alive' /\ worker'[t] # p
             => pc[p][t] = "leave" /\ pc'[p][t] = "closing"]_vars

\* Once a user has ended a task no write of its worker, read before the request
\* or after, revives it; it can only be deleted.
CancelIsFinal ==
    [][\A t \in Tasks :
          state[t] \in Ending => state'[t] \in Ending \cup {"gone"}]_vars

\* A completed task stays completed until it is deleted.
CompletedIsFinal ==
    [][\A t \in Tasks :
          state[t] = "completed" => state'[t] \in {"completed", "gone"}]_vars

\* The operation ledger is append-only: a result is recorded once, and recovery
\* marks an operation unknown only when no worker still has it open.
LedgerAppendOnly ==
    [][\A t \in Tasks, o \in Ops :
          /\ ops[t][o] \in {"completed", "blocked", "unknown"} /\ state'[t] # "gone"
                => ops'[t][o] = ops[t][o]
          /\ ops'[t][o] = "unknown" /\ ops[t][o] # "unknown"
                => \A p \in Pids : o \notin cur[p][t]]_vars

\* The ledger and the workers agree: every operation a live worker has open is
\* recorded as started, so a crash at any point leaves a trace of it.
OpenOpsAreRecorded ==
    \A p \in Pids, t \in Tasks : \A o \in cur[p][t] : ops[t][o] = "started"

\* A task the user ends while its worker runs is eventually ended: the worker
\* notices at a slice boundary or leaves, unless its process dies first or the
\* one transaction that gives the claim back fails.
EndIsHonoured ==
    \A p \in Pids, t \in Tasks :
        (pc[p][t] \in Guarded /\ state[t] = "cancelling")
            ~> (state[t] \in {"cancelled", "gone"} \/ p \notin alive \/ pc[p][t] = "leaked")

\* Whatever fails in its slices, a live worker gives its claim back, so that the
\* task can be resumed, ended or deleted without a restart; only a failure of
\* that transaction itself, which the code neither catches nor repeats, keeps it.
ClaimIsReleased ==
    \A p \in Pids, t \in Tasks :
        pc[p][t] \in Guarded ~> (worker[t] # p \/ p \notin alive \/ pc[p][t] = "leaked")

\* "Mark one task interrupted by a process death as resumable": an unfinished
\* task whose worker is dead can be claimed, or recovered and then claimed.
InterruptedIsResumable ==
    \A t \in Tasks :
        state[t] \in Live /\ WorkerDead(t)
            => worker[t] = NoPid \/ RecoverApplies(t)

\* The command reference calls these tasks restart-safe: starting a process
\* does not hide from recovery a task that the previous one left running.
RestartSafe ==
    [][\A p \in Pids, t \in Tasks :
          p \in alive' \ alive /\ state[t] = "running" /\ worker[t] = p
             => RecoverApplies(t)']_vars

\* The store implements the life of a task: rows and claims map to it.
LifeOf(s) ==
    CASE s \in Live -> "open"
      [] s \in Ending -> "ended"
      [] s = "completed" -> "done"
      [] OTHER -> s

LifeMap == [t \in Tasks |-> LifeOf(state[t])]

HolderMap ==
    [t \in Tasks |-> IF worker[t] \in Pids /\ Owns(worker[t], t)
                      THEN worker[t] ELSE NoPid]

Lifecycle == INSTANCE TaskLifecycle WITH Workers <- Pids, Nobody <- NoPid,
                                         life <- LifeMap, holder <- HolderMap

\* Every behaviour of the processes is, seen through the map, a task life with
\* one holder at a time, a final end, and no deletion under a holder.
ImplementsLifecycle == Lifecycle!Spec
=============================================================================
