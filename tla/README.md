# AGENT8088: TLA+ models, checks and proofs

AGENT8088 is a self-hosted agent: an engine that runs a language model in a loop
with tools (`src/src/agent8088/engine.py`), and four front ends that drive it: the
terminal (`cli.py`), a web server (`web_server.py`), a gateway to messaging
platforms (`gateway/`) and durable tasks (`task_runtime.py`), which survive the
process that started them. This directory models the parts in which processes,
threads and messages interleave, and keeps the models next to the code they are
translated from. `PROJECT.json` lists, for every definition, the lines it stands for.

Paths below are relative to `src/src/agent8088/` unless they start with `src/`.

## How to run

    tlc -workers 2 -config ServerSafety.cfg MCServer    # any run of PROJECT.json
    tlapm DurableTaskProofs.tla                         # any *Proofs.tla

## The system

| Part | State it keeps | Operations | Why it is hard |
|---|---|---|---|
| Durable tasks: `task_runtime.py`, endpoints `web_server.py:748-900`, `/task` in `cli.py:3195-3330` | one SQLite file: `tasks` rows (state, worker pid), `task_operations` ledger; per process the workers that run | create, claim, checkpoint, cancel, recover, delete, resume, the slice loop | several processes share the file; they die and come back with the same pid; state is read in one transaction and written in another |
| Gateway: `gateway/runner.py`, `session.py`, `agent_bridge.py`, `platforms/` | active sessions, queues, turn lock, interrupt flag, pending approvals, chat modes, session files | `on_message`, eight slash commands, the turn and its thread, replay of queued messages | an event loop and an agent thread share state without locks; all turns share the engine's permission globals |
| Web server: `web_server.py` | turn lock, view lock, the viewed session `C.S`, the running session, approval entries by id, session files | socket frames, chat turns, slash commands, session endpoints, direct tools | coroutines, worker threads and REST handlers share globals; the lock is handed from a coroutine to a thread |
| Engine, permissions and plans: `engine.py:1080-1290, 2196-2293, 8234-8520, 8794-8976` | mode, one-shot grants, push grant, plan session, sub-agent floor | `set_permission_mode`, `check_permission`, `grant_escalation`, `present_plan`, `execute_plan`, `spawn_subagent` | process globals that nested runs save, narrow and restore, with exceptions on the way |
| Engine, agent loop: `engine.py:17506-21558` | messages, budgets, breakers, compaction | rounds, tools, approvals, interrupts | long sequences of small counters; nested budgets; exceptions that unwind through runs |
| Trajectory: `trajectory.py`, called from `engine.py:21087-21143` | per session, saved with it: recent operations, verification level, failing check, files written, marks of the mutation count at which something ran or passed | `before_tool`, `after_tool`, `record_smoke`, `request_verification`, `assurance` | evidence of one state of the work is read at a later one; state carries over requests; a call may never return |
| Memory: `memory/` | sqlite or mem0 store | remember, recall, background extraction | a writer thread per turn |
| Tools, providers, routing, fusion, MCP, browser, documents, search | mostly none of their own | functions of their inputs, I/O | external behaviour |
| Terminal: `cli.py` | one session, approvals for the session, the ESC flag | `/mode`, `/plan`, prompts, ESC, commands | one thread, but any order of commands, prompts, ESC and errors |

How they interact: every front end calls `run_agent`, which calls back for
approvals and status; they share its permission globals, so each has a lock of its
own that admits one turn at a time. Durable tasks call `run_agent` in slices and
talk to each other only through the SQLite file. Sessions are files that their
owner rewrites as a whole.

What makes each part correct:

* durable tasks: one worker per task, no claim lost while its worker lives, a user's
  end is final, every tool call that was under way when a process died is on record,
  and what was interrupted can be resumed;
* gateway: one turn at a time, `/stop` and approvals act on the turn and the user
  they belong to, an answer counts once and never late, a mode stays with its chat,
  no queued message is stranded, `/new` is not undone;
* web server: each of its two locks belongs to the one turn, command or request that
  is in the stretch it protects and is given back on every path, a running chat is not
  pulled from under its turn, approvals stay with the chat they were given in;
* permissions: no grant outlives the call, turn or mode it was given for, a read-only
  sub-agent can neither use nor lose its parent's and changes only what the user approves to it, and a plan session comes back to the
  mode the user typed;
* agent loop: nested runs and document workers keep to one budget but for the calls in flight, a turn that was stopped does nothing more, a run that brings
  nothing new ends by itself, and its completion checks ask a bounded number of times;
* trajectory: an answer claims no more than the evidence since the work last changed, a failed check is not hidden by another
file's result, and one change brings one reminder.

## Modules

| Module | Role |
|---|---|
| `TaskLifecycle` | abstract: what the task store promises |
| `SharedEngine` | abstract: how a server with many chats uses the one engine; `Gateway` and `WebSessions` both implement it |
| `DurableTask` | the store, its workers, the endpoints and `/task`, crashes and restarts |
| `MCDurableTask` + 2 cfgs | instances for TLC |
| `DurableTaskProofs`, `DurableTaskStepProofs`, `DurableTaskRefinementProofs` | theorems about `DurableTask`: invariants, action properties, refinement |
| `Gateway` | the runner, its turns, the session store and the engine globals turns share |
| `MCGateway` + 4 cfgs | instances for TLC |
| `GatewayProofs` | theorems about `Gateway` |
| `WebSessions` | the web server's chats, locks, turns, commands, session endpoints and prompts |
| `MCWebSessions` + 1 cfg | instances for TLC |
| `WebSessionsProofs` | theorems about `WebSessions` |
| `AgentTurn` | a turn on the terminal: permission modes, plan sessions, approvals, sub-agents, audits, budgets, ESC |
| `AgentRun` | a run of the agent loop, round by round: cut-offs, repeats, malformed calls, stalls, completion checks and their allowances |
| `MCAgent`, `MCAgentTurn` + 2 cfgs | instances for TLC: both modules together, and `AgentTurn` alone |
| `AgentTurnProofs`, `AgentRunProofs` | theorems about `AgentTurn` and `AgentRun` |
| `MCServer` + `ServerSafety.cfg` | the web server: `DurableTask` and `WebSessions` together |
| `Trajectory` | what a session remembers of its work and claims of it in the answer |
| `MCTrajectory` + `TrajectorySafety.cfg` | an instance for TLC |
| `TrajectoryProofs` | theorems about `Trajectory` |
| `MCProgress` + `Progress.cfg` | what must eventually happen, in small instances of `Gateway`, `DurableTask` and `WebSessions` |

### SharedEngine

What `gateway/runner.py` and `web_server.py` have in common, without locks, threads, rooms or sockets: one owner has the engine at a time; only
the one that has it is told to stop or asks its user, and it leaves neither an order nor a question behind; a guest calls the model without owning the
engine: it comes only when nobody uses the engine, but keeps no owner out; and an allowance ("for the
session") is only given after an answer to the question of the turn that runs. `Shared` in `Gateway` maps it to `InThread`, `stopper`, the two tables of prompts and `scopes`,
without guests; `Shared` in `WebSessions` to the stretches that need the turn lock, the compactions that have none as guests, the interrupt events, the entries of prompts and `allowed`. The two reach it
in different ways: the gateway queues turns for its lock, the web server refuses a second turn, hands the lock to a thread and
lets a session request hold it too.

### DurableTask

Each SQL statement or `BEGIN IMMEDIATE` block is one action. A value that the code
reads in one statement and uses in a later one is a variable (`snap` for a
checkpoint's state, `req` for the resume endpoint), so any other process may act in
between.

| Variable | Code |
|---|---|
| `state`, `worker` | the columns `state` and `worker_pid` of `tasks` |
| `ops` | the table `task_operations` |
| `alive` | which processes exist; `process_is_alive` asks the operating system |
| `pc`, `left`, `cur` | where a worker is in `run_task`, its remaining slices, its open tool calls |
| `snap`, `req` | what a worker or a request handler has read and not yet used |

`Create`, `Cancel`, `Delete`, `Recover`, `Claim` and `FinishCancellation` are the
methods of `TaskStore`, each with its WHERE clause as its guard. `SaveRead` and
`SaveWrite` are the two halves of `checkpoint`, `FailRead` and `FailWrite` those of
the exception handler. `Crash` takes a process away between any two actions with all
of its workers and open calls, `Restart` brings it back under the same pid, as
`src/docker-entrypoint.sh:41` does, and `Unwind` is an exception past the agent's own handler, which reaches the `finally`.
`Escape` is one outside the `try` block of `run_task`, in servers and command lines alike: before the claim, in the two reads
between the claim and the block, or in `finish_cancellation` itself, whose transaction then writes nothing (a locked database,
Ctrl-C). Whoever called `run_task` catches it and nobody repeats the write, so a claim made by then stays: the worker is `"leaked"`.

The messages and the verdict of a slice are abstract: an agent call uses tools, saves,
returns or raises; `Complete` or `Requeue` follows.

### Gateway

`on_message` runs on one event loop; an action is what a coroutine does between two
awaits. The turn that holds the turn lock also has a thread, whose steps interleave
with the loop's.

| Variable | Code |
|---|---|
| `pc`, `author`, `pending`, `waiting` | `_active` and the program counter of a session's turn, whose message it answers, `_pending`, the queue of the turn lock |
| `turnKey`, `stopper` | `_turn_key`; `_interrupt`, with the session whose `/stop` set it |
| `chatMode`, `planKeys`, `scopes` | `_chat_modes`, `_plan_keys`, `_session_allowlist` |
| `asks`, `planAsks` | `_pending_approvals`, `_pending_plan_approvals`, by room |
| `engine` | `PERMISSION_MODE`, `_plan_return_mode`, `_plan_approved`, and whether a grant is unspent |
| `gen`, `file`, `loaded`, `token` | `SessionStore._generation`, the file, what `run_turn` loaded, the generation it read |
| `clearing` | the session whose `/new` is inside `SessionStore.clear` |
| `hits`, `spawned`, `reader`, `sent` | the rate limiter, replays under way, a sequential adapter's reader, the bound |

`Text`, the commands (`New` with `NewEnds`, `Stop`, `Answer`, `AnswerPlan`, `SetMode`, `Plan`, `Inform`)
and `RunSpawned` are `on_message`; `StartTurn`, `EndTurn`, `AbortTurn` and `Finish` are
`_run_turn` and the end of `on_message`; the rest is the thread (`agent_bridge.run_turn`,
the escalation callbacks and `SessionStore.save`). A prompt that times out is two steps,
`GiveUp` and `Withdraw`, with an answer possible in between. `/new` is two steps as well: `New` unlinks the file, `NewEnds` bumps the
generation and drops the rest. The loop does nothing else meanwhile (`LoopIsFree`), but the agent thread may.

Message texts are not modelled. A session file is the set of generations (counted by
`/new`) that its messages are from, which is all that `/new` has to get right. A queued
or follow-up message that is itself a slash command is represented by a typed one, and
the nonce of a Discord button is left out: a button answers as its command does. Two
turns of one session never overlap, and sessions that share a room share its prompts, as
in the code.

### WebSessions

Socket handlers, chat turns and session endpoints are coroutines of one event loop, so an
action is what one of them does between two awaits. The agent of a turn and the handler of a
command run in threads, whose steps fall between any two actions. A coroutine binds a Session and then tests
the turn lock without an await in between, but a thread may release the lock in that stretch: `BindView`, `BindFile` and
`BindNothing` are one action, `Reply` and `LockTurn` another, and `LoopFree` keeps the other coroutines out meanwhile.

| Variable | Code |
|---|---|
| `heap`, `view`, `running` | the live Session objects, `C.S`, `_running["session"]`; an object that nothing refers to is freed (`LiveObjects`, `Keep`) |
| `file`, `fresh` | `SESSIONS_DIR`: name, id and messages of a saved chat; ids that were never used |
| `lock`, `viewLock` | `_TURN_LOCK`, `_SESSION_VIEW_LOCK`, with the socket or the request that took it |
| `open`, `loc`, `frame`, `obj`, `was`, `stop` | a socket, where its frame is, the Session it is bound to, the view it has to restore, its interrupt event |
| `prompt`, `allowed` | the entry of `_pending_approvals`; `_session_allowlist` by Session id, with the chat in which the user approved |
| `rest` | a request to `/api/sessions/...`: whether the middleware holds the turn lock for it, and what a compaction has read |

`Receive` to `StartThread` are `websocket_endpoint` and `_handle_chat`, `Checkpoint` to `Release` the thread
`_handle_chat_locked._run`, `StartHandler` to `Leave` `_handle_command` with `cmd_new`, `cmd_resume` and `cmd_reset` of `cli.py`; `CallEndpoint` is the
middleware and the rest the endpoints. A chat's name serves as its id; `/new` and the endpoint `new` take a fresh one.
A message is the number of the frame that brought it, as a question or an answer. The summary of a compaction stands for
the messages it replaces. Drafts (chats without a name) are never saved, and their approvals are not recorded.

The middleware lets a session request through without the turn lock when a turn runs or the view lock is held. A compaction that then finds no turn running calls the
model all the same, beside whatever turn starts next: in `Shared` it is one of the `Guests`, and the others, with turns and commands, are `Using`.

### AgentTurn

One thread runs a turn; only ESC comes from another. An action is what happens between two tests of the ESC flag, two
prompts or two decisions of the model. Depth 0 is the main run, depth 1 the sub-agent it waits for.

| Variable | Code |
|---|---|
| `mode`, `returnMode`, `approved` | `PERMISSION_MODE`, `_plan_return_mode`, `_plan_approved` |
| `grants`, `pending`, `remote` | `_one_shot_grants`, `_pending_approval_key`, `_remote_git_grant` |
| `floor`, `sub` | `_permission_floor_readonly`; why the sub-agent runs and what its `finally` puts back |
| `denials`, `used`, `audits` | the denial breaker, the tokens of each depth's `_TurnBudget`, the audits of the turn |
| `flight` | the model calls that workers of `document_read` wait for |
| `loop`, `steps` | where each depth's loop is, the steps of `execute_plan` that are left |
| `always`, `stop` | the terminal's `_session_allowlist`, `EscListener.triggered` |
| `effect`, `owed`, `typed`, `agreed`, `failed`, `aborted` | what the properties speak of: the call that just took effect, approvals not yet used, the mode the user typed, the mode of an approved plan, an error or an ESC in this turn |

A call is a write (anything that `check_permission` gates) or a push to one target. Which calls are read-only, protected or
blocked outright is a matter of their text, and such calls change nothing here. `OwnGate` are the writes that a gate of their own asks for, before the common one and without a look at
the permission floor: `create_subagent` (`engine.py:13467`), web requests (13606) and searches (13659), repository reads and code review (13301, 13507), changes of MCP servers (13027). Under the floor
those and pushes ask the user; every other call is refused (`Asks`, `Refuse`). A pinned agent's command that a sandbox takes in a copy of the workspace has no effect and counts as refused. `Run`, `Escalate` and `Refuse` are the outcomes of the gate in `run_tool`; `Approved`,
`Denied` and `EscAtPrompt` those of a prompt. `StartSub` is `_exec_subagent` up to the nested `run_agent`, and
`SubOver` its `finally`, on an answer, a budget that is spent, an error or an interrupt. `TakeStep` to `EscAtStep` are the steps of
`execute_plan`, delegated or inline; `Audit` is an auditor, and a second one that confirms a verdict against a step.
`Spend` is any other model call of a turn (a summary of old messages, a retry, the wrap-up after the last round).
`Launch` and `Land` are the workers of `document_read` with `action=process`: up to sixteen model calls at once, each of which tests the budget before it starts and bills after the reply. The workers
outlive the tool call, and even the turn (`shutdown(wait=False)`), and `Land` bills whatever budget is active by then: the parent's, a sub-agent's, or the next turn's. `add_tokens` has no lock against
the loop's own additions, so with workers in flight a call of the loop may add less than it cost (`Bills`).

### AgentRun

The same loop from its other side: what `_run_agent_loop` (20125-21559) keeps between rounds to end a run that gets nowhere. A step is a
round of the main agent; what the model replies and what its calls bring is free.

| Variable | Code |
|---|---|
| `forcing`, `strikes` | `forcing`, `repeat_strikes`: the model was told to stop repeating itself, and how often |
| `unknown`, `searches`, `missing`, `parse`, `empty` | `unknown_retries`, `search_corrections`, `missing_args_retries`, `parse_error_retries`, `empty_retries` |
| `cuts`, `prose` | `length_retries`, `prose_cutoffs` |
| `spent`, `total`, `mark` | `ContinuationBudget`; `mark` says only whether progress was made since the last look |
| `post`, `told`, `quiet` | `post_check_rounds`, `post_check_told`, `_StallWatch.quiet` |
| `parts`, `once` | files whose deferred audit is due; the one-time interventions that are used up |
| `since`, `over` | what the properties speak of: continuations since the last progress, how the run ended |

`CutOff` is a reply at the output limit; of one that was writing a file the part that arrived may be saved (`Salvage`), which is progress and may owe an audit. `Executed` is a round of which a call was carried out, `Repeated`, `Refused` and `Malforms` one of which none was.
`UnknownTool` to `TakeAnswer` are replies without a call, in the order of the code's tests: corrections, an empty reply, the interventions, the auditor,
a completion check (`Nudge`), and the answer. `Stopped` stands for everything that may end a run at any round, the ceiling on rounds among it, and for that reason
fairness does not count on it.

What a run may do (`AgentTurn`) and when it ends (`AgentRun`) share no state, so `MCAgent` runs one of the two per behaviour.

### Trajectory

What `_run_agent_loop` tells the session's `TrajectoryState` of every tool call, and what the answer makes of it. A step is a tool call with its bookkeeping,
the check of one deliverable, a reminder, or the next request. The code compares marks of `mutation_count`; the model keeps whether each mark is the present count.

| Variable | Code |
|---|---|
| `finished` | of `operations`, the last `MAX_OPERATIONS`: whether each ended as done |
| `verification`, `requested`, `requests` | `verification`, `verification_requested`, `verification_requests` |
| `changes`, `written` | `mutation_count` against `request_mutation_start`; `written_paths` |
| `ranOk`, `byPage` | whether `ran_ok_at`, `inspected_by_page_check` are the present count |
| `checkedAt`, `passedAt` | the files whose `smoke_checked`, `smoke_passed_at` are the present count |
| `failing` | `check_failing`, `failing_check`, `failing_files`, `failing_check_app_path` |
| `notes`, `unsure` | the names whose smoke note says FAILED; `smoke_unverified` |
| `grounds`, `unseen`, `broken`, `reminders` | what the properties speak of: the best evidence since the work changed, a change no one was told of, the targets whose last check failed, the reminders since the change |

`AfterTool` is `after_tool` for a call whose outcome is one of those that the tool, its exit status and the auditor can produce (`WriteCalls` to `PageCalls`).
`LostCall` is a call that never returns: an ESC in a sub-agent is re-raised at `engine.py:8945`, and a process may end. `RecordSmoke` is one target's check and
`record_smoke`; `Remind` is `request_verification`; `NewRequest` is `_normalise`, which starts afresh or carries unresolved work over. `Assurance` is what the answer claims.

`record_smoke` keeps the notes of the last four names; `TrajectoryAssumption` says that no more names are tested, as one that was pushed out would be claimed as never checked. Which files a
command names or starts is a constant of the command. `NameOf` is a file's name without its folder, by which notes are kept: what a name hides of its namesake is excepted from `FailureIsShown`.

## Runs

| Run | Question | Instance | Result |
|---|---|---|---|
| `server_safety` | claims, cancellation, ledger and refinement under races, crashes and reused pids; who has the turn lock and the view lock, does a running chat stay? | server and two command lines, one task, one ledger entry, one slice; two tabs, two clients, two saved chats and the name of a third, every frame and endpoint, two inputs | holds |
| `task_interrupted` | can an interrupted task be resumed? | the same processes, pids not reused | violated |
| `task_restart` | does a restart hide a task from recovery? | the same processes, pids reused | violated |
| `gateway_safety` | stop, prompts, grants, modes | a group of two users and a private chat, three messages, one message per user and minute | holds |
| `gateway_plan_mode` | does a mode stay with its chat? | two chats of one user each, four messages | violated |
| `gateway_prompt` | can the reply to a prompt be delivered? | a sequential adapter | violated |
| `gateway_new` | does `/new` stay, with its own two steps apart? | two messages | violated |
| `web_grants` | do approvals stay with their chat? | one tab, chats and `/resume`, three inputs | violated |
| `engine_safety` | approvals, floor, modes and budget over any number of turns; does a run that brings nothing new end? | two writes (one delegated in plans, one with a gate of its own), two push targets, two tokens, two document workers, two audits, rounds, calls and steps; every breaker at one, two or three | holds |
| `engine_stop` | does ESC end the turn? | as above, plans of one step | violated |
| `trajectory_safety` | does the answer claim more than there is evidence for, hide a failed check, or nag? | an app, a page, a scratch file, the tests and a command that starts the app; one kept operation, one reminder a request | holds |
| `progress` | are messages answered, ends honoured, claims and locks given back, requests served; do the gateway and the web server use the engine as `SharedEngine` says? | gateway, task store and web server by turns, see below | holds |

What the seven violations show, each against a statement of the repository:

* `InterruptedIsResumable`: the worker writes `paused` and releases its claim in a later
  transaction. A process that dies between the two leaves a paused row with a dead
  owner, which `claim` refuses and `recover` ignores.
* `RestartSafe`: a claim is a pid. The first process of a container always has the same
  one, so after a restart the dead worker looks alive, and the task can be neither
  resumed nor recovered nor deleted.
* `OthersKeepTheirMode`: `_plan_approved` is a global that only the normal end of a turn
  resets. If the turn of an approved plan is interrupted or fails, the next chat's turn
  finishes that plan session and stores the first chat's mode as its own.
* `PromptIsAnswerable`: the WhatsApp adapter awaits a whole turn before it reads the next
  message, so the `/approve` a turn waits for arrives after the wait is over.
* `NewStaysNew`: `run_turn` reads the generation after it has loaded the messages, and
  `save` compares it before it replaces the file; and `/new` unlinks the file before it bumps the generation, so a save that has
  passed its comparison replaces the file in between. In each of the three gaps `/new` is undone.
* `GrantsStayHome`: `/resume` loads another chat into the viewed Session object, which keeps its id, and approvals
  are kept by id: the resumed chat runs under those of the chat before it. `/new` has code against this, `/resume` has not.
* `StopIsFinal`: the clause of `_run_plan_step` that catches a failed delegation also catches the interrupt, so ESC during a
  delegated step makes the step run inline, after the interrupt was noticed and without another test of the flag.

### Bounds, and why they are enough

* One task: tasks interact only through the process that serves them, and a command line
  that runs one in its foreground takes no other command. Two processes race for a claim;
  the third is there to recover, delete or resume while they do. In `server_safety` the claim is raced by the server and one of the two
  command lines; the other command line and the server's request handlers recover, delete, resume and end meanwhile (the proofs have no
  such bound). One ledger entry: entries of a task do
  not interact, and the refinement and the proofs hold for any number.
* One slice in the safety run, two in `progress`, so that the loop goes round. The
  code uses 8.
* Two sessions: one turn holds the lock while another waits, or is told to stop. Two users
  in one of them: the requester and another member. Three messages: one that starts a turn, one that is
  queued or answers, one that comes late. Four where a plan is made in one chat and its effect
  appears in another. `MaxMessages` bounds what is typed; replays are not bounded.
* `PerMinute` is 1 in the safety run, so that the limiter rejects messages and replays, and 0
  (disabled) in `progress`: with the limiter on a
  rejected replay does strand the messages behind it until the next one is typed, which the
  hazards list.
* `MaxInputs` is 2 in `server_safety`: of all pairs of a chat, a command or a request with another, each meets the other at every await and at every step of a
  thread, while prompts, stops, closings and errors are not bounded. `Objects` is large enough that an object is always free.
* `MaxTokens = 2` with `Cost = 1` lets a main run and one sub-agent spend a token each, an audit be refused, and the budget be exceeded at
  either depth; two workers make the overrun by several calls happen. `MCAgent` has document workers only in turns that ask and plan nothing (`part = "workers"`), and all the rest in turns without
  workers (`part = "turn"`): an approval never looks at the budget, and `AgentTurnProofs` has both together. In the run "always" is said for
  writes or for pushes, not for both: either kind meets the other without an approval; the proofs have any. Two writes, one of which a plan delegates, and two targets tell an approval from its neighbour's; a pinned profile offers both writes (one with a gate of its own), in the proofs any calls. Turns are not bounded.
* The limits of `AgentRun` are the code's divided by two or three: each breaker still has a round before it, at it and after it. One continuation (two in
  all) is enough for one to be handed back and for the other to be refused. `Searches` is 0 in the run and any number in the proofs: while `unknown` is below
  its limit a spent search is corrected either way. Limits of 0 that switch a breaker off (`length_cutoff_max_retries`, the stall watch) are not modelled.

* Two deliverables, so that one's result may hide or outlive the other's; one scratch file; a check that names no file and a command that starts one.
  One kept operation is enough for both answers to what `Unresolved` asks of the list. One reminder a request: a second request brings a second one.
  Requests, calls and changes are not bounded, and the limits are any in the proofs.

`CHECK_DEADLOCK FALSE` is set throughout: when all tasks are deleted and all processes are
dead, or when all messages, frames and requests are sent and answered, the system stops; `AgentTurn` never does, but shares the convention.

### Fairness

* `DurableTask`: a live worker thread keeps running (weak fairness of `Work`), and an agent call returns
  or raises (strong fairness of `AgentEnds`): its loop is bounded by `slice_turns` and each
  model request by its timeout. Nothing is assumed of users, crashes and restarts, nor that
  any write succeeds: `EndIsHonoured` and `ClaimIsReleased` except the worker whose `finish_cancellation` failed (`"leaked"`) and no other failure.
* `Gateway`: the loop runs a ready coroutine and a running thread goes on (weak fairness of `Turn` and `Replay`),
  which includes that a wait for an approval times out and that a `/new` that has begun comes to its end (`NewEnds`), and the agent returns, fails or is interrupted in the end
  (strong fairness of `AgentEnds`). Nothing is assumed of users: no message is ever promised.
* `WebSessions`: coroutines, handlers and endpoints that can go on do so, and a prompt times out after `ESCALATION_WAIT_SECONDS` (weak fairness of `SocketWork(s)` and `Endpoint(r)`); a turn whose event is set
  ends, because `run_agent` polls the event at every round and every call (strong fairness of `EndTurn(s, "stopped")`, which prompts disable now and then). That a turn ends by itself is not
  assumed. The view lock is polled every 10 ms rather than queued for; `NavigationIsServed` relies on there being finitely many frames and requests, so that
  the poll is not overtaken for ever.
* `MCProgress` runs one of the three per behaviour and takes their fairness over.
* `AgentRun`: the loop goes on until it returns (weak fairness of the whole `RunNext`, of no way to end in particular). A model that replies with something new in
  every round runs up to the ceiling; `RunEnds` is about the others, and says that no order of failures lets one kind give back the allowance of another in a circle.

## Proofs

All theorems hold for every value of the constants under the named assumptions next to their
declarations (`ServersAssumption`, `RoomAssumption` and so on).

**DurableTaskProofs**: `TypeCorrect`, `OwnersHold`, `MutualExclusion`, `OverIsIdle` and
`OpenOpsRecorded` state that the task invariants of `server_safety` always hold, with any number of tasks,
processes, ledger entries and slices, whether or not pids are reused. They follow from one inductive
invariant. `OwnerHolds` says that a worker that believes it owns a task is alive and the
row records its pid: mutual exclusion is then immediate, since a row records one pid. It is not inductive alone:
that a delete never takes the row from under a worker needs `WorkingRow` (in the slice loop the row is running, queued or
cancelling), and that a checkpoint keeps it so needs `SnapOK` (a checkpoint in progress never
read an ending that the row has since lost), which is where `update`'s CASE is used. `OpenOpsInAgent` ties the ledger to
the agent call: recovery marks calls unknown only when nobody has them open.

**DurableTaskStepProofs**: `ClaimsAreKept`, `CancelsAreFinal`, `CompletionsAreFinal` and `LedgerIsAppendOnly` are the action
properties of `server_safety` about tasks, from the same invariant: `OwnershipEnds` shows the three ways in which a worker stops owning a
task, `EndedRows` what each step does to an ended or completed row, `LedgerStep` what it does to the ledger.

Four theorems delimit what `task_interrupted` and `task_restart` find. `ResumableUnlessStranded`: what a dead worker left can be claimed or recovered unless the task is `Stranded`
(paused, claimed, and nobody at work on it). `StrandedAtLeave`: it becomes so only while its worker is at `leave`, between its last write and `finish_cancellation`, when the process dies there or that
transaction fails. `StrandedUntilEnded`: from then on only `end` moves it. `ClaimsAreServed`: a live process is recorded as the worker of a task it does not work on only after a restart under the recorded pid, or
after an `Escape` in the reads between the claim and the `try` block or in `finish_cancellation`. A repair of those windows repairs the promise.

`WorkIsBounded` is what `ClaimIsReleased` rests on besides fairness. `Ahead` is ten for each slice a worker may still begin, and the steps to the end of this one. Whatever other
workers, users, crashes and exceptions do, each step of a worker outside its agent call lowers it, and nothing raises it while the worker
runs. It needs `Unborn` (nobody works on, or resumes, a task that was never created), because a create sets a worker's label.

**DurableTaskRefinementProofs**: `Refinement`. Under that invariant every step of the store is, through
`LifeMap` and `HolderMap`, a step of `TaskLifecycle` or a stutter. The holder of a task is
the worker that owns it, rather than the pid in the row, because a dead process's row has no holder before it is recovered.

**GatewayProofs**: `StopsStayHome`, `PromptsHaveTurns`, `VerdictsStand`, `GrantsApproved`,
`ModesMoveWithTurns` and `TypeCorrect` state the properties of `gateway_safety` for any number of sessions,
rooms, users and messages, and `TurnsExclude` that two turns are never in their threads together. The invariant's centre is `LockIsTheTurns`: a session is in its thread exactly if it
holds the lock. From it follows that there is one turn, and that prompts, which only a thread raises and which the
thread waits for, are that turn's. `AskersAreAuthors` and `WaitersHaveAsks` (a waiting thread finds its own entry, for its
own requester) are what the grant property needs, because the thread reads the entry of its room and not of its session.
`QueuesAreServed` is proved with `PerMinute = 0` as an assumption.

`SharesEngine`: every step of the gateway is a step of `SharedEngine`, without guests, or a stutter. Beyond the invariant it needs `PlannersHaveAsks`, the
counterpart of `WaitersHaveAsks` for plans, because an answer and a withdrawal must act on the entry of the turn that runs. `SharedSoundly` carries
the abstract module's state invariant (`Sound`) over.

Three theorems name the whole cause of the violations found in the gateway. `ModesStayApart`: as long as no turn is aborted while it carries
out an approved plan (`NoPlanIsAborted`), a session where nobody types `/mode` keeps the default. `ClearedSessionsStayClear`: as long as `/new` falls neither between a turn's load and its
read of the generation nor into a save, and no save replaces the file inside `/new` (`NewMissesTheWindows`), a session file holds no message from before the last `/new`. Each hypothesis is an action constraint that the other
behaviours satisfy, so that TLC's counterexamples are all there are. `AwaitedPromptsGoUnanswered`: where an adapter awaits each message, no prompt of the turn it awaits is ever answered; the
only assumption is that the sessions of a room have one adapter.

**AgentTurnProofs**: `TypeCorrect`, `FloorIsHeld`, `ModesAreTyped`, `BudgetIsKept`, `UnderTheFloor` and `ApprovalsAreOwn` state the properties of `engine_safety` for any
calls, push targets, limits, costs of a model call, rounds and plan lengths. Four parts strengthen them to an inductive invariant. `Nesting`: the sub-agent
runs exactly while the main loop waits for it, and a pinned one is never started under another's floor. `Positions`: where
the main loop is says what its call, its plan and its mode are; in particular the planning mode never has a sub-agent or a plan in progress.
`Approvals`: every key in the grant set, and every key that a pinned sub-agent's end will put back, is of a call that the user approved and that has
not run since (`Backed`), and a prompt's pending key is the key of the call it asks for; from it follows that no grant is bound to no call. `Budget`: a sub-agent's
limit is what its parent has left, and is positive, where 0 would mean no limit; what a depth has spent, with what the workers in flight may still bill it, is bounded
separately with and without a sub-agent: workers may bill the parent past its limit before the sub-agent starts, and others the sub-agent past its own, which the parent is then billed, hence `(2 * Workers + 1) * Cost`.
That nothing of the caller's is live under the floor rests on `owed` and the grants, which `StartSub` puts away and empties. One lemma per action preserves the whole invariant.

About ESC: `OnlyPlansOutliveStop` and `StopEndsWithTheTurn` say that with the flag up only steps of a plan in progress still take effect, and that the flag goes down only with
the turn. `StopIsSwallowedByAStep` finds the one place where an interrupt is noticed and the turn goes on: the sub-agent of a plan step. `StopIsFinalInline` concludes that
the promise `engine_stop` violates holds of every turn whose plans delegate no step. `PlanningChangesNothing`: in the planning mode nothing takes effect at either depth, whatever
was approved before; it needs `Positions` and the approvals part, because a sub-agent or an unspent grant would be a way round the mode.

**AgentRunProofs**: `RunTypeCorrect` and `NudgesBounded` state the invariants of a run in `engine_safety`, and `CapAnnounced` one more, for any limits, the ones that switch the completion checks
or the cap on finishing checks off included. That at most `Limit` continuations are asked for without progress is not inductive: a slot is handed back
whenever the mark has moved since the last look, so it needs `Charged`: the continuations since the last progress are among those not handed
back (`since <= spent`), and once progress was made there are none. `CapIsTold` is inductive with the range of `post`.

`RoundsArePaidFor` is what `RunsEnd` rests on besides fairness, for all limits. The counters do not fall one by one: a call that is carried out gives most allowances back, a whole reply the cut-offs, a check the
finishing rounds. So the measure is lexicographic (`Left`): each round without news lowers one of its places and leaves those before it alone (`Shrinks`, one lemma per kind of round), and `Rounds`
reads the places as the digits of one number, each in the base that its limit gives (`Full`). `Most` is therefore a bound, in the limits alone, on the rounds that a run can go on without news.

**WebSessionsProofs**: `TypeCorrect` (of `WebTypeOK`), `TurnLockHasOneOwner`, `ViewLockHasOneOwner` and `RunningChatIsKept` state the properties of `server_safety` about chats for
any number of tabs, clients, chats, objects and inputs. The lock invariants are inductive once `Frames` says where a frame has a Session, a kind and a number,
and `Refers` that everything which refers to a Session refers to a live one: `Keep` frees the others, so each step must show that what it leaves behind is in the heap it
started from (`Keeping`). A step shows its files and objects typed and its turns' chats in place, and `Quiet` (nothing stored changes) or `Kept` (something does) concludes.
That `Rename` and `DeleteSession` spare a running chat rests on `TurnLockIsOwned`: a turn's Session is the one `_running` names, which `_owns_running_turn` looks at.

`SharesEngine` (the property `WebSharesTheEngine` of `progress`) and `SharedSoundly`: the server implements `SharedEngine` as the gateway does. A compaction without the turn lock is a guest. `UsersHaveTheLock` and `StopsAreTurns` connect the lock and the
interrupt events with whoever is in the stretch. `CompactionLosesNothing`: a compaction that holds the turn lock finds, when it replaces the messages, exactly those that it read, so it can lose none. Without
the lock, which the middleware does not wait for when a turn runs or the view lock is held, TLC finds a compaction that loses a turn's message (see the hazards).

**TrajectoryProofs**: `TrajectoryTypeCorrect`, `AssuranceIsGrounded`, `FailureStaysShown` and `OneReminder` state the properties of `trajectory_safety` for any files,
commands, targets and limits. A claim is made of several marks that different calls set and clear, so what is inductive is `EvidenceHolds`: each kind of mark (verified,
run or passed at the present count, inspected) has evidence of its own kind behind it, whatever the claim is. `FailureIsShown` needs `Noted`: a target whose last check failed has its note,
and is not among those awaiting a run, since a run of one of those drops its note. `RemindedOnce` needs that after a reminder the mark stands (`Reminded`). `StepsAreFew` shows once
that every tool call is an `AfterTool` of a typed call, so that each invariant has four kinds of step to look at.

What is only model-checked: liveness (`EndIsHonoured`, `ClaimIsReleased`, `QueuesDrain`, `StoppedTurnsEnd`, `NavigationIsServed`, `RunsEnd`), which the prover does not cover; of `ClaimIsReleased` and `RunsEnd` the
measures above are proved. Every other property of a passing run has a theorem. Of the seven violated ones, the cause is proved to be the only one for four (`InterruptedIsResumable`, `OthersKeepTheirMode`, `NewStaysNew`, `StopIsFinal`), and for `PromptIsAnswerable` the consequence; that
`/resume` is the only way past `GrantsStayHome` is false (see the two renames below). `RestartSafe` speaks only of restarts under the same pid.
ENABLED and induction over data are out of its reach as well; neither occurs in the modules proved about, which declare no
RECURSIVE operator.

## Observations without a run of their own

**A read-only agent that asks.** The comment at `engine.py:8887-8890` says that the pin of a `permission: readonly` profile "also turns a blocked mutation into a flat refusal rather than an escalation", since an
escalation "made 'this agent only observes' a question the user could answer yes to". The refusal is in the common gate only (13919-13925). The tools of `OwnGate`, and `git_push`, return `request_escalation` before it: a
profile that lists `create_subagent` asks under the floor, and an approval makes it write. `docs/wiki/09-skills-and-subagents.md:54` says as the comment does that "a pinned agent is **refused** a mutation rather than offered an escalation". The fallback tool set of a profile (8848-8849) has one of them, `web_search`. `FloorHolds` and `AskedUnderTheFloor` say what is true instead.

**Compaction beside a turn.** The comment at `web_server.py:1488` says of a compaction that "one agent task runs at a time", and `docs/wiki/10-cli-reference.md:86` "Only one task runs at a time". When the view lock is held, by a
command, the middleware lets a compaction pass without the turn lock (354-358); if no turn runs when the view lock is free, it calls `run_agent` in a thread, and nothing keeps a turn from starting meanwhile. Both then run in the one engine.
`SharedEngine` has such a caller as a guest. The summary also replaces the messages that the turn appended to the same chat (see `CompactionLosesNothing`).

**A budget and document workers.** Each worker of `document_read` tests the limit before any of the others has billed, so a turn may go over `max_turn_tokens` by as many calls as run in parallel, and by as many again
when a sub-agent's start or end changes the active budget under them. No statement of the repository bounds the overrun; `BudgetHolds` does.

**Search corrections.** The comment at `engine.py:20664-20666` says that a call to the search tool after its allowance is spent "is corrected a few more times than a real unknown tool before the reply is
taken as final", and 20636 that the correction is "Bounded to avoid infinite loops". The test at 20669 is `unknown_retries < 2 or (spent_search and
search_corrections < 3)`, and a spent search increments `search_corrections` only (20670-20673). As long as fewer than two unknown tools were called, the
first half of the test holds, and a model that keeps calling the search tool is corrected until the ceiling on rounds. `SpentSearch` models the code: past its
limit it changes nothing and may go on for ever. `RunEnds` is not about such a run (`NewsComes`).

**A change that nobody reports.** `assurance`'s docstring has "tested     a test run (or a check the harness trusts) passed after the last change" (`trajectory.py:1445`), and the comment at
`engine.py:13984-13986` says of a write that "a crash mid-write must not leave a verdict looking current". `after_tool` runs when a call returns. When a call changes the work and does not return
(`LostCall(TRUE)`), the level stays what it was, and the next answer is stamped "tested" of work that changed after the tests passed. `AssuranceHasGrounds` excepts exactly this (`unseen`).

**Two renames and a Session.** Without `/resume`, `WebSessions` still violates `GrantsStayHome` in one corner (`Kinds = {"chat", "plan"}`, `Operations = {"rename", "reset"}`, four inputs). `rename_session` lets only the
viewed Session follow its file (`web_server.py:1365-1374`). A `/plan` of another chat shows that chat meanwhile, so a rename that is served before the view goes back leaves the first chat's Session with the old name; a second
rename may give that name to another chat's file, whose id the Session has from then on, with the approvals of the first.

**A scratch file and the reminder.** `changed_this_request` counts scratch files, as `mutation_count` does, although they do not make work "pending". A request that inherits unverified work and
writes only a scratch file is reminded of the earlier work, where `trajectory.py:1628` says "Only for changes made in THIS request". `Remind` models the code.

**A scratch file and a page check.** `record_smoke` takes "inspected" back when a page's newer result is not a pass ("it is unchecked again", `trajectory.py:1298-1299`), if the mark
`inspected_by_page_check` is the present count. A scratch write in between moves the count and not the mark, and the level then stays. The claim is still grounded, since the page did pass.

**Compaction and the next request.** `_normalise` takes a request for a new one when the conversation is longer than at the last (`trajectory.py:854-857`). After a compaction it is shorter, and the
reminder budget is not reset, where the comment at 858-859 says that it "is per request and must not" carry over "or the session goes silent". `NewRequest(FALSE)` is this.

**Two files of one name.** Smoke notes are kept by the name without its folder (`trajectory.py:1312-1315`): a pass of `b/index.html` drops the FAILED note of `a/index.html`.

## Not modelled

`PROJECT.json` lists every component with its status. Left out for good: tool bodies, providers, the browser,
documents and search (I/O and functions of large inputs), rendering, installers, the React client, skills.

Left out of `WebSessions`: attachments and hold, which refuse a frame before it does anything; direct tools and `/api/mode`, which
act on the engine and not on a session; what a turn does to the permission mode; a chat's name that is used again once its chat is gone (`/new` tests only whether the file exists); writes of session files that fail; calls to the
engine that have nothing to do with chats (`/api/agent/{name}`, durable tasks), which take no lock and which `SharesTheEngine` does not see. Left out of `AgentTurn`: `/tool` between turns, wall-clock and cost budgets
(the same test of `exceeded` with another measure), limits on writes and rewrites, the restoring of a
file after a failed audit, the plan-only branch of `execute_plan` (the terminal offers `present_plan` instead), the edit mode
(full-auto for the calls modelled). Left out of `AgentRun`: the ceiling on rounds and its extension (`_TurnPolicy`; they end runs earlier than the breakers), the message to a run that is built and passes its
checks (`settled`, which never ends one), the token cap of each call and the auto model ladder, what a completion check looks at, and runs of sub-agents, which have no stall watch.

Left out of `Trajectory`: the checklist and its steps, setbacks, stalls and re-planning, subgoals, tests that were left unchanged, redirected and partial writes and the cap on written paths, secrets,
the sandbox backend, notes on the environment, the follow-up on a failing check, and the lowering of the level when a web app was asked for and none exists. A process that ends between two updates
of `record_smoke` or `request_verification`, which are saved later than they are made, is not modelled. How a page, patch or script is checked is I/O.
