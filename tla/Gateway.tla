------------------------------ MODULE Gateway ------------------------------
(***************************************************************************)
(* The messaging gateway: gateway/runner.py (GatewayRunner), the session   *)
(* store it writes (gateway/session.py) and the turn it runs in a thread   *)
(* (gateway/agent_bridge.py), with the permission globals of engine.py     *)
(* that all turns share.                                                   *)
(*                                                                         *)
(* An asyncio loop runs on_message once per message; one action is what a  *)
(* coroutine does between two awaits.  The turn that holds the turn lock   *)
(* also has an agent thread, whose steps interleave with the loop's.       *)
(***************************************************************************)
EXTENDS Naturals, Sequences

CONSTANTS Keys,        \* session keys (platform, chat type, chat, thread)
          Rooms,       \* (platform, chat_id), under which approvals are kept
          RoomOf,      \* the room of a session key
          Users,
          Members,     \* the allowed users who write in a session
          Bold,        \* the sessions whose users ever type /mode
          Sequential,  \* the sessions of an adapter that awaits each message
          DefaultMode, \* gateway_permission_mode
          PerMinute,   \* gateway_rate_limit_per_min; 0 disables the limiter
          MaxMessages, \* a bound: messages typed in a behaviour
          NoKey

Modes == {"readonly", "full-auto"}

ASSUME RoomAssumption == RoomOf \in [Keys -> Rooms]
ASSUME MembersAssumption == Users # {} /\ Members \in [Keys -> SUBSET Users]
ASSUME EnvironmentAssumption == Bold \subseteq Keys /\ Sequential \subseteq Keys
ASSUME DefaultModeAssumption == DefaultMode \in Modes
ASSUME BoundsAssumption == PerMinute \in Nat /\ MaxMessages \in Nat
ASSUME NoKeyAssumption == NoKey \notin Keys

VARIABLES sent,     \* messages typed so far
          hits,     \* the messages in each user's window when allow last looked
          spawned,  \* on_message calls spawn_task has scheduled, by key and user
          reader,   \* the session whose turn the sequential adapter awaits
          pc,       \* on_message and run_turn of a session ("idle": not _active)
          author,   \* the user whose message that turn answers
          pending,  \* _pending: the messages queued behind it, by author
          waiting,  \* sessions queued for the turn lock, which is fair
          turnKey,  \* _turn_key, which is set as long as the turn lock is held
          stopper,  \* _interrupt, as the session whose /stop set it
          chatMode, \* _chat_modes
          planKeys, \* _plan_keys
          scopes,   \* _session_allowlist
          asks,     \* _pending_approvals
          planAsks, \* _pending_plan_approvals
          engine,   \* the engine's permission globals
          gen,      \* SessionStore._generation
          file,     \* the session file, as the generations its messages are of
          loaded,   \* the messages a turn has loaded and its own, likewise
          token,    \* the generation that turn read
          clearing  \* the session whose /new is inside SessionStore.clear

queues == <<sent, hits, spawned, reader, author, pending, waiting>>
locks == <<turnKey, stopper>>
modes == <<chatMode, planKeys, scopes>>
approvals == <<asks, planAsks>>
sessions == <<gen, file, loaded, token, clearing>>
vars == <<queues, pc, locks, modes, approvals, engine, sessions>>

\* The steps of the agent thread (run_turn).
Thread == {"load", "loaded", "agent", "saving", "asking", "expired", "planAsking",
           "planExpired", "answered", "finalSaving", "returned", "raised"}
PcStates == Thread \cup {"idle", "waiting", "replying"}

NoAsk == [key |-> NoKey]
NoMode == "unset"

Verdicts == {"none", "once", "session", "no"}
PlanVerdicts == {"none", "no"} \cup Modes

QueuesOK ==
    /\ sent \in 0..MaxMessages
    /\ hits \in [Users -> 0..PerMinute]
    /\ spawned \in [Keys -> [Users -> Nat]]
    /\ reader \in Sequential \cup {NoKey}
    /\ author \in [Keys -> Users]
    /\ pending \in [Keys -> Seq(Users)]
    /\ waiting \in Seq(Keys)

TurnsOK ==
    /\ pc \in [Keys -> PcStates]
    /\ turnKey \in Keys \cup {NoKey}
    /\ stopper \in Keys \cup {NoKey}

ModesOK ==
    /\ chatMode \in [Keys -> Modes \cup {NoMode}]
    /\ planKeys \in SUBSET Keys
    /\ scopes \in SUBSET (Keys \X Users)

ApprovalsOK ==
    /\ asks \in [Rooms -> {NoAsk} \cup [key : Keys, user : Users, verdict : Verdicts]]
    /\ planAsks \in [Rooms -> {NoAsk} \cup
                                 [key : Keys, user : Users, verdict : PlanVerdicts]]

EngineOK ==
    engine \in [mode : Modes \cup {"plan-only"}, back : Modes \cup {NoMode},
                approved : BOOLEAN, grant : BOOLEAN]

SessionsOK ==
    /\ gen \in [Keys -> Nat]
    /\ file \in [Keys -> SUBSET Nat]
    /\ loaded \in [Keys -> SUBSET Nat]
    /\ token \in [Keys -> Nat]
    /\ clearing \in Keys \cup {NoKey}

TypeOK == QueuesOK /\ TurnsOK /\ ModesOK /\ ApprovalsOK /\ EngineOK /\ SessionsOK

-----------------------------------------------------------------------------
(* Messages.                                                               *)

\* An adapter that awaits on_message before it reads on delivers nothing for as
\* long as that message's turn lasts; the others start a task per message.
Deliverable(k) == k \in Sequential => reader = NoKey

\* The loop runs on_message and the ends of turns between two awaits at a time, and
\* /new has none: until it is over only the agent thread takes steps.
LoopIsFree == clearing = NoKey

Typed(k, u) ==
    /\ LoopIsFree
    /\ sent < MaxMessages /\ u \in Members[k] /\ Deliverable(k)
    /\ sent' = sent + 1

\* Mutant: the window holds one message too many.
AllowedOneMore(n) == PerMinute = 0 \/ n <= PerMinute

\* _RateLimiter.allow, with n messages left in the sliding window: those that are
\* older than a minute leave it.  Commands and replayed messages count as well.
Allowed(n) == PerMinute = 0 \/ n < PerMinute
Hit(u) ==
    \E n \in 0 .. hits[u] :
        /\ Allowed(n)
        /\ hits' = IF PerMinute = 0 THEN hits ELSE [hits EXCEPT ![u] = n + 1]

\* on_message with a text: take the session, or queue behind its turn.
Accept(k, u) ==
    IF pc[k] = "idle"
    THEN /\ pc' = [pc EXCEPT ![k] = "waiting"]
         /\ author' = [author EXCEPT ![k] = u]
         /\ waiting' = Append(waiting, k)
         /\ UNCHANGED pending
    ELSE /\ pending' = [pending EXCEPT ![k] = Append(@, u)]
         /\ UNCHANGED <<pc, author, waiting>>

Text(k, u) ==
    /\ Typed(k, u) /\ Hit(u) /\ Accept(k, u)
    /\ reader' = IF k \in Sequential /\ pc[k] = "idle" THEN k ELSE reader
    /\ UNCHANGED <<spawned, locks, modes, approvals, engine, sessions>>

\* A replayed or follow-up message goes through on_message from the top.
RunSpawned(k, u) ==
    /\ LoopIsFree /\ spawned[k][u] > 0
    /\ Hit(u) /\ Accept(k, u)
    /\ spawned' = [spawned EXCEPT ![k][u] = @ - 1]
    /\ UNCHANGED <<sent, reader, locks, modes, approvals, engine, sessions>>

\* Over the limit: the message is answered with a notice and dropped.
Reject(k, u) ==
    /\ Typed(k, u) /\ ~Allowed(hits[u])
    /\ UNCHANGED <<hits, spawned, reader, author, pending, waiting,
                   pc, locks, modes, approvals, engine, sessions>>

RejectSpawned(k, u) ==
    /\ LoopIsFree /\ spawned[k][u] > 0 /\ ~Allowed(hits[u])
    /\ spawned' = [spawned EXCEPT ![k][u] = @ - 1]
    /\ UNCHANGED <<sent, hits, reader, author, pending, waiting,
                   pc, locks, modes, approvals, engine, sessions>>

-----------------------------------------------------------------------------
(* Slash commands.  Each changes its state before its first await, and the *)
(* text after the command, an argument included, comes back as a message.  *)

Command(k, u, more) ==
    /\ Typed(k, u) /\ Hit(u)
    /\ spawned' = IF more THEN [spawned EXCEPT ![k][u] = @ + 1] ELSE spawned
    /\ UNCHANGED <<reader, author, waiting, pc>>

\* /help, /capabilities, /mode without a mode, and approvals that are refused.
Inform(k, u, more) ==
    /\ Command(k, u, more)
    /\ UNCHANGED <<pending, locks, modes, approvals, engine, sessions>>

\* /new.  SessionStore.clear unlinks the file ...
New(k, u, more) ==
    /\ Command(k, u, more)
    /\ file' = [file EXCEPT ![k] = {}]
    /\ clearing' = k
    /\ UNCHANGED <<pending, locks, modes, approvals, engine, gen, loaded, token>>

\* ... and bumps the generation; what else the session had is dropped.  The agent
\* thread may run between the two.
NewEnds(k) ==
    /\ clearing = k
    /\ clearing' = NoKey
    /\ gen' = [gen EXCEPT ![k] = @ + 1]
    /\ scopes' = {s \in scopes : s[1] # k}
    /\ planKeys' = planKeys \ {k}
    /\ chatMode' = [chatMode EXCEPT ![k] = NoMode]
    /\ UNCHANGED <<queues, pc, locks, approvals, engine, file, loaded, token>>

\* Mutant: /stop interrupts whatever turn is running.
StopAnyone(k, u, more) ==
    /\ Command(k, u, more)
    /\ pending' = [pending EXCEPT ![k] = <<>>]
    /\ stopper' = IF turnKey # NoKey /\ stopper = NoKey THEN k ELSE stopper
    /\ UNCHANGED <<turnKey, modes, approvals, engine, sessions>>

\* /stop clears the session's queue and interrupts its own running turn.
Stop(k, u, more) ==
    /\ Command(k, u, more)
    /\ pending' = [pending EXCEPT ![k] = <<>>]
    /\ stopper' = IF turnKey = k /\ stopper = NoKey THEN k ELSE stopper
    /\ UNCHANGED <<turnKey, modes, approvals, engine, sessions>>

\* /approve and /deny look for an escalation of the room first, then for a plan.
\* Only the requester may answer, and an escalation only once.
Ask(k) == asks[RoomOf[k]]
PlanAsk(k) == planAsks[RoomOf[k]]

\* Mutant: a second answer replaces the first.
MayAnswerAgain(k, u) == Ask(k) # NoAsk /\ Ask(k).user = u

MayAnswer(k, u) == Ask(k) # NoAsk /\ Ask(k).user = u /\ Ask(k).verdict = "none"
MayAnswerPlan(k, u) == Ask(k) = NoAsk /\ PlanAsk(k) # NoAsk /\ PlanAsk(k).user = u

Answer(k, u, verdict, more) ==
    /\ MayAnswer(k, u)
    /\ verdict = "session" => more
    /\ Command(k, u, more)
    /\ asks' = [asks EXCEPT ![RoomOf[k]].verdict = verdict]
    /\ UNCHANGED <<pending, locks, modes, planAsks, engine, sessions>>

AnswerPlan(k, u, verdict, more) ==
    /\ MayAnswerPlan(k, u)
    /\ verdict = "readonly" => more
    /\ Command(k, u, more)
    /\ planAsks' = [planAsks EXCEPT ![RoomOf[k]].verdict = verdict]
    /\ UNCHANGED <<pending, locks, modes, asks, engine, sessions>>

\* Mutant: the command sets the engine's mode at once.
SetModeAtOnce(k, u, m) ==
    /\ k \in Bold
    /\ Command(k, u, TRUE)
    /\ chatMode' = [chatMode EXCEPT ![k] = m]
    /\ planKeys' = planKeys \ {k}
    /\ engine' = [engine EXCEPT !.mode = m]
    /\ UNCHANGED <<pending, locks, scopes, approvals, sessions>>

\* /mode <mode> records the mode for the session's next turn.
SetMode(k, u, m) ==
    /\ k \in Bold
    /\ Command(k, u, TRUE)
    /\ chatMode' = [chatMode EXCEPT ![k] = m]
    /\ planKeys' = planKeys \ {k}
    /\ UNCHANGED <<pending, locks, scopes, approvals, engine, sessions>>

Plan(k, u, more) ==
    /\ Command(k, u, more)
    /\ planKeys' = planKeys \cup {k}
    /\ UNCHANGED <<pending, locks, chatMode, scopes, approvals, engine, sessions>>

-----------------------------------------------------------------------------
(* A turn, on the loop.                                                    *)

ModeOf(k) == IF chatMode[k] = NoMode THEN DefaultMode ELSE chatMode[k]

\* The permission globals a turn of k starts with: its own mode, and plan mode
\* on top of it (set_permission_mode, enter_plan_mode).
Applied(k) ==
    IF k \in planKeys
    THEN [mode |-> "plan-only", back |-> ModeOf(k), approved |-> FALSE, grant |-> FALSE]
    ELSE [engine EXCEPT !.mode = ModeOf(k),
                        !.grant = @ /\ engine.mode = ModeOf(k)]

\* Mutant: a turn does not wait for the one that holds the lock.
StartUnlocked(k) ==
    /\ LoopIsFree
    /\ waiting # <<>> /\ Head(waiting) = k
    /\ waiting' = Tail(waiting)
    /\ turnKey' = k
    /\ stopper' = NoKey
    /\ engine' = Applied(k)
    /\ pc' = [pc EXCEPT ![k] = "load"]
    /\ UNCHANGED <<sent, hits, spawned, reader, author, pending,
                   modes, approvals, sessions>>

\* _run_turn gets the turn lock, applies the session's mode and starts the thread.
StartTurn(k) ==
    /\ turnKey = NoKey
    /\ LoopIsFree
    /\ waiting # <<>> /\ Head(waiting) = k
    /\ waiting' = Tail(waiting)
    /\ turnKey' = k
    /\ stopper' = NoKey
    /\ engine' = Applied(k)
    /\ pc' = [pc EXCEPT ![k] = "load"]
    /\ UNCHANGED <<sent, hits, spawned, reader, author, pending,
                   modes, approvals, sessions>>

\* A local of a turn that is over has its initial value.
Forget(k) ==
    /\ loaded' = [loaded EXCEPT ![k] = {}]
    /\ token' = [token EXCEPT ![k] = 0]

\* The thread is over: a turn that carried out an approved plan takes its session
\* back to the mode before /plan (finish_plan_session); the lock is released.
EndTurn(k) ==
    /\ LoopIsFree /\ pc[k] = "returned"
    /\ LET target == IF engine.back = NoMode THEN "readonly" ELSE engine.back IN
       /\ engine' = IF engine.approved
                    THEN [mode |-> target, back |-> NoMode,
                          approved |-> FALSE, grant |-> FALSE]
                    ELSE engine
       /\ chatMode' = IF engine.approved THEN [chatMode EXCEPT ![k] = target]
                      ELSE chatMode
    /\ planKeys' = IF engine.approved THEN planKeys \ {k} ELSE planKeys
    /\ turnKey' = NoKey
    /\ stopper' = NoKey
    /\ pc' = [pc EXCEPT ![k] = "replying"]
    /\ Forget(k)
    /\ UNCHANGED <<queues, scopes, approvals, gen, file, clearing>>

\* The turn was interrupted or failed: no plan session is finished.
AbortTurn(k) ==
    /\ LoopIsFree /\ pc[k] = "raised"
    /\ turnKey' = NoKey
    /\ stopper' = NoKey
    /\ pc' = [pc EXCEPT ![k] = "replying"]
    /\ Forget(k)
    /\ UNCHANGED <<queues, modes, approvals, engine, gen, file, clearing>>

\* Mutant: the session is freed and its queue left alone.
FinishQuietly(k) ==
    /\ LoopIsFree /\ pc[k] = "replying"
    /\ pc' = [pc EXCEPT ![k] = "idle"]
    /\ reader' = IF reader = k THEN NoKey ELSE reader
    /\ UNCHANGED <<sent, hits, author, spawned, pending, waiting, locks, modes,
                   approvals, engine, sessions>>

\* The answer is sent; on_message frees the session and replays one queued message.
Finish(k) ==
    /\ LoopIsFree /\ pc[k] = "replying"
    /\ pc' = [pc EXCEPT ![k] = "idle"]
    /\ reader' = IF reader = k THEN NoKey ELSE reader
    /\ pending' = IF pending[k] = <<>> THEN pending
                  ELSE [pending EXCEPT ![k] = Tail(@)]
    /\ spawned' = IF pending[k] = <<>> THEN spawned
                  ELSE [spawned EXCEPT ![k][Head(pending[k])] = @ + 1]
    /\ UNCHANGED <<sent, hits, author, waiting, locks, modes, approvals,
                   engine, sessions>>

-----------------------------------------------------------------------------
(* A turn, in its thread.                                                  *)

Step(k, from, to) == pc[k] = from /\ pc' = [pc EXCEPT ![k] = to]

\* run_turn loads the messages, and only then reads their generation.
Load(k) ==
    /\ Step(k, "load", "loaded")
    /\ loaded' = [loaded EXCEPT ![k] = file[k]]
    /\ UNCHANGED <<queues, locks, modes, approvals, engine, gen, file, token, clearing>>

\* ... then adds its own message and enters run_agent, which drops what an earlier
\* turn left unspent.
ReadGeneration(k) ==
    /\ Step(k, "loaded", "agent")
    /\ token' = [token EXCEPT ![k] = gen[k]]
    /\ loaded' = [loaded EXCEPT ![k] = @ \cup {gen[k]}]
    /\ engine' = [engine EXCEPT !.grant = FALSE]
    /\ UNCHANGED <<queues, locks, modes, approvals, gen, file, clearing>>

\* A blocked tool: allowed at once if its user approved it for the session ...
AutoApprove(k) ==
    /\ pc[k] = "agent" /\ <<k, author[k]>> \in scopes
    /\ engine' = [engine EXCEPT !.grant = TRUE]
    /\ UNCHANGED <<queues, pc, locks, modes, approvals, sessions>>

\* ... and otherwise the user is asked, and the thread waits.
Escalate(k) ==
    /\ <<k, author[k]>> \notin scopes
    /\ Step(k, "agent", "asking")
    /\ asks' = [asks EXCEPT ![RoomOf[k]] =
                   [key |-> k, user |-> author[k], verdict |-> "none"]]
    /\ UNCHANGED <<queues, locks, modes, planAsks, engine, sessions>>

Resolve(k) ==
    /\ Step(k, "asking", "agent")
    /\ Ask(k).verdict # "none"
    /\ asks' = [asks EXCEPT ![RoomOf[k]] = NoAsk]
    /\ engine' = [engine EXCEPT !.grant = @ \/ Ask(k).verdict \in {"once", "session"}]
    /\ scopes' = IF Ask(k).verdict = "session" THEN scopes \cup {<<k, author[k]>>}
                 ELSE scopes
    /\ UNCHANGED <<queues, locks, chatMode, planKeys, planAsks, sessions>>

\* The prompt cannot be sent, or nobody answers it for APPROVAL_TIMEOUT seconds ...
GiveUp(k) ==
    /\ Step(k, "asking", "expired")
    /\ UNCHANGED <<queues, locks, modes, approvals, engine, sessions>>

\* Mutants: the entry of an unanswered prompt stays, or its action is allowed.
WithdrawLate(k) ==
    /\ Step(k, "expired", "agent")
    /\ UNCHANGED <<queues, locks, modes, approvals, engine, sessions>>

WithdrawOpen(k) ==
    /\ Step(k, "expired", "agent")
    /\ asks' = [asks EXCEPT ![RoomOf[k]] = NoAsk]
    /\ engine' = [engine EXCEPT !.grant = TRUE]
    /\ UNCHANGED <<queues, locks, modes, planAsks, sessions>>

\* ... and the action is denied, whatever was answered in between.
Withdraw(k) ==
    /\ Step(k, "expired", "agent")
    /\ asks' = [asks EXCEPT ![RoomOf[k]] = NoAsk]
    /\ UNCHANGED <<queues, locks, modes, planAsks, engine, sessions>>

\* The approved call runs and spends the grant.
Spend(k) ==
    /\ pc[k] = "agent" /\ engine.grant
    /\ engine' = [engine EXCEPT !.grant = FALSE]
    /\ UNCHANGED <<queues, pc, locks, modes, approvals, sessions>>

\* present_plan, in plan mode only.
PresentPlan(k) ==
    /\ engine.mode = "plan-only"
    /\ Step(k, "agent", "planAsking")
    /\ planAsks' = [planAsks EXCEPT ![RoomOf[k]] =
                       [key |-> k, user |-> author[k], verdict |-> "none"]]
    /\ UNCHANGED <<queues, locks, modes, asks, engine, sessions>>

\* The approved plan is carried out in the mode chosen with it ...
CarryOutPlan(k) ==
    /\ Step(k, "planAsking", "agent")
    /\ PlanAsk(k).verdict \in Modes
    /\ planAsks' = [planAsks EXCEPT ![RoomOf[k]] = NoAsk]
    /\ engine' = [engine EXCEPT !.mode = PlanAsk(k).verdict, !.approved = TRUE,
                                !.grant = FALSE]
    /\ UNCHANGED <<queues, locks, modes, asks, sessions>>

\* ... and a declined one ends the turn.
DropPlan(k) ==
    /\ Step(k, "planAsking", "answered")
    /\ PlanAsk(k).verdict = "no"
    /\ planAsks' = [planAsks EXCEPT ![RoomOf[k]] = NoAsk]
    /\ UNCHANGED <<queues, locks, modes, asks, engine, sessions>>

PlanGivesUp(k) ==
    /\ Step(k, "planAsking", "planExpired")
    /\ UNCHANGED <<queues, locks, modes, approvals, engine, sessions>>

WithdrawPlan(k) ==
    /\ Step(k, "planExpired", "answered")
    /\ planAsks' = [planAsks EXCEPT ![RoomOf[k]] = NoAsk]
    /\ UNCHANGED <<queues, locks, modes, asks, engine, sessions>>

\* SessionStore.save: the generation is compared, the file written elsewhere ...
CheckSave(k) ==
    /\ \/ Step(k, "agent", IF token[k] = gen[k] THEN "saving" ELSE "agent")
       \/ Step(k, "answered", IF token[k] = gen[k] THEN "finalSaving" ELSE "returned")
    /\ UNCHANGED <<queues, locks, modes, approvals, engine, sessions>>

\* ... and moved into place.
WriteSave(k) ==
    /\ Step(k, "saving", "agent") \/ Step(k, "finalSaving", "returned")
    /\ file' = [file EXCEPT ![k] = loaded[k]]
    /\ UNCHANGED <<queues, locks, modes, approvals, engine, gen, loaded, token, clearing>>

AgentReturns(k) ==
    /\ Step(k, "agent", "answered")
    /\ UNCHANGED <<queues, locks, modes, approvals, engine, sessions>>

\* AgentInterrupted: the loop polls the flag, but not while it waits for a user.
AgentInterrupted(k) ==
    /\ stopper # NoKey
    /\ Step(k, "agent", "raised")
    /\ UNCHANGED <<queues, locks, modes, approvals, engine, sessions>>

\* The provider fails, or the turn's budget is exceeded.
AgentFails(k) ==
    /\ Step(k, "agent", "raised")
    /\ UNCHANGED <<queues, locks, modes, approvals, engine, sessions>>

-----------------------------------------------------------------------------
Init ==
    /\ sent = 0
    /\ hits = [u \in Users |-> 0]
    /\ spawned = [k \in Keys |-> [u \in Users |-> 0]]
    /\ reader = NoKey
    /\ pc = [k \in Keys |-> "idle"]
    /\ author = [k \in Keys |-> CHOOSE u \in Users : TRUE]
    /\ pending = [k \in Keys |-> <<>>]
    /\ waiting = <<>>
    /\ turnKey = NoKey
    /\ stopper = NoKey
    /\ chatMode = [k \in Keys |-> NoMode]
    /\ planKeys = {}
    /\ scopes = {}
    /\ asks = [r \in Rooms |-> NoAsk]
    /\ planAsks = [r \in Rooms |-> NoAsk]
    /\ engine = [mode |-> DefaultMode, back |-> NoMode, approved |-> FALSE,
                 grant |-> FALSE]
    /\ gen = [k \in Keys |-> 0]
    /\ file = [k \in Keys |-> {}]
    /\ loaded = [k \in Keys |-> {}]
    /\ token = [k \in Keys |-> 0]
    /\ clearing = NoKey

Slash(k, u) ==
    \/ \E more \in BOOLEAN :
          \/ Inform(k, u, more) \/ New(k, u, more) \/ Stop(k, u, more) \/ Plan(k, u, more)
          \/ \E v \in Verdicts \ {"none"} : Answer(k, u, v, more)
          \/ \E v \in PlanVerdicts \ {"none"} : AnswerPlan(k, u, v, more)
    \/ \E m \in Modes : SetMode(k, u, m)

Message(k, u) == Text(k, u) \/ Reject(k, u) \/ Slash(k, u)

Replay(k, u) == RunSpawned(k, u) \/ RejectSpawned(k, u)

AgentEnds(k) == AgentReturns(k) \/ AgentInterrupted(k) \/ AgentFails(k)

Turn(k) ==
    \/ StartTurn(k) \/ EndTurn(k) \/ AbortTurn(k) \/ Finish(k)
    \/ Load(k) \/ ReadGeneration(k)
    \/ AutoApprove(k) \/ Escalate(k) \/ Resolve(k) \/ GiveUp(k) \/ Withdraw(k) \/ Spend(k)
    \/ PresentPlan(k) \/ CarryOutPlan(k) \/ DropPlan(k) \/ PlanGivesUp(k) \/ WithdrawPlan(k)
    \/ CheckSave(k) \/ WriteSave(k) \/ AgentEnds(k)

Next ==
    \/ \E k \in Keys, u \in Users : Message(k, u) \/ Replay(k, u)
    \/ \E k \in Keys : Turn(k) \/ NewEnds(k)

Spec == Init /\ [][Next]_vars

\* The loop runs what is ready, the thread goes on, a wait times out, and the
\* agent loop is bounded by max_turns.
Fairness ==
    /\ \A k \in Keys : WF_vars(Turn(k)) /\ SF_vars(AgentEnds(k))
    /\ \A k \in Keys, u \in Users : WF_vars(Replay(k, u))
    /\ WF_vars(\E k \in Keys : NewEnds(k))

FairSpec == Spec /\ Fairness
-----------------------------------------------------------------------------
(* Properties.                                                             *)

InThread(k) == pc[k] \in Thread

\* "Only one agent turn can run at a time regardless of which chat it's from",
\* since turns share the engine's globals.
OneTurn == \A k, j \in Keys : InThread(k) /\ InThread(j) => k = j

\* /stop "interrupts its own chat's turn and never a bystander's", and a flag
\* raised for a turn is gone when the next one starts.
StopsOwnTurn == stopper # NoKey => turnKey = stopper /\ InThread(stopper)

\* A prompt in a room belongs to a turn of that room that is waiting for it:
\* none outlives its turn, and a plan and an action are never pending together.
AsksAreOfTheTurn ==
    /\ \A r \in Rooms : asks[r] # NoAsk =>
          RoomOf[asks[r].key] = r /\ pc[asks[r].key] \in {"asking", "expired"}
    /\ \A r \in Rooms : planAsks[r] # NoAsk =>
          /\ RoomOf[planAsks[r].key] = r
          /\ pc[planAsks[r].key] \in {"planAsking", "planExpired"}
    /\ \A r, s \in Rooms : asks[r] # NoAsk => planAsks[s] = NoAsk

\* "A second /approve then /deny could flip a verdict the engine already
\* received": the answer to an escalation is given once.
VerdictIsFinal ==
    [][\A r \in Rooms :
          asks[r] # NoAsk /\ asks[r].verdict # "none" => asks'[r] \in {asks[r], NoAsk}]_vars

\* Approvals fail closed: a grant comes from the running turn's requester, who
\* approved this action or all of its kind in this session.
GrantsAreApproved ==
    [][~engine.grant /\ engine'.grant =>
          \E k \in Keys :
             /\ turnKey = k
             /\ \/ <<k, author[k]>> \in scopes
                \/ /\ pc[k] = "asking"
                   /\ Ask(k).user = author[k] /\ Ask(k).verdict \in {"once", "session"}]_vars

\* "Slash handlers must never touch engine globals": the mode moves only when a
\* turn takes or gives back the lock, or when its own plan is approved.
ModeMovesWithTurns ==
    [][engine'.mode # engine.mode =>
          \/ turnKey' # turnKey
          \/ \E k \in Keys : /\ turnKey = k /\ pc[k] = "planAsking"
                             /\ PlanAsk(k).verdict = engine'.mode]_vars

\* A queued message is never stranded: while messages are queued, the session has
\* a turn under way or a replay scheduled.  (With the rate limiter off.)
NothingStranded ==
    \A k \in Keys : pending[k] # <<>> =>
        pc[k] # "idle" \/ \E u \in Users : spawned[k][u] > 0

\* Every message that was accepted is answered, or cleared by its session.
QueuesDrain ==
    \A k \in Keys :
        (pc[k] # "idle" \/ pending[k] # <<>>) ~> (pc[k] = "idle" /\ pending[k] = <<>>)

\* "When a tool is blocked, the bot asks. Reply /approve or /deny": the room that
\* is asked can deliver the reply.
PromptIsAnswerable ==
    \A k \in Keys : pc[k] \in {"asking", "planAsking"} => Deliverable(k)

\* "One allowlisted person flipping it to full-auto must not silently apply to
\* every other user's turns": a session where nobody types /mode keeps the default.
OthersKeepTheirMode == \A k \in Keys \ Bold : ModeOf(k) = DefaultMode

\* /new "mid-turn bumps [the generation], and the saves below then no-op instead
\* of resurrecting a just-cleared session": a session file holds no message from
\* before the last /new.
NewStaysNew == \A k \in Keys : file[k] \subseteq {gen[k]}

\* The gateway's turns use the engine as SharedEngine says: its owners are the
\* sessions, it has no guests, and its questions are the entries a room's prompts
\* are kept in.
KeysOf(prompts) == {prompts[r].key : r \in Rooms} \ {NoKey}
KeysAnswered(prompts) ==
    {prompts[r].key : r \in {x \in Rooms : prompts[x] # NoAsk /\ prompts[x].verdict # "none"}}

Turning == {k \in Keys : InThread(k)}
Stopped == {stopper} \ {NoKey}
Asking == KeysOf(asks) \cup KeysOf(planAsks)
Answered == KeysAnswered(asks) \cup KeysAnswered(planAsks)

Shared == INSTANCE SharedEngine WITH
    Owners <- Keys, Allowances <- Keys \X Users,
    using <- Turning, guests <- {}, told <- Stopped, asking <- Asking, answered <- Answered,
    allowed <- scopes

\* "Only one agent turn can run at a time regardless of which chat it's from"; a
\* stop, a prompt and its answer are the running turn's and end with it; and an
\* approval for the session follows an answer to that turn's prompt.
SharesTheEngine == Shared!Spec
=============================================================================
