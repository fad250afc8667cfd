----------------------------- MODULE AgentTurn -----------------------------
(***************************************************************************)
(* A turn of the agent on the terminal (engine.py, cli.py): permission     *)
(* modes and plan sessions, approvals and the grants they leave, explicit  *)
(* plans, sub-agents and audits under the permission floor, the token      *)
(* budget, the denial breaker and ESC.                                     *)
(*                                                                         *)
(* One thread runs the turn; ESC comes from another one.  A step is        *)
(* what happens between two tests of the ESC flag, two prompts, or two     *)
(* decisions of the model.  Depth 0 is the main agent, depth 1 the         *)
(* sub-agent it waits for (SUBAGENT_MAX_DEPTH is 1).  Beside it run the    *)
(* workers of document_read, which call the model for the chunks of a      *)
(* document and outlive the tool call, and the turn, that started them.    *)
(***************************************************************************)
EXTENDS Integers

CONSTANTS Writes,      \* calls that readonly mode does not let through
          OwnGate,     \* the writes whose own gate asks under the floor too:
                       \* create_subagent, web requests and searches, code
                       \* review, changes of MCP servers
          Pushes,      \* git_push calls, one for each target
          Delegated,   \* the writes that a plan step gives to the coder profile
          PinnedCalls, \* the calls a profile with "permission: readonly" offers
          NoCall, AnyCall, \* no call; the key of a grant bound to no call
          MaxTokens,   \* max_turn_tokens, 0 for none
          Cost,        \* bound: the tokens of one model call
          Workers,     \* bound: document workers at work at once
          MaxAudits,   \* plan_audit_max_per_turn, 0 also for plan_audit off
          Threshold,   \* denial_breaker_threshold, 0 for none
          MaxRounds,   \* max_turns of a run
          MaxCalls,    \* bound: calls in one round
          MaxSteps     \* bound: steps of an explicit plan

Calls == Writes \cup Pushes
Chosen == {"readonly", "full-auto"}

ASSUME AgentAssumption ==
    /\ Writes \cap Pushes = {} /\ Delegated \subseteq Writes
    /\ PinnedCalls \subseteq Calls /\ OwnGate \subseteq Writes
    /\ NoCall \notin Calls /\ AnyCall \notin Calls /\ NoCall # AnyCall
    /\ MaxTokens \in Nat /\ Cost \in Nat \ {0} /\ Workers \in Nat /\ MaxAudits \in Nat
    /\ Threshold \in Nat /\ MaxRounds \in Nat \ {0}
    /\ MaxCalls \in Nat \ {0} /\ MaxSteps \in Nat

VARIABLES
    mode,       \* PERMISSION_MODE
    returnMode, \* _plan_return_mode
    approved,   \* _plan_approved
    grants,     \* _one_shot_grants
    pending,    \* _pending_approval_key
    remote,     \* _remote_git_grant: the push target that was approved
    floor,      \* _permission_floor_readonly
    denials,    \* _consecutive_denials
    used,       \* the tokens of each depth's budget
    flight,     \* the model calls that document workers wait for
    audits,     \* _audit_calls_this_turn
    always,     \* _session_allowlist: kinds of calls that no longer ask
    stop,       \* EscListener.triggered
    loop,       \* where each depth's loop is, its counters and its call
    steps,      \* steps of the explicit plan that were not taken
    sub,        \* why the sub-agent runs, and what its end puts back
    effect,     \* the call that took effect in the last step
    owed,       \* the calls that the user approved and that did not run yet
    typed,      \* the mode that the user set outside a plan session
    agreed,     \* the mode in which the user approved the last plan
    failed,     \* a turn with an approved plan ended in an error
    aborted     \* ESC was noticed in this turn

shown == <<owed, typed, agreed, failed, aborted>>
granting == <<grants, pending, remote>>
session == <<mode, returnMode, approved>>
tokens == <<used, flight>>
vars == <<session, granting, floor, denials, tokens, audits, always, stop, loop,
          steps, sub, effect, shown>>

Depths == {0, 1}
Kind(c) == IF c \in Pushes THEN "push" ELSE "write"

Fresh(where) ==
    [at |-> where, rounds |-> 0, calls |-> 0, all |-> FALSE, call |-> NoCall]
Idle == Fresh("idle")
NoSub == [why |-> "none", pinned |-> FALSE, max |-> 0, mode |-> "readonly",
          grants |-> {}, remote |-> NoCall, floor |-> FALSE, owed |-> {}]

Loop == [at : {"idle", "round", "acting", "asking", "presenting", "steps",
               "inline", "stepAsking", "again", "verify", "suspect"},
         rounds : 0 .. MaxRounds, calls : 0 .. MaxCalls, all : BOOLEAN,
         call : Calls \cup {NoCall}]
Sub == [why : {"none", "task", "step", "audit", "confirm"}, pinned : BOOLEAN,
        max : 0 .. MaxTokens, mode : Chosen \cup {"plan-only"},
        grants : SUBSET (Calls \cup {AnyCall}), remote : Pushes \cup {NoCall},
        floor : BOOLEAN, owed : SUBSET Calls]

TypeOK ==
    /\ mode \in Chosen \cup {"plan-only"}
    /\ returnMode \in Chosen \cup {"none"}
    /\ approved \in BOOLEAN
    /\ grants \subseteq Calls \cup {AnyCall}
    /\ pending \in Calls \cup {NoCall}
    /\ remote \in Pushes \cup {NoCall}
    /\ floor \in BOOLEAN
    /\ denials \in Nat
    /\ used \in [Depths -> Nat]
    /\ flight \in 0 .. Workers
    /\ audits \in 0 .. MaxAudits
    /\ always \subseteq {"write", "push"}
    /\ stop \in BOOLEAN
    /\ loop \in [Depths -> Loop]
    /\ steps \in 0 .. MaxSteps
    /\ sub \in Sub
    /\ effect \in Calls \cup {NoCall}
    /\ owed \subseteq Calls
    /\ typed \in Chosen
    /\ agreed \in Chosen
    /\ failed \in BOOLEAN
    /\ aborted \in BOOLEAN
-----------------------------------------------------------------------------
(***************************************************************************)
(* What the steps are made of                                              *)
(***************************************************************************)
Running == loop[0].at # "idle"

\* The loop that runs, and whose budget is the active one: the main one waits
\* for its sub-agent.
Active == IF loop[1].at = "idle" THEN 0 ELSE 1
At(d, where) ==
    /\ d = Active
    /\ loop[d].at = where

Go(d, where) == loop' = [loop EXCEPT ![d].at = where]

Within(d, n) ==
    LET max == IF d = 0 THEN MaxTokens ELSE sub.max
    IN  max = 0 \/ n < max
Exceeded(d) == ~Within(d, used[d])

\* What a call of the loop's adds.  It takes no lock: of two additions at once,
\* a worker's and its own, one may be lost.
Bills == (IF flight = 0 THEN 1 ELSE 0) .. Cost

\* set_permission_mode: the grants of the old mode go with it.
SetMode(m) == mode' = m /\ grants' = {} /\ pending' = NoCall /\ owed' = {}

\* The gate of run_tool: a push needs its own approval in every mode, any
\* other call that one of check_permission's cases lets it through.
Granted(c) == grants \cap {c, AnyCall} # {}
Allowed(c) ==
    IF c \in Pushes THEN remote = c
    ELSE mode = "full-auto" \/ (mode = "readonly" /\ Granted(c))

\* It asks, unless the planning mode refuses, or the permission floor, which the
\* gates that come before the common one do not look at.
Asks(c) ==
    /\ ~Allowed(c)
    /\ c \in Pushes \/ (mode = "readonly" /\ (floor => c \in OwnGate))

\* An approval is spent by the call that uses it.
SpentAny(c) ==
    IF c \in Pushes \/ mode = "full-auto" THEN grants ELSE grants \ {AnyCall}
Spent(c) ==
    IF c \in Pushes \/ mode = "full-auto" THEN grants
    ELSE grants \ {IF AnyCall \in grants THEN AnyCall ELSE c}

\* The call runs.
Effect(c) ==
    /\ effect' = c
    /\ grants' = Spent(c)
    /\ remote' = IF c \in Pushes THEN NoCall ELSE remote
    /\ owed' = owed \ {c}
    /\ UNCHANGED pending

\* No call runs.
Quiet == effect' = NoCall

\* grant_escalation
GrantEscalation(c) ==
    IF c \in Pushes
    THEN remote' = c /\ pending' = NoCall /\ UNCHANGED grants
    ELSE /\ grants' = grants \cup {IF pending = NoCall THEN AnyCall ELSE pending}
         /\ pending' = NoCall /\ remote' = NoCall

\* What a sub-agent's finally block puts back.
Now == [mode |-> mode, grants |-> grants, remote |-> remote, floor |-> floor, owed |-> owed]
AfterLeaky == [Now EXCEPT !.mode = IF sub.pinned THEN sub.mode ELSE mode]
After ==
    IF sub.pinned
    THEN [mode |-> sub.mode, grants |-> sub.grants, remote |-> sub.remote,
          floor |-> sub.floor, owed |-> sub.owed]
    ELSE Now

\* _after_turn_plan_state: an approved plan's mode ends with its turn.
NothingFinished ==
    /\ mode' = After.mode /\ grants' = After.grants /\ owed' = After.owed
    /\ UNCHANGED <<pending, approved, returnMode, failed>>
AfterTurn ==
    IF approved
    THEN /\ SetMode(IF returnMode = "none" THEN "readonly" ELSE returnMode)
         /\ approved' = FALSE /\ returnMode' = "none" /\ failed' = (failed /\ returnMode # typed)
    ELSE NothingFinished

\* The child's tokens are billed to the parent.
Billed == [used EXCEPT ![0] = @ + used[1], ![1] = 0]

NothingRuns == loop' = [d \in Depths |-> Idle] /\ steps' = 0 /\ sub' = NoSub

\* The turn is over: on an answer and on an interrupt.
TurnOver ==
    /\ AfterTurn
    /\ remote' = After.remote /\ floor' = After.floor
    /\ used' = Billed /\ UNCHANGED flight /\ NothingRuns
    /\ stop' = FALSE /\ aborted' = FALSE
    /\ UNCHANGED <<audits, always, typed, agreed>>

\* The sub-agent is done and the main loop goes on at `where`.
SubOver(where) ==
    /\ mode' = After.mode /\ grants' = After.grants
    /\ remote' = After.remote /\ floor' = After.floor /\ owed' = After.owed
    /\ used' = Billed /\ UNCHANGED flight /\ sub' = NoSub
    /\ loop' = [loop EXCEPT ![0].at = where, ![1] = Idle]
    /\ UNCHANGED <<returnMode, approved, pending, audits, always, stop, typed,
                   agreed, failed>>

\* A failed step, or a failed verdict on one, halts the plan.
Halt == steps' = 0 /\ Go(0, "acting")
Resume == IF steps = 0 THEN "acting" ELSE "steps"
-----------------------------------------------------------------------------
(***************************************************************************)
(* The user, between turns and with ESC                                    *)
(***************************************************************************)
Init ==
    /\ mode \in Chosen /\ typed = mode
    /\ returnMode = "none" /\ approved = FALSE
    /\ grants = {} /\ pending = NoCall /\ remote = NoCall
    /\ floor = FALSE /\ denials = 0 /\ used = [d \in Depths |-> 0] /\ flight = 0
    /\ audits = 0
    /\ always = {} /\ stop = FALSE
    /\ loop = [d \in Depths |-> Idle] /\ steps = 0 /\ sub = NoSub
    /\ effect = NoCall /\ owed = {} /\ agreed = mode
    /\ failed = FALSE /\ aborted = FALSE

\* /mode
Mode(m) ==
    /\ Quiet
    /\ ~Running
    /\ SetMode(m) /\ typed' = m
    /\ returnMode' = "none" /\ approved' = FALSE /\ failed' = FALSE
    /\ UNCHANGED <<remote, floor, denials, tokens, audits, always, stop, loop,
                   steps, sub, agreed, aborted>>

\* /plan; a second one keeps the mode to come back to.
ReturnAlways == mode
ReturnTo == IF mode # "plan-only" THEN mode ELSE returnMode
Plan ==
    /\ Quiet
    /\ ~Running
    /\ SetMode("plan-only")
    /\ returnMode' = ReturnTo /\ approved' = FALSE
    /\ UNCHANGED <<remote, floor, denials, tokens, audits, always, stop, loop,
                   steps, sub, typed, agreed, failed, aborted>>

\* do_chat: a turn starts without the last one's counters and grants.
Ask ==
    /\ Quiet
    /\ ~Running
    /\ loop' = [loop EXCEPT ![0] = Fresh("round")]
    /\ grants' = {} /\ remote' = NoCall /\ pending' = NoCall /\ owed' = {}
    /\ denials' = 0 /\ audits' = 0 /\ used' = [d \in Depths |-> 0]
    /\ UNCHANGED <<session, floor, flight, always, stop, steps, sub, typed, agreed,
                   failed, aborted>>

\* ESC, which the listener does not read while a prompt is up.
Esc ==
    /\ Quiet
    /\ Running /\ ~stop
    /\ \A d \in Depths : loop[d].at \notin {"asking", "presenting", "stepAsking"}
    /\ stop' = TRUE
    /\ UNCHANGED <<session, granting, floor, denials, tokens, audits, always, loop,
                   steps, sub, shown>>
-----------------------------------------------------------------------------
(***************************************************************************)
(* The loop of a run, at either depth                                      *)
(***************************************************************************)
\* A round: the model is called with the tools of the current mode.  The test of
\* the budget and the bill are one step: of what a worker bills in between, all
\* up to its last test that passes could come before, and the rest after.
Round(d) ==
    /\ Quiet
    /\ At(d, "round") /\ ~stop /\ ~Exceeded(d)
    /\ loop[d].rounds < MaxRounds
    /\ \E n \in Bills : used' = [used EXCEPT ![d] = @ + n] /\ UNCHANGED flight
    /\ loop' = [loop EXCEPT ![d] = [at |-> "acting", rounds |-> @.rounds + 1,
                    calls |-> 0, all |-> d = 1 \/ mode # "plan-only", call |-> NoCall]]
    /\ UNCHANGED <<session, granting, floor, denials, audits, always, stop,
                   steps, sub, shown>>

\* Another call of the model: a summary, a retry, the wrap-up of a run that has
\* no rounds left.  Each is refused once the budget is spent (_check_model_budget).
Spend(d) ==
    /\ Quiet
    /\ At(d, "round") \/ At(d, "acting")
    /\ MaxTokens # 0 /\ ~Exceeded(d)
    /\ \E n \in Bills : used' = [used EXCEPT ![d] = @ + n] /\ UNCHANGED flight
    /\ UNCHANGED <<session, granting, floor, denials, audits, always, stop, loop,
                   steps, sub, shown>>

\* document_read with action=process: a worker tests the budget and calls the
\* model, and the bill comes with the reply.
Launch(d) ==
    /\ Quiet
    /\ At(d, "acting") /\ ~stop /\ ~Exceeded(d)
    /\ MaxTokens # 0 /\ flight < Workers
    /\ flight' = flight + 1
    /\ UNCHANGED <<session, granting, floor, denials, used, audits, always, stop,
                   loop, steps, sub, shown>>

\* It bills the budget that is active by then, if a turn runs at all; a reply
\* that failed, or came when the budget was spent, bills nothing.  One that holds
\* only reasoning is asked for once more, which tests the budget again.
Land ==
    /\ Quiet
    /\ flight > 0
    /\ \E n \in 0 .. Cost :
          /\ used' = IF Running THEN [used EXCEPT ![Active] = @ + n] ELSE used
          /\ \/ flight' = flight - 1
             \/ Running /\ Within(Active, used[Active] + n) /\ UNCHANGED flight
    /\ UNCHANGED <<session, granting, floor, denials, audits, always, stop, loop,
                   steps, sub, shown>>

NextRound(d) ==
    /\ Quiet
    /\ At(d, "acting") /\ loop[d].calls > 0
    /\ Go(d, "round")
    /\ UNCHANGED <<session, granting, floor, denials, tokens, audits, always, stop,
                   steps, sub, shown>>

\* A run ends with an answer.  A delegated step's answer may report a failure;
\* an auditor's is a verdict, and only "fail" counts against the step.
Answer(d) ==
    IF d = 0 THEN TurnOver
    ELSE /\ UNCHANGED <<steps, aborted>>
         /\ \/ sub.why = "task" /\ SubOver("acting")
            \/ sub.why = "step" /\ \E where \in {"verify", "inline"} : SubOver(where)
            \/ sub.why \in {"audit", "confirm"} /\ SubOver(Resume)
            \/ sub.why = "audit" /\ SubOver("suspect")
Fail ==
    /\ sub.why = "confirm" /\ SubOver("acting") /\ steps' = 0 /\ UNCHANGED aborted

\* The model answers, or the loop does: no rounds or no tokens are left.
Finish(d) ==
    /\ Quiet
    /\ \/ At(d, "acting")
       \/ At(d, "round") /\ ~stop /\ (Exceeded(d) \/ loop[d].rounds = MaxRounds)
    /\ Answer(d) \/ (d = 1 /\ Fail)
    /\ UNCHANGED denials

\* AgentInterrupted unwinds the turn; a plan step that is delegated catches it
\* and runs the step inline.
Interrupt(d) ==
    IF d = 1 /\ sub.why = "step"
    THEN SubOver("inline") /\ aborted' = TRUE /\ UNCHANGED steps
    ELSE TurnOver

NoticeStop(d) ==
    /\ Quiet
    /\ At(d, "round") \/ At(d, "acting")
    /\ stop
    /\ Interrupt(d)
    /\ UNCHANGED denials

\* AnyCall other exception: the turn ends without _after_turn_plan_state, and a
\* sub-agent's becomes its answer, which Finish has.
Crash ==
    /\ Quiet
    /\ At(0, "round") /\ ~stop
    /\ NothingRuns /\ stop' = FALSE /\ aborted' = FALSE
    /\ failed' = (failed \/ approved)
    /\ UNCHANGED <<session, granting, floor, denials, tokens, audits, always, owed,
                   typed, agreed>>

\* One call of the model's: the ESC test, then run_tool's gate.
Offered(d) ==
    IF loop[d].all THEN (IF sub.pinned THEN PinnedCalls ELSE Calls) ELSE {}
Take(d, c, where) ==
    /\ At(d, "acting") /\ ~stop /\ loop[d].calls < MaxCalls /\ c \in Offered(d)
    /\ loop' = [loop EXCEPT ![d].at = where, ![d].calls = @ + 1, ![d].call = c]

\* Top-level effects are audited; a sub-agent's are not.
Run(d, c) ==
    /\ Take(d, c, IF d = 0 THEN "verify" ELSE "acting")
    /\ Allowed(c)
    /\ Effect(c)
    /\ UNCHANGED <<session, floor, denials, tokens, audits, always, stop, steps,
                   sub, typed, agreed, failed, aborted>>

Escalate(d, c) ==
    /\ Quiet
    /\ Take(d, c, "asking")
    /\ Asks(c)
    /\ pending' = c
    /\ UNCHANGED <<session, grants, remote, floor, denials, tokens, audits, always,
                   stop, steps, sub, shown>>

\* The permission floor refuses.  A command that the sandbox may run all the same
\* runs in a copy of the workspace that is thrown away: no effect either.
Refuse(d, c) ==
    /\ Quiet
    /\ Take(d, c, "acting")
    /\ ~Allowed(c) /\ ~Asks(c)
    /\ UNCHANGED <<session, granting, floor, denials, tokens, audits, always, stop,
                   steps, sub, shown>>

\* _handle_escalation
Approve(d, where) ==
    LET c == loop[d].call IN
    /\ GrantEscalation(c)
    /\ Go(d, where)
    /\ \/ Kind(c) \in always /\ UNCHANGED <<always, owed>>
       \/ Kind(c) \notin always /\ always' \in {always, always \cup {Kind(c)}}
          /\ owed' = owed \cup {c}
    /\ UNCHANGED <<session, floor, tokens, audits, stop, steps, sub, typed, agreed,
                   failed, aborted>>

Approved(d) == At(d, "asking") /\ Approve(d, "acting") /\ denials' = 0 /\ Quiet

\* The breaker ends the run that was denied too often.
Tripped(n) == Threshold > 0 /\ n >= Threshold

Denied(d) ==
    /\ Quiet
    /\ At(d, "asking") /\ Kind(loop[d].call) \notin always
    /\ denials' = denials + 1
    /\ \/ Tripped(denials') /\ Answer(d)
       \/ ~Tripped(denials') /\ Go(d, "acting")
          /\ UNCHANGED <<session, granting, floor, tokens, audits, always, stop,
                         steps, sub, shown>>

EscAtPrompt(d) ==
    /\ Quiet
    /\ At(d, "asking") /\ Kind(loop[d].call) \notin always
    /\ Interrupt(d)
    /\ UNCHANGED denials
-----------------------------------------------------------------------------
(***************************************************************************)
(* Plans and sub-agents                                                    *)
(***************************************************************************)
\* present_plan, which only the planning mode offers.
Present ==
    /\ Quiet
    /\ At(0, "acting") /\ ~stop /\ loop[0].calls < MaxCalls
    /\ mode = "plan-only"
    /\ loop' = [loop EXCEPT ![0].at = "presenting", ![0].calls = @ + 1]
    /\ UNCHANGED <<session, granting, floor, denials, tokens, audits, always, stop,
                   steps, sub, shown>>

\* An approval picks the mode in which the plan's work runs.
Agree(m) ==
    /\ Quiet
    /\ At(0, "presenting")
    /\ SetMode(m) /\ approved' = TRUE /\ agreed' = m
    /\ Go(0, "acting")
    /\ UNCHANGED <<returnMode, remote, floor, denials, tokens, audits, always, stop,
                   steps, sub, typed, failed, aborted>>

\* Declining a plan ends the turn.
Decline == At(0, "presenting") /\ TurnOver /\ UNCHANGED denials /\ Quiet

\* _exec_subagent, which a spent budget refuses.  A pinned profile runs in
\* readonly mode, without the caller's grants.  Workers that bill between the
\* refusal and _subagent_budget leave the sub-agent the least there is, a token.
WholeBudget(n) == MaxTokens
Remaining(n) ==
    IF MaxTokens = 0 THEN 0 ELSE IF n < MaxTokens THEN MaxTokens - n ELSE 1
PinKeepingMode ==
    grants' = {} /\ remote' = NoCall /\ floor' = TRUE /\ UNCHANGED mode
Pin == mode' = "readonly" /\ grants' = {} /\ remote' = NoCall /\ floor' = TRUE
StartSub(why, pinned, call) ==
    /\ ~Exceeded(0)
    /\ \E late \in 0 .. flight : \E n \in 0 .. late * Cost :
          /\ used' = [used EXCEPT ![0] = @ + n] /\ flight' = flight - late
          /\ sub' = [why |-> why, pinned |-> pinned, max |-> Remaining(used[0] + n),
                     mode |-> mode, floor |-> floor,
                     grants |-> IF pinned THEN grants ELSE {},
                     remote |-> IF pinned THEN remote ELSE NoCall,
                     owed |-> IF pinned THEN owed ELSE {}]
    /\ loop' = [loop EXCEPT ![0].call = call, ![1] = Fresh("round")]
    /\ IF pinned THEN Pin /\ owed' = {} ELSE UNCHANGED <<mode, grants, remote, floor, owed>>
    /\ UNCHANGED <<returnMode, approved, pending, denials, always, stop, typed,
                   agreed, failed, aborted>>

\* spawn_subagent; a spawned sub-agent may be of either kind.
Spawn(pinned) ==
    /\ Quiet
    /\ At(0, "acting") /\ ~stop /\ loop[0].calls < MaxCalls /\ loop[0].all
    /\ StartSub("task", pinned, NoCall)
    /\ UNCHANGED <<audits, steps>>

\* execute_plan
ExecutePlan ==
    /\ Quiet
    /\ At(0, "acting") /\ ~stop /\ loop[0].calls < MaxCalls
    /\ loop[0].all /\ mode # "plan-only"
    /\ steps' \in 1 .. MaxSteps
    /\ loop' = [loop EXCEPT ![0].at = "steps", ![0].calls = @ + 1]
    /\ UNCHANGED <<session, granting, floor, denials, tokens, audits, always, stop,
                   sub, shown>>

\* A step goes to a sub-agent of its own or runs inline; there is no ESC test
\* between the steps.
TakeStep(c) ==
    /\ Quiet
    /\ At(0, "steps")
    /\ steps' = steps - 1
    /\ \/ c \in Delegated /\ StartSub("step", FALSE, c) /\ UNCHANGED audits
       \/ /\ c \notin Delegated \/ Exceeded(0)
          /\ loop' = [loop EXCEPT ![0].at = "inline", ![0].call = c]
          /\ UNCHANGED <<session, granting, floor, denials, tokens, audits, always,
                         stop, sub, shown>>

\* A step that names no tool, or not its arguments, halts the plan.
BadStep ==
    /\ Quiet
    /\ At(0, "steps") /\ Halt
    /\ UNCHANGED <<session, granting, floor, denials, tokens, audits, always, stop,
                   sub, shown>>

\* Once inline, and once more after an approval.
RunStep ==
    /\ At(0, "inline") \/ At(0, "again")
    /\ Allowed(loop[0].call)
    /\ Effect(loop[0].call)
    /\ Go(0, "verify")
    /\ UNCHANGED <<session, floor, denials, tokens, audits, always, stop, steps,
                   sub, typed, agreed, failed, aborted>>

EscalateStep ==
    /\ Quiet
    /\ At(0, "inline") /\ Asks(loop[0].call)
    /\ pending' = loop[0].call
    /\ Go(0, "stepAsking")
    /\ UNCHANGED <<session, grants, remote, floor, denials, tokens, audits, always,
                   stop, steps, sub, shown>>

ApprovedStep == At(0, "stepAsking") /\ Approve(0, "again") /\ UNCHANGED <<denials, steps>> /\ Quiet

\* A step that was denied, or still asks, is a failed one.
DeniedStep ==
    /\ Quiet
    /\ \/ At(0, "stepAsking") /\ Kind(loop[0].call) \notin always
       \/ At(0, "again") /\ ~Allowed(loop[0].call)
    /\ Halt
    /\ UNCHANGED <<session, granting, floor, denials, tokens, audits, always, stop,
                   sub, shown>>

EscAtStep ==
    /\ Quiet
    /\ At(0, "stepAsking") /\ Kind(loop[0].call) \notin always
    /\ TurnOver /\ UNCHANGED denials

\* _audit_with_confirmation: a verdict against the step needs a second one.
Audit ==
    /\ Quiet
    /\ At(0, "verify") \/ At(0, "suspect")
    /\ audits < MaxAudits /\ audits' = audits + 1
    /\ StartSub(IF loop[0].at = "verify" THEN "audit" ELSE "confirm", TRUE, loop[0].call)
    /\ UNCHANGED steps

\* Nothing to verify, or no audits or tokens left.
NoAudit ==
    /\ Quiet
    /\ At(0, "verify") \/ (At(0, "suspect") /\ (audits = MaxAudits \/ Exceeded(0)))
    /\ Go(0, Resume)
    /\ UNCHANGED <<session, granting, floor, denials, tokens, audits, always, stop,
                   steps, sub, shown>>
-----------------------------------------------------------------------------
Next ==
    \/ \E m \in Chosen : Mode(m) \/ Agree(m)
    \/ Plan
    \/ Ask
    \/ Esc
    \/ \E d \in Depths :
          \/ Round(d)
          \/ Spend(d)
          \/ Launch(d)
          \/ NextRound(d)
          \/ Finish(d)
          \/ NoticeStop(d)
          \/ Approved(d)
          \/ Denied(d)
          \/ EscAtPrompt(d)
          \/ \E c \in Calls : Run(d, c) \/ Escalate(d, c) \/ Refuse(d, c)
    \/ Land
    \/ Crash
    \/ Present
    \/ Decline
    \/ \E pinned \in BOOLEAN : Spawn(pinned)
    \/ ExecutePlan
    \/ \E c \in Calls : TakeStep(c)
    \/ BadStep
    \/ RunStep
    \/ EscalateStep
    \/ ApprovedStep
    \/ DeniedStep
    \/ EscAtStep
    \/ Audit
    \/ NoAudit

Spec == Init /\ [][Next]_vars
-----------------------------------------------------------------------------
(***************************************************************************)
(* What a turn must guarantee                                              *)
(***************************************************************************)
\* The permission floor is up exactly while a pinned sub-agent runs.  Under it the
\* mode is readonly, only calls with a gate of their own and pushes may ask, and
\* the approvals that are live were given under it to such calls: none of the
\* caller's is (_exec_subagent, run_tool).
FloorHolds ==
    /\ floor <=> sub.pinned
    /\ sub.pinned => loop[1].at # "idle"
    /\ floor => /\ mode = "readonly"
                /\ \A c \in grants \cup ({remote} \ {NoCall}) :
                      c \in OwnGate \cup Pushes /\ (c \in owed \/ Kind(c) \in always)
                /\ loop[1].at = "asking" => loop[1].call \in OwnGate \cup Pushes

\* What takes effect under the floor is a call with a gate of its own or a push,
\* and the user approved it under the floor, or its kind for the session.
AskedUnderTheFloor ==
    [][floor /\ effect' # NoCall =>
           /\ effect' \in OwnGate \cup Pushes
           /\ effect' \in owed \/ Kind(effect') \in always]_vars

\* The session is in the mode that the user set with /mode, or in a plan
\* session that comes back to it; the mode of an approved plan ends with its
\* turn, unless an error ended the turn (finish_plan_session, cmd_mode).
ModeIsTyped ==
    LET m == After.mode IN
    ~failed =>
        \/ m = typed /\ ~approved
        \/ m = "plan-only" /\ returnMode = typed /\ ~approved
        \/ m = agreed /\ returnMode = typed /\ approved /\ Running

\* A call takes effect in full-auto mode, after an approval of that very call
\* in this turn and since the last change of mode, or after an approval of its
\* kind for the session.  Each approval serves once (run_tool, grant_escalation).
SpendsOwnApproval ==
    [][\A c \in Calls : effect' = c =>
           \/ c \in Writes /\ mode = "full-auto"
           \/ c \in owed
           \/ Kind(c) \in always]_vars

\* A turn, its sub-agents and their audits included, goes over the token limit
\* by less than one model call of the loop and two of each document worker: the
\* calls in flight when a sub-agent starts, and those in flight when it ends
\* (_TurnBudget, _subagent_budget, _bill_parent, document_read).
BudgetHolds ==
    MaxTokens # 0 => used[0] + used[1] < MaxTokens + (2 * Workers + 1) * Cost

\* Once ESC has been noticed, nothing takes effect before the next turn.
StopIsFinal == [][aborted => effect' = NoCall]_vars
=============================================================================
