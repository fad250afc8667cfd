--------------------------- MODULE AgentTurnProofs ---------------------------
(***************************************************************************)
(* Proofs about AgentTurn: the inductive invariant behind the permission   *)
(* floor, the approvals, the modes of plan sessions and the token budget;  *)
(* what becomes of ESC; and that the planning mode changes nothing.        *)
(***************************************************************************)
EXTENDS AgentTurn, TLAPS

\* The sub-agent runs only inside a turn, and never starts one of its own.
Nesting ==
    /\ loop[1].at \in {"idle", "round", "acting", "asking"}
    /\ loop[1].at = "idle" <=> sub.why = "none"
    /\ sub.why = "none" => ~sub.pinned
    /\ loop[1].at # "idle" => loop[0].at \in {"acting", "steps", "verify", "suspect"}
    /\ ~sub.floor
    /\ ~sub.pinned => sub.grants = {} /\ sub.remote = NoCall

\* Where the main loop is says what its call, its plan and its mode are.
Positions ==
    /\ loop[0].at = "steps" /\ loop[1].at = "idle" => steps > 0
    /\ loop[0].at \in {"inline", "again", "stepAsking", "asking"} \/ sub.why = "step"
           => loop[0].call \in Calls
    /\ loop[1].at = "asking" => loop[1].call \in Calls
    /\ loop[0].at = "presenting" => mode = "plan-only"
    /\ mode = "plan-only" /\ Running =>
           /\ loop[0].at \in {"round", "acting", "presenting"}
           /\ ~loop[0].all /\ loop[1].at = "idle" /\ remote = NoCall
    /\ sub.pinned => sub.mode \in Chosen

\* A live approval is one that the user gave and that no call has used; those
\* put away for a pinned sub-agent are approvals of the caller's calls.
Backed(c) == c \in owed \/ Kind(c) \in always
PutAway(c) == c \in sub.owed \/ Kind(c) \in always
Approvals ==
    /\ \A c \in grants : c \in Writes /\ Backed(c)
    /\ \A c \in sub.grants : c \in Writes /\ PutAway(c)
    /\ mode # "readonly" => grants = {}
    /\ sub.mode # "readonly" => sub.grants = {}
    /\ Running /\ remote # NoCall => Backed(remote)
    /\ sub.remote # NoCall => PutAway(sub.remote)
    /\ loop[0].at \in {"asking", "stepAsking"} => pending = loop[0].call
    /\ loop[1].at = "asking" => pending = loop[1].call
    /\ \A d \in Depths : (loop[d].at = "asking" \/ loop[d].at = "stepAsking")
           /\ loop[d].call \in Writes => mode = "readonly"

\* What each depth has spent and the workers may still bill it.
Budget ==
    /\ loop[1].at = "idle" => used[1] = 0
    /\ MaxTokens # 0 /\ loop[1].at = "idle" =>
           used[0] + flight * Cost < MaxTokens + (2 * Workers + 1) * Cost
    /\ MaxTokens # 0 /\ loop[1].at # "idle" =>
           /\ sub.max = Remaining(used[0])
           /\ used[0] < MaxTokens + Workers * Cost
           /\ used[1] + flight * Cost < sub.max + (Workers + 1) * Cost

IInv ==
    /\ TypeOK
    /\ Nesting
    /\ FloorHolds
    /\ Positions
    /\ Approvals
    /\ Budget
    /\ ModeIsTyped

USE DEF Depths, Calls, Chosen, Active, At, session, granting, tokens, shown, Quiet

\* The records of a loop and of a sub-agent that do nothing yet.
LEMMA Nothing == Fresh("round") \in Loop /\ Idle \in Loop /\ NoSub \in Sub
BY AgentAssumption DEF Fresh, Idle, NoSub, Loop, Sub
\* What workers in flight can still bill.
LEMMA Loads ==
    /\ Workers * Cost \in Nat /\ (Workers + 1) * Cost = Workers * Cost + Cost
    /\ (2 * Workers + 1) * Cost = 2 * (Workers * Cost) + Cost
    /\ \A f \in 0 .. Workers :
          f * Cost \in Nat /\ f * Cost <= Workers * Cost
    /\ \A f \in Nat : (f + 1) * Cost = f * Cost + Cost
    /\ \A f, g \in Nat : (f - g) * Cost = f * Cost - g * Cost
<1> USE AgentAssumption
<1>1. /\ Workers * Cost \in Nat /\ (Workers + 1) * Cost = Workers * Cost + Cost
      /\ (2 * Workers + 1) * Cost = 2 * (Workers * Cost) + Cost
  OBVIOUS
<1>2. ASSUME NEW f \in 0 .. Workers PROVE f * Cost \in Nat /\ f * Cost <= Workers * Cost
  <2> DEFINE r == Workers - f
  <2>1. r \in Nat /\ r * Cost \in Nat /\ Workers * Cost = f * Cost + r * Cost
    OBVIOUS
  <2> QED BY <2>1
<1>3. \A f \in Nat : (f + 1) * Cost = f * Cost + Cost
  OBVIOUS
<1>4. \A f, g \in Nat : (f - g) * Cost = f * Cost - g * Cost
  OBVIOUS
<1> QED BY <1>1, <1>2, <1>3, <1>4

\* The bound on the tokens follows from what each depth may still be billed.
LEMMA BudgetBounds == TypeOK /\ Budget => BudgetHolds
<1> SUFFICES ASSUME TypeOK, Budget, MaxTokens # 0
             PROVE  used[0] + used[1] < MaxTokens + (2 * Workers + 1) * Cost
  BY DEF BudgetHolds
<1>1. used[0] \in Nat /\ used[1] \in Nat /\ flight * Cost \in Nat
  BY Loads DEF TypeOK
<1>2. CASE loop[1].at = "idle"
  BY <1>1, <1>2, Loads, AgentAssumption DEF Budget
<1>3. CASE loop[1].at # "idle"
  BY <1>1, <1>3, Loads, AgentAssumption DEF Budget, Remaining
<1> QED BY <1>2, <1>3

-----------------------------------------------------------------------------
(***************************************************************************)
(* What several actions do                                                 *)
(***************************************************************************)

\* The end of a turn, wherever it comes, takes down a floor that is up and
\* ends the mode of an approved plan.
LEMMA TurnOverKeeps ==
    ASSUME IInv, Running, TurnOver, denials' \in Nat, Quiet
    PROVE  IInv'
<1>1. TypeOK'
  <2>1. /\ loop' \in [Depths -> Loop] /\ used' \in [Depths -> Nat] /\ sub' \in Sub
        /\ flight' \in 0 .. Workers
    BY Nothing DEF IInv, TypeOK, TurnOver, NothingRuns, Billed
  <2>2. After \in [mode : Chosen \cup {"plan-only"}, grants : SUBSET (Calls \cup {AnyCall}),
                  remote : Pushes \cup {NoCall}, floor : BOOLEAN, owed : SUBSET Calls]
    BY DEF IInv, TypeOK, Sub, After, Now
  <2>3. /\ mode' \in Chosen \cup {"plan-only"} /\ returnMode' \in Chosen \cup {"none"}
        /\ approved' \in BOOLEAN /\ failed' \in BOOLEAN
        /\ grants' \subseteq Calls \cup {AnyCall} /\ pending' \in Calls \cup {NoCall}
        /\ owed' \subseteq Calls
    BY <2>2 DEF IInv, TypeOK, TurnOver, AfterTurn, NothingFinished, SetMode
  <2>4. remote' \in Pushes \cup {NoCall} /\ floor' \in BOOLEAN
    BY <2>2 DEF TurnOver
  <2>5. /\ audits' \in 0 .. MaxAudits /\ always' \subseteq {"write", "push"}
        /\ stop' \in BOOLEAN /\ aborted' \in BOOLEAN
        /\ typed' \in Chosen /\ agreed' \in Chosen
    BY DEF IInv, TypeOK, TurnOver
  <2>6. steps' \in 0 .. MaxSteps /\ effect' \in Calls \cup {NoCall}
    BY AgentAssumption DEF TurnOver, NothingRuns
  <2> QED BY <2>1, <2>3, <2>4, <2>5, <2>6 DEF TypeOK
<1> USE AgentAssumption, Nothing DEF IInv, TypeOK, Nesting, FloorHolds,
        Positions, TurnOver, AfterTurn, NothingFinished, SetMode, Billed,
        NothingRuns, After, Now
<1>2. Nesting'
  BY DEF Running, Idle, Fresh, NoSub
<1>3. FloorHolds'
  BY DEF Running, Idle, Fresh, NoSub
<1>4. Positions'
  BY DEF Loop, Running, Idle, Fresh, NoSub
<1>5. Approvals'
  BY SMTT(20) DEF Approvals, Loop, Backed, PutAway, Kind, Running, Idle, Fresh, NoSub
<1>6. Budget'
  BY DEF Loop, Budget, Remaining, Running, Idle, Fresh, NoSub
<1>7. ModeIsTyped'
  BY SMTT(20) DEF Loop, ModeIsTyped, Running, Idle, Fresh, NoSub
<1> QED BY <1>1, <1>2, <1>3, <1>4, <1>5, <1>6, <1>7

\* The end of a sub-agent bills its tokens and, when it was pinned, puts the
\* caller's mode and grants back.
LEMMA SubOverKeeps ==
    ASSUME IInv, loop[1].at # "idle", NEW where \in {"acting", "steps",
           "inline", "verify", "suspect"}, SubOver(where), steps' \in 0 ..
           MaxSteps, aborted' \in BOOLEAN, denials' \in Nat, Quiet, where
           = "steps" => steps' > 0, where = "inline" => sub.why = "step"
    PROVE  IInv'
<1>1. TypeOK'
  BY AgentAssumption, Nothing DEF IInv, TypeOK, SubOver, Billed, After, Now, Loop,
         Sub
<1> USE AgentAssumption, Nothing DEF IInv, TypeOK, Nesting, FloorHolds,
        Positions, SubOver, Billed, After, Now
<1>2. Nesting'
  BY DEF Running, Idle, Fresh, NoSub
<1>3. FloorHolds'
  BY DEF Running, Idle, Fresh, NoSub
<1>4. Positions'
  BY DEF Loop, Running, Idle, Fresh, NoSub
<1>5. Approvals'
  BY SMTT(20) DEF Approvals, Loop, Backed, PutAway, Kind, Running, Idle, Fresh, NoSub
<1>6. Budget'
  BY DEF Loop, Budget, Remaining, Running, Idle, Fresh, NoSub
<1>7. ModeIsTyped'
  BY SMTT(20) DEF Loop, ModeIsTyped, Running, Idle, Fresh, NoSub
<1> QED BY <1>1, <1>2, <1>3, <1>4, <1>5, <1>6, <1>7

\* An answer ends the turn or the sub-agent.
LEMMA AnswerKeeps ==
    ASSUME IInv, NEW d \in Depths, Running, d = 1 <=> loop[1].at # "idle",
           Answer(d) \/ (d = 1 /\ Fail), denials' \in Nat, Quiet
    PROVE  IInv'
<1>1. CASE d = 0
  BY <1>1, TurnOverKeeps DEF Answer
<1>2. CASE d = 1
  <2> steps \in 0 .. MaxSteps /\ aborted \in BOOLEAN
    BY DEF IInv, TypeOK
  <2>1. CASE Fail
    BY <1>2, <2>1, SubOverKeeps, AgentAssumption DEF Fail
  <2>2. CASE Answer(1)
    <3> Resume \in {"acting", "steps"} /\ (Resume = "steps" => steps > 0)
      BY AgentAssumption DEF Resume
    <3> PICK where \in {"acting", "steps", "inline", "verify", "suspect"} :
            /\ SubOver(where) /\ UNCHANGED <<steps, aborted>>
            /\ where = "steps" => steps > 0
            /\ where = "inline" => sub.why = "step"
      BY <2>2 DEF Answer
    <3> QED BY <1>2, SubOverKeeps
  <2> QED BY <1>2, <2>1, <2>2
<1> QED BY <1>1, <1>2

\* An interrupt ends the turn, or the step that was delegated.
LEMMA InterruptKeeps ==
    ASSUME IInv, NEW d \in Depths, Running, d = 1 <=> loop[1].at # "idle",
           Interrupt(d), denials' \in Nat, Quiet
    PROVE  IInv'
<1> steps \in 0 .. MaxSteps
  BY DEF IInv, TypeOK
<1> QED BY TurnOverKeeps, SubOverKeeps DEF Interrupt

\* A sub-agent starts with what is left of the budget, and a pinned one with
\* the floor up and without the caller's grants.
LEMMA StartSubKeeps ==
    ASSUME IInv, NEW why \in {"task", "step", "audit", "confirm"}, NEW
           pinned \in BOOLEAN, NEW call \in Calls \cup {NoCall},
           loop[1].at = "idle", mode # "plan-only", loop[0].at \in
           {"acting", "steps", "verify", "suspect"}, why = "step" => call
           \in Calls, StartSub(why, pinned, call), steps' \in 0 ..
           MaxSteps, audits' \in 0 .. MaxAudits, Quiet
    PROVE  IInv'
<1> DEFINE Starts(late, n) ==
          /\ used' = [used EXCEPT ![0] = @ + n] /\ flight' = flight - late
          /\ sub' = [why |-> why, pinned |-> pinned, max |-> Remaining(used[0] + n),
                     mode |-> mode, floor |-> floor,
                     grants |-> IF pinned THEN grants ELSE {},
                     remote |-> IF pinned THEN remote ELSE NoCall,
                     owed |-> IF pinned THEN owed ELSE {}]
<1> PICK late \in 0 .. flight : \E n \in 0 .. late * Cost : Starts(late, n)
  BY DEF StartSub
<1> PICK n \in 0 .. late * Cost : Starts(late, n)
  OBVIOUS
<1>a. /\ late \in 0 .. Workers /\ flight' \in 0 .. Workers
      /\ late * Cost \in Nat /\ late * Cost <= Workers * Cost
      /\ flight' * Cost \in Nat /\ flight' * Cost <= Workers * Cost
      /\ n \in Nat /\ n <= Workers * Cost
  <2>1. late \in 0 .. Workers /\ flight' \in 0 .. Workers
    BY AgentAssumption DEF IInv, TypeOK
  <2>2. late * Cost \in Nat /\ late * Cost <= Workers * Cost
    BY <2>1, Loads
  <2> QED BY <2>1, <2>2, Loads
<1>1. TypeOK'
  <2>1. loop' \in [Depths -> Loop]
    BY Nothing DEF IInv, TypeOK, StartSub, Loop
  <2>2. sub' \in Sub
    BY <1>a, AgentAssumption DEF IInv, TypeOK, Sub, Remaining
  <2>3. /\ mode' \in Chosen \cup {"plan-only"} /\ grants' \subseteq Calls \cup {AnyCall}
        /\ remote' \in Pushes \cup {NoCall} /\ floor' \in BOOLEAN /\ owed' \subseteq Calls
    BY DEF IInv, TypeOK, StartSub, Pin
  <2>4. used' \in [Depths -> Nat]
    BY <1>a DEF IInv, TypeOK
  <2> QED BY <1>a, <2>1, <2>2, <2>3, <2>4 DEF IInv, TypeOK, StartSub
<1>2. Nesting'
  <2>1. ~floor /\ loop \in [Depths -> Loop]
    BY DEF IInv, TypeOK, Nesting, FloorHolds
  <2>2. loop'[1].at = "round" /\ loop'[0].at = loop[0].at
    BY <2>1 DEF StartSub, Fresh, Loop
  <2>3. /\ sub'.why = why /\ sub'.pinned = pinned /\ ~sub'.floor
        /\ ~pinned => sub'.grants = {} /\ sub'.remote = NoCall
    BY <2>1 DEF StartSub
  <2> QED BY <2>2, <2>3 DEF Nesting
<1> USE AgentAssumption, Nothing DEF IInv, TypeOK, Nesting, FloorHolds,
        Positions, StartSub, Exceeded, Remaining, Pin
<1>3. FloorHolds'
  BY DEF Running, Fresh
<1>4. Positions'
  BY DEF Loop, Running, Fresh
<1>5. Approvals'
  BY SMTT(20) DEF Approvals, Loop, Backed, PutAway, Kind, Running, Fresh
<1>6. Budget'
  <2>1. MaxTokens # 0 => used[0] < MaxTokens
    BY DEF Within
  <2>2. used'[0] = used[0] + n /\ used'[1] = 0 /\ sub'.max = Remaining(used'[0])
    BY DEF Budget
  <2>3. loop'[1].at # "idle"
    BY DEF Fresh
  <2>4. MaxTokens # 0 => sub'.max > 0 /\ sub'.max \in Nat
    BY <1>1, <2>2 DEF Sub
  <2>5. used[0] \in Nat /\ (MaxTokens # 0 => used'[0] < MaxTokens + Workers * Cost)
    BY <1>a, <2>1, <2>2
  <2>6. MaxTokens # 0 => used'[1] + flight' * Cost < sub'.max + (Workers + 1) * Cost
    <3> HIDE DEF Starts
    <3>1. (Workers + 1) * Cost = Workers * Cost + Cost /\ Workers * Cost \in Nat
      BY Loads
    <3> QED BY <1>a, <2>2, <2>4, <3>1
  <2> QED BY <2>2, <2>3, <2>5, <2>6 DEF Budget
<1>7. ModeIsTyped'
  BY SMTT(20) DEF Loop, ModeIsTyped, After, Now, Running, Fresh
<1> QED BY <1>1, <1>2, <1>3, <1>4, <1>5, <1>6, <1>7

-----------------------------------------------------------------------------
(***************************************************************************)
(* The actions                                                             *)
(***************************************************************************)

\* /mode
LEMMA ModeKeeps ==
    ASSUME IInv, NEW m \in Chosen, Mode(m)
    PROVE  IInv'
<1>1. TypeOK'
  BY AgentAssumption DEF IInv, TypeOK, Mode, SetMode
<1> USE AgentAssumption DEF IInv, TypeOK, Nesting, FloorHolds, Positions,
        Mode, SetMode
<1>2. Nesting'
  BY DEF Running
<1>3. FloorHolds'
  BY DEF Running
<1>4. Positions'
  BY DEF Loop, Running
<1>5. Approvals'
  BY SMTT(20) DEF Approvals, Loop, Backed, PutAway, Kind, Running
<1>6. Budget'
  BY DEF Loop, Budget, Remaining, Running
<1>7. ModeIsTyped'
  BY SMTT(20) DEF Loop, ModeIsTyped, After, Now, Running
<1> QED BY <1>1, <1>2, <1>3, <1>4, <1>5, <1>6, <1>7

\* The approval of a plan.
LEMMA AgreeKeeps ==
    ASSUME IInv, NEW m \in Chosen, Agree(m)
    PROVE  IInv'
<1>1. TypeOK'
  BY AgentAssumption DEF IInv, TypeOK, Agree, SetMode, Go, Loop
<1> USE AgentAssumption DEF IInv, TypeOK, Nesting, FloorHolds, Positions,
        Agree, SetMode, Go
<1>2. Nesting'
  BY DEF Running
<1>3. FloorHolds'
  BY DEF Running
<1>4. Positions'
  BY DEF Loop, Running
<1>5. Approvals'
  BY SMTT(20) DEF Approvals, Loop, Backed, PutAway, Kind, Running
<1>6. Budget'
  BY DEF Loop, Budget, Remaining, Running
<1>7. ModeIsTyped'
  BY SMTT(20) DEF Loop, ModeIsTyped, After, Now, Running
<1> QED BY <1>1, <1>2, <1>3, <1>4, <1>5, <1>6, <1>7

\* /plan
LEMMA PlanKeeps ==
    ASSUME IInv, Plan
    PROVE  IInv'
<1> USE AgentAssumption DEF IInv, TypeOK, Nesting, FloorHolds, Positions,
        Plan, SetMode, ReturnTo
<1>1. TypeOK'
  <2>1. ReturnTo \in Chosen \cup {"none"}
    BY DEF ReturnTo
  <2> QED BY <2>1
<1>2. Nesting'
  BY DEF Running
<1>3. FloorHolds'
  BY DEF Running
<1>4. Positions'
  BY DEF Loop, Running
<1>5. Approvals'
  BY SMTT(20) DEF Approvals, Loop, Backed, PutAway, Kind, Running
<1>6. Budget'
  BY DEF Loop, Budget, Remaining, Running
<1>7. ModeIsTyped'
  BY SMTT(20) DEF Loop, ModeIsTyped, After, Now, Running
<1> QED BY <1>1, <1>2, <1>3, <1>4, <1>5, <1>6, <1>7

\* A new turn.
LEMMA AskKeeps ==
    ASSUME IInv, Ask
    PROVE  IInv'
<1>1. TypeOK'
  BY AgentAssumption, Nothing DEF IInv, TypeOK, Ask, Loop
<1> USE AgentAssumption, Nothing DEF IInv, TypeOK, Nesting, FloorHolds,
        Positions, Ask
<1>2. Nesting'
  BY DEF Running, Fresh
<1>3. FloorHolds'
  BY DEF Running, Fresh
<1>4. Positions'
  BY DEF Loop, Running, Fresh
<1>5. Approvals'
  BY SMTT(20) DEF Approvals, Loop, Backed, PutAway, Kind, Running, Fresh
<1>6. Budget'
  BY DEF Loop, Budget, Remaining, Running, Fresh
<1>7. ModeIsTyped'
  BY SMTT(20) DEF Loop, ModeIsTyped, After, Now, Running, Fresh
<1> QED BY <1>1, <1>2, <1>3, <1>4, <1>5, <1>6, <1>7

\* ESC
LEMMA EscKeeps ==
    ASSUME IInv, Esc
    PROVE  IInv'
<1>1. TypeOK'
  BY AgentAssumption DEF IInv, TypeOK, Esc
<1> USE AgentAssumption DEF IInv, TypeOK, Nesting, FloorHolds, Positions, Esc
<1>2. Nesting'
  BY DEF Running
<1>3. FloorHolds'
  BY DEF Running
<1>4. Positions'
  BY DEF Loop, Running
<1>5. Approvals'
  BY SMTT(20) DEF Approvals, Loop, Backed, PutAway, Kind, Running
<1>6. Budget'
  BY DEF Loop, Budget, Remaining, Running
<1>7. ModeIsTyped'
  BY SMTT(20) DEF Loop, ModeIsTyped, After, Now, Running
<1> QED BY <1>1, <1>2, <1>3, <1>4, <1>5, <1>6, <1>7

\* Another call of the model.
LEMMA SpendKeeps ==
    ASSUME IInv, NEW d \in Depths, Spend(d)
    PROVE  IInv'
<1>1. TypeOK'
  BY AgentAssumption DEF Bills, IInv, TypeOK, Spend
<1> USE AgentAssumption DEF IInv, TypeOK, Nesting, FloorHolds, Positions,
        Spend
<1>2. Nesting'
  BY DEF Running
<1>3. FloorHolds'
  BY DEF Running
<1>4. Positions'
  BY DEF Loop, Running
<1>5. Approvals'
  BY SMTT(20) DEF Approvals, Loop, Backed, PutAway, Kind, Running
<1>6. Budget'
  <2> PICK n \in Bills : used' = [used EXCEPT ![d] = @ + n]
    BY DEF Spend
  <2>1. n \in 0 .. Cost /\ UNCHANGED flight /\ flight * Cost \in Nat /\ flight * Cost <= Workers * Cost
    BY Loads DEF Bills
  <2>2. CASE d = 0
    BY <2>1, <2>2, Loads DEF Budget, Exceeded, Within, Loop
  <2>3. CASE d = 1
    BY <2>1, <2>3, Loads DEF Budget, Exceeded, Within, Remaining, Loop, Sub
  <2> QED BY <2>2, <2>3
<1>7. ModeIsTyped'
  BY SMTT(20) DEF Loop, ModeIsTyped, After, Now, Running
<1> QED BY <1>1, <1>2, <1>3, <1>4, <1>5, <1>6, <1>7

\* A worker calls the model.
LEMMA LaunchKeeps ==
    ASSUME IInv, NEW d \in Depths, Launch(d)
    PROVE  IInv'
<1>1. TypeOK'
  BY AgentAssumption DEF IInv, TypeOK, Launch
<1> USE AgentAssumption DEF IInv, TypeOK, Nesting, FloorHolds, Positions, Launch
<1>2. Nesting'
  BY DEF Running
<1>3. FloorHolds'
  BY DEF Running
<1>4. Positions'
  BY DEF Loop, Running
<1>5. Approvals'
  BY SMTT(20) DEF Approvals, Loop, Backed, PutAway, Kind, Running
<1>6. Budget'
  <2>1. (flight + 1) * Cost <= Workers * Cost
    BY Loads
  <2>2. CASE d = 0
    BY <2>1, <2>2, Loads DEF Budget, Exceeded, Within
  <2>3. CASE d = 1
    BY <2>1, <2>3, Loads DEF Budget, Exceeded, Within, Remaining, Sub
  <2> QED BY <2>2, <2>3
<1>7. ModeIsTyped'
  BY SMTT(20) DEF Loop, ModeIsTyped, After, Now, Running
<1> QED BY <1>1, <1>2, <1>3, <1>4, <1>5, <1>6, <1>7

\* The reply comes.
LEMMA LandKeeps ==
    ASSUME IInv, Land
    PROVE  IInv'
<1> PICK n \in 0 .. Cost :
          /\ used' = IF Running THEN [used EXCEPT ![Active] = @ + n] ELSE used
          /\ \/ flight' = flight - 1
             \/ Running /\ Within(Active, used[Active] + n) /\ UNCHANGED flight
  BY DEF Land
<1>1. TypeOK'
  BY AgentAssumption DEF IInv, TypeOK, Land
<1> USE AgentAssumption DEF IInv, TypeOK, Nesting, FloorHolds, Positions, Land
<1>2. Nesting'
  BY DEF Running
<1>3. FloorHolds'
  BY DEF Running
<1>4. Positions'
  BY DEF Loop, Running
<1>5. Approvals'
  BY SMTT(20) DEF Approvals, Loop, Backed, PutAway, Kind, Running
<1>6. Budget'
  <2> DEFINE f == flight * Cost  g == flight' * Cost
  <2>1. f \in Nat /\ g \in Nat /\ f <= Workers * Cost /\ (g = f \/ f = g + Cost)
    BY Loads
  <2>2. CASE loop[1].at = "idle"
    BY <2>1, <2>2, Loads DEF Budget, Within
  <2>3. CASE loop[1].at # "idle"
    BY <2>1, <2>3, Loads DEF Budget, Within, Remaining, Running, Sub
  <2> QED BY <2>2, <2>3
<1>7. ModeIsTyped'
  BY SMTT(20) DEF Loop, ModeIsTyped, After, Now, Running
<1> QED BY <1>1, <1>2, <1>3, <1>4, <1>5, <1>6, <1>7

\* A round, whose call of the model spends tokens.
LEMMA RoundKeeps ==
    ASSUME IInv, NEW d \in Depths, Round(d)
    PROVE  IInv'
<1>1. TypeOK'
  BY AgentAssumption DEF Bills, IInv, TypeOK, Round, Loop
<1> USE AgentAssumption DEF IInv, TypeOK, Nesting, FloorHolds, Positions,
        Round
<1>2. Nesting'
  BY DEF Running
<1>3. FloorHolds'
  BY DEF Running
<1>4. Positions'
  BY DEF Loop, Running
<1>5. Approvals'
  BY SMTT(20) DEF Approvals, Loop, Backed, PutAway, Kind, Running
<1>6. Budget'
  <2> PICK n \in Bills : used' = [used EXCEPT ![d] = @ + n]
    BY DEF Round
  <2>1. n \in 0 .. Cost /\ UNCHANGED flight /\ flight * Cost \in Nat /\ flight * Cost <= Workers * Cost
    BY Loads DEF Bills
  <2>2. CASE d = 0
    BY <2>1, <2>2, Loads DEF Budget, Exceeded, Within, Loop
  <2>3. CASE d = 1
    BY <2>1, <2>3, Loads DEF Budget, Exceeded, Within, Remaining, Loop, Sub
  <2> QED BY <2>2, <2>3
<1>7. ModeIsTyped'
  BY SMTT(20) DEF Loop, ModeIsTyped, After, Now, Running
<1> QED BY <1>1, <1>2, <1>3, <1>4, <1>5, <1>6, <1>7

\* The next round of a run.
LEMMA NextRoundKeeps ==
    ASSUME IInv, NEW d \in Depths, NextRound(d)
    PROVE  IInv'
<1>1. TypeOK'
  BY AgentAssumption DEF IInv, TypeOK, NextRound, Go, Loop
<1> USE AgentAssumption DEF IInv, TypeOK, Nesting, FloorHolds, Positions,
        NextRound, Go
<1>2. Nesting'
  BY DEF Running
<1>3. FloorHolds'
  BY DEF Running
<1>4. Positions'
  BY DEF Loop, Running
<1>5. Approvals'
  BY SMTT(20) DEF Approvals, Loop, Backed, PutAway, Kind, Running
<1>6. Budget'
  BY DEF Loop, Budget, Remaining, Running
<1>7. ModeIsTyped'
  BY SMTT(20) DEF Loop, ModeIsTyped, After, Now, Running
<1> QED BY <1>1, <1>2, <1>3, <1>4, <1>5, <1>6, <1>7

\* The loop that runs is the sub-agent's while there is one.
LEMMA Turn ==
    ASSUME IInv, NEW d \in Depths, NEW where, where # "idle", At(d, where)
    PROVE  Running /\ (d = 1 <=> loop[1].at # "idle")
BY DEF IInv, Nesting, Running

\* The end of a run.
LEMMA FinishKeeps ==
    ASSUME IInv, NEW d \in Depths, Finish(d)
    PROVE  IInv'
<1> Running /\ (d = 1 <=> loop[1].at # "idle")
  BY Turn DEF Finish
<1> QED BY AnswerKeeps DEF Finish, IInv, TypeOK

\* ESC is noticed.
LEMMA NoticeStopKeeps ==
    ASSUME IInv, NEW d \in Depths, NoticeStop(d)
    PROVE  IInv'
<1> Running /\ (d = 1 <=> loop[1].at # "idle")
  BY Turn DEF NoticeStop
<1> QED BY InterruptKeeps DEF NoticeStop, IInv, TypeOK

\* An approval, by the user or by an earlier one for the session.
LEMMA ApproveKeeps ==
    ASSUME IInv, NEW d \in Depths, NEW where \in {"acting", "again"},
           At(d, "asking") \/ At(d, "stepAsking"), where = "again" => d =
           0, Approve(d, where), denials' \in Nat, Quiet
    PROVE  IInv'
<1> PICK c \in Calls : c = loop[d].call
  BY DEF IInv, Nesting, Positions
<1>a. pending = c /\ (c \in Writes => mode = "readonly")
  BY DEF IInv, Nesting, Positions, Approvals
<1>b. owed \subseteq owed' /\ always \subseteq always' /\ Backed(c)' /\ UNCHANGED sub
  BY DEF Approve, IInv, TypeOK, Backed, Kind
<1>c. \/ /\ c \in Pushes /\ remote' = c /\ UNCHANGED grants
      \/ c \in Writes /\ grants' = grants \cup {c} /\ remote' = NoCall
  BY <1>a, AgentAssumption DEF Approve, GrantEscalation
<1>5. Approvals'
  <2>1. \A e \in grants' : e \in Writes /\ Backed(e)'
    BY <1>b, <1>c, AgentAssumption DEF IInv, Approvals, Backed, Kind
  <2>2. \A e : PutAway(e) => PutAway(e)'
    BY <1>b DEF PutAway, Kind
  <2>3. mode' = mode /\ (mode # "readonly" => grants' = {}) /\ (remote' # NoCall => Backed(remote)')
    BY <1>a, <1>b, <1>c, AgentAssumption
       DEF Approve, IInv, TypeOK, Nesting, Approvals, Backed, Kind, Running
  <2>4. loop'[d].at = where /\ \A e \in Depths : e # d => loop'[e] = loop[e]
    BY DEF Approve, Go, IInv, TypeOK, Loop
  <2>5. \A e \in Depths : e # d => loop[e].at \notin {"asking", "stepAsking"}
    BY DEF IInv, Nesting, TypeOK
  <2> QED BY <1>b, <2>1, <2>2, <2>3, <2>4, <2>5 DEF IInv, Approvals
<1> USE AgentAssumption DEF IInv, TypeOK, Nesting, FloorHolds, Positions,
        Approve, GrantEscalation, Go
<1>1. TypeOK'
  BY DEF Loop, Sub, Kind
<1>2. Nesting'
  BY DEF Running
<1>3. FloorHolds'
  <2>1. floor => c \in OwnGate \cup Pushes
    BY DEF Loop
  <2>2. UNCHANGED <<floor, sub, mode>> /\ loop'[d].at = where
        /\ \A e \in Depths : e # d => loop'[e] = loop[e]
    BY DEF Loop
  <2>3. \A e \in grants' \cup ({remote'} \ {NoCall}) :
            e = c \/ e \in grants
    BY <1>c
  <2> QED BY <1>b, <2>1, <2>2, <2>3 DEF Backed, Kind
<1>4. Positions'
  BY DEF Loop, Running
<1>6. Budget'
  BY DEF Loop, Budget, Remaining, Running
<1>7. ModeIsTyped'
  BY SMTT(20) DEF Loop, ModeIsTyped, After, Now, Running
<1> QED BY <1>1, <1>2, <1>3, <1>4, <1>5, <1>6, <1>7

\* The user approves a call.
LEMMA ApprovedKeeps ==
    ASSUME IInv, NEW d \in Depths, Approved(d)
    PROVE  IInv'
BY ApproveKeeps DEF Approved

\* The user approves a step.
LEMMA ApprovedStepKeeps ==
    ASSUME IInv, ApprovedStep
    PROVE  IInv'
BY ApproveKeeps DEF ApprovedStep, IInv, TypeOK

\* A denial, which may end the run.
LEMMA DeniedKeeps ==
    ASSUME IInv, NEW d \in Depths, Denied(d)
    PROVE  IInv'
<1>1. Running /\ (d = 1 <=> loop[1].at # "idle") /\ denials' \in Nat
  BY Turn DEF Denied, IInv, TypeOK
<1>2. CASE Answer(d)
  BY <1>1, <1>2, AnswerKeeps DEF Denied
<1>3. CASE ~Answer(d)
  <2>1. TypeOK'
    BY <1>1, <1>3, AgentAssumption DEF IInv, TypeOK, Denied, Go, Loop
  <2>2. Nesting'
    <3> /\ loop \in [Depths -> Loop] /\ loop[d].at # "idle" /\ UNCHANGED sub
        /\ loop' = [loop EXCEPT ![d].at = "acting"]
      BY <1>3 DEF Denied, Go, IInv, TypeOK
    <3> QED BY <1>1 DEF IInv, Nesting, Running, Loop
  <2> USE <1>1, <1>3, AgentAssumption
      DEF IInv, TypeOK, Nesting, FloorHolds, Positions, Denied, Go
  <2>7. FloorHolds'
    BY DEF Running, Kind, Loop
  <2>3. Positions'
    BY DEF Loop, Running
  <2>4. Approvals'
    BY DEF Approvals, Loop, Backed, PutAway, Kind, Running
  <2>5. Budget'
    BY DEF Loop, Budget, Remaining, Running
  <2>6. ModeIsTyped'
    BY DEF Loop, ModeIsTyped, After, Now, Running
  <2> QED BY <2>1, <2>2, <2>3, <2>4, <2>5, <2>6, <2>7
<1> QED BY <1>2, <1>3

\* ESC at a prompt.
LEMMA EscAtPromptKeeps ==
    ASSUME IInv, NEW d \in Depths, EscAtPrompt(d)
    PROVE  IInv'
<1> Running /\ (d = 1 <=> loop[1].at # "idle")
  BY Turn DEF EscAtPrompt
<1> QED BY InterruptKeeps DEF EscAtPrompt, IInv, TypeOK

\* ESC at the prompt of a step.
LEMMA EscAtStepKeeps ==
    ASSUME IInv, EscAtStep
    PROVE  IInv'
<1> Running
  BY Turn DEF EscAtStep
<1> QED BY TurnOverKeeps DEF EscAtStep, IInv, TypeOK

\* A plan is declined.
LEMMA DeclineKeeps ==
    ASSUME IInv, Decline
    PROVE  IInv'
<1> Running
  BY Turn DEF Decline
<1> QED BY TurnOverKeeps DEF Decline, IInv, TypeOK

\* What a call takes from the approvals is its own.
LEMMA EffectKeeps ==
    ASSUME IInv, NEW c \in Calls, Allowed(c), Effect(c), UNCHANGED <<mode, always, sub>>
    PROVE  /\ \A e \in grants' : e \in grants /\ e \in Writes /\ Backed(e)'
           /\ mode # "readonly" => grants' = {}
           /\ remote' \in {remote, NoCall}
           /\ (remote # NoCall /\ Backed(remote) => (remote # NoCall => Backed(remote))')
<1>1. AnyCall \notin grants
  BY AgentAssumption DEF IInv, Approvals
<1>2. CASE c \in Pushes
  BY <1>2, AgentAssumption DEF IInv, TypeOK, Approvals, Effect, Spent, Backed, Kind, Allowed
<1>3. CASE c \in Writes
  BY <1>1, <1>3, AgentAssumption
     DEF IInv, TypeOK, Approvals, Effect, Spent, Backed, Kind, Allowed, Granted
<1> QED BY <1>2, <1>3

\* A call of a run's takes effect.
LEMMA RunKeeps ==
    ASSUME IInv, NEW d \in Depths, NEW c \in Calls, Run(d, c)
    PROVE  IInv'
<1>1. TypeOK'
  BY AgentAssumption DEF IInv, TypeOK, Run, Take, Offered, Effect, Spent,
         Allowed, Granted, Loop
<1>5. Approvals'
  <2>1. /\ \A e \in grants' : e \in Writes /\ Backed(e)'
        /\ mode # "readonly" => grants' = {}
        /\ Running => (remote # NoCall => Backed(remote))'
    BY EffectKeeps DEF Run, IInv, Approvals
  <2>2. /\ loop \in [Depths -> Loop] /\ loop[d].at = "acting"
        /\ loop' = [loop EXCEPT ![d].at = IF d = 0 THEN "verify" ELSE "acting",
                                ![d].calls = @ + 1, ![d].call = c]
    BY DEF Run, Take, IInv, TypeOK
  <2>3. /\ loop'[d].at \in {"verify", "acting"}
        /\ \A e \in Depths : e # d => loop'[e] = loop[e]
    BY <2>2 DEF Loop
  <2>4. \A e \in Depths : e # d => loop[e].at \notin {"asking", "stepAsking"}
    BY DEF Run, Take, IInv, Nesting, TypeOK
  <2>5. Running
    BY DEF Run, Take, IInv, Nesting, Running
  <2>6. \A e : PutAway(e)' <=> PutAway(e)
    BY DEF Run, PutAway, Kind
  <2> QED BY <2>1, <2>3, <2>4, <2>5, <2>6
          DEF Run, IInv, Approvals
<1> USE AgentAssumption DEF IInv, TypeOK, Nesting, FloorHolds, Positions, Run,
        Take, Offered, Effect, Spent, Allowed, Granted
<1>2. Nesting'
  BY DEF Running
<1>3. FloorHolds'
  <2>1. /\ \A e \in grants' : e \in grants /\ Backed(e)'
        /\ remote' \in {remote, NoCall}
        /\ remote # NoCall /\ Backed(remote) => (remote # NoCall => Backed(remote))'
    BY EffectKeeps
  <2>2. UNCHANGED <<floor, sub, mode>> /\ loop'[1].at = loop[1].at
    BY DEF Loop
  <2> QED BY <2>1, <2>2 DEF Backed, Kind
<1>4. Positions'
  BY DEF Loop, Running
<1>6. Budget'
  BY DEF Loop, Budget, Remaining, Running
<1>7. ModeIsTyped'
  BY SMTT(20) DEF Loop, ModeIsTyped, After, Now, Running
<1> QED BY <1>1, <1>2, <1>3, <1>4, <1>5, <1>6, <1>7

\* A call asks.
LEMMA EscalateKeeps ==
    ASSUME IInv, NEW d \in Depths, NEW c \in Calls, Escalate(d, c)
    PROVE  IInv'
<1>1. TypeOK'
  BY AgentAssumption DEF IInv, TypeOK, Escalate, Take, Offered, Asks, Allowed,
         Granted, Loop
<1>5. Approvals'
  <2>1. (c \in Writes => mode = "readonly") /\ pending' = c
    BY AgentAssumption DEF Escalate, Asks, Allowed
  <2>2. /\ loop \in [Depths -> Loop] /\ loop[d].at = "acting"
        /\ loop' = [loop EXCEPT ![d].at = "asking", ![d].calls = @ + 1, ![d].call = c]
    BY DEF Escalate, Take, IInv, TypeOK
  <2>3. /\ loop'[d].at = "asking" /\ loop'[d].call = c
        /\ \A e \in Depths : e # d => loop'[e] = loop[e]
    BY <2>2 DEF Loop
  <2>4. \A e \in Depths : e # d => loop[e].at \notin {"asking", "stepAsking"}
    BY DEF Escalate, Take, IInv, Nesting, TypeOK
  <2> QED BY <2>1, <2>2, <2>3, <2>4
          DEF Escalate, IInv, Approvals, Backed, PutAway, Kind, Running
<1> USE AgentAssumption DEF IInv, TypeOK, Nesting, FloorHolds, Positions,
        Escalate, Take, Offered, Asks, Allowed, Granted
<1>2. Nesting'
  BY DEF Running
<1>3. FloorHolds'
  BY DEF Running
<1>4. Positions'
  BY DEF Loop, Running
<1>6. Budget'
  BY DEF Loop, Budget, Remaining, Running
<1>7. ModeIsTyped'
  BY SMTT(20) DEF Loop, ModeIsTyped, After, Now, Running
<1> QED BY <1>1, <1>2, <1>3, <1>4, <1>5, <1>6, <1>7

\* A call is refused without asking.
LEMMA RefuseKeeps ==
    ASSUME IInv, NEW d \in Depths, NEW c \in Calls, Refuse(d, c)
    PROVE  IInv'
<1>1. TypeOK'
  BY AgentAssumption DEF IInv, TypeOK, Refuse, Take, Loop
<1>5. Approvals'
  <2>1. \A e \in Depths : loop'[e] = loop[e] \/ loop'[e].at = "acting"
    BY DEF IInv, TypeOK, Refuse, Take, Loop
  <2>2. UNCHANGED <<mode, grants, pending, remote, owed, always, sub>>
    BY DEF Refuse
  <2>3. Running
    BY DEF IInv, Nesting, Refuse, Take, Running
  <2> QED BY <2>1, <2>2, <2>3 DEF IInv, Approvals, Backed, PutAway, Kind, Running
<1> USE AgentAssumption DEF IInv, TypeOK, Nesting, FloorHolds, Positions,
        Refuse, Take
<1>2. Nesting'
  BY DEF Running
<1>3. FloorHolds'
  BY DEF Running
<1>4. Positions'
  BY DEF Loop, Running
<1>6. Budget'
  BY DEF Loop, Budget, Remaining, Running
<1>7. ModeIsTyped'
  BY SMTT(20) DEF Loop, ModeIsTyped, After, Now, Running
<1> QED BY <1>1, <1>2, <1>3, <1>4, <1>5, <1>6, <1>7

\* An error ends the turn.
LEMMA CrashKeeps ==
    ASSUME IInv, Crash
    PROVE  IInv'
<1>1. TypeOK'
  <2> loop' \in [Depths -> Loop] /\ sub' \in Sub /\ steps' \in 0 .. MaxSteps
    BY Nothing, AgentAssumption DEF Crash, NothingRuns
  <2> QED BY DEF IInv, TypeOK, Crash
<1> USE AgentAssumption, Nothing DEF IInv, TypeOK, Nesting, FloorHolds,
        Positions, Crash, NothingRuns
<1>2. Nesting'
  BY DEF Running, Idle, Fresh, NoSub
<1>3. FloorHolds'
  BY DEF Running, Idle, Fresh, NoSub
<1>4. Positions'
  BY DEF Loop, Running, Idle, Fresh, NoSub
<1>5. Approvals'
  BY SMTT(20) DEF Approvals, Loop, Backed, PutAway, Kind, Running, Idle, Fresh, NoSub
<1>6. Budget'
  BY DEF Loop, Budget, Remaining, Running, Idle, Fresh, NoSub
<1>7. ModeIsTyped'
  BY SMTT(20) DEF Loop, ModeIsTyped, After, Now, Running, Idle, Fresh, NoSub
<1> QED BY <1>1, <1>2, <1>3, <1>4, <1>5, <1>6, <1>7

\* A plan is presented.
LEMMA PresentKeeps ==
    ASSUME IInv, Present
    PROVE  IInv'
<1>1. TypeOK'
  BY AgentAssumption DEF IInv, TypeOK, Present, Loop
<1> USE AgentAssumption DEF IInv, TypeOK, Nesting, FloorHolds, Positions,
        Present
<1>2. Nesting'
  BY DEF Running
<1>3. FloorHolds'
  BY DEF Running
<1>4. Positions'
  BY DEF Loop, Running
<1>5. Approvals'
  BY SMTT(20) DEF Approvals, Loop, Backed, PutAway, Kind, Running
<1>6. Budget'
  BY DEF Loop, Budget, Remaining, Running
<1>7. ModeIsTyped'
  BY SMTT(20) DEF Loop, ModeIsTyped, After, Now, Running
<1> QED BY <1>1, <1>2, <1>3, <1>4, <1>5, <1>6, <1>7

\* A sub-agent is spawned.
LEMMA SpawnKeeps ==
    ASSUME IInv, NEW pinned \in BOOLEAN, Spawn(pinned)
    PROVE  IInv'
<1> loop[1].at = "idle" /\ mode # "plan-only"
  BY DEF Spawn, IInv, Positions, Running
<1> QED BY StartSubKeeps DEF Spawn, IInv, TypeOK

\* A plan's steps are taken up.
LEMMA ExecutePlanKeeps ==
    ASSUME IInv, ExecutePlan
    PROVE  IInv'
<1>1. TypeOK'
  BY AgentAssumption DEF IInv, TypeOK, ExecutePlan, Loop
<1> USE AgentAssumption DEF IInv, TypeOK, Nesting, FloorHolds, Positions,
        ExecutePlan
<1>2. Nesting'
  BY DEF Running
<1>3. FloorHolds'
  BY DEF Running
<1>4. Positions'
  BY DEF Loop, Running
<1>5. Approvals'
  BY SMTT(20) DEF Approvals, Loop, Backed, PutAway, Kind, Running
<1>6. Budget'
  BY DEF Loop, Budget, Remaining, Running
<1>7. ModeIsTyped'
  BY SMTT(20) DEF Loop, ModeIsTyped, After, Now, Running
<1> QED BY <1>1, <1>2, <1>3, <1>4, <1>5, <1>6, <1>7

\* A step of a plan.
LEMMA TakeStepKeeps ==
    ASSUME IInv, NEW c \in Calls, TakeStep(c)
    PROVE  IInv'
<1> USE AgentAssumption
<1>1. /\ loop[1].at = "idle" /\ loop[0].at = "steps" /\ mode # "plan-only"
      /\ steps' = steps - 1 /\ steps' \in 0 .. MaxSteps /\ Quiet
  BY DEF TakeStep, IInv, TypeOK, Positions, Running
<1>2. CASE StartSub("step", FALSE, c) /\ UNCHANGED audits
  BY <1>1, <1>2, StartSubKeeps DEF IInv, TypeOK
<1>3. CASE /\ loop' = [loop EXCEPT ![0].at = "inline", ![0].call = c]
           /\ UNCHANGED <<session, granting, floor, denials, tokens, audits,
                          always, stop, sub, shown>>
  <2>1. TypeOK'
    <3>1. loop \in [Depths -> Loop] /\ loop[0] \in Loop
      BY DEF IInv, TypeOK
    <3>2. [loop[0] EXCEPT !.at = "inline", !.call = c] \in Loop
      BY <3>1 DEF Loop
    <3>3. loop' \in [Depths -> Loop]
      BY <1>3, <3>1, <3>2
    <3> QED BY <1>1, <1>3, <3>3 DEF IInv, TypeOK
  <2> USE <1>1, <1>3 DEF IInv, TypeOK, Nesting, FloorHolds, Positions
  <2>2. Nesting'
    BY DEF Running
  <2>7. FloorHolds'
    BY DEF Running
  <2>3. Positions'
    BY DEF Loop, Running
  <2>4. Approvals'
    BY DEF Approvals, Loop, Backed, PutAway, Kind, Running
  <2>5. Budget'
    BY DEF Loop, Budget, Remaining, Running
  <2>6. ModeIsTyped'
    BY DEF Loop, ModeIsTyped, After, Now, Running
  <2> QED BY <2>1, <2>2, <2>3, <2>4, <2>5, <2>6, <2>7
<1> QED BY <1>2, <1>3 DEF TakeStep

\* A step that cannot be taken halts the plan.
LEMMA BadStepKeeps ==
    ASSUME IInv, BadStep
    PROVE  IInv'
<1>1. TypeOK'
  BY AgentAssumption DEF IInv, TypeOK, BadStep, Halt, Go, Loop
<1> USE AgentAssumption DEF IInv, TypeOK, Nesting, FloorHolds, Positions,
        BadStep, Halt, Go
<1>2. Nesting'
  BY DEF Running
<1>3. FloorHolds'
  BY DEF Running
<1>4. Positions'
  BY DEF Loop, Running
<1>5. Approvals'
  BY SMTT(20) DEF Approvals, Loop, Backed, PutAway, Kind, Running
<1>6. Budget'
  BY DEF Loop, Budget, Remaining, Running
<1>7. ModeIsTyped'
  BY SMTT(20) DEF Loop, ModeIsTyped, After, Now, Running
<1> QED BY <1>1, <1>2, <1>3, <1>4, <1>5, <1>6, <1>7

\* A step takes effect.
LEMMA RunStepKeeps ==
    ASSUME IInv, RunStep
    PROVE  IInv'
<1>1. TypeOK'
  BY AgentAssumption DEF IInv, TypeOK, RunStep, Go, Effect, Spent, Allowed,
         Granted, Loop
<1> USE AgentAssumption DEF IInv, TypeOK, Nesting, FloorHolds, Positions,
        RunStep, Go, Effect, Spent, Allowed, Granted
<1>2. Nesting'
  BY DEF Running
<1>3. FloorHolds'
  BY DEF Running
<1>4. Positions'
  BY DEF Loop, Running
<1>5. Approvals'
  BY SMTT(20) DEF Approvals, Loop, Backed, PutAway, Kind, Running
<1>6. Budget'
  BY DEF Loop, Budget, Remaining, Running
<1>7. ModeIsTyped'
  BY SMTT(20) DEF Loop, ModeIsTyped, After, Now, Running
<1> QED BY <1>1, <1>2, <1>3, <1>4, <1>5, <1>6, <1>7

\* A step asks.
LEMMA EscalateStepKeeps ==
    ASSUME IInv, EscalateStep
    PROVE  IInv'
<1>1. TypeOK'
  BY AgentAssumption DEF IInv, TypeOK, EscalateStep, Go, Asks, Allowed,
         Granted, Loop
<1> USE AgentAssumption DEF IInv, TypeOK, Nesting, FloorHolds, Positions,
        EscalateStep, Go, Asks, Allowed, Granted
<1>2. Nesting'
  BY DEF Running
<1>3. FloorHolds'
  BY DEF Running
<1>4. Positions'
  BY DEF Loop, Running
<1>5. Approvals'
  BY SMTT(20) DEF Approvals, Loop, Backed, PutAway, Kind, Running
<1>6. Budget'
  BY DEF Loop, Budget, Remaining, Running
<1>7. ModeIsTyped'
  BY SMTT(20) DEF Loop, ModeIsTyped, After, Now, Running
<1> QED BY <1>1, <1>2, <1>3, <1>4, <1>5, <1>6, <1>7

\* A step is denied.
LEMMA DeniedStepKeeps ==
    ASSUME IInv, DeniedStep
    PROVE  IInv'
<1>1. TypeOK'
  BY AgentAssumption DEF IInv, TypeOK, DeniedStep, Halt, Go, Loop
<1> USE AgentAssumption DEF IInv, TypeOK, Nesting, FloorHolds, Positions,
        DeniedStep, Halt, Go
<1>2. Nesting'
  BY DEF Running
<1>3. FloorHolds'
  BY DEF Running
<1>4. Positions'
  BY DEF Loop, Running
<1>5. Approvals'
  BY SMTT(20) DEF Approvals, Loop, Backed, PutAway, Kind, Running
<1>6. Budget'
  BY DEF Loop, Budget, Remaining, Running
<1>7. ModeIsTyped'
  BY SMTT(20) DEF Loop, ModeIsTyped, After, Now, Running
<1> QED BY <1>1, <1>2, <1>3, <1>4, <1>5, <1>6, <1>7

\* An audit.
LEMMA AuditKeeps ==
    ASSUME IInv, Audit
    PROVE  IInv'
<1> /\ loop[1].at = "idle" /\ loop[0].at \in {"verify", "suspect"}
    /\ mode # "plan-only" /\ loop[0].call \in Calls \cup {NoCall}
    /\ audits' \in 0 .. MaxAudits /\ steps' \in 0 .. MaxSteps
  BY AgentAssumption DEF Audit, IInv, TypeOK, Loop, Positions, Running
<1> QED BY StartSubKeeps DEF Audit

\* Nothing is audited.
LEMMA NoAuditKeeps ==
    ASSUME IInv, NoAudit
    PROVE  IInv'
<1>1. TypeOK'
  BY AgentAssumption DEF IInv, TypeOK, NoAudit, Go, Resume, Loop
<1> USE AgentAssumption DEF IInv, TypeOK, Nesting, FloorHolds, Positions,
        NoAudit, Go, Resume
<1>2. Nesting'
  BY DEF Running
<1>3. FloorHolds'
  BY DEF Running
<1>4. Positions'
  BY DEF Loop, Running
<1>5. Approvals'
  BY SMTT(20) DEF Approvals, Loop, Backed, PutAway, Kind, Running
<1>6. Budget'
  BY DEF Loop, Budget, Remaining, Running
<1>7. ModeIsTyped'
  BY SMTT(20) DEF Loop, ModeIsTyped, After, Now, Running
<1> QED BY <1>1, <1>2, <1>3, <1>4, <1>5, <1>6, <1>7

-----------------------------------------------------------------------------
(***************************************************************************)
(* The invariant and the theorems                                          *)
(***************************************************************************)
\* The invariant holds in the initial states.
LEMMA InitIInv == Init => IInv
<1> SUFFICES ASSUME Init PROVE IInv
  OBVIOUS
<1>1. TypeOK
  <2>1. /\ loop \in [Depths -> Loop] /\ sub \in Sub /\ steps \in 0 .. MaxSteps
        /\ used \in [Depths -> Nat] /\ flight \in 0 .. Workers
        /\ denials \in Nat /\ audits \in 0 .. MaxAudits
    BY AgentAssumption, Nothing DEF Init
  <2> QED BY <2>1 DEF Init, TypeOK
<1> USE DEF Init, Idle, Fresh, NoSub
<1>2. Nesting /\ FloorHolds
  BY DEF Nesting, FloorHolds
<1>3. Positions /\ Approvals
  BY AgentAssumption DEF Positions, Approvals, Running
<1>4. Budget /\ ModeIsTyped
  BY AgentAssumption DEF Budget, ModeIsTyped, After, Now
<1> QED BY <1>1, <1>2, <1>3, <1>4 DEF IInv

\* A step that changes nothing keeps it.
LEMMA StutterIInv == IInv /\ UNCHANGED vars => IInv'
<1> SUFFICES ASSUME IInv, UNCHANGED vars PROVE IInv'
  OBVIOUS
<1> USE DEF vars
<1>1. TypeOK' /\ Nesting' /\ FloorHolds' /\ Positions'
  BY DEF IInv, TypeOK, Nesting, FloorHolds, Positions, Running
<1>2. Approvals' /\ Budget' /\ ModeIsTyped'
  BY DEF IInv, Approvals, Backed, PutAway, Kind, Budget, Remaining, ModeIsTyped, After, Now, Running
<1> QED BY <1>1, <1>2 DEF IInv

\* Every step keeps it.
LEMMA NextIInv == IInv /\ [Next]_vars => IInv'
<1> SUFFICES ASSUME IInv, Next PROVE IInv'
  BY StutterIInv
<1> USE ModeKeeps, AgreeKeeps, PlanKeeps, AskKeeps, EscKeeps, CrashKeeps, PresentKeeps,
        DeclineKeeps, SpawnKeeps, ExecutePlanKeeps, TakeStepKeeps, BadStepKeeps,
        RunStepKeeps, EscalateStepKeeps, ApprovedStepKeeps, DeniedStepKeeps,
        EscAtStepKeeps, AuditKeeps, NoAuditKeeps, LandKeeps
<1>1. CASE \E d \in Depths : \/ Round(d) \/ Spend(d) \/ Launch(d) \/ NextRound(d) \/ Finish(d) \/ NoticeStop(d)
                              \/ Approved(d) \/ Denied(d) \/ EscAtPrompt(d)
  BY <1>1, RoundKeeps, SpendKeeps, LaunchKeeps, NextRoundKeeps, FinishKeeps, NoticeStopKeeps,
     ApprovedKeeps, DeniedKeeps, EscAtPromptKeeps
<1>2. CASE \E d \in Depths, c \in Calls : Run(d, c) \/ Escalate(d, c) \/ Refuse(d, c)
  BY <1>2, RunKeeps, EscalateKeeps, RefuseKeeps
<1> QED BY <1>1, <1>2 DEF Next

\* The nesting of the loops, the positions in which things may happen, the
\* approvals that are live and the budgets of both depths fit together in every
\* reachable state.
THEOREM Inductive == Spec => []IInv
BY InitIInv, NextIInv, PTL DEF Spec

\* Every variable keeps its type: the counters stay within what the settings
\* allow and no approval is recorded for a call that does not exist.
THEOREM TypeCorrect == Spec => []TypeOK
BY Inductive, PTL DEF IInv

\* The floor is up exactly while a pinned sub-agent runs, in readonly mode; what
\* asks under it has a gate of its own or is a push, and the approvals live under
\* it were given there, however the sub-agent ends.
THEOREM FloorIsHeld == Spec => []FloorHolds
BY Inductive, PTL DEF IInv

\* A turn with its sub-agents and audits stays within one model call, and two for
\* each document worker, of the token limit: for every limit, every cost of a
\* call and every number of workers.
THEOREM BudgetIsKept == Spec => []BudgetHolds
<1> IInv => BudgetHolds
  BY BudgetBounds DEF IInv
<1> QED BY Inductive, PTL

\* The mode is the one that the user set, or on its way back to it.
THEOREM ModesAreTyped == Spec => []ModeIsTyped
BY Inductive, PTL DEF IInv

\* The steps in which a call takes effect.
LEMMA EffectIsRun ==
    ASSUME Next, effect' # NoCall
    PROVE  RunStep \/ \E d \in Depths, c \in Calls : Run(d, c)
BY DEF Next, Mode, Agree, Plan, Ask, Esc, Round, Spend, Launch, Land, NextRound, Finish, NoticeStop,
       Approved, Denied, EscAtPrompt, Escalate, Refuse, Crash, Present, Decline,
       Spawn, ExecutePlan, TakeStep, BadStep, EscalateStep, ApprovedStep,
       DeniedStep, EscAtStep, Audit, NoAudit

LEMMA EffectSteps ==
    ASSUME IInv, Next, effect' # NoCall
    PROVE  Running /\ \E c \in Calls : effect' = c /\ Allowed(c)
<1> USE AgentAssumption
<1>1. RunStep \/ \E d \in Depths, c \in Calls : Run(d, c)
  BY EffectIsRun
<1>2. CASE RunStep
  BY <1>2 DEF RunStep, Effect, IInv, Positions, Running
<1>3. CASE \E d \in Depths, c \in Calls : Run(d, c)
  BY <1>3, Turn DEF Run, Take, Effect
<1> QED BY <1>1, <1>2, <1>3

\* Under the floor only what the user is asked about under it takes effect.
THEOREM UnderTheFloor == Spec => AskedUnderTheFloor
<1>1. IInv /\ [Next]_vars =>
          [floor /\ effect' # NoCall =>
               /\ effect' \in OwnGate \cup Pushes
               /\ effect' \in owed \/ Kind(effect') \in always]_vars
  <2> SUFFICES ASSUME IInv, Next, floor, NEW c \in Calls, effect' = c, Allowed(c)
               PROVE  c \in OwnGate \cup Pushes /\ (c \in owed \/ Kind(c) \in always)
    BY EffectSteps
  <2>1. mode = "readonly" /\ AnyCall \notin grants
    BY AgentAssumption DEF IInv, FloorHolds, Approvals
  <2> QED BY <2>1, AgentAssumption DEF IInv, FloorHolds, Allowed, Granted
<1> QED BY <1>1, Inductive, PTL DEF Spec, AskedUnderTheFloor

\* What takes effect is what full-auto lets through or the user approved, and
\* an approval serves one call.
THEOREM ApprovalsAreOwn == Spec => SpendsOwnApproval
<1>1. IInv /\ [Next]_vars =>
          [\A c \in Calls : effect' = c =>
              \/ c \in Writes /\ mode = "full-auto"
              \/ c \in owed
              \/ Kind(c) \in always]_vars
  <2> SUFFICES ASSUME IInv, Next, NEW c \in Calls, effect' = c
               PROVE  \/ c \in Writes /\ mode = "full-auto"
                      \/ c \in owed
                      \/ Kind(c) \in always
    OBVIOUS
  <2>1. Running /\ Allowed(c)
    <3>1. effect' # NoCall
      BY AgentAssumption
    <3> QED BY <3>1, EffectSteps
  <2>2. CASE c \in Pushes
    BY <2>1, <2>2, AgentAssumption DEF Allowed, IInv, Approvals, Backed
  <2>3. CASE c \in Writes
    BY <2>1, <2>3, AgentAssumption DEF Allowed, Granted, IInv, Approvals, Backed
  <2> QED BY <2>2, <2>3
<1> QED BY <1>1, Inductive, PTL DEF Spec, SpendsOwnApproval

-----------------------------------------------------------------------------
(***************************************************************************)
(* ESC                                                                     *)
(***************************************************************************)

\* Where ESC is noticed without ending the turn: at a test or a prompt of the
\* sub-agent that a plan step was given to.
Swallowed ==
    /\ loop[1].at \in {"round", "acting", "asking"} /\ sub.why = "step"
    /\ stop \/ loop[1].at = "asking"
    /\ loop'[0].at = "inline" /\ loop'[1].at = "idle"

LEMMA AnswerEndsIt ==
    ASSUME NEW d \in Depths, Answer(d) \/ Fail, ~aborted
    PROVE  ~aborted'
BY DEF Answer, Fail, TurnOver

LEMMA InterruptSwallows ==
    ASSUME IInv, NEW d \in Depths, Interrupt(d), ~aborted, aborted',
           loop[d].at \in {"round", "acting", "asking"}, stop \/ loop[d].at = "asking"
    PROVE  Swallowed
<1>1. d = 1 /\ sub.why = "step" /\ SubOver("inline")
  BY DEF Interrupt, TurnOver
<1>2. loop' = [loop EXCEPT ![0].at = "inline", ![1] = Idle] /\ loop \in [Depths -> Loop]
  BY <1>1 DEF SubOver, IInv, TypeOK
<1>3. loop'[0].at = "inline" /\ loop'[1].at = "idle"
  BY <1>2 DEF Idle, Fresh, Loop
<1> QED BY <1>1, <1>3 DEF Swallowed

\* The only steps that notice ESC and let the turn go on.
LEMMA AbortBegins ==
    ASSUME IInv, [Next]_vars, ~aborted, aborted'
    PROVE  Swallowed
<1>1. CASE UNCHANGED vars
  BY <1>1 DEF vars
<1>2. CASE \E d \in Depths : NoticeStop(d)
  <2>1. PICK d \in Depths : NoticeStop(d)
    BY <1>2
  <2> QED BY <2>1, InterruptSwallows DEF NoticeStop
<1>3. CASE \E d \in Depths : EscAtPrompt(d)
  <2>1. PICK d \in Depths : EscAtPrompt(d)
    BY <1>3
  <2> QED BY <2>1, InterruptSwallows DEF EscAtPrompt
<1>4. CASE \E d \in Depths : Finish(d) \/ Denied(d)
  <2>1. PICK d \in Depths : Finish(d) \/ Denied(d)
    BY <1>4
  <2>2. (Answer(d) \/ Fail) \/ UNCHANGED aborted
    BY <2>1 DEF Finish, Denied
  <2> QED BY <2>2, AnswerEndsIt
<1>5. CASE \/ Decline \/ EscAtStep \/ Crash
  BY <1>5 DEF Decline, EscAtStep, Crash, TurnOver
<1>6. CASE \/ \E m \in Chosen : Mode(m) \/ Agree(m)
           \/ Plan \/ Ask \/ Esc \/ Present \/ ExecutePlan \/ BadStep \/ RunStep
           \/ EscalateStep \/ DeniedStep \/ NoAudit \/ Land
  BY <1>6 DEF Mode, Agree, Plan, Ask, Esc, Present, ExecutePlan, BadStep, RunStep,
              EscalateStep, DeniedStep, NoAudit, Land
<1>7. CASE \/ \E pinned \in BOOLEAN : Spawn(pinned)
           \/ \E c \in Calls : TakeStep(c)
           \/ Audit
  BY <1>7 DEF Spawn, TakeStep, Audit, StartSub
<1>8. CASE \E d \in Depths :
               \/ Round(d) \/ Spend(d) \/ Launch(d) \/ NextRound(d)
               \/ \E c \in Calls : Run(d, c) \/ Escalate(d, c) \/ Refuse(d, c)
  BY <1>8 DEF Round, Spend, Launch, NextRound, Run, Escalate, Refuse
<1>9. CASE ApprovedStep \/ \E d \in Depths : Approved(d)
  BY <1>9 DEF ApprovedStep, Approved, Approve
<1> QED BY <1>1, <1>2, <1>3, <1>4, <1>5, <1>6, <1>7, <1>8, <1>9 DEF Next

\* ESC is swallowed only by the sub-agent of a plan step, which the step's tool
\* catches (_run_plan_step); wherever else it is noticed the turn is over.
THEOREM StopIsSwallowedByAStep == Spec => [][~aborted /\ aborted' => Swallowed]_vars
<1>1. IInv /\ [Next]_vars => [~aborted /\ aborted' => Swallowed]_vars
  BY AbortBegins
<1> QED BY <1>1, Inductive, PTL DEF Spec

\* The steps of a plan run inline.
StepsRunInline == sub'.why # "step"

\* ...so that ESC is final in every turn whose plans delegate no step.
THEOREM StopIsFinalInline == Spec /\ [][StepsRunInline]_vars => StopIsFinal
<1> DEFINE J == sub.why # "step" /\ ~aborted
<1>1. Init => J
  BY DEF Init, NoSub
<1>2. IInv /\ J /\ [Next]_vars /\ [StepsRunInline]_vars => J'
  BY AbortBegins DEF Swallowed, StepsRunInline, vars
<1>3. J => ~aborted
  OBVIOUS
<1>4. ~aborted => [aborted => effect' = NoCall]_vars
  OBVIOUS
<1> QED BY <1>1, <1>2, <1>3, <1>4, Inductive, PTL DEF Spec, StopIsFinal

\* While the ESC flag is up no call of the model's is carried out, at either
\* depth: only a step of an explicit plan is, between whose steps nothing looks
\* at the flag (execute_plan).
THEOREM OnlyPlansOutliveStop ==
    Spec => [][stop /\ effect' # NoCall => loop[0].at \in {"inline", "again"}]_vars
<1>1. IInv /\ [Next]_vars => [stop /\ effect' # NoCall => loop[0].at \in {"inline", "again"}]_vars
  <2> SUFFICES ASSUME IInv, Next, stop, effect' # NoCall
               PROVE  loop[0].at \in {"inline", "again"}
    OBVIOUS
  <2>1. RunStep \/ \E d \in Depths, c \in Calls : Run(d, c)
    BY EffectIsRun
  <2> QED BY <2>1 DEF RunStep, Run, Take
<1> QED BY <1>1, Inductive, PTL DEF Spec

\* The flag is only taken down with the turn.
THEOREM StopEndsWithTheTurn ==
    Spec => [][stop /\ ~stop' => \A d \in Depths : loop'[d].at = "idle"]_vars
<1>1. IInv /\ [Next]_vars => [stop /\ ~stop' => \A d \in Depths : loop'[d].at = "idle"]_vars
  <2> SUFFICES ASSUME IInv, Next, stop, ~stop'
               PROVE  loop' = [d \in Depths |-> Idle]
    BY DEF Idle, Fresh
  <2>1. CASE \E d \in Depths : NoticeStop(d) \/ EscAtPrompt(d)
    BY <2>1 DEF NoticeStop, EscAtPrompt, Interrupt, TurnOver, NothingRuns, SubOver
  <2>2. CASE \E d \in Depths : Finish(d) \/ Denied(d)
    BY <2>2 DEF Finish, Denied, Answer, Fail, TurnOver, NothingRuns, SubOver
  <2>3. CASE Decline \/ EscAtStep \/ Crash
    BY <2>3 DEF Decline, EscAtStep, Crash, TurnOver, NothingRuns
  <2>4. CASE \/ \E m \in Chosen : Mode(m) \/ Agree(m)
             \/ Plan \/ Ask \/ Esc \/ Present \/ ExecutePlan \/ BadStep \/ RunStep
             \/ EscalateStep \/ DeniedStep \/ NoAudit \/ Land
    BY <2>4 DEF Mode, Agree, Plan, Ask, Esc, Present, ExecutePlan, BadStep, RunStep,
                EscalateStep, DeniedStep, NoAudit, Land
  <2>5. CASE \/ \E pinned \in BOOLEAN : Spawn(pinned)
             \/ \E c \in Calls : TakeStep(c)
             \/ Audit
    BY <2>5 DEF Spawn, TakeStep, Audit, StartSub
  <2>6. CASE \E d \in Depths :
                 \/ Round(d) \/ Spend(d) \/ Launch(d) \/ NextRound(d)
                 \/ \E c \in Calls : Run(d, c) \/ Escalate(d, c) \/ Refuse(d, c)
    BY <2>6 DEF Round, Spend, Launch, NextRound, Run, Escalate, Refuse
  <2>7. CASE ApprovedStep \/ \E d \in Depths : Approved(d)
    BY <2>7 DEF ApprovedStep, Approved, Approve
  <2> QED BY <2>1, <2>2, <2>3, <2>4, <2>5, <2>6, <2>7 DEF Next
<1> QED BY <1>1, Inductive, PTL DEF Spec

-----------------------------------------------------------------------------
(***************************************************************************)
(* The planning mode                                                       *)
(***************************************************************************)

\* While the session plans nothing takes effect, at either depth and whatever was
\* approved before: the mode leaves no grant, no push that was approved and no
\* sub-agent behind (enter_plan_mode, run_tool's gate).
THEOREM PlanningChangesNothing == Spec => [][mode = "plan-only" => effect' = NoCall]_vars
<1>1. IInv /\ [Next]_vars => [mode = "plan-only" => effect' = NoCall]_vars
  <2> SUFFICES ASSUME IInv, Next, mode = "plan-only", effect' # NoCall
               PROVE  FALSE
    OBVIOUS
  <2>1. Running /\ \E c \in Calls : effect' = c /\ Allowed(c)
    BY EffectSteps
  <2>2. remote = NoCall
    BY <2>1 DEF IInv, Positions
  <2> QED BY <2>1, <2>2, AgentAssumption DEF Allowed
<1> QED BY <1>1, Inductive, PTL DEF Spec
=============================================================================
