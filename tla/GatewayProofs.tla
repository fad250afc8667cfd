--------------------------- MODULE GatewayProofs ---------------------------
(***************************************************************************)
(* The gateway runs one turn at a time, its prompts and its stop flag are  *)
(* that turn's, it uses the engine as SharedEngine says, and a session     *)
(* that is cleared stays clear, for any number of sessions, rooms, users   *)
(* and messages.                                                           *)
(***************************************************************************)
EXTENDS Gateway, TLAPS

\* The turn lock is held exactly by the session whose turn is in its thread.
LockIsTheTurns == \A k \in Keys : InThread(k) <=> turnKey = k

\* An escalation was raised for the user whose message its turn answers.
AskersAreAuthors == \A r \in Rooms : asks[r] # NoAsk => asks[r].user = author[asks[r].key]

\* A thread that waits for an answer to an escalation finds its entry.
WaitersHaveAsks ==
    \A k \in Keys : pc[k] \in {"asking", "expired"} => Ask(k) # NoAsk /\ Ask(k).key = k

IInv ==
    /\ TypeOK
    /\ LockIsTheTurns /\ StopsOwnTurn
    /\ AsksAreOfTheTurn /\ AskersAreAuthors /\ WaitersHaveAsks

-----------------------------------------------------------------------------
(* Types.                                                                  *)

\* A group of variables that a step leaves alone keeps its types.
LEMMA Frames ==
    /\ QueuesOK /\ UNCHANGED queues => QueuesOK'
    /\ ModesOK /\ UNCHANGED modes => ModesOK'
    /\ ApprovalsOK /\ UNCHANGED approvals => ApprovalsOK'
    /\ EngineOK /\ UNCHANGED engine => EngineOK'
    /\ SessionsOK /\ UNCHANGED sessions => SessionsOK'
    /\ TurnsOK /\ UNCHANGED <<pc, locks>> => TurnsOK'
<1>1. QueuesOK /\ UNCHANGED queues => QueuesOK'
  BY DEF QueuesOK, queues
<1>2. ModesOK /\ UNCHANGED modes => ModesOK'
  BY DEF ModesOK, modes
<1>3. ApprovalsOK /\ UNCHANGED approvals => ApprovalsOK'
  BY DEF ApprovalsOK, approvals
<1>4. EngineOK /\ UNCHANGED engine => EngineOK'
  BY DEF EngineOK
<1>5. SessionsOK /\ UNCHANGED sessions => SessionsOK'
  BY DEF SessionsOK, sessions
<1>6. TurnsOK /\ UNCHANGED <<pc, locks>> => TurnsOK'
  BY DEF TurnsOK, locks
<1> QED BY <1>1, <1>2, <1>3, <1>4, <1>5, <1>6

\* Taking a message, and counting it, keeps the types of what it changes.
LEMMA AcceptType ==
    ASSUME TypeOK, NEW k \in Keys, NEW u \in Users, Hit(u), Accept(k, u),
           sent' \in 0..MaxMessages, spawned' \in [Keys -> [Users -> Nat]],
           reader' \in Sequential \cup {NoKey}, UNCHANGED locks
    PROVE  QueuesOK' /\ TurnsOK'
<1>1. hits' \in [Users -> 0..PerMinute]
  BY BoundsAssumption DEF TypeOK, QueuesOK, Allowed, Hit
<1>2. pc' \in [Keys -> PcStates]
  BY DEF TypeOK, TurnsOK, Accept, PcStates
<1>3. author' \in [Keys -> Users]
  BY DEF TypeOK, QueuesOK, Accept
<1>4. waiting' \in Seq(Keys)
  <2>1. Append(waiting, k) \in Seq(Keys)
    BY DEF TypeOK, QueuesOK
  <2> QED BY <2>1 DEF TypeOK, QueuesOK, Accept
<1>5. pending' \in [Keys -> Seq(Users)]
  <2>1. Append(pending[k], u) \in Seq(Users)
    BY DEF TypeOK, QueuesOK
  <2> QED BY <2>1 DEF TypeOK, QueuesOK, Accept
<1> QED BY <1>1, <1>2, <1>3, <1>4, <1>5 DEF TypeOK, QueuesOK, TurnsOK, locks

\* A slash command takes and counts its message, and moves no turn.
LEMMA CommandType ==
    ASSUME TypeOK, NEW k \in Keys, NEW u \in Users, NEW more \in BOOLEAN,
           Command(k, u, more), pending' \in [Keys -> Seq(Users)]
    PROVE  QueuesOK' /\ UNCHANGED pc
<1>1. hits' \in [Users -> 0..PerMinute]
  BY BoundsAssumption DEF TypeOK, QueuesOK, Command, Allowed, Hit
<1>2. sent' \in 0..MaxMessages
  BY BoundsAssumption DEF TypeOK, QueuesOK, Command, Typed
<1>3. spawned' \in [Keys -> [Users -> Nat]]
  BY DEF TypeOK, QueuesOK, Command
<1> QED BY <1>1, <1>2, <1>3 DEF TypeOK, QueuesOK, Command

\* Everything a message does on the loop.
LEMMA MessageType ==
    ASSUME TypeOK, NEW k \in Keys, NEW u \in Users, Message(k, u) \/ Replay(k, u)
    PROVE  TypeOK'
<1>1. CASE Text(k, u)
  <2>1. sent' \in 0..MaxMessages /\ spawned' \in [Keys -> [Users -> Nat]]
    BY <1>1, BoundsAssumption DEF Text, Typed, TypeOK, QueuesOK, queues
  <2>2. reader' \in Sequential \cup {NoKey}
    BY <1>1 DEF Text, TypeOK, QueuesOK
  <2> QED BY <1>1, <2>1, <2>2, AcceptType, Frames DEF Text, TypeOK
<1>2. CASE RunSpawned(k, u)
  <2>1. sent' \in 0..MaxMessages /\ reader' \in Sequential \cup {NoKey}
    BY <1>2 DEF RunSpawned, TypeOK, QueuesOK
  <2>2. spawned' \in [Keys -> [Users -> Nat]]
    BY <1>2 DEF RunSpawned, TypeOK, QueuesOK
  <2> QED BY <1>2, <2>1, <2>2, AcceptType, Frames DEF RunSpawned, TypeOK
<1>3. CASE Reject(k, u)
  <2>1. QueuesOK'
    BY <1>3, BoundsAssumption DEF Reject, Typed, TypeOK, QueuesOK
  <2> QED BY <1>3, <2>1, Frames DEF Reject, TypeOK
<1>4. CASE RejectSpawned(k, u)
  <2>1. QueuesOK'
    BY <1>4 DEF RejectSpawned, TypeOK, QueuesOK
  <2> QED BY <1>4, <2>1, Frames DEF RejectSpawned, TypeOK
<1>5. ASSUME NEW more \in BOOLEAN,
             Inform(k, u, more) \/ New(k, u, more) \/ Stop(k, u, more) \/ Plan(k, u, more)
      PROVE  TypeOK'
  <2>1. Command(k, u, more) /\ pending' \in [Keys -> Seq(Users)]
    <3>1. <<>> \in Seq(Users)
      OBVIOUS
    <3>2. UNCHANGED pending \/ pending' = [pending EXCEPT ![k] = <<>>]
      BY <1>5 DEF Inform, New, Stop, Plan
    <3>3. Command(k, u, more)
      BY <1>5 DEF Inform, New, Stop, Plan
    <3> QED BY <3>1, <3>2, <3>3 DEF TypeOK, QueuesOK
  <2>2. QueuesOK' /\ UNCHANGED pc
    BY <2>1, CommandType
  <2>3. CASE Inform(k, u, more)
    BY <2>2, <2>3, Frames DEF Inform, TypeOK
  <2>4. CASE New(k, u, more)
    <3>1. SessionsOK'
      BY <2>4 DEF New, TypeOK, SessionsOK
    <3> QED BY <2>2, <2>4, <3>1, Frames DEF New, TypeOK
  <2>5. CASE Stop(k, u, more)
    <3>1. TurnsOK'
      BY <2>2, <2>5 DEF Stop, TypeOK, TurnsOK
    <3> QED BY <2>2, <2>5, <3>1, Frames DEF Stop, TypeOK
  <2>6. CASE Plan(k, u, more)
    <3>1. ModesOK'
      BY <2>6 DEF Plan, TypeOK, ModesOK
    <3> QED BY <2>2, <2>6, <3>1, Frames DEF Plan, TypeOK
  <2> QED BY <1>5, <2>3, <2>4, <2>5, <2>6
<1>6. ASSUME NEW more \in BOOLEAN, NEW v \in Verdicts, Answer(k, u, v, more)
      PROVE  TypeOK'
  <2>1. QueuesOK' /\ UNCHANGED pc
    BY <1>6, CommandType DEF Answer, TypeOK, QueuesOK
  <2>2. ApprovalsOK'
    <3> DEFINE ask == [asks[RoomOf[k]] EXCEPT !.verdict = v]
    <3>1. asks[RoomOf[k]] \in [key : Keys, user : Users, verdict : Verdicts]
      BY <1>6, RoomAssumption DEF Answer, MayAnswer, Ask, TypeOK, ApprovalsOK
    <3>2. ask \in [key : Keys, user : Users, verdict : Verdicts]
      BY <3>1
    <3>3. asks' = [asks EXCEPT ![RoomOf[k]] = ask]
      BY <1>6 DEF Answer
    <3> HIDE DEF ask
    <3> QED BY <1>6, <3>2, <3>3 DEF Answer, TypeOK, ApprovalsOK
  <2> QED BY <1>6, <2>1, <2>2, Frames DEF Answer, TypeOK
<1>7. ASSUME NEW more \in BOOLEAN, NEW v \in PlanVerdicts, AnswerPlan(k, u, v, more)
      PROVE  TypeOK'
  <2>1. QueuesOK' /\ UNCHANGED pc
    BY <1>7, CommandType DEF AnswerPlan, TypeOK, QueuesOK
  <2>2. ApprovalsOK'
    <3> DEFINE ask == [planAsks[RoomOf[k]] EXCEPT !.verdict = v]
    <3>1. planAsks[RoomOf[k]] \in [key : Keys, user : Users, verdict : PlanVerdicts]
      BY <1>7, RoomAssumption DEF AnswerPlan, MayAnswerPlan, PlanAsk, TypeOK, ApprovalsOK
    <3>2. ask \in [key : Keys, user : Users, verdict : PlanVerdicts]
      BY <3>1
    <3>3. planAsks' = [planAsks EXCEPT ![RoomOf[k]] = ask]
      BY <1>7 DEF AnswerPlan
    <3> HIDE DEF ask
    <3> QED BY <1>7, <3>2, <3>3 DEF AnswerPlan, TypeOK, ApprovalsOK
  <2> QED BY <1>7, <2>1, <2>2, Frames DEF AnswerPlan, TypeOK
<1>8. ASSUME NEW m \in Modes, SetMode(k, u, m)
      PROVE  TypeOK'
  <2>1. QueuesOK' /\ UNCHANGED pc
    BY <1>8, CommandType DEF SetMode, TypeOK, QueuesOK
  <2>2. ModesOK'
    BY <1>8 DEF SetMode, TypeOK, ModesOK
  <2> QED BY <1>8, <2>1, <2>2, Frames DEF SetMode, TypeOK
<1> QED
  BY <1>1, <1>2, <1>3, <1>4, <1>5, <1>6, <1>7, <1>8 DEF Message, Replay, Slash

\* A step of the agent's thread, or of its turn on the loop, moves its session's pc.
LEMMA StepType ==
    ASSUME TypeOK, NEW k \in Keys, NEW from, NEW to \in PcStates,
           Step(k, from, to), UNCHANGED locks
    PROVE  TurnsOK'
BY DEF TypeOK, TurnsOK, Step, locks

\* Everything a turn does on the loop.
LEMMA LoopType ==
    ASSUME TypeOK, NEW k \in Keys,
           StartTurn(k) \/ EndTurn(k) \/ AbortTurn(k) \/ Finish(k)
    PROVE  TypeOK'
<1>1. ModeOf(k) \in Modes
  BY DefaultModeAssumption DEF TypeOK, ModesOK, ModeOf
<1>2. CASE StartTurn(k)
  <2>1. QueuesOK'
    <3>1. Tail(waiting) \in Seq(Keys)
      BY <1>2 DEF StartTurn, TypeOK, QueuesOK
    <3>2. waiting' = Tail(waiting)
          /\ UNCHANGED <<sent, hits, spawned, reader, author, pending>>
      BY <1>2 DEF StartTurn
    <3> QED BY <3>1, <3>2 DEF TypeOK, QueuesOK
  <2>2. TurnsOK'
    BY <1>2 DEF StartTurn, TypeOK, TurnsOK, PcStates, Thread
  <2>3. EngineOK'
    BY <1>1, <1>2 DEF StartTurn, Applied, TypeOK, EngineOK
  <2> QED BY <1>2, <2>1, <2>2, <2>3, Frames DEF StartTurn, TypeOK
<1>3. CASE EndTurn(k)
  <2> DEFINE target == IF engine.back = NoMode THEN "readonly" ELSE engine.back
  <2>1. target \in Modes
    BY DEF TypeOK, EngineOK, Modes
  <2>2. engine' \in {engine, [mode |-> target, back |-> NoMode,
                              approved |-> FALSE, grant |-> FALSE]}
    BY <1>3 DEF EndTurn
  <2>3. chatMode' \in {chatMode, [chatMode EXCEPT ![k] = target]}
    BY <1>3 DEF EndTurn
  <2> HIDE DEF target
  <2>4. EngineOK'
    <3>1. CASE engine' = engine
      BY <3>1 DEF TypeOK, EngineOK
    <3>2. CASE engine' = [mode |-> target, back |-> NoMode,
                          approved |-> FALSE, grant |-> FALSE]
      BY <2>1, <3>2 DEF EngineOK
    <3> QED BY <2>2, <3>1, <3>2
  <2>5. ModesOK'
    BY <1>3, <2>1, <2>3 DEF EndTurn, TypeOK, ModesOK
  <2>6. TurnsOK'
    BY <1>3 DEF EndTurn, TypeOK, TurnsOK, PcStates
  <2>7. SessionsOK'
    BY <1>3 DEF EndTurn, Forget, TypeOK, SessionsOK
  <2> QED BY <1>3, <2>4, <2>5, <2>6, <2>7, Frames DEF EndTurn, TypeOK
<1>4. CASE AbortTurn(k)
  <2>1. TurnsOK'
    BY <1>4 DEF AbortTurn, TypeOK, TurnsOK, PcStates
  <2>2. SessionsOK'
    BY <1>4 DEF AbortTurn, Forget, TypeOK, SessionsOK
  <2> QED BY <1>4, <2>1, <2>2, Frames DEF AbortTurn, TypeOK
<1>5. CASE Finish(k)
  <2>1. pending' \in [Keys -> Seq(Users)] /\ spawned' \in [Keys -> [Users -> Nat]]
    <3>1. CASE pending[k] = <<>>
      BY <1>5, <3>1 DEF Finish, TypeOK, QueuesOK
    <3>2. CASE pending[k] # <<>>
      <4>1. Tail(pending[k]) \in Seq(Users) /\ Head(pending[k]) \in Users
        BY <3>2 DEF TypeOK, QueuesOK
      <4> QED BY <1>5, <3>2, <4>1 DEF Finish, TypeOK, QueuesOK
    <3> QED BY <3>1, <3>2
  <2>2. QueuesOK'
    BY <1>5, <2>1 DEF Finish, TypeOK, QueuesOK
  <2>3. TurnsOK'
    BY <1>5 DEF Finish, TypeOK, TurnsOK, PcStates, locks
  <2> QED BY <1>5, <2>2, <2>3, Frames DEF Finish, TypeOK
<1> QED BY <1>2, <1>3, <1>4, <1>5

\* Everything a turn does in its thread, but for its prompts.
LEMMA ThreadType ==
    ASSUME TypeOK, NEW k \in Keys,
           \/ Load(k) \/ ReadGeneration(k) \/ AutoApprove(k) \/ Spend(k)
           \/ CheckSave(k) \/ WriteSave(k) \/ AgentEnds(k)
    PROVE  TypeOK'
<1> USE DEF PcStates, Thread
<1>1. CASE Load(k)
  <2>1. TurnsOK'
    BY <1>1, StepType DEF Load
  <2>2. SessionsOK'
    BY <1>1 DEF Load, TypeOK, SessionsOK
  <2> QED BY <1>1, <2>1, <2>2, Frames DEF Load, TypeOK
<1>2. CASE ReadGeneration(k)
  <2>1. TurnsOK'
    BY <1>2, StepType DEF ReadGeneration
  <2>2. SessionsOK'
    BY <1>2 DEF ReadGeneration, TypeOK, SessionsOK
  <2>3. EngineOK'
    BY <1>2 DEF ReadGeneration, TypeOK, EngineOK
  <2> QED BY <1>2, <2>1, <2>2, <2>3, Frames DEF ReadGeneration, TypeOK
<1>3. CASE AutoApprove(k) \/ Spend(k)
  <2>1. EngineOK'
    BY <1>3 DEF AutoApprove, Spend, TypeOK, EngineOK
  <2> QED BY <1>3, <2>1, Frames DEF AutoApprove, Spend, TypeOK
<1>4. CASE CheckSave(k)
  <2>1. TurnsOK'
    BY <1>4, StepType DEF CheckSave
  <2> QED BY <1>4, <2>1, Frames DEF CheckSave, TypeOK
<1>5. CASE WriteSave(k)
  <2>1. TurnsOK'
    BY <1>5, StepType DEF WriteSave
  <2>2. SessionsOK'
    BY <1>5 DEF WriteSave, TypeOK, SessionsOK
  <2> QED BY <1>5, <2>1, <2>2, Frames DEF WriteSave, TypeOK
<1>6. CASE AgentEnds(k)
  <2>1. TurnsOK'
    BY <1>6, StepType DEF AgentEnds, AgentReturns, AgentInterrupted, AgentFails
  <2> QED
    BY <1>6, <2>1, Frames DEF AgentEnds, AgentReturns, AgentInterrupted, AgentFails, TypeOK
<1> QED BY <1>1, <1>2, <1>3, <1>4, <1>5, <1>6

\* The prompts of a turn.
LEMMA PromptType ==
    ASSUME TypeOK, NEW k \in Keys,
           \/ Escalate(k) \/ Resolve(k) \/ GiveUp(k) \/ Withdraw(k)
           \/ PresentPlan(k) \/ CarryOutPlan(k) \/ DropPlan(k)
           \/ PlanGivesUp(k) \/ WithdrawPlan(k)
    PROVE  TypeOK'
<1>1. RoomOf[k] \in Rooms /\ author[k] \in Users
  BY RoomAssumption DEF TypeOK, QueuesOK
<1>2. TurnsOK'
  BY StepType DEF Escalate, Resolve, GiveUp, Withdraw, PresentPlan, CarryOutPlan,
                  DropPlan, PlanGivesUp, WithdrawPlan, PcStates, Thread
<1>3. CASE Escalate(k)
  <2>1. ApprovalsOK'
    BY <1>1, <1>3 DEF Escalate, TypeOK, ApprovalsOK, Verdicts
  <2> QED BY <1>2, <1>3, <2>1, Frames DEF Escalate, TypeOK
<1>4. CASE PresentPlan(k)
  <2>1. ApprovalsOK'
    BY <1>1, <1>4 DEF PresentPlan, TypeOK, ApprovalsOK, PlanVerdicts
  <2> QED BY <1>2, <1>4, <2>1, Frames DEF PresentPlan, TypeOK
<1>5. CASE Resolve(k)
  <2>1. ApprovalsOK'
    BY <1>1, <1>5 DEF Resolve, TypeOK, ApprovalsOK
  <2>2. EngineOK'
    BY <1>5 DEF Resolve, TypeOK, EngineOK
  <2>3. ModesOK'
    BY <1>1, <1>5 DEF Resolve, TypeOK, ModesOK
  <2> QED BY <1>2, <1>5, <2>1, <2>2, <2>3, Frames DEF Resolve, TypeOK
<1>6. CASE CarryOutPlan(k)
  <2>1. ApprovalsOK'
    BY <1>1, <1>6 DEF CarryOutPlan, TypeOK, ApprovalsOK
  <2>2. EngineOK'
    BY <1>6 DEF CarryOutPlan, TypeOK, EngineOK
  <2> QED BY <1>2, <1>6, <2>1, <2>2, Frames DEF CarryOutPlan, TypeOK
<1>7. CASE Withdraw(k) \/ DropPlan(k) \/ WithdrawPlan(k)
  <2>1. ApprovalsOK'
    BY <1>1, <1>7 DEF Withdraw, DropPlan, WithdrawPlan, TypeOK, ApprovalsOK
  <2> QED BY <1>2, <1>7, <2>1, Frames DEF Withdraw, DropPlan, WithdrawPlan, TypeOK
<1>8. CASE GiveUp(k) \/ PlanGivesUp(k)
  BY <1>2, <1>8, Frames DEF GiveUp, PlanGivesUp, TypeOK
<1> QED BY <1>3, <1>4, <1>5, <1>6, <1>7, <1>8

\* The initial state has the types.
LEMMA InitType == Init => TypeOK
<1> SUFFICES ASSUME Init PROVE TypeOK
  OBVIOUS
<1>1. QueuesOK
  <2>1. (CHOOSE u \in Users : TRUE) \in Users
    BY MembersAssumption
  <2> QED BY <2>1, BoundsAssumption DEF Init, QueuesOK
<1>2. TurnsOK
  BY DEF Init, TurnsOK, PcStates
<1>3. ModesOK /\ ApprovalsOK
  BY DEF Init, ModesOK, ApprovalsOK
<1>4. EngineOK
  BY DefaultModeAssumption DEF Init, EngineOK
<1>5. SessionsOK
  BY DEF Init, SessionsOK
<1> QED BY <1>1, <1>2, <1>3, <1>4, <1>5 DEF TypeOK

\* Every step keeps the types.
LEMMA NextType == TypeOK /\ [Next]_vars => TypeOK'
<1> SUFFICES ASSUME TypeOK, [Next]_vars PROVE TypeOK'
  OBVIOUS
<1>1. ASSUME NEW k \in Keys, NEW u \in Users, Message(k, u) \/ Replay(k, u)
      PROVE  TypeOK'
  BY <1>1, MessageType
<1>2. ASSUME NEW k \in Keys, Turn(k) PROVE TypeOK'
  BY <1>2, LoopType, ThreadType, PromptType DEF Turn
<1>3. ASSUME NEW k \in Keys, NewEnds(k) PROVE TypeOK'
  <2>1. ModesOK'
    BY <1>3 DEF NewEnds, TypeOK, ModesOK
  <2>2. SessionsOK'
    BY <1>3 DEF NewEnds, TypeOK, SessionsOK
  <2> QED BY <1>3, <2>1, <2>2, Frames DEF NewEnds, TypeOK
<1>4. CASE UNCHANGED vars
  BY <1>4, Frames DEF vars, TypeOK
<1> QED BY <1>1, <1>2, <1>3, <1>4 DEF Next

-----------------------------------------------------------------------------
(* The turn lock.                                                          *)

\* A turn enters its thread by StartTurn and leaves it by EndTurn or AbortTurn;
\* nothing else changes who holds the lock or is in its thread.
LEMMA ThreadMoves ==
    ASSUME TypeOK, Next
    PROVE  \/ \E k \in Keys : StartTurn(k) \/ EndTurn(k) \/ AbortTurn(k)
           \/ /\ UNCHANGED turnKey
              /\ \A j \in Keys : InThread(j)' = InThread(j)
<1> USE DEF InThread, Thread, TypeOK, TurnsOK
<1>1. ASSUME NEW k \in Keys, NEW u \in Users, Text(k, u) \/ RunSpawned(k, u)
      PROVE  UNCHANGED turnKey /\ \A j \in Keys : InThread(j)' = InThread(j)
  BY <1>1 DEF Text, RunSpawned, Accept, locks
<1>2. ASSUME NEW k \in Keys, NEW u \in Users, Reject(k, u) \/ RejectSpawned(k, u) \/ Slash(k, u)
      PROVE  UNCHANGED turnKey /\ \A j \in Keys : InThread(j)' = InThread(j)
  BY <1>2 DEF Reject, RejectSpawned, Slash, Inform, New, Stop, Plan, Answer, AnswerPlan,
              SetMode, Command, locks
<1>3. ASSUME NEW k \in Keys, Finish(k)
      PROVE  UNCHANGED turnKey /\ \A j \in Keys : InThread(j)' = InThread(j)
  BY <1>3 DEF Finish, locks
<1>4. ASSUME NEW k \in Keys, NEW from \in Thread, NEW to \in Thread, Step(k, from, to),
             UNCHANGED locks
      PROVE  UNCHANGED turnKey /\ \A j \in Keys : InThread(j)' = InThread(j)
  BY <1>4 DEF Step, locks
<1>5. ASSUME NEW k \in Keys, AutoApprove(k) \/ Spend(k)
      PROVE  UNCHANGED turnKey /\ \A j \in Keys : InThread(j)' = InThread(j)
  BY <1>5 DEF AutoApprove, Spend, locks
<1>6. ASSUME NEW k \in Keys,
             \/ Load(k) \/ ReadGeneration(k) \/ CheckSave(k) \/ WriteSave(k) \/ AgentEnds(k)
             \/ Escalate(k) \/ Resolve(k) \/ GiveUp(k) \/ Withdraw(k) \/ PresentPlan(k)
             \/ CarryOutPlan(k) \/ DropPlan(k) \/ PlanGivesUp(k) \/ WithdrawPlan(k)
      PROVE  UNCHANGED turnKey /\ \A j \in Keys : InThread(j)' = InThread(j)
  <2>1. UNCHANGED locks
    BY <1>6 DEF Load, ReadGeneration, CheckSave, WriteSave, AgentEnds, AgentReturns,
                AgentInterrupted, AgentFails, Escalate, Resolve, GiveUp, Withdraw,
                PresentPlan, CarryOutPlan, DropPlan, PlanGivesUp, WithdrawPlan
  <2>2. \E from, to \in Thread : Step(k, from, to)
    BY <1>6 DEF Load, ReadGeneration, CheckSave, WriteSave, AgentEnds, AgentReturns,
                AgentInterrupted, AgentFails, Escalate, Resolve, GiveUp, Withdraw,
                PresentPlan, CarryOutPlan, DropPlan, PlanGivesUp, WithdrawPlan
  <2> QED BY <1>4, <2>1, <2>2
<1>7. ASSUME NEW k \in Keys, NewEnds(k)
      PROVE  UNCHANGED turnKey /\ \A j \in Keys : InThread(j)' = InThread(j)
  BY <1>7 DEF NewEnds, locks
<1> HIDE DEF InThread, Thread, TypeOK, TurnsOK
<1> QED
  BY <1>1, <1>2, <1>3, <1>5, <1>6, <1>7 DEF Next, Message, Replay, Turn

\* The turn lock goes with the thread of the turn that holds it.
LEMMA LockStep ==
    ASSUME TypeOK, LockIsTheTurns, Next
    PROVE  LockIsTheTurns'
<1>1. CASE /\ UNCHANGED turnKey
           /\ \A j \in Keys : InThread(j)' = InThread(j)
  BY <1>1 DEF LockIsTheTurns
<1>2. ASSUME NEW k \in Keys, StartTurn(k) PROVE LockIsTheTurns'
  BY <1>2, NoKeyAssumption
     DEF StartTurn, LockIsTheTurns, InThread, Thread, TypeOK, TurnsOK
<1>3. ASSUME NEW k \in Keys, EndTurn(k) \/ AbortTurn(k) PROVE LockIsTheTurns'
  BY <1>3, NoKeyAssumption
     DEF EndTurn, AbortTurn, LockIsTheTurns, InThread, Thread, TypeOK, TurnsOK
<1> QED BY <1>1, <1>2, <1>3, ThreadMoves

-----------------------------------------------------------------------------
(* The stop flag and the prompts belong to the turn that holds the lock.    *)

\* A stop flag is raised for the turn that runs, and falls when that turn ends.
LEMMA StopStep ==
    ASSUME TypeOK, LockIsTheTurns, StopsOwnTurn, Next
    PROVE  StopsOwnTurn'
<1>1. CASE /\ UNCHANGED turnKey
           /\ \A j \in Keys : InThread(j)' = InThread(j)
  <2>1. ASSUME NEW k \in Keys, NEW u \in Users, Message(k, u) \/ Replay(k, u)
        PROVE  stopper' \in {stopper, turnKey}
    BY <2>1 DEF Message, Replay, Slash, Text, RunSpawned, Reject, RejectSpawned,
           Inform, New, Stop, Plan, Answer, AnswerPlan, SetMode, locks
  <2>2. ASSUME NEW k \in Keys, Turn(k) PROVE stopper' \in {stopper, NoKey}
    BY <2>2 DEF Turn, StartTurn, EndTurn, AbortTurn, Finish, Load, ReadGeneration,
           AutoApprove, Escalate, Resolve, GiveUp, Withdraw, Spend, PresentPlan,
           CarryOutPlan, DropPlan, PlanGivesUp, WithdrawPlan, CheckSave, WriteSave,
           AgentEnds, AgentReturns, AgentInterrupted, AgentFails, locks
  <2>3. stopper' \in {stopper, turnKey, NoKey}
    <3>1. CASE \E k \in Keys : NewEnds(k)
      BY <3>1 DEF NewEnds, locks
    <3> QED BY <2>1, <2>2, <3>1 DEF Next
  <2> QED BY <1>1, <2>3 DEF StopsOwnTurn, LockIsTheTurns, TypeOK, TurnsOK
<1>2. ASSUME NEW k \in Keys, StartTurn(k) \/ EndTurn(k) \/ AbortTurn(k)
      PROVE  StopsOwnTurn'
  BY <1>2 DEF StartTurn, EndTurn, AbortTurn, StopsOwnTurn
<1> QED BY <1>1, <1>2, ThreadMoves

Waits == {"asking", "expired", "planAsking", "planExpired"}

\* A prompt that is not this step's own keeps its entry and its waiting thread.
LEMMA PromptsKept ==
    ASSUME AsksAreOfTheTurn, TypeOK, UNCHANGED approvals,
           \A j \in Keys : pc[j] \in Waits => pc'[j] = pc[j]
    PROVE  AsksAreOfTheTurn'
<1>1. \A r \in Rooms : asks[r] # NoAsk => asks[r].key \in Keys
  BY DEF TypeOK, ApprovalsOK
<1>2. \A r \in Rooms : planAsks[r] # NoAsk => planAsks[r].key \in Keys
  BY DEF TypeOK, ApprovalsOK
<1> QED BY <1>1, <1>2 DEF AsksAreOfTheTurn, Waits, approvals

\* Only the session in its thread has prompts, and all of them are at its pc.
LEMMA PromptsOfTheThread ==
    ASSUME AsksAreOfTheTurn, TypeOK, LockIsTheTurns, NEW k \in Keys, InThread(k)
    PROVE  /\ \A r \in Rooms : asks[r] # NoAsk =>
                 asks[r].key = k /\ r = RoomOf[k] /\ pc[k] \in {"asking", "expired"}
           /\ \A r \in Rooms : planAsks[r] # NoAsk =>
                 /\ planAsks[r].key = k /\ r = RoomOf[k]
                 /\ pc[k] \in {"planAsking", "planExpired"}
<1>1. \A r \in Rooms : asks[r] # NoAsk => asks[r].key \in Keys
  BY DEF TypeOK, ApprovalsOK
<1>2. \A r \in Rooms : planAsks[r] # NoAsk => planAsks[r].key \in Keys
  BY DEF TypeOK, ApprovalsOK
<1>3. \A j \in Keys : InThread(j) => j = k
  BY DEF LockIsTheTurns
<1> QED BY <1>1, <1>2, <1>3 DEF AsksAreOfTheTurn, InThread, Thread

\* Every prompt keeps a turn of its room that waits for it.
LEMMA AsksStep ==
    ASSUME TypeOK, LockIsTheTurns, AsksAreOfTheTurn, Next
    PROVE  AsksAreOfTheTurn'
<1> USE DEF TypeOK, TurnsOK
<1>1. ASSUME NEW k \in Keys, NEW u \in Users, Text(k, u) \/ RunSpawned(k, u)
      PROVE  AsksAreOfTheTurn'
  BY <1>1, PromptsKept DEF Text, RunSpawned, Accept, Waits
<1>2. ASSUME NEW k \in Keys, NEW u \in Users, Reject(k, u) \/ RejectSpawned(k, u)
      PROVE  AsksAreOfTheTurn'
  BY <1>2, PromptsKept DEF Reject, RejectSpawned
<1>3. ASSUME NEW k \in Keys, NEW u \in Users, NEW more \in BOOLEAN,
             Inform(k, u, more) \/ New(k, u, more) \/ Stop(k, u, more) \/ Plan(k, u, more)
      PROVE  AsksAreOfTheTurn'
  BY <1>3, PromptsKept DEF Inform, New, Stop, Plan, Command
<1>4. ASSUME NEW k \in Keys, StartTurn(k) \/ EndTurn(k) \/ AbortTurn(k) \/ Finish(k)
      PROVE  AsksAreOfTheTurn'
  <2>1. pc[k] \notin Waits
    BY <1>4, NoKeyAssumption DEF StartTurn, EndTurn, AbortTurn, Finish, Waits,
             LockIsTheTurns, InThread, Thread
  <2>2. UNCHANGED approvals
    BY <1>4 DEF StartTurn, EndTurn, AbortTurn, Finish
  <2>3. \A j \in Keys : j # k => pc'[j] = pc[j]
    BY <1>4 DEF StartTurn, EndTurn, AbortTurn, Finish
  <2> QED BY <2>1, <2>2, <2>3, PromptsKept
<1>5. ASSUME NEW k \in Keys,
             \/ Load(k) \/ ReadGeneration(k) \/ AutoApprove(k) \/ Spend(k)
             \/ CheckSave(k) \/ WriteSave(k) \/ AgentEnds(k)
      PROVE  AsksAreOfTheTurn'
  BY <1>5, PromptsKept DEF Load, ReadGeneration, AutoApprove, Spend, CheckSave, WriteSave,
           AgentEnds, AgentReturns, AgentInterrupted, AgentFails, Step, Waits
<1>6. ASSUME NEW k \in Keys, NEW u \in Users, NEW more \in BOOLEAN, NEW v,
             Answer(k, u, v, more) \/ AnswerPlan(k, u, v, more)
      PROVE  AsksAreOfTheTurn'
  <2>1. CASE Answer(k, u, v, more)
    <3>1. asks' = [asks EXCEPT ![RoomOf[k]].verdict = v] /\ UNCHANGED <<planAsks, pc>>
      BY <2>1 DEF Answer, Command
    <3>2. asks[RoomOf[k]] # NoAsk
      BY <2>1 DEF Answer, MayAnswer, Ask
    <3>3. \A r \in Rooms : asks'[r] # NoAsk =>
             asks[r] # NoAsk /\ asks'[r].key = asks[r].key
      BY <3>1, <3>2 DEF ApprovalsOK
    <3> QED BY <3>1, <3>3 DEF AsksAreOfTheTurn
  <2>2. CASE AnswerPlan(k, u, v, more)
    <3>1. planAsks' = [planAsks EXCEPT ![RoomOf[k]].verdict = v] /\ UNCHANGED <<asks, pc>>
      BY <2>2 DEF AnswerPlan, Command
    <3>2. planAsks[RoomOf[k]] # NoAsk
      BY <2>2 DEF AnswerPlan, MayAnswerPlan, PlanAsk
    <3>3. \A r \in Rooms : planAsks'[r] # NoAsk =>
             planAsks[r] # NoAsk /\ planAsks'[r].key = planAsks[r].key
      BY <3>1, <3>2 DEF ApprovalsOK
    <3> QED BY <3>1, <3>3 DEF AsksAreOfTheTurn
  <2> QED BY <1>6, <2>1, <2>2
<1>7. ASSUME NEW k \in Keys, Escalate(k) \/ PresentPlan(k) PROVE AsksAreOfTheTurn'
  <2>1. pc[k] = "agent" /\ InThread(k)
    BY <1>7 DEF Escalate, PresentPlan, Step, InThread, Thread
  <2>2. \A r \in Rooms : asks[r] = NoAsk /\ planAsks[r] = NoAsk
    BY <2>1, PromptsOfTheThread
  <2>3. CASE Escalate(k)
    BY <2>2, <2>3, RoomAssumption DEF Escalate, Step, ApprovalsOK, AsksAreOfTheTurn
  <2>4. CASE PresentPlan(k)
    BY <2>2, <2>4, RoomAssumption DEF PresentPlan, Step, ApprovalsOK, AsksAreOfTheTurn
  <2> QED BY <1>7, <2>3, <2>4
<1>8. ASSUME NEW k \in Keys, GiveUp(k) \/ PlanGivesUp(k) PROVE AsksAreOfTheTurn'
  <2>1. \/ pc[k] = "asking" /\ pc' = [pc EXCEPT ![k] = "expired"]
        \/ pc[k] = "planAsking" /\ pc' = [pc EXCEPT ![k] = "planExpired"]
    BY <1>8 DEF GiveUp, PlanGivesUp, Step
  <2>2. UNCHANGED <<asks, planAsks>>
    BY <1>8 DEF GiveUp, PlanGivesUp, approvals
  <2> QED BY <2>1, <2>2 DEF AsksAreOfTheTurn, ApprovalsOK
<1>9. ASSUME NEW k \in Keys, Resolve(k) \/ Withdraw(k) PROVE AsksAreOfTheTurn'
  <2>1. pc[k] \in {"asking", "expired"} /\ InThread(k)
    BY <1>9 DEF Resolve, Withdraw, Step, InThread, Thread
  <2>2. asks' = [asks EXCEPT ![RoomOf[k]] = NoAsk] /\ UNCHANGED planAsks
    BY <1>9 DEF Resolve, Withdraw
  <2>3. \A r \in Rooms : asks'[r] = NoAsk /\ planAsks'[r] = NoAsk
    BY <2>1, <2>2, PromptsOfTheThread, RoomAssumption DEF ApprovalsOK
  <2> QED BY <2>3 DEF AsksAreOfTheTurn
<1>10. ASSUME NEW k \in Keys, CarryOutPlan(k) \/ DropPlan(k) \/ WithdrawPlan(k)
       PROVE  AsksAreOfTheTurn'
  <2>1. pc[k] \in {"planAsking", "planExpired"} /\ InThread(k)
    BY <1>10 DEF CarryOutPlan, DropPlan, WithdrawPlan, Step, InThread, Thread
  <2>2. planAsks' = [planAsks EXCEPT ![RoomOf[k]] = NoAsk] /\ UNCHANGED asks
    BY <1>10 DEF CarryOutPlan, DropPlan, WithdrawPlan
  <2>3. \A r \in Rooms : asks'[r] = NoAsk /\ planAsks'[r] = NoAsk
    BY <2>1, <2>2, PromptsOfTheThread, RoomAssumption DEF ApprovalsOK
  <2> QED BY <2>3 DEF AsksAreOfTheTurn
<1>11. ASSUME NEW k \in Keys, NEW u \in Users, NEW m \in Modes, SetMode(k, u, m)
       PROVE  AsksAreOfTheTurn'
  BY <1>11, PromptsKept DEF SetMode, Command
<1> HIDE DEF TypeOK, TurnsOK
<1>12. ASSUME NEW k \in Keys, NEW u \in Users, Message(k, u) \/ Replay(k, u)
       PROVE  AsksAreOfTheTurn'
  BY <1>1, <1>2, <1>3, <1>6, <1>11, <1>12 DEF Message, Replay, Slash
<1>13. ASSUME NEW k \in Keys, Turn(k) PROVE AsksAreOfTheTurn'
  BY <1>4, <1>5, <1>7, <1>8, <1>9, <1>10, <1>13 DEF Turn
<1>14. ASSUME NEW k \in Keys, NewEnds(k) PROVE AsksAreOfTheTurn'
  BY <1>14, PromptsKept DEF NewEnds
<1> QED BY <1>12, <1>13, <1>14 DEF Next

\* Escalations change by being raised, answered, resolved and withdrawn only.
LEMMA AskSteps ==
    ASSUME Next
    PROVE  \/ UNCHANGED asks
           \/ \E k \in Keys : Escalate(k) \/ Resolve(k) \/ Withdraw(k)
           \/ \E k \in Keys, u \in Users, more \in BOOLEAN, v \in Verdicts :
                 Answer(k, u, v, more)
<1> DEFINE Asked == \/ UNCHANGED asks
                    \/ \E k \in Keys : Escalate(k) \/ Resolve(k) \/ Withdraw(k)
                    \/ \E k \in Keys, u \in Users, more \in BOOLEAN, v \in Verdicts :
                          Answer(k, u, v, more)
<1>1. ASSUME NEW k \in Keys, NEW u \in Users, Message(k, u) \/ Replay(k, u) PROVE Asked
  BY <1>1 DEF Message, Replay, Slash, Text, RunSpawned, Reject, RejectSpawned,
           Inform, New, Stop, Plan, AnswerPlan, SetMode, approvals
<1>2. ASSUME \E k \in Keys : NewEnds(k) PROVE Asked
  BY <1>2 DEF NewEnds, approvals
<1>3. ASSUME NEW k \in Keys, Turn(k) PROVE Asked
  BY <1>3 DEF Turn, StartTurn, EndTurn, AbortTurn, Finish, Load, ReadGeneration,
           AutoApprove, GiveUp, Spend, PresentPlan, CarryOutPlan, DropPlan, PlanGivesUp,
           WithdrawPlan, CheckSave, WriteSave, AgentEnds, AgentReturns, AgentInterrupted,
           AgentFails, approvals
<1> HIDE DEF Asked
<1>4. Asked
  BY <1>1, <1>2, <1>3 DEF Next
<1> QED BY <1>4 DEF Asked

\* A session's author changes only when it is idle.
LEMMA AuthorKept ==
    ASSUME TypeOK, Next
    PROVE  \A j \in Keys : pc[j] # "idle" => author'[j] = author[j]
<1> DEFINE Kept == \A j \in Keys : pc[j] # "idle" => author'[j] = author[j]
<1>1. ASSUME NEW k \in Keys, NEW u \in Users, Text(k, u) \/ RunSpawned(k, u) PROVE Kept
  BY <1>1 DEF Text, RunSpawned, Accept, TypeOK, QueuesOK
<1>2. ASSUME NEW k \in Keys, NEW u \in Users,
             Reject(k, u) \/ RejectSpawned(k, u) \/ Slash(k, u)
      PROVE  Kept
  BY <1>2 DEF Reject, RejectSpawned, Slash, Inform, New, Stop, Plan, Answer,
           AnswerPlan, SetMode, Command
<1>3. ASSUME NEW k \in Keys, Turn(k) PROVE Kept
  BY <1>3 DEF Turn, StartTurn, EndTurn, AbortTurn, Finish, Load, ReadGeneration,
           AutoApprove, Escalate, Resolve, GiveUp, Withdraw, Spend, PresentPlan,
           CarryOutPlan, DropPlan, PlanGivesUp, WithdrawPlan, CheckSave, WriteSave,
           AgentEnds, AgentReturns, AgentInterrupted, AgentFails, queues
<1>4. ASSUME NEW k \in Keys, NewEnds(k) PROVE Kept
  BY <1>4 DEF NewEnds, queues
<1> HIDE DEF Kept
<1>5. Kept
  BY <1>1, <1>2, <1>3, <1>4 DEF Next, Message, Replay
<1> QED BY <1>5 DEF Kept

\* A prompt's requester stays the author of the message its turn answers.
LEMMA AuthorStep ==
    ASSUME TypeOK, AsksAreOfTheTurn, AskersAreAuthors, Next
    PROVE  AskersAreAuthors'
<1>1. \A r \in Rooms : asks[r] # NoAsk =>
         asks[r].key \in Keys /\ author'[asks[r].key] = author[asks[r].key]
  BY AuthorKept DEF TypeOK, ApprovalsOK, AsksAreOfTheTurn
<1>2. CASE UNCHANGED asks
  BY <1>1, <1>2 DEF AskersAreAuthors
<1>3. ASSUME NEW k \in Keys, NEW u \in Users, NEW more \in BOOLEAN, NEW v,
             Answer(k, u, v, more)
      PROVE  AskersAreAuthors'
  <2>1. asks' = [asks EXCEPT ![RoomOf[k]].verdict = v]
    BY <1>3 DEF Answer
  <2>2. asks[RoomOf[k]] # NoAsk
    BY <1>3 DEF Answer, MayAnswer, Ask
  <2>3. \A r \in Rooms : asks'[r] # NoAsk =>
           asks[r] # NoAsk /\ asks'[r].key = asks[r].key /\ asks'[r].user = asks[r].user
    BY <2>1, <2>2 DEF TypeOK, ApprovalsOK
  <2> QED BY <1>1, <2>3 DEF AskersAreAuthors
<1>4. ASSUME NEW k \in Keys, Escalate(k) PROVE AskersAreAuthors'
  <2>1. UNCHANGED author
    BY <1>4 DEF Escalate, queues
  <2> QED BY <1>4, <2>1, RoomAssumption DEF Escalate, AskersAreAuthors, TypeOK, ApprovalsOK
<1>5. ASSUME NEW k \in Keys, Resolve(k) \/ Withdraw(k) PROVE AskersAreAuthors'
  <2>1. asks' = [asks EXCEPT ![RoomOf[k]] = NoAsk]
    BY <1>5 DEF Resolve, Withdraw
  <2> QED BY <1>1, <2>1 DEF AskersAreAuthors, TypeOK, ApprovalsOK
<1> QED BY <1>2, <1>3, <1>4, <1>5, AskSteps

\* A thread that waits for an escalation keeps finding its own entry.
LEMMA WaiterStep ==
    ASSUME TypeOK, LockIsTheTurns, AsksAreOfTheTurn, WaitersHaveAsks, Next
    PROVE  WaitersHaveAsks'
<1> USE RoomAssumption
<1>1. \A j \in Keys : pc'[j] \in {"asking", "expired"} =>
         pc[j] \in {"asking", "expired"} \/ Escalate(j)
  <2> DEFINE Entered == \A j \in Keys : pc'[j] \in {"asking", "expired"} =>
                           pc[j] \in {"asking", "expired"} \/ Escalate(j)
  <2>1. ASSUME NEW k \in Keys, NEW u \in Users, Message(k, u) \/ Replay(k, u) PROVE Entered
    BY <2>1 DEF Message, Replay, Slash, Text, RunSpawned, Reject, RejectSpawned, Accept,
             Inform, New, Stop, Plan, Answer, AnswerPlan, SetMode, Command, TypeOK, TurnsOK
  <2>2. ASSUME NEW k \in Keys, Turn(k) PROVE Entered
    BY <2>2 DEF Turn, StartTurn, EndTurn, AbortTurn, Finish, Load, ReadGeneration,
             AutoApprove, Resolve, GiveUp, Withdraw, Spend, PresentPlan, CarryOutPlan,
             DropPlan, PlanGivesUp, WithdrawPlan, CheckSave, WriteSave, AgentEnds,
             AgentReturns, AgentInterrupted, AgentFails, Escalate, Step, TypeOK, TurnsOK
  <2>3. ASSUME NEW k \in Keys, NewEnds(k) PROVE Entered
    BY <2>3 DEF NewEnds
  <2> HIDE DEF Entered
  <2>4. Entered
    BY <2>1, <2>2, <2>3 DEF Next
  <2> QED BY <2>4 DEF Entered
<1>2. ASSUME NEW k \in Keys, Escalate(k) PROVE WaitersHaveAsks'
  <2>1. pc[k] = "agent" /\ InThread(k)
    BY <1>2 DEF Escalate, Step, InThread, Thread
  <2>2. \A j \in Keys : j # k => pc'[j] \notin {"asking", "expired"}
    BY <1>2, <2>1 DEF Escalate, Step, LockIsTheTurns, InThread, Thread, TypeOK, TurnsOK
  <2>3. asks'[RoomOf[k]] # NoAsk /\ asks'[RoomOf[k]].key = k
    BY <1>2 DEF Escalate, TypeOK, ApprovalsOK, NoAsk
  <2> QED BY <2>2, <2>3 DEF WaitersHaveAsks, Ask
<1>3. CASE UNCHANGED asks
  BY <1>1, <1>2, <1>3 DEF WaitersHaveAsks, Ask
<1>4. ASSUME NEW k \in Keys, NEW u \in Users, NEW more \in BOOLEAN, NEW v \in Verdicts,
             Answer(k, u, v, more)
      PROVE  WaitersHaveAsks'
  <2>1. asks' = [asks EXCEPT ![RoomOf[k]].verdict = v] /\ UNCHANGED pc
    BY <1>4 DEF Answer, Command
  <2>2. asks[RoomOf[k]] # NoAsk
    BY <1>4 DEF Answer, MayAnswer, Ask
  <2>3. \A r \in Rooms : asks[r] # NoAsk => asks'[r] # NoAsk /\ asks'[r].key = asks[r].key
    BY <2>1, <2>2 DEF TypeOK, ApprovalsOK, NoAsk
  <2> QED BY <2>1, <2>3 DEF WaitersHaveAsks, Ask
<1>5. ASSUME NEW k \in Keys, Resolve(k) \/ Withdraw(k) PROVE WaitersHaveAsks'
  <2>1. InThread(k)
    BY <1>5 DEF Resolve, Withdraw, Step, InThread, Thread
  <2>2. \A j \in Keys : pc'[j] \notin {"asking", "expired"}
    BY <1>5, <2>1 DEF Resolve, Withdraw, Step, LockIsTheTurns, InThread, Thread, TypeOK, TurnsOK
  <2> QED BY <2>2 DEF WaitersHaveAsks
<1> QED BY <1>2, <1>3, <1>4, <1>5, AskSteps

\* The grant appears by an approval only.
LEMMA GrantSteps ==
    ASSUME EngineOK, Next, ~engine.grant, engine'.grant
    PROVE  \E k \in Keys : AutoApprove(k) \/ Resolve(k)
<1>1. ASSUME NEW k \in Keys, NEW u \in Users, Message(k, u) \/ Replay(k, u)
      PROVE  UNCHANGED engine
  BY <1>1 DEF Message, Replay, Slash, Text, RunSpawned, Reject, RejectSpawned,
           Inform, New, Stop, Plan, Answer, AnswerPlan, SetMode
<1>2. ASSUME NEW k \in Keys,
             StartTurn(k) \/ EndTurn(k) \/ ReadGeneration(k) \/ Spend(k) \/ CarryOutPlan(k)
      PROVE  ~engine'.grant
  <2>1. CASE StartTurn(k)
    <3>1. CASE k \in planKeys
      BY <2>1, <3>1 DEF StartTurn, Applied
    <3>2. CASE k \notin planKeys
      <4>1. engine' = [engine EXCEPT !.mode = ModeOf(k),
                                     !.grant = engine.grant /\ engine.mode = ModeOf(k)]
        BY <2>1, <3>2 DEF StartTurn, Applied
      <4>2. engine'.grant = (engine.grant /\ engine.mode = ModeOf(k))
        BY <4>1 DEF EngineOK
      <4> QED BY <4>2
    <3> QED BY <3>1, <3>2
  <2>2. CASE EndTurn(k)
    BY <2>2 DEF EndTurn
  <2>3. CASE ReadGeneration(k) \/ Spend(k) \/ CarryOutPlan(k)
    BY <2>3 DEF ReadGeneration, Spend, CarryOutPlan, EngineOK
  <2> QED BY <1>2, <2>1, <2>2, <2>3
<1>3. ASSUME NEW k \in Keys,
             \/ AbortTurn(k) \/ Finish(k) \/ Load(k) \/ Escalate(k) \/ GiveUp(k)
             \/ Withdraw(k) \/ PresentPlan(k) \/ DropPlan(k) \/ PlanGivesUp(k)
             \/ WithdrawPlan(k) \/ CheckSave(k) \/ WriteSave(k) \/ AgentEnds(k)
      PROVE  UNCHANGED engine
  BY <1>3 DEF AbortTurn, Finish, Load, Escalate, GiveUp, Withdraw, PresentPlan, DropPlan,
           PlanGivesUp, WithdrawPlan, CheckSave, WriteSave, AgentEnds, AgentReturns,
           AgentInterrupted, AgentFails
<1>4. ASSUME NEW k \in Keys, NewEnds(k) PROVE UNCHANGED engine
  BY <1>4 DEF NewEnds
<1> QED BY <1>1, <1>2, <1>3, <1>4 DEF Next, Turn

-----------------------------------------------------------------------------
(* Theorems.                                                               *)

\* The inductive invariant: who holds the lock is what decides whose stop flag and
\* whose prompts there can be.
THEOREM Invariance == Spec => []IInv
<1>1. Init => IInv
  <2> SUFFICES ASSUME Init PROVE IInv
    OBVIOUS
  <2>1. TypeOK
    BY InitType
  <2>2. /\ LockIsTheTurns /\ StopsOwnTurn
        /\ AsksAreOfTheTurn /\ AskersAreAuthors /\ WaitersHaveAsks
    BY NoKeyAssumption
       DEF Init, LockIsTheTurns, StopsOwnTurn, AsksAreOfTheTurn, AskersAreAuthors,
           WaitersHaveAsks, InThread, Thread
  <2> QED BY <2>1, <2>2 DEF IInv
<1>2. IInv /\ [Next]_vars => IInv'
  <2> SUFFICES ASSUME IInv, [Next]_vars PROVE IInv'
    OBVIOUS
  <2>1. TypeOK'
    BY NextType DEF IInv
  <2>2. CASE Next
    BY <2>1, <2>2, LockStep, StopStep, AsksStep, AuthorStep, WaiterStep DEF IInv
  <2>3. CASE UNCHANGED vars
    BY <2>1, <2>3 DEF IInv, LockIsTheTurns, StopsOwnTurn, AsksAreOfTheTurn, AskersAreAuthors,
                      WaitersHaveAsks, Ask, InThread, vars, locks, approvals, queues
  <2> QED BY <2>2, <2>3
<1> QED BY <1>1, <1>2, PTL DEF Spec

\* Every variable of the gateway keeps its type.
THEOREM TypeCorrect == Spec => []TypeOK
<1>1. IInv => TypeOK
  BY DEF IInv
<1> QED BY <1>1, Invariance, PTL

\* Only one agent turn runs at a time, whichever chat it is from.
THEOREM TurnsExclude == Spec => []OneTurn
<1>1. IInv => OneTurn
  BY DEF IInv, LockIsTheTurns, OneTurn
<1> QED BY <1>1, Invariance, PTL

\* A stop flag is only ever up for the turn of the session that raised it.
THEOREM StopsStayHome == Spec => []StopsOwnTurn
<1>1. IInv => StopsOwnTurn
  BY DEF IInv
<1> QED BY <1>1, Invariance, PTL

\* No prompt outlives the turn that waits for its answer.
THEOREM PromptsHaveTurns == Spec => []AsksAreOfTheTurn
<1>1. IInv => AsksAreOfTheTurn
  BY DEF IInv
<1> QED BY <1>1, Invariance, PTL

\* The answer to an escalation is given once: a later /approve or /deny does not
\* replace it, and no new prompt is put in the place of one that is still open.
THEOREM VerdictsStand == Spec => VerdictIsFinal
<1> DEFINE Stands == \A r \in Rooms :
       asks[r] # NoAsk /\ asks[r].verdict # "none" => asks'[r] \in {asks[r], NoAsk}
<1>1. IInv /\ [Next]_vars => [Stands]_vars
  <2> SUFFICES ASSUME IInv, Next PROVE Stands
    OBVIOUS
  <2>1. CASE UNCHANGED asks
    BY <2>1
  <2>2. ASSUME NEW k \in Keys, NEW u \in Users, NEW more \in BOOLEAN, NEW v,
               Answer(k, u, v, more)
        PROVE  Stands
    <3>1. asks' = [asks EXCEPT ![RoomOf[k]].verdict = v]
      BY <2>2 DEF Answer
    <3>2. asks[RoomOf[k]].verdict = "none"
      BY <2>2 DEF Answer, MayAnswer, Ask
    <3> QED BY <3>1, <3>2 DEF IInv, TypeOK, ApprovalsOK
  <2>3. ASSUME NEW k \in Keys, Escalate(k) PROVE Stands
    <3>1. pc[k] = "agent" /\ InThread(k)
      BY <2>3 DEF Escalate, Step, InThread, Thread
    <3>2. \A r \in Rooms : asks[r] = NoAsk
      BY <3>1, PromptsOfTheThread DEF IInv
    <3> QED BY <3>2
  <2>4. ASSUME NEW k \in Keys, Resolve(k) \/ Withdraw(k) PROVE Stands
    <3>1. asks' = [asks EXCEPT ![RoomOf[k]] = NoAsk]
      BY <2>4 DEF Resolve, Withdraw
    <3> QED BY <3>1 DEF IInv, TypeOK, ApprovalsOK
  <2>5. \/ UNCHANGED asks
        \/ \E k \in Keys : Escalate(k) \/ Resolve(k) \/ Withdraw(k)
        \/ \E k \in Keys, u \in Users, more \in BOOLEAN, v \in Verdicts : Answer(k, u, v, more)
    BY AskSteps
  <2> QED BY <2>1, <2>2, <2>3, <2>4, <2>5
<1> QED BY <1>1, Invariance, PTL DEF Spec, VerdictIsFinal

\* A grant is what the running turn's own requester has approved, this once or for
\* the session: an answer that comes late, or from someone else, grants nothing.
THEOREM GrantsApproved == Spec => GrantsAreApproved
<1> DEFINE Approved ==
       \E k \in Keys :
          /\ turnKey = k
          /\ \/ <<k, author[k]>> \in scopes
             \/ /\ pc[k] = "asking"
                /\ Ask(k).user = author[k] /\ Ask(k).verdict \in {"once", "session"}
<1> DEFINE Granted == ~engine.grant /\ engine'.grant
<1>1. IInv /\ [Next]_vars => [Granted => Approved]_vars
  <2> SUFFICES ASSUME IInv, Next, Granted PROVE Approved
    OBVIOUS
  <2>1. EngineOK
    BY DEF IInv, TypeOK
  <2>2. ASSUME NEW k \in Keys, AutoApprove(k) PROVE Approved
    <3>1. InThread(k) /\ <<k, author[k]>> \in scopes
      BY <2>2 DEF AutoApprove, InThread, Thread
    <3> QED BY <3>1 DEF IInv, LockIsTheTurns
  <2>3. ASSUME NEW k \in Keys, Resolve(k) PROVE Approved
    <3>1. pc[k] = "asking" /\ InThread(k) /\ Ask(k).verdict # "none"
      BY <2>3 DEF Resolve, Step, InThread, Thread
    <3>2. Ask(k).verdict \in {"once", "session"}
      BY <2>1, <2>3 DEF Resolve, EngineOK
    <3>3. Ask(k) # NoAsk /\ Ask(k).key = k
      BY <3>1 DEF IInv, WaitersHaveAsks
    <3>4. Ask(k).user = author[k]
      BY <3>3, RoomAssumption DEF IInv, AskersAreAuthors, Ask
    <3>5. turnKey = k
      BY <3>1 DEF IInv, LockIsTheTurns
    <3> QED BY <3>1, <3>2, <3>4, <3>5
  <2>4. \E k \in Keys : AutoApprove(k) \/ Resolve(k)
    BY <2>1, GrantSteps
  <2> QED BY <2>2, <2>3, <2>4
<1> QED BY <1>1, Invariance, PTL DEF Spec, GrantsAreApproved

\* The engine's mode is moved by a turn that takes or gives back the lock, or by the
\* approval of the running turn's own plan; never by a command.
THEOREM ModesMoveWithTurns == Spec => ModeMovesWithTurns
<1> DEFINE Moves ==
       engine'.mode # engine.mode =>
          \/ turnKey' # turnKey
          \/ \E k \in Keys : /\ turnKey = k /\ pc[k] = "planAsking"
                             /\ PlanAsk(k).verdict = engine'.mode
<1>1. IInv /\ [Next]_vars => [Moves]_vars
  <2> SUFFICES ASSUME IInv, Next PROVE Moves
    OBVIOUS
  <2>1. ASSUME NEW k \in Keys, StartTurn(k) PROVE turnKey' # turnKey
    BY <2>1, NoKeyAssumption DEF StartTurn
  <2>2. ASSUME NEW k \in Keys, EndTurn(k) PROVE turnKey' # turnKey
    <3>1. InThread(k)
      BY <2>2 DEF EndTurn, InThread, Thread
    <3> QED BY <2>2, <3>1, NoKeyAssumption DEF EndTurn, IInv, LockIsTheTurns
  <2>3. ASSUME NEW k \in Keys, CarryOutPlan(k) PROVE Moves
    <3>1. pc[k] = "planAsking" /\ InThread(k)
      BY <2>3 DEF CarryOutPlan, Step, InThread, Thread
    <3>2. PlanAsk(k).verdict = engine'.mode
      BY <2>3 DEF CarryOutPlan, IInv, TypeOK, EngineOK
    <3> QED BY <3>1, <3>2 DEF IInv, LockIsTheTurns
  <2>4. ASSUME NEW k \in Keys,
               ReadGeneration(k) \/ AutoApprove(k) \/ Spend(k) \/ Resolve(k)
        PROVE  engine'.mode = engine.mode
    BY <2>4 DEF ReadGeneration, AutoApprove, Spend, Resolve, IInv, TypeOK, EngineOK
  <2>5. ASSUME NEW k \in Keys,
               \/ AbortTurn(k) \/ Finish(k) \/ Load(k) \/ Escalate(k) \/ GiveUp(k)
               \/ Withdraw(k) \/ PresentPlan(k) \/ DropPlan(k) \/ PlanGivesUp(k)
               \/ WithdrawPlan(k) \/ CheckSave(k) \/ WriteSave(k) \/ AgentEnds(k)
        PROVE  UNCHANGED engine
    BY <2>5 DEF AbortTurn, Finish, Load, Escalate, GiveUp, Withdraw, PresentPlan, DropPlan,
             PlanGivesUp, WithdrawPlan, CheckSave, WriteSave, AgentEnds, AgentReturns,
             AgentInterrupted, AgentFails
  <2>6. ASSUME NEW k \in Keys, NEW u \in Users, Message(k, u) \/ Replay(k, u)
        PROVE  UNCHANGED engine
    BY <2>6 DEF Message, Replay, Slash, Text, RunSpawned, Reject, RejectSpawned,
             Inform, New, Stop, Plan, Answer, AnswerPlan, SetMode
  <2>7. ASSUME NEW k \in Keys, NewEnds(k) PROVE UNCHANGED engine
    BY <2>7 DEF NewEnds
  <2> QED BY <2>1, <2>2, <2>3, <2>4, <2>5, <2>6, <2>7 DEF Next, Turn
<1> QED BY <1>1, Invariance, PTL DEF Spec, ModeMovesWithTurns

\* With the rate limiter off, every queued message has a turn ahead of it or a replay
\* under way.
THEOREM QueuesAreServed ==
    ASSUME PerMinute = 0
    PROVE  Spec => []NothingStranded
<1>1. Init => NothingStranded
  BY DEF Init, NothingStranded
<1>2. TypeOK /\ NothingStranded /\ [Next]_vars => NothingStranded'
  <2> SUFFICES ASSUME TypeOK, NothingStranded, [Next]_vars PROVE NothingStranded'
    OBVIOUS
  <2>1. ASSUME NEW k \in Keys, NEW u \in Users, Text(k, u) \/ RunSpawned(k, u)
        PROVE  NothingStranded'
    <3>1. pc'[k] # "idle"
      BY <2>1 DEF Text, RunSpawned, Accept, TypeOK, TurnsOK
    <3>2. \A j \in Keys : j # k => /\ pc'[j] = pc[j] /\ pending'[j] = pending[j]
                                   /\ spawned'[j] = spawned[j]
      BY <2>1 DEF Text, RunSpawned, Accept, TypeOK, TurnsOK, QueuesOK
    <3> QED BY <3>1, <3>2 DEF NothingStranded
  <2>2. ASSUME NEW k \in Keys, NEW u \in Users, RejectSpawned(k, u) PROVE FALSE
    BY <2>2 DEF RejectSpawned, Allowed
  <2>3. ASSUME NEW k \in Keys, NEW u \in Users,
               Reject(k, u) \/ Slash(k, u)
        PROVE  NothingStranded'
    <3>1. UNCHANGED pc
      BY <2>3 DEF Reject, Slash, Inform, New, Stop, Plan, Answer, AnswerPlan,
               SetMode, Command
    <3>2. UNCHANGED pending \/ pending' = [pending EXCEPT ![k] = <<>>]
      BY <2>3 DEF Reject, Slash, Inform, New, Stop, Plan, Answer, AnswerPlan, SetMode
    <3>3. UNCHANGED spawned \/ spawned' = [spawned EXCEPT ![k][u] = @ + 1]
      BY <2>3 DEF Reject, Slash, Inform, New, Stop, Plan, Answer, AnswerPlan,
               SetMode, Command
    <3>4. \A j \in Keys, v \in Users : spawned[j][v] > 0 => spawned'[j][v] > 0
      <4>1. CASE spawned' = [spawned EXCEPT ![k][u] = @ + 1]
        <5>1. \A j \in Keys, v \in Users :
                 spawned'[j][v] = IF j = k /\ v = u THEN spawned[j][v] + 1 ELSE spawned[j][v]
          BY <4>1 DEF TypeOK, QueuesOK
        <5>2. \A j \in Keys, v \in Users : spawned[j][v] \in Nat
          BY DEF TypeOK, QueuesOK
        <5> QED BY <5>1, <5>2
      <4> QED BY <3>3, <4>1
    <3>5. \A j \in Keys : pending'[j] # <<>> => pending[j] # <<>>
      BY <3>2 DEF TypeOK, QueuesOK
    <3> QED BY <3>1, <3>4, <3>5 DEF NothingStranded
  <2>4. ASSUME NEW k \in Keys, Finish(k) PROVE NothingStranded'
    <3>1. \A j \in Keys : j # k => /\ pc'[j] = pc[j] /\ pending'[j] = pending[j]
                                   /\ spawned'[j] = spawned[j]
      BY <2>4 DEF Finish, TypeOK, QueuesOK, TurnsOK
    <3>2. CASE pending[k] = <<>>
      BY <2>4, <3>1, <3>2 DEF Finish, NothingStranded
    <3>3. CASE pending[k] # <<>>
      <4>1. Head(pending[k]) \in Users
        BY <3>3 DEF TypeOK, QueuesOK
      <4>2. spawned' = [spawned EXCEPT ![k][Head(pending[k])] = @ + 1]
        BY <2>4, <3>3 DEF Finish
      <4>3. spawned'[k][Head(pending[k])] > 0
        BY <4>1, <4>2 DEF TypeOK, QueuesOK
      <4> QED BY <3>1, <4>1, <4>3 DEF NothingStranded
    <3> QED BY <3>2, <3>3
  <2>5. ASSUME NEW k \in Keys, Turn(k), ~Finish(k) PROVE NothingStranded'
    <3>1. UNCHANGED <<pending, spawned>>
      BY <2>5 DEF Turn, StartTurn, EndTurn, AbortTurn, Load, ReadGeneration, AutoApprove,
               Escalate, Resolve, GiveUp, Withdraw, Spend, PresentPlan, CarryOutPlan,
               DropPlan, PlanGivesUp, WithdrawPlan, CheckSave, WriteSave, AgentEnds,
               AgentReturns, AgentInterrupted, AgentFails, queues
    <3>2. \A j \in Keys : pc[j] # "idle" => pc'[j] # "idle"
      BY <2>5 DEF Turn, StartTurn, EndTurn, AbortTurn, Load, ReadGeneration, AutoApprove,
               Escalate, Resolve, GiveUp, Withdraw, Spend, PresentPlan, CarryOutPlan,
               DropPlan, PlanGivesUp, WithdrawPlan, CheckSave, WriteSave, AgentEnds,
               AgentReturns, AgentInterrupted, AgentFails, Step, TypeOK, TurnsOK
    <3> QED BY <3>1, <3>2 DEF NothingStranded
  <2>6. CASE UNCHANGED vars
    BY <2>6 DEF vars, queues, NothingStranded
  <2>7. ASSUME NEW k \in Keys, NewEnds(k) PROVE NothingStranded'
    BY <2>7 DEF NewEnds, queues, NothingStranded
  <2> QED BY <2>1, <2>2, <2>3, <2>4, <2>5, <2>6, <2>7 DEF Next, Message, Replay
<1> QED BY <1>1, <1>2, TypeCorrect, PTL DEF Spec

-----------------------------------------------------------------------------
(* The gateway's turns use the engine as SharedEngine says.                *)

\* A thread that waits for a verdict on its plan finds its entry.
PlannersHaveAsks ==
    \A k \in Keys : pc[k] \in {"planAsking", "planExpired"} =>
        PlanAsk(k) # NoAsk /\ PlanAsk(k).key = k

\* Plans change by being presented, answered, read and withdrawn only.
LEMMA PlanSteps ==
    ASSUME Next
    PROVE  \/ UNCHANGED planAsks
           \/ \E k \in Keys :
                 PresentPlan(k) \/ CarryOutPlan(k) \/ DropPlan(k) \/ WithdrawPlan(k)
           \/ \E k \in Keys, u \in Users, more \in BOOLEAN, v \in PlanVerdicts :
                 AnswerPlan(k, u, v, more)
<1> DEFINE Asked == \/ UNCHANGED planAsks
                    \/ \E k \in Keys :
                          PresentPlan(k) \/ CarryOutPlan(k) \/ DropPlan(k) \/ WithdrawPlan(k)
                    \/ \E k \in Keys, u \in Users, more \in BOOLEAN, v \in PlanVerdicts :
                          AnswerPlan(k, u, v, more)
<1>1. ASSUME NEW k \in Keys, NEW u \in Users, Message(k, u) \/ Replay(k, u) PROVE Asked
  BY <1>1 DEF Message, Replay, Slash, Text, RunSpawned, Reject, RejectSpawned,
           Inform, New, Stop, Plan, Answer, SetMode, approvals
<1>2. ASSUME \E k \in Keys : NewEnds(k) PROVE Asked
  BY <1>2 DEF NewEnds, approvals
<1>3. ASSUME NEW k \in Keys, Turn(k) PROVE Asked
  BY <1>3 DEF Turn, StartTurn, EndTurn, AbortTurn, Finish, Load, ReadGeneration,
           AutoApprove, Escalate, Resolve, GiveUp, Withdraw, Spend, PlanGivesUp,
           CheckSave, WriteSave, AgentEnds, AgentReturns, AgentInterrupted,
           AgentFails, approvals
<1> HIDE DEF Asked
<1>4. Asked
  BY <1>1, <1>2, <1>3 DEF Next
<1> QED BY <1>4 DEF Asked

\* A thread comes to wait for a verdict on a plan by presenting one.
LEMMA PlannersPresent ==
    ASSUME TypeOK, Next, NEW j \in Keys, pc'[j] \in {"planAsking", "planExpired"}
    PROVE  pc[j] \in {"planAsking", "planExpired"} \/ PresentPlan(j)
<1> DEFINE Entered == \A i \in Keys : pc'[i] \in {"planAsking", "planExpired"} =>
                         pc[i] \in {"planAsking", "planExpired"} \/ PresentPlan(i)
<1>1. ASSUME NEW k \in Keys, NEW u \in Users, Message(k, u) \/ Replay(k, u) PROVE Entered
  BY <1>1 DEF Message, Replay, Slash, Text, RunSpawned, Reject, RejectSpawned, Accept,
           Inform, New, Stop, Plan, Answer, AnswerPlan, SetMode, Command, TypeOK, TurnsOK
<1>2. ASSUME NEW k \in Keys, Turn(k) PROVE Entered
  BY <1>2 DEF Turn, StartTurn, EndTurn, AbortTurn, Finish, Load, ReadGeneration,
           AutoApprove, Resolve, GiveUp, Withdraw, Spend, PresentPlan, CarryOutPlan,
           DropPlan, PlanGivesUp, WithdrawPlan, CheckSave, WriteSave, AgentEnds,
           AgentReturns, AgentInterrupted, AgentFails, Escalate, Step, TypeOK, TurnsOK
<1>3. ASSUME NEW k \in Keys, NewEnds(k) PROVE Entered
  BY <1>3 DEF NewEnds
<1> HIDE DEF Entered
<1>4. Entered
  BY <1>1, <1>2, <1>3 DEF Next
<1> QED BY <1>4 DEF Entered

\* It keeps finding its own entry.
LEMMA PlannerStep ==
    ASSUME TypeOK, LockIsTheTurns, AsksAreOfTheTurn, PlannersHaveAsks, Next
    PROVE  PlannersHaveAsks'
<1> USE RoomAssumption
<1>1. ASSUME NEW k \in Keys, PresentPlan(k) PROVE PlannersHaveAsks'
  <2>1. pc[k] = "agent" /\ InThread(k)
    BY <1>1 DEF PresentPlan, Step, InThread, Thread
  <2>2. \A j \in Keys : j # k => pc'[j] \notin {"planAsking", "planExpired"}
    BY <1>1, <2>1 DEF PresentPlan, Step, LockIsTheTurns, InThread, Thread, TypeOK, TurnsOK
  <2>3. planAsks'[RoomOf[k]] # NoAsk /\ planAsks'[RoomOf[k]].key = k
    BY <1>1 DEF PresentPlan, TypeOK, ApprovalsOK, NoAsk
  <2> QED BY <2>2, <2>3 DEF PlannersHaveAsks, PlanAsk
<1>2. CASE UNCHANGED planAsks
  BY <1>1, <1>2, PlannersPresent DEF PlannersHaveAsks, PlanAsk
<1>3. ASSUME NEW k \in Keys, NEW u \in Users, NEW more \in BOOLEAN, NEW v \in PlanVerdicts,
             AnswerPlan(k, u, v, more)
      PROVE  PlannersHaveAsks'
  <2>1. planAsks' = [planAsks EXCEPT ![RoomOf[k]].verdict = v] /\ UNCHANGED pc
    BY <1>3 DEF AnswerPlan, Command
  <2>2. planAsks[RoomOf[k]] # NoAsk
    BY <1>3 DEF AnswerPlan, MayAnswerPlan, PlanAsk
  <2>3. \A r \in Rooms : planAsks[r] # NoAsk =>
           planAsks'[r] # NoAsk /\ planAsks'[r].key = planAsks[r].key
    BY <2>1, <2>2 DEF TypeOK, ApprovalsOK, NoAsk
  <2> QED BY <2>1, <2>3 DEF PlannersHaveAsks, PlanAsk
<1>4. ASSUME NEW k \in Keys, CarryOutPlan(k) \/ DropPlan(k) \/ WithdrawPlan(k)
      PROVE  PlannersHaveAsks'
  <2>1. InThread(k)
    BY <1>4 DEF CarryOutPlan, DropPlan, WithdrawPlan, Step, InThread, Thread
  <2>2. \A j \in Keys : pc'[j] \notin {"planAsking", "planExpired"}
    BY <1>4, <2>1 DEF CarryOutPlan, DropPlan, WithdrawPlan, Step, LockIsTheTurns,
             InThread, Thread, TypeOK, TurnsOK
  <2> QED BY <2>2 DEF PlannersHaveAsks
<1> QED BY <1>1, <1>2, <1>3, <1>4, PlanSteps

\* The plans' part of the inductive invariant.
LEMMA PlannersFindTheirs == Spec => []PlannersHaveAsks
<1>1. Init => PlannersHaveAsks
  BY DEF Init, PlannersHaveAsks
<1>2. IInv /\ PlannersHaveAsks /\ [Next]_vars => PlannersHaveAsks'
  <2>1. ASSUME IInv, PlannersHaveAsks, UNCHANGED vars PROVE PlannersHaveAsks'
    BY <2>1 DEF PlannersHaveAsks, PlanAsk, vars, approvals
  <2> QED BY <2>1, PlannerStep DEF IInv
<1> QED BY <1>1, <1>2, Invariance, PTL DEF Spec

\* Under the invariants the sessions that have a question are the ones that wait, and
\* an answered question is a waiting session's own entry with a verdict.
AskersWait == Asking = {k \in Keys : pc[k] \in Waits}

LEMMA AskingIsWaiting == IInv /\ PlannersHaveAsks => AskersWait
<1> SUFFICES ASSUME IInv, PlannersHaveAsks PROVE AskersWait
  OBVIOUS
<1>1. ASSUME NEW r \in Rooms
      PROVE  /\ asks[r] # NoAsk <=> asks[r].key # NoKey
             /\ planAsks[r] # NoAsk <=> planAsks[r].key # NoKey
  BY NoKeyAssumption DEF IInv, TypeOK, ApprovalsOK, NoAsk
<1>2. ASSUME NEW k \in Asking PROVE k \in Keys /\ pc[k] \in Waits
  BY <1>1, <1>2 DEF Asking, KeysOf, IInv, AsksAreOfTheTurn, Waits, TypeOK, ApprovalsOK
<1>3. ASSUME NEW k \in Keys, pc[k] \in Waits PROVE k \in Asking
  <2>1. RoomOf[k] \in Rooms /\ k # NoKey
    BY RoomAssumption, NoKeyAssumption
  <2> QED
    BY <1>3, <2>1 DEF Asking, KeysOf, IInv, WaitersHaveAsks, PlannersHaveAsks, Waits, Ask, PlanAsk
<1> QED BY <1>2, <1>3 DEF AskersWait

\* What a step leaves alone of the gateway, it leaves alone of what SharedEngine sees.
LEMMA SharedKept ==
    ASSUME UNCHANGED <<stopper, scopes, asks, planAsks>>,
           \A j \in Keys : InThread(j)' = InThread(j)
    PROVE  UNCHANGED Shared!vars
<1>1. Turning' = Turning
  BY DEF Turning
<1>2. /\ Stopped' = Stopped /\ Asking' = Asking /\ Answered' = Answered
      /\ scopes' = scopes
  BY DEF Stopped, Asking, Answered, KeysOf, KeysAnswered
<1> QED BY <1>1, <1>2 DEF Shared!vars

\* The session whose turn is in its thread is the only one, and may have been told
\* to stop.
LEMMA TurningIs ==
    ASSUME IInv, NEW k \in Keys, InThread(k)
    PROVE  Turning = {k} /\ Stopped \subseteq {k}
BY DEF Turning, Stopped, IInv, LockIsTheTurns, StopsOwnTurn

\* Messages and commands: a stop, an answer, or nothing.
LEMMA MessageShared ==
    ASSUME IInv, PlannersHaveAsks, NEW k \in Keys, NEW u \in Users,
           Message(k, u) \/ Replay(k, u)
    PROVE  [Shared!Next]_(Shared!vars)
<1> DEFINE Quiet == \A j \in Keys : InThread(j)' = InThread(j)
<1>1. Quiet
  <2>1. CASE Text(k, u) \/ RunSpawned(k, u)
    BY <2>1 DEF Text, RunSpawned, Accept, InThread, Thread, IInv, TypeOK, TurnsOK
  <2>2. CASE Reject(k, u) \/ RejectSpawned(k, u) \/ Slash(k, u)
    BY <2>2 DEF Reject, RejectSpawned, Slash, Inform, New, Stop, Plan, Answer, AnswerPlan,
             SetMode, Command, InThread
  <2> QED BY <2>1, <2>2 DEF Message, Replay
<1>2. CASE Text(k, u) \/ RunSpawned(k, u) \/ Reject(k, u) \/ RejectSpawned(k, u)
  <2>1. UNCHANGED <<stopper, scopes, asks, planAsks>>
    BY <1>2 DEF Text, RunSpawned, Reject, RejectSpawned, locks, modes, approvals
  <2> QED BY <1>1, <2>1, SharedKept
<1>3. ASSUME NEW more \in BOOLEAN, Inform(k, u, more) \/ Plan(k, u, more)
      PROVE  UNCHANGED Shared!vars
  <2>1. UNCHANGED <<stopper, scopes, asks, planAsks>>
    BY <1>3 DEF Inform, Plan, locks, modes, approvals
  <2> QED BY <1>1, <2>1, SharedKept
<1>4. ASSUME NEW m \in Modes, SetMode(k, u, m) PROVE UNCHANGED Shared!vars
  <2>1. UNCHANGED <<stopper, scopes, asks, planAsks>>
    BY <1>4 DEF SetMode, locks, approvals
  <2> QED BY <1>1, <2>1, SharedKept
<1>5. ASSUME NEW more \in BOOLEAN, New(k, u, more) PROVE UNCHANGED Shared!vars
  <2>1. UNCHANGED <<stopper, scopes, asks, planAsks>>
    BY <1>5 DEF New, locks, modes, approvals
  <2> QED BY <1>1, <2>1, SharedKept
<1>6. ASSUME NEW more \in BOOLEAN, Stop(k, u, more) PROVE [Shared!Tell(k)]_(Shared!vars)
  <2>1. UNCHANGED <<scopes, asks, planAsks>>
    BY <1>6 DEF Stop, modes, approvals
  <2>2. CASE stopper' = stopper
    BY <1>1, <2>1, <2>2, SharedKept
  <2>3. CASE stopper' = k /\ turnKey = k /\ stopper = NoKey
    <3>1. k \in Turning
      BY <2>3 DEF Turning, IInv, LockIsTheTurns
    <3>2. Stopped' = Stopped \cup {k}
      BY <2>3, NoKeyAssumption DEF Stopped
    <3>3. Turning' = Turning /\ Asking' = Asking /\ Answered' = Answered
      BY <1>1, <2>1 DEF Turning, Asking, Answered, KeysOf, KeysAnswered
    <3> QED BY <2>1, <3>1, <3>2, <3>3 DEF Shared!Tell
  <2> QED BY <1>6, <2>2, <2>3 DEF Stop
<1>7. ASSUME NEW more \in BOOLEAN, NEW v \in Verdicts \ {"none"}, Answer(k, u, v, more)
      PROVE  \E j \in Keys : Shared!Answer(j)
  <2> DEFINE r == RoomOf[k]
             j == asks[r].key
  <2>1. r \in Rooms
    BY RoomAssumption
  <2>2. /\ asks[r] # NoAsk /\ asks' = [asks EXCEPT ![r].verdict = v]
        /\ UNCHANGED <<stopper, scopes, planAsks>>
    BY <1>7 DEF Answer, MayAnswer, Ask, locks, modes
  <2>3. asks[r] \in [key : Keys, user : Users, verdict : Verdicts]
    BY <2>1, <2>2 DEF IInv, TypeOK, ApprovalsOK
  <2>4. j \in Keys /\ j # NoKey
    BY <2>3, NoKeyAssumption
  <2>5. \A x \in Rooms : asks'[x].key = asks[x].key
    BY <2>1, <2>2, <2>3 DEF IInv, TypeOK, ApprovalsOK
  <2>6. asks'[r].verdict = v /\ asks'[r] # NoAsk
    <3>1. asks'[r] = [asks[r] EXCEPT !.verdict = v]
      BY <2>1, <2>2 DEF IInv, TypeOK, ApprovalsOK
    <3>2. asks'[r].verdict = v /\ asks'[r].key = j
      BY <2>3, <3>1
    <3> QED BY <2>4, <3>2 DEF NoAsk
  <2>7. \A x \in Rooms : x # r => asks'[x] = asks[x]
    BY <2>1, <2>2 DEF IInv, TypeOK, ApprovalsOK
  <2> HIDE DEF r
  <2>8. KeysOf(asks)' = KeysOf(asks) /\ j \in KeysOf(asks)
    BY <2>1, <2>4, <2>5 DEF KeysOf
  <2>9. KeysAnswered(asks)' = KeysAnswered(asks) \cup {j}
    BY <1>7, <2>1, <2>5, <2>6, <2>7 DEF KeysAnswered
  <2>10. Turning' = Turning /\ Stopped' = Stopped
    BY <1>1, <2>2 DEF Turning, Stopped
  <2>11. KeysOf(planAsks)' = KeysOf(planAsks) /\ KeysAnswered(planAsks)' = KeysAnswered(planAsks)
    BY <2>2 DEF KeysOf, KeysAnswered
  <2>12. /\ Asking' = Asking /\ j \in Asking
         /\ Answered' = Answered \cup {j}
    BY <2>8, <2>9, <2>11 DEF Asking, Answered
  <2>13. Shared!Answer(j)
    BY <2>2, <2>10, <2>12 DEF Shared!Answer
  <2> QED BY <2>4, <2>13
<1>8. ASSUME NEW more \in BOOLEAN, NEW v \in PlanVerdicts \ {"none"}, AnswerPlan(k, u, v, more)
      PROVE  \E j \in Keys : Shared!Answer(j)
  <2> DEFINE r == RoomOf[k]
             j == planAsks[r].key
  <2>1. r \in Rooms
    BY RoomAssumption
  <2>2. /\ planAsks[r] # NoAsk /\ planAsks' = [planAsks EXCEPT ![r].verdict = v]
        /\ UNCHANGED <<stopper, scopes, asks>>
    BY <1>8 DEF AnswerPlan, MayAnswerPlan, PlanAsk, locks, modes
  <2>3. planAsks[r] \in [key : Keys, user : Users, verdict : PlanVerdicts]
    BY <2>1, <2>2 DEF IInv, TypeOK, ApprovalsOK
  <2>4. j \in Keys /\ j # NoKey
    BY <2>3, NoKeyAssumption
  <2>5. \A x \in Rooms : planAsks'[x].key = planAsks[x].key
    BY <2>1, <2>2, <2>3 DEF IInv, TypeOK, ApprovalsOK
  <2>6. planAsks'[r].verdict = v /\ planAsks'[r] # NoAsk
    <3>1. planAsks'[r] = [planAsks[r] EXCEPT !.verdict = v]
      BY <2>1, <2>2 DEF IInv, TypeOK, ApprovalsOK
    <3>2. planAsks'[r].verdict = v /\ planAsks'[r].key = j
      BY <2>3, <3>1
    <3> QED BY <2>4, <3>2 DEF NoAsk
  <2>7. \A x \in Rooms : x # r => planAsks'[x] = planAsks[x]
    BY <2>1, <2>2 DEF IInv, TypeOK, ApprovalsOK
  <2> HIDE DEF r
  <2>8. KeysOf(planAsks)' = KeysOf(planAsks) /\ j \in KeysOf(planAsks)
    BY <2>1, <2>4, <2>5 DEF KeysOf
  <2>9. KeysAnswered(planAsks)' = KeysAnswered(planAsks) \cup {j}
    BY <1>8, <2>1, <2>5, <2>6, <2>7 DEF KeysAnswered
  <2>10. Turning' = Turning /\ Stopped' = Stopped
    BY <1>1, <2>2 DEF Turning, Stopped
  <2>11. KeysOf(asks)' = KeysOf(asks) /\ KeysAnswered(asks)' = KeysAnswered(asks)
    BY <2>2 DEF KeysOf, KeysAnswered
  <2>12. /\ Asking' = Asking /\ j \in Asking
         /\ Answered' = Answered \cup {j}
    BY <2>8, <2>9, <2>11 DEF Asking, Answered
  <2>13. Shared!Answer(j)
    BY <2>2, <2>10, <2>12 DEF Shared!Answer
  <2> QED BY <2>4, <2>13
<1> HIDE DEF Quiet
<1> QED
  BY <1>2, <1>3, <1>4, <1>5, <1>6, <1>7, <1>8 DEF Message, Replay, Slash, Shared!Next

\* A turn takes the free engine.
LEMMA StartShared ==
    ASSUME IInv, NEW k \in Keys, StartTurn(k)
    PROVE  Shared!Begin(k)
<1>1. /\ turnKey = NoKey /\ stopper' = NoKey /\ pc' = [pc EXCEPT ![k] = "load"]
      /\ UNCHANGED <<scopes, asks, planAsks>>
  BY DEF StartTurn, modes, approvals
<1>2. stopper = NoKey
  BY <1>1, NoKeyAssumption DEF IInv, StopsOwnTurn
<1>3. \A j \in Keys : ~InThread(j)
  BY <1>1, NoKeyAssumption DEF IInv, LockIsTheTurns
<1>4. \A j \in Keys : InThread(j)' <=> j = k
  BY <1>1, <1>3 DEF InThread, Thread, IInv, TypeOK, TurnsOK
<1>5. Turning = {} /\ Turning' = {k}
  BY <1>3, <1>4 DEF Turning
<1>6. Stopped' = Stopped /\ Asking' = Asking /\ Answered' = Answered
  BY <1>1, <1>2 DEF Stopped, Asking, Answered, KeysOf, KeysAnswered
<1> QED BY <1>1, <1>5, <1>6 DEF Shared!Begin

\* A turn that is over gives the engine back, its question settled and its stop gone.
LEMMA EndShared ==
    ASSUME IInv, PlannersHaveAsks, NEW k \in Keys, EndTurn(k) \/ AbortTurn(k)
    PROVE  Shared!End(k)
<1>1. /\ pc[k] \in {"returned", "raised"} /\ stopper' = NoKey
      /\ pc' = [pc EXCEPT ![k] = "replying"]
      /\ UNCHANGED <<scopes, asks, planAsks>>
  BY DEF EndTurn, AbortTurn, modes, approvals
<1>2. InThread(k)
  BY <1>1 DEF InThread, Thread
<1>3. Turning = {k} /\ Stopped \subseteq {k}
  BY <1>2, TurningIs
<1>4. \A j \in Keys : InThread(j)' => InThread(j) /\ j # k
  BY <1>1 DEF InThread, Thread, IInv, TypeOK, TurnsOK
<1>5. Turning' = {}
  BY <1>3, <1>4 DEF Turning
<1>6. Stopped' = {}
  BY <1>1 DEF Stopped
<1>7. k \notin Asking
  BY <1>1, AskingIsWaiting DEF AskersWait, Waits
<1>8. Asking' = Asking /\ Answered' = Answered
  BY <1>1 DEF Asking, Answered, KeysOf, KeysAnswered
<1> QED BY <1>1, <1>3, <1>5, <1>6, <1>7, <1>8 DEF Shared!End

\* A turn asks its user when it asks nothing else.
LEMMA AskShared ==
    ASSUME IInv, PlannersHaveAsks, IInv', PlannersHaveAsks', NEW k \in Keys,
           AskersWait',
           Escalate(k) \/ PresentPlan(k)
    PROVE  Shared!Ask(k)
<1>1. /\ pc[k] = "agent" /\ pc' \in {[pc EXCEPT ![k] = "asking"], [pc EXCEPT ![k] = "planAsking"]}
      /\ UNCHANGED <<scopes, stopper>>
  BY DEF Escalate, PresentPlan, Step, modes, locks
<1>2. InThread(k) /\ \A j \in Keys : InThread(j)' = InThread(j)
  BY <1>1 DEF InThread, Thread, IInv, TypeOK, TurnsOK
<1>3. Turning = {k} /\ Turning' = Turning /\ Stopped' = Stopped
  BY <1>1, <1>2, TurningIs DEF Turning, Stopped
<1>4. \A j \in Keys : pc[j] \in Waits => j \in Turning
  BY DEF Turning, InThread, Thread, Waits
<1>5. Asking = {}
  BY <1>1, <1>3, <1>4, AskingIsWaiting DEF AskersWait, Waits
<1>6. Asking' = {k}
  <2>1. \A j \in Keys : pc'[j] \in Waits <=> j = k
    BY <1>1, <1>3, <1>4 DEF Waits, IInv, TypeOK, TurnsOK
  <2> QED BY <2>1 DEF AskersWait
<1>7. \A r \in Rooms : asks[r] = NoAsk /\ planAsks[r] = NoAsk
  BY <1>1, <1>2, PromptsOfTheThread DEF IInv
<1>8. \A r \in Rooms : /\ asks'[r] = NoAsk \/ asks'[r].verdict = "none"
                       /\ planAsks'[r] = NoAsk \/ planAsks'[r].verdict = "none"
  <2>1. CASE Escalate(k)
    BY <1>7, <2>1 DEF Escalate, IInv, TypeOK, ApprovalsOK
  <2>2. CASE PresentPlan(k)
    BY <1>7, <2>2 DEF PresentPlan, IInv, TypeOK, ApprovalsOK
  <2> QED BY <2>1, <2>2
<1>9. Answered = {} /\ Answered' = {}
  BY <1>7, <1>8 DEF Answered, KeysAnswered
<1> QED BY <1>1, <1>3, <1>5, <1>6, <1>9 DEF Shared!Ask

\* The question is settled, and only an answer may leave an approval behind.
LEMMA SettleShared ==
    ASSUME IInv, PlannersHaveAsks, IInv', PlannersHaveAsks', NEW k \in Keys,
           AskersWait',
           \/ Resolve(k) \/ Withdraw(k) \/ CarryOutPlan(k) \/ DropPlan(k) \/ WithdrawPlan(k)
    PROVE  Shared!Settle(k)
<1>1. /\ pc[k] \in Waits /\ UNCHANGED stopper
      /\ pc' \in {[pc EXCEPT ![k] = "agent"], [pc EXCEPT ![k] = "answered"]}
  BY DEF Resolve, Withdraw, CarryOutPlan, DropPlan, WithdrawPlan, Step, Waits, locks
<1>2. InThread(k) /\ \A j \in Keys : InThread(j)' = InThread(j)
  BY <1>1 DEF InThread, Thread, Waits, IInv, TypeOK, TurnsOK
<1>3. Turning = {k} /\ Turning' = Turning /\ Stopped' = Stopped
  BY <1>1, <1>2, TurningIs DEF Turning, Stopped
<1>4. k \in Asking
  BY <1>1, AskingIsWaiting DEF AskersWait
<1>5. Asking' = {}
  <2>1. \A j \in Keys : pc'[j] \notin Waits
    BY <1>1, <1>3 DEF Turning, InThread, Thread, Waits, IInv, TypeOK, TurnsOK
  <2> QED BY <2>1 DEF AskersWait
<1>6. \A r \in Rooms : asks'[r] = NoAsk /\ planAsks'[r] = NoAsk
  <2>1. CASE Resolve(k) \/ Withdraw(k)
    <3>1. pc[k] \in {"asking", "expired"} /\ asks' = [asks EXCEPT ![RoomOf[k]] = NoAsk]
          /\ UNCHANGED planAsks
      BY <2>1 DEF Resolve, Withdraw, Step
    <3> QED
      BY <1>2, <3>1, PromptsOfTheThread, RoomAssumption DEF IInv, TypeOK, ApprovalsOK
  <2>2. CASE CarryOutPlan(k) \/ DropPlan(k) \/ WithdrawPlan(k)
    <3>1. pc[k] \in {"planAsking", "planExpired"}
          /\ planAsks' = [planAsks EXCEPT ![RoomOf[k]] = NoAsk] /\ UNCHANGED asks
      BY <2>2 DEF CarryOutPlan, DropPlan, WithdrawPlan, Step
    <3> QED
      BY <1>2, <3>1, PromptsOfTheThread, RoomAssumption DEF IInv, TypeOK, ApprovalsOK
  <2> QED BY <2>1, <2>2
<1>7. Answered' = {}
  BY <1>6 DEF Answered, KeysAnswered
<1>8. \/ scopes' = scopes
      \/ k \in Answered /\ \E a \in Keys \X Users : scopes' = scopes \cup {a}
  <2>1. CASE Withdraw(k) \/ CarryOutPlan(k) \/ DropPlan(k) \/ WithdrawPlan(k)
    BY <2>1 DEF Withdraw, CarryOutPlan, DropPlan, WithdrawPlan, modes
  <2>2. CASE Resolve(k) /\ Ask(k).verdict # "session"
    BY <2>2 DEF Resolve
  <2>3. CASE Resolve(k) /\ Ask(k).verdict = "session"
    <3>1. <<k, author[k]>> \in Keys \X Users /\ scopes' = scopes \cup {<<k, author[k]>>}
      BY <2>3 DEF Resolve, IInv, TypeOK, QueuesOK
    <3>2. RoomOf[k] \in Rooms /\ Ask(k) # NoAsk /\ Ask(k).key = k
      BY <2>3, RoomAssumption DEF Resolve, Step, IInv, WaitersHaveAsks
    <3>3. k \in Answered
      BY <2>3, <3>2 DEF Answered, KeysAnswered, Ask
    <3> QED BY <3>1, <3>3
  <2> QED BY <2>1, <2>2, <2>3
<1> QED BY <1>3, <1>4, <1>5, <1>7, <1>8 DEF Shared!Settle

\* What a turn does by itself is nobody else's business.
LEMMA QuietShared ==
    ASSUME IInv, NEW k \in Keys,
           \/ Finish(k) \/ Load(k) \/ ReadGeneration(k) \/ AutoApprove(k) \/ GiveUp(k)
           \/ Spend(k) \/ PlanGivesUp(k) \/ CheckSave(k) \/ WriteSave(k) \/ AgentEnds(k)
    PROVE  UNCHANGED Shared!vars
<1>1. UNCHANGED <<stopper, scopes, asks, planAsks>>
  BY DEF Finish, Load, ReadGeneration, AutoApprove, GiveUp, Spend, PlanGivesUp, CheckSave,
         WriteSave, AgentEnds, AgentReturns, AgentInterrupted, AgentFails, locks, modes,
         approvals
<1>2. \A j \in Keys : InThread(j)' = InThread(j)
  <2>1. CASE AutoApprove(k) \/ Spend(k)
    BY <2>1 DEF AutoApprove, Spend, InThread
  <2>2. CASE Finish(k)
    BY <2>2 DEF Finish, InThread, Thread, IInv, TypeOK, TurnsOK
  <2>3. CASE \E from, to \in Thread : Step(k, from, to)
    BY <2>3 DEF Step, InThread, IInv, TypeOK, TurnsOK
  <2>4. \/ AutoApprove(k) \/ Spend(k) \/ Finish(k)
        \/ \E from, to \in Thread : Step(k, from, to)
    BY DEF Load, ReadGeneration, GiveUp, PlanGivesUp, CheckSave, WriteSave, AgentEnds,
           AgentReturns, AgentInterrupted, AgentFails, Thread
  <2> QED BY <2>1, <2>2, <2>3, <2>4
<1> QED BY <1>1, <1>2, SharedKept

\* Every step of the gateway is one of SharedEngine's, or a stutter.
LEMMA SharedStep ==
    ASSUME IInv, PlannersHaveAsks, IInv', PlannersHaveAsks', [Next]_vars,
           AskersWait'
    PROVE  [Shared!Next]_(Shared!vars)
<1>1. ASSUME NEW k \in Keys, NEW u \in Users, Message(k, u) \/ Replay(k, u)
      PROVE  [Shared!Next]_(Shared!vars)
  BY <1>1, MessageShared
<1>2. ASSUME NEW k \in Keys, Turn(k) PROVE [Shared!Next]_(Shared!vars)
  <2>1. CASE StartTurn(k)
    BY <2>1, StartShared DEF Shared!Next
  <2>2. CASE EndTurn(k) \/ AbortTurn(k)
    BY <2>2, EndShared DEF Shared!Next
  <2>3. CASE Escalate(k) \/ PresentPlan(k)
    BY <2>3, AskShared DEF Shared!Next
  <2>4. CASE Resolve(k) \/ Withdraw(k) \/ CarryOutPlan(k) \/ DropPlan(k) \/ WithdrawPlan(k)
    BY <2>4, SettleShared DEF Shared!Next
  <2> QED BY <1>2, <2>1, <2>2, <2>3, <2>4, QuietShared DEF Turn
<1>3. ASSUME NEW k \in Keys, NewEnds(k) PROVE Shared!Revoke
  <2>1. scopes' \in SUBSET scopes /\ UNCHANGED <<stopper, asks, planAsks, pc>>
    BY <1>3 DEF NewEnds, locks, approvals
  <2>2. /\ Turning' = Turning /\ Stopped' = Stopped
        /\ Asking' = Asking /\ Answered' = Answered
    BY <2>1 DEF Turning, InThread, Stopped, Asking, Answered, KeysOf, KeysAnswered
  <2> QED BY <2>1, <2>2 DEF Shared!Revoke
<1>4. CASE UNCHANGED vars
  <2>1. UNCHANGED <<stopper, scopes, asks, planAsks, pc>>
    BY <1>4 DEF vars, locks, modes, approvals
  <2> QED BY <2>1, SharedKept DEF InThread
<1> QED BY <1>1, <1>2, <1>3, <1>4 DEF Next, Shared!Next

\* The gateway's turns implement SharedEngine, for any number of sessions, rooms and
\* users: one turn at a time, orders and questions that are its own and end with it,
\* and approvals that follow an answer.
THEOREM SharesEngine == Spec => SharesTheEngine
<1>1. Init => Shared!Init
  BY NoKeyAssumption
     DEF Init, Shared!Init, Turning, Stopped, Asking, Answered, KeysOf, KeysAnswered,
         InThread, Thread, NoAsk
<1>2. /\ IInv /\ PlannersHaveAsks /\ IInv' /\ PlannersHaveAsks' /\ [Next]_vars
      /\ AskersWait'
      => [Shared!Next]_(Shared!vars)
  BY SharedStep
<1>3. Spec => []AskersWait
  BY AskingIsWaiting, Invariance, PlannersFindTheirs, PTL
<1> QED
  BY <1>1, <1>2, <1>3, Invariance, PlannersFindTheirs, PTL DEF Spec, SharesTheEngine, Shared!Spec

\* In one state: one session uses the engine; its stop and its question are its own.
THEOREM SharedSoundly == Spec => []Shared!Sound
<1>1. IInv /\ PlannersHaveAsks => Shared!Sound
  <2> SUFFICES ASSUME IInv, PlannersHaveAsks PROVE Shared!Sound
    OBVIOUS
  <2>1. \A j, k \in Turning : j = k
    BY DEF Turning, IInv, LockIsTheTurns
  <2>2. Stopped \subseteq Turning
    BY DEF Stopped, Turning, IInv, StopsOwnTurn, TypeOK, TurnsOK
  <2>3. Asking \subseteq Turning
    BY AskingIsWaiting DEF AskersWait, Turning, Waits, InThread, Thread
  <2>4. Answered \subseteq Asking
    BY NoKeyAssumption
       DEF Answered, KeysAnswered, Asking, KeysOf, IInv, TypeOK, ApprovalsOK
  <2> QED BY <2>1, <2>2, <2>3, <2>4 DEF Shared!Sound
<1> QED BY <1>1, Invariance, PlannersFindTheirs, PTL

-----------------------------------------------------------------------------
(* What goes wrong in one case only.                                       *)

\* The text commands, by what they change of the modes, the sessions and the prompts.
LEMMA SlashSteps ==
    ASSUME NEW k \in Keys, NEW u \in Users, Slash(k, u)
    PROVE  /\ UNCHANGED <<pc, reader, engine, turnKey>>
           /\ UNCHANGED sessions \/ \E more \in BOOLEAN : New(k, u, more)
           /\ \/ UNCHANGED chatMode
              \/ k \in Bold /\ \E m \in Modes : chatMode' = [chatMode EXCEPT ![k] = m]
BY DEF Slash, Inform, New, Stop, Plan, Answer, AnswerPlan, SetMode, Command, locks, modes

\* A session becomes idle by Finish only.
LEMMA FinishFrees ==
    ASSUME TypeOK, Next, NEW j \in Keys, pc[j] # "idle", pc'[j] = "idle"
    PROVE  Finish(j)
<1> DEFINE Freed == \A i \in Keys : pc[i] # "idle" /\ pc'[i] = "idle" => Finish(i)
<1>1. ASSUME NEW k \in Keys, NEW u \in Users, Message(k, u) \/ Replay(k, u) PROVE Freed
  <2>1. CASE Slash(k, u)
    BY <2>1, SlashSteps
  <2> QED BY <1>1, <2>1 DEF Message, Replay, Text, RunSpawned, Reject, RejectSpawned,
             Accept, TypeOK, TurnsOK
<1>2. ASSUME NEW k \in Keys, Turn(k) PROVE Freed
  <2>1. CASE Finish(k)
    BY <2>1 DEF Finish, TypeOK, TurnsOK
  <2> QED BY <1>2, <2>1 DEF Turn, StartTurn, EndTurn, AbortTurn, Load, ReadGeneration,
             AutoApprove, Resolve, GiveUp, Withdraw, Spend, PresentPlan, CarryOutPlan,
             DropPlan, PlanGivesUp, WithdrawPlan, CheckSave, WriteSave, AgentEnds,
             AgentReturns, AgentInterrupted, AgentFails, Escalate, Step, TypeOK, TurnsOK
<1>3. ASSUME NEW k \in Keys, NewEnds(k) PROVE Freed
  BY <1>3 DEF NewEnds
<1> HIDE DEF Freed
<1>4. Freed
  BY <1>1, <1>2, <1>3 DEF Next
<1> QED BY <1>4 DEF Freed

\* The sequential adapter comes to await the turn of a message that finds its session
\* idle, and no longer awaits it when that session is freed.
LEMMA ReaderSteps ==
    ASSUME Next
    PROVE  \/ UNCHANGED reader
           \/ \E k \in Keys, u \in Users :
                 Text(k, u) /\ pc[k] = "idle" /\ k \in Sequential /\ reader' = k
           \/ \E k \in Keys : Finish(k) /\ reader = k /\ reader' = NoKey
<1> DEFINE Read == \/ UNCHANGED reader
                   \/ \E k \in Keys, u \in Users :
                         Text(k, u) /\ pc[k] = "idle" /\ k \in Sequential /\ reader' = k
                   \/ \E k \in Keys : Finish(k) /\ reader = k /\ reader' = NoKey
<1>1. ASSUME NEW k \in Keys, NEW u \in Users, Message(k, u) \/ Replay(k, u) PROVE Read
  <2>1. CASE Text(k, u)
    BY <2>1 DEF Text
  <2>2. CASE Slash(k, u)
    BY <2>2, SlashSteps
  <2> QED BY <1>1, <2>1, <2>2 DEF Message, Replay, RunSpawned, Reject, RejectSpawned
<1>2. ASSUME NEW k \in Keys, Turn(k) PROVE Read
  <2>1. CASE Finish(k)
    BY <2>1 DEF Finish
  <2> QED BY <1>2, <2>1 DEF Turn, StartTurn, EndTurn, AbortTurn, Load, ReadGeneration,
             AutoApprove, Escalate, Resolve, GiveUp, Withdraw, Spend, PresentPlan,
             CarryOutPlan, DropPlan, PlanGivesUp, WithdrawPlan, CheckSave, WriteSave,
             AgentEnds, AgentReturns, AgentInterrupted, AgentFails, queues
<1>3. ASSUME NEW k \in Keys, NewEnds(k) PROVE Read
  BY <1>3 DEF NewEnds, queues
<1> HIDE DEF Read
<1>4. Read
  BY <1>1, <1>2, <1>3 DEF Next
<1> QED BY <1>4 DEF Read

\* A turn that the adapter awaits is under way, and nobody has answered what it asks.
Awaited ==
    \A k \in Keys : reader = k =>
        /\ pc[k] # "idle"
        /\ Ask(k) # NoAsk /\ Ask(k).key = k => Ask(k).verdict = "none"
        /\ PlanAsk(k) # NoAsk /\ PlanAsk(k).key = k => PlanAsk(k).verdict = "none"

\* A step that moves neither the prompts of k nor the reader keeps k's part of it.
LEMMA AwaitedStep ==
    ASSUME \A j, k \in Keys : RoomOf[j] = RoomOf[k] => (j \in Sequential <=> k \in Sequential),
           IInv, Awaited, Next
    PROVE  Awaited'
<1> USE RoomAssumption, NoKeyAssumption
<1>0. TypeOK /\ AsksAreOfTheTurn
  BY DEF IInv
<1> SUFFICES ASSUME NEW k \in Keys, reader' = k
             PROVE  /\ pc'[k] # "idle"
                    /\ Ask(k)' # NoAsk /\ Ask(k)'.key = k => Ask(k)'.verdict = "none"
                    /\ PlanAsk(k)' # NoAsk /\ PlanAsk(k)'.key = k
                         => PlanAsk(k)'.verdict = "none"
  BY DEF Awaited
<1>1. CASE reader # k
  <2>1. PICK u \in Users : Text(k, u) /\ pc[k] = "idle"
    BY <1>1, ReaderSteps
  <2>2. pc'[k] # "idle" /\ UNCHANGED <<asks, planAsks>>
    BY <1>0, <2>1 DEF Text, Accept, TypeOK, TurnsOK, approvals
  <2>3. /\ ~(Ask(k) # NoAsk /\ Ask(k).key = k)
        /\ ~(PlanAsk(k) # NoAsk /\ PlanAsk(k).key = k)
    BY <1>0, <2>1 DEF AsksAreOfTheTurn, Ask, PlanAsk
  <2> QED BY <2>2, <2>3 DEF Ask, PlanAsk
<1>2. CASE reader = k
  <2>0. /\ pc[k] # "idle" /\ k \in Sequential
        /\ Ask(k) # NoAsk /\ Ask(k).key = k => Ask(k).verdict = "none"
        /\ PlanAsk(k) # NoAsk /\ PlanAsk(k).key = k => PlanAsk(k).verdict = "none"
    BY <1>0, <1>2 DEF Awaited, TypeOK, QueuesOK
  <2>1. pc'[k] # "idle"
    <3>1. ~Finish(k)
      BY <1>2 DEF Finish
    <3> QED BY <1>0, <2>0, <3>1, FinishFrees
  <2>2. Ask(k)' # NoAsk /\ Ask(k)'.key = k => Ask(k)'.verdict = "none"
    <3>1. CASE UNCHANGED asks
      BY <2>0, <3>1 DEF Ask
    <3>2. ASSUME NEW j \in Keys, NEW u \in Users, NEW more \in BOOLEAN, NEW v \in Verdicts,
                 Answer(j, u, v, more)
          PROVE  Ask(k)' = Ask(k)
      <4>1. RoomOf[j] # RoomOf[k]
        BY <1>2, <2>0, <3>2 DEF Answer, Command, Typed, Deliverable
      <4>2. asks' = [asks EXCEPT ![RoomOf[j]].verdict = v]
        BY <3>2 DEF Answer
      <4> QED BY <1>0, <4>1, <4>2 DEF Ask, TypeOK, ApprovalsOK
    <3>3. ASSUME NEW j \in Keys, Escalate(j)
          PROVE  Ask(k)' = Ask(k) \/ Ask(k)'.verdict = "none"
      BY <1>0, <3>3 DEF Escalate, Ask, TypeOK, ApprovalsOK
    <3>4. ASSUME NEW j \in Keys, Resolve(j) \/ Withdraw(j)
          PROVE  Ask(k)' \in {Ask(k), NoAsk}
      BY <1>0, <3>4 DEF Resolve, Withdraw, Ask, TypeOK, ApprovalsOK
    <3> QED BY <2>0, <3>1, <3>2, <3>3, <3>4, AskSteps
  <2>3. PlanAsk(k)' # NoAsk /\ PlanAsk(k)'.key = k => PlanAsk(k)'.verdict = "none"
    <3>1. CASE UNCHANGED planAsks
      BY <2>0, <3>1 DEF PlanAsk
    <3>2. ASSUME NEW j \in Keys, NEW u \in Users, NEW more \in BOOLEAN,
                 NEW v \in PlanVerdicts, AnswerPlan(j, u, v, more)
          PROVE  PlanAsk(k)' = PlanAsk(k)
      <4>1. RoomOf[j] # RoomOf[k]
        BY <1>2, <2>0, <3>2 DEF AnswerPlan, Command, Typed, Deliverable
      <4>2. planAsks' = [planAsks EXCEPT ![RoomOf[j]].verdict = v]
        BY <3>2 DEF AnswerPlan
      <4> QED BY <1>0, <4>1, <4>2 DEF PlanAsk, TypeOK, ApprovalsOK
    <3>3. ASSUME NEW j \in Keys, PresentPlan(j)
          PROVE  PlanAsk(k)' = PlanAsk(k) \/ PlanAsk(k)'.verdict = "none"
      BY <1>0, <3>3 DEF PresentPlan, PlanAsk, TypeOK, ApprovalsOK
    <3>4. ASSUME NEW j \in Keys, CarryOutPlan(j) \/ DropPlan(j) \/ WithdrawPlan(j)
          PROVE  PlanAsk(k)' \in {PlanAsk(k), NoAsk}
      BY <1>0, <3>4 DEF CarryOutPlan, DropPlan, WithdrawPlan, PlanAsk, TypeOK, ApprovalsOK
    <3> QED BY <2>0, <3>1, <3>2, <3>3, <3>4, PlanSteps
  <2> QED BY <2>1, <2>2, <2>3
<1> QED BY <1>1, <1>2

\* When PromptIsAnswerable fails it fails for good: an adapter that awaits each message
\* leaves every prompt of the turn it awaits without an answer, so that the action is
\* denied and the plan dropped when the wait times out.  (A room is a chat of one
\* platform, so that its sessions have one adapter.)
THEOREM AwaitedPromptsGoUnanswered ==
    ASSUME \A j, k \in Keys : RoomOf[j] = RoomOf[k] => (j \in Sequential <=> k \in Sequential)
    PROVE  Spec => [](\A k \in Keys : reader = k =>
                         /\ pc[k] \in {"asking", "expired"} => Ask(k).verdict = "none"
                         /\ pc[k] \in {"planAsking", "planExpired"}
                              => PlanAsk(k).verdict = "none")
<1>1. Init => Awaited
  BY NoKeyAssumption DEF Init, Awaited
<1>2. IInv /\ Awaited /\ [Next]_vars => Awaited'
  <2>1. ASSUME Awaited, UNCHANGED vars PROVE Awaited'
    BY <2>1 DEF Awaited, vars, queues, approvals, Ask, PlanAsk
  <2> QED BY <2>1, AwaitedStep
<1>3. IInv /\ PlannersHaveAsks /\ Awaited =>
         \A k \in Keys : reader = k =>
            /\ pc[k] \in {"asking", "expired"} => Ask(k).verdict = "none"
            /\ pc[k] \in {"planAsking", "planExpired"} => PlanAsk(k).verdict = "none"
  BY DEF IInv, WaitersHaveAsks, PlannersHaveAsks, Awaited
<1> QED BY <1>1, <1>2, <1>3, Invariance, PlannersFindTheirs, PTL DEF Spec

\* No turn that carries out an approved plan is interrupted or fails.
NoPlanIsAborted == \A k \in Keys : AbortTurn(k) => ~engine.approved

\* The globals of a plan go back where its session was: outside a turn no approved plan
\* is on record, and inside one of a session that never typed /mode, the mode to return
\* to is the default.
PlansGoHome ==
    /\ turnKey = NoKey => ~engine.approved
    /\ \A k \in Keys : pc[k] \in {"planAsking", "planExpired"} => engine.mode = "plan-only"
    /\ \A k \in Keys \ Bold :
          turnKey = k /\ (engine.approved \/ engine.mode = "plan-only")
             => engine.back = DefaultMode

\* A turn that starts takes its own mode, and a plan's turn what it will return to.
LEMMA StartGoesHome ==
    ASSUME IInv, PlansGoHome, OthersKeepTheirMode, NEW k \in Keys, StartTurn(k)
    PROVE  PlansGoHome' /\ OthersKeepTheirMode'
<1> USE DefaultModeAssumption, NoKeyAssumption
<1>1. turnKey = NoKey /\ turnKey' = k /\ engine' = Applied(k)
  BY DEF StartTurn
<1>2. ~engine.approved /\ ModeOf(k) \in Modes /\ EngineOK
  BY <1>1 DEF PlansGoHome, ModeOf, IInv, TypeOK, ModesOK
<1>3. OthersKeepTheirMode'
  BY DEF StartTurn, modes, OthersKeepTheirMode, ModeOf
<1>4. k \in Keys \ Bold => ModeOf(k) = DefaultMode
  BY DEF OthersKeepTheirMode
<1>5. \A j \in Keys : pc'[j] \notin {"planAsking", "planExpired"}
  BY <1>1 DEF StartTurn, IInv, LockIsTheTurns, InThread, Thread, TypeOK, TurnsOK
<1>6. CASE k \in planKeys
  <2>1. engine' = [mode |-> "plan-only", back |-> ModeOf(k), approved |-> FALSE,
                   grant |-> FALSE]
    BY <1>1, <1>6 DEF Applied
  <2> QED BY <1>1, <1>3, <1>4, <1>5, <2>1 DEF PlansGoHome
<1>7. CASE k \notin planKeys
  <2>1. engine' = [engine EXCEPT !.mode = ModeOf(k),
                                 !.grant = engine.grant /\ engine.mode = ModeOf(k)]
    BY <1>1, <1>7 DEF Applied
  <2>2. engine'.mode = ModeOf(k) /\ engine'.approved = engine.approved
    BY <1>2, <2>1 DEF EngineOK
  <2>3. engine'.mode # "plan-only"
    BY <1>2, <2>2 DEF Modes
  <2> QED BY <1>1, <1>2, <1>3, <1>5, <2>2, <2>3 DEF PlansGoHome
<1> QED BY <1>6, <1>7

\* A turn that ends takes its session back to the mode its plan began in.
LEMMA EndGoesHome ==
    ASSUME IInv, PlansGoHome, OthersKeepTheirMode, NEW k \in Keys,
           EndTurn(k) \/ (AbortTurn(k) /\ ~engine.approved)
    PROVE  PlansGoHome' /\ OthersKeepTheirMode'
<1> USE DefaultModeAssumption, NoKeyAssumption
<1>1. turnKey = k /\ turnKey' = NoKey
  BY DEF EndTurn, AbortTurn, IInv, LockIsTheTurns, InThread, Thread
<1>2. \A j \in Keys : pc'[j] \notin {"planAsking", "planExpired"}
  BY <1>1 DEF EndTurn, AbortTurn, IInv, LockIsTheTurns, InThread, Thread, TypeOK, TurnsOK
<1>3. CASE engine.approved
  <2>1. PICK target : /\ target = IF engine.back = NoMode THEN "readonly" ELSE engine.back
                      /\ engine' = [mode |-> target, back |-> NoMode, approved |-> FALSE,
                                    grant |-> FALSE]
                      /\ chatMode' = [chatMode EXCEPT ![k] = target]
    BY <1>3 DEF EndTurn
  <2>2. k \notin Bold => engine.back = DefaultMode
    BY <1>1, <1>3 DEF PlansGoHome
  <2>3. k \notin Bold => target = DefaultMode
    BY <2>1, <2>2 DEF NoMode, Modes
  <2>4. OthersKeepTheirMode'
    BY <2>1, <2>3 DEF OthersKeepTheirMode, ModeOf, IInv, TypeOK, ModesOK
  <2> QED BY <1>1, <1>2, <2>1, <2>4 DEF PlansGoHome
<1>4. CASE ~engine.approved
  <2>1. UNCHANGED <<engine, chatMode>>
    BY <1>4 DEF EndTurn, AbortTurn, modes
  <2> QED BY <1>1, <1>2, <1>4, <2>1 DEF PlansGoHome, OthersKeepTheirMode, ModeOf
<1> QED BY <1>3, <1>4

\* The rest of a turn: its plan is approved in the mode it began to return from.
LEMMA ThreadGoesHome ==
    ASSUME IInv, PlansGoHome, OthersKeepTheirMode, NEW k \in Keys, Turn(k),
           ~StartTurn(k), ~EndTurn(k), ~AbortTurn(k)
    PROVE  PlansGoHome' /\ OthersKeepTheirMode'
<1>0. TypeOK /\ EngineOK /\ LockIsTheTurns
  BY DEF IInv, TypeOK
<1>1. UNCHANGED <<turnKey, chatMode>>
  BY DEF Turn, Finish, Load, ReadGeneration, AutoApprove, Escalate, Resolve, GiveUp,
         Withdraw, Spend, PresentPlan, CarryOutPlan, DropPlan, PlanGivesUp, WithdrawPlan,
         CheckSave, WriteSave, AgentEnds, AgentReturns, AgentInterrupted, AgentFails,
         locks, modes
<1>2. OthersKeepTheirMode'
  BY <1>1 DEF OthersKeepTheirMode, ModeOf
<1>3. CASE CarryOutPlan(k)
  <2>1. pc[k] = "planAsking" /\ turnKey = k
    BY <1>0, <1>3 DEF CarryOutPlan, Step, LockIsTheTurns, InThread, Thread
  <2>2. engine'.mode \in Modes /\ engine'.back = engine.back
    BY <1>0, <1>3 DEF CarryOutPlan, EngineOK
  <2>3. \A j \in Keys : pc'[j] \notin {"planAsking", "planExpired"}
    BY <1>0, <1>3, <2>1 DEF CarryOutPlan, Step, LockIsTheTurns, InThread, Thread,
             TypeOK, TurnsOK
  <2>4. k \notin Bold => engine.back = DefaultMode
    BY <2>1 DEF PlansGoHome
  <2> QED BY <1>1, <1>2, <2>1, <2>2, <2>3, <2>4, NoKeyAssumption DEF PlansGoHome
<1>4. CASE ~CarryOutPlan(k)
  <2>1. /\ engine'.mode = engine.mode /\ engine'.back = engine.back
        /\ engine'.approved = engine.approved
    BY <1>0, <1>4
       DEF Turn, Finish, Load, ReadGeneration, AutoApprove, Escalate, Resolve, GiveUp,
           Withdraw, Spend, PresentPlan, DropPlan, PlanGivesUp, WithdrawPlan, CheckSave,
           WriteSave, AgentEnds, AgentReturns, AgentInterrupted, AgentFails, EngineOK
  <2>2. \A j \in Keys : pc'[j] \in {"planAsking", "planExpired"} =>
           pc[j] \in {"planAsking", "planExpired"} \/ engine.mode = "plan-only"
    <3>1. ASSUME NEW j \in Keys, PresentPlan(j) PROVE engine.mode = "plan-only"
      BY <3>1 DEF PresentPlan
    <3>2. Next
      BY DEF Next
    <3> QED BY <1>0, <3>1, <3>2, PlannersPresent
  <2> QED BY <1>1, <1>2, <2>1, <2>2 DEF PlansGoHome
<1> QED BY <1>3, <1>4

\* Unless a turn is aborted while it carries out an approved plan, a session where nobody
\* types /mode keeps the default: that is the one way OthersKeepTheirMode fails.
THEOREM ModesStayApart == Spec /\ [][NoPlanIsAborted]_vars => []OthersKeepTheirMode
<1>1. Init => PlansGoHome /\ OthersKeepTheirMode
  BY NoKeyAssumption, DefaultModeAssumption
     DEF Init, PlansGoHome, OthersKeepTheirMode, ModeOf, NoMode, Modes
<1>2. ASSUME IInv, PlansGoHome, OthersKeepTheirMode, Next, NoPlanIsAborted
      PROVE  PlansGoHome' /\ OthersKeepTheirMode'
  <2>1. ASSUME NEW k \in Keys, NEW u \in Users, Message(k, u) \/ Replay(k, u)
        PROVE  PlansGoHome' /\ OthersKeepTheirMode'
    <3>1. UNCHANGED <<engine, turnKey>>
      <4>1. CASE Slash(k, u)
        BY <4>1, SlashSteps
      <4> QED BY <2>1, <4>1 DEF Message, Replay, Text, RunSpawned, Reject, RejectSpawned, locks
    <3>2. \A j \in Keys : pc'[j] \in {"planAsking", "planExpired"} =>
             pc[j] \in {"planAsking", "planExpired"}
      <4>1. CASE Slash(k, u)
        BY <4>1, SlashSteps
      <4> QED BY <1>2, <2>1, <4>1
              DEF Message, Replay, Text, RunSpawned, Reject, RejectSpawned, Accept, IInv,
                  TypeOK, TurnsOK
    <3>3. OthersKeepTheirMode'
      <4>1. CASE Slash(k, u)
        <5>1. \/ UNCHANGED chatMode
              \/ \E m \in Modes : k \in Bold /\ chatMode' = [chatMode EXCEPT ![k] = m]
          BY <4>1, SlashSteps
        <5> QED BY <1>2, <5>1 DEF OthersKeepTheirMode, ModeOf, IInv, TypeOK, ModesOK
      <4>2. CASE UNCHANGED chatMode
        BY <1>2, <4>2 DEF OthersKeepTheirMode, ModeOf
      <4> QED BY <2>1, <4>1, <4>2
              DEF Message, Replay, Text, RunSpawned, Reject, RejectSpawned, modes
    <3> QED BY <1>2, <3>1, <3>2, <3>3 DEF PlansGoHome
  <2>2. ASSUME NEW k \in Keys, Turn(k) PROVE PlansGoHome' /\ OthersKeepTheirMode'
    <3>1. AbortTurn(k) => ~engine.approved
      BY <1>2 DEF NoPlanIsAborted
    <3> QED BY <1>2, <2>2, <3>1, StartGoesHome, EndGoesHome, ThreadGoesHome
  <2>3. ASSUME NEW k \in Keys, NewEnds(k) PROVE PlansGoHome' /\ OthersKeepTheirMode'
    <3>1. chatMode' = [chatMode EXCEPT ![k] = NoMode] /\ UNCHANGED <<pc, turnKey, engine>>
      BY <2>3 DEF NewEnds, locks
    <3>2. PlansGoHome'
      BY <1>2, <3>1 DEF PlansGoHome
    <3>3. OthersKeepTheirMode'
      BY <1>2, <3>1 DEF OthersKeepTheirMode, ModeOf, IInv, TypeOK, ModesOK
    <3> QED BY <3>2, <3>3
  <2> QED BY <1>2, <2>1, <2>2, <2>3 DEF Next
<1>3. ASSUME PlansGoHome, OthersKeepTheirMode, UNCHANGED vars
      PROVE  PlansGoHome' /\ OthersKeepTheirMode'
  BY <1>3 DEF vars, locks, modes, PlansGoHome, OthersKeepTheirMode, ModeOf
<1>4. IInv /\ PlansGoHome /\ OthersKeepTheirMode /\ [Next]_vars /\ [NoPlanIsAborted]_vars
        => PlansGoHome' /\ OthersKeepTheirMode'
  BY <1>2, <1>3
<1> QED BY <1>1, <1>4, Invariance, PTL DEF Spec

\* A /new falls into none of three windows of a turn of its session.  Its generation is
\* not bumped while the turn is between loading messages and reading their generation,
\* nor between comparing generations and replacing the file; and the turn does not
\* replace the file between /new's unlinking it and bumping the generation.
NewMissesTheWindows ==
    \A k \in Keys :
        /\ gen'[k] # gen[k] => /\ pc[k] = "loaded" => loaded[k] = {}
                               /\ pc[k] \notin {"saving", "finalSaving"}
        /\ clearing = k => file'[k] \subseteq file[k]

\* The session whose /new is not over has no file.
ClearingIsClear == \A k \in Keys : clearing = k => file[k] = {}

\* Where a turn has read the generation of its session.
Working == Thread \ {"load", "loaded"}

\* What a turn has loaded is of the generation it goes by, if that is still the session's.
LoadsAreCurrent ==
    \A k \in Keys :
        /\ pc[k] = "loaded" => loaded[k] \subseteq {gen[k]}
        /\ pc[k] \in Working =>
              token[k] <= gen[k] /\ (token[k] = gen[k] => loaded[k] \subseteq {gen[k]})
        /\ pc[k] \in {"saving", "finalSaving"} => token[k] = gen[k]

\* The steps that leave the session files, generations and turns' copies alone move a
\* turn neither into its work nor, unless the generations agree, to a save.
LEMMA QuietSessions ==
    ASSUME TypeOK, Next
    PROVE  \/ \E k \in Keys, u \in Users, more \in BOOLEAN : New(k, u, more)
           \/ \E k \in Keys : NewEnds(k) \/ Load(k) \/ ReadGeneration(k) \/ WriteSave(k)
                              \/ EndTurn(k) \/ AbortTurn(k)
           \/ /\ UNCHANGED sessions
              /\ \A j \in Keys :
                    /\ pc'[j] = "loaded" => pc[j] = "loaded"
                    /\ pc'[j] \in Working => pc[j] \in Working
                    /\ pc'[j] \in {"saving", "finalSaving"} =>
                          pc[j] \in {"saving", "finalSaving"} \/ token[j] = gen[j]
<1> DEFINE Quiet == /\ UNCHANGED sessions
                    /\ \A j \in Keys :
                          /\ pc'[j] = "loaded" => pc[j] = "loaded"
                          /\ pc'[j] \in Working => pc[j] \in Working
                          /\ pc'[j] \in {"saving", "finalSaving"} =>
                                pc[j] \in {"saving", "finalSaving"} \/ token[j] = gen[j]
<1> USE DEF Working, Thread
<1>1. ASSUME NEW k \in Keys, NEW u \in Users, Message(k, u) \/ Replay(k, u),
             ~\E more \in BOOLEAN : New(k, u, more)
      PROVE  Quiet
  <2>1. CASE Slash(k, u)
    BY <1>1, <2>1, SlashSteps
  <2> QED BY <1>1, <2>1 DEF Message, Replay, Text, RunSpawned, Reject, RejectSpawned,
             Accept, TypeOK, TurnsOK
<1>2. ASSUME NEW k \in Keys, Turn(k), ~Load(k), ~ReadGeneration(k), ~WriteSave(k),
             ~EndTurn(k), ~AbortTurn(k)
      PROVE  Quiet
  <2>1. CASE CheckSave(k)
    BY <2>1 DEF CheckSave, Step, TypeOK, TurnsOK
  <2>2. CASE StartTurn(k) \/ Finish(k)
    BY <2>2 DEF StartTurn, Finish, TypeOK, TurnsOK
  <2>3. CASE AutoApprove(k) \/ Spend(k)
    BY <2>3 DEF AutoApprove, Spend
  <2>4. CASE /\ UNCHANGED sessions
             /\ \E from \in Working, to \in Working \ {"saving", "finalSaving"} :
                   Step(k, from, to)
    BY <2>4 DEF Step, TypeOK, TurnsOK
  <2>5. CASE \/ Escalate(k) \/ Resolve(k) \/ GiveUp(k) \/ Withdraw(k) \/ PresentPlan(k)
             \/ CarryOutPlan(k) \/ DropPlan(k) \/ PlanGivesUp(k) \/ WithdrawPlan(k)
             \/ AgentEnds(k)
    <3>1. /\ UNCHANGED sessions
          /\ \E from \in Working, to \in Working \ {"saving", "finalSaving"} :
                Step(k, from, to)
      BY <2>5 DEF Escalate, Resolve, GiveUp, Withdraw, PresentPlan, CarryOutPlan, DropPlan,
               PlanGivesUp, WithdrawPlan, AgentEnds, AgentReturns, AgentInterrupted,
               AgentFails
    <3> QED BY <2>4, <3>1
  <2> QED BY <1>2, <2>1, <2>2, <2>3, <2>5 DEF Turn
<1> HIDE DEF Quiet
<1>3. \/ \E k \in Keys, u \in Users, more \in BOOLEAN : New(k, u, more)
      \/ \E k \in Keys : NewEnds(k) \/ Load(k) \/ ReadGeneration(k) \/ WriteSave(k)
                         \/ EndTurn(k) \/ AbortTurn(k)
      \/ Quiet
  BY <1>1, <1>2 DEF Next
<1> QED BY <1>3 DEF Quiet

\* Unless a /new falls into one of the three windows, a session file holds no message
\* from before the last /new: the generation check covers everything else.
THEOREM ClearedSessionsStayClear ==
    Spec /\ [][NewMissesTheWindows]_vars => []NewStaysNew
<1> DEFINE Clear == NewStaysNew /\ LoadsAreCurrent /\ ClearingIsClear
<1> USE DEF Working, Thread, NewStaysNew, LoadsAreCurrent, ClearingIsClear
<1>1. Init => Clear
  BY NoKeyAssumption DEF Init
<1>2. ASSUME TypeOK, Clear, Next, NewMissesTheWindows
      PROVE  Clear'
  <2>0. SessionsOK /\ TurnsOK
    BY <1>2 DEF TypeOK
  <2>1. ASSUME NEW k \in Keys, NEW u \in Users, NEW more \in BOOLEAN, New(k, u, more)
        PROVE  Clear'
    <3>1. /\ file' = [file EXCEPT ![k] = {}] /\ clearing' = k
          /\ UNCHANGED <<pc, gen, loaded, token>>
      BY <2>1 DEF New, Command
    <3>2. file'[k] = {} /\ \A j \in Keys : j # k => file'[j] = file[j]
      BY <2>0, <3>1 DEF SessionsOK
    <3> QED BY <1>2, <3>1, <3>2
  <2>2. ASSUME NEW k \in Keys, NewEnds(k) PROVE Clear'
    <3>1. /\ gen' = [gen EXCEPT ![k] = @ + 1] /\ clearing = k /\ clearing' = NoKey
          /\ UNCHANGED <<pc, file, loaded, token>>
      BY <2>2 DEF NewEnds
    <3>2. gen'[k] = gen[k] + 1 /\ gen[k] \in Nat /\ token[k] \in Nat
      BY <2>0, <3>1 DEF SessionsOK
    <3>3. pc[k] \notin {"saving", "finalSaving"} /\ (pc[k] = "loaded" => loaded[k] = {})
      BY <1>2, <3>2 DEF NewMissesTheWindows
    <3>4. pc[k] \in Working => token[k] <= gen[k]
      BY <1>2
    <3>5. pc[k] \in Working => token'[k] <= gen'[k] /\ token'[k] # gen'[k]
      BY <3>1, <3>2, <3>4
    <3>6. \A j \in Keys : j # k => gen'[j] = gen[j]
      BY <2>0, <3>1 DEF SessionsOK
    <3>7. file'[k] = {}
      BY <1>2, <3>1
    <3>8. NewStaysNew' /\ ClearingIsClear'
      BY <1>2, <3>1, <3>6, <3>7, NoKeyAssumption
    <3>9. LoadsAreCurrent'
      BY <1>2, <3>1, <3>3, <3>5, <3>6
    <3> QED BY <3>8, <3>9
  <2>3. ASSUME NEW k \in Keys, Load(k) PROVE Clear'
    BY <1>2, <2>0, <2>3 DEF Load, Step, SessionsOK, TurnsOK
  <2>4. ASSUME NEW k \in Keys, ReadGeneration(k) PROVE Clear'
    <3>1. /\ token'[k] = gen[k] /\ gen[k] \in Nat
          /\ loaded'[k] = loaded[k] \cup {gen[k]}
          /\ \A j \in Keys : j # k => token'[j] = token[j] /\ loaded'[j] = loaded[j]
      BY <2>0, <2>4 DEF ReadGeneration, SessionsOK
    <3>2. pc[k] = "loaded" /\ pc' = [pc EXCEPT ![k] = "agent"]
          /\ UNCHANGED <<gen, file, clearing>>
      BY <2>4 DEF ReadGeneration, Step
    <3> QED BY <1>2, <2>0, <3>1, <3>2 DEF TurnsOK
  <2>5. ASSUME NEW k \in Keys, WriteSave(k) PROVE Clear'
    <3>1. /\ pc[k] \in {"saving", "finalSaving"}
          /\ file' = [file EXCEPT ![k] = loaded[k]]
          /\ UNCHANGED <<gen, loaded, token, clearing>>
      BY <2>5 DEF WriteSave, Step
    <3>2. file'[k] = loaded[k] /\ \A j \in Keys : j # k => file'[j] = file[j]
      BY <2>0, <3>1 DEF SessionsOK
    <3>3. loaded[k] \subseteq {gen[k]}
      BY <1>2, <3>1
    <3>4. clearing = k => file'[k] = {}
      BY <1>2 DEF NewMissesTheWindows
    <3>5. NewStaysNew' /\ ClearingIsClear'
      BY <1>2, <3>1, <3>2, <3>3, <3>4
    <3>6. LoadsAreCurrent'
      BY <1>2, <2>0, <2>5, <3>1 DEF WriteSave, Step, TurnsOK
    <3> QED BY <3>5, <3>6
  <2>6. ASSUME NEW k \in Keys, EndTurn(k) \/ AbortTurn(k) PROVE Clear'
    BY <1>2, <2>0, <2>6 DEF EndTurn, AbortTurn, Forget, SessionsOK, TurnsOK
  <2>7. CASE /\ UNCHANGED sessions
             /\ \A j \in Keys :
                   /\ pc'[j] = "loaded" => pc[j] = "loaded"
                   /\ pc'[j] \in Working => pc[j] \in Working
                   /\ pc'[j] \in {"saving", "finalSaving"} =>
                         pc[j] \in {"saving", "finalSaving"} \/ token[j] = gen[j]
    BY <1>2, <2>7 DEF sessions
  <2> HIDE DEF Clear
  <2> QED BY <1>2, <2>1, <2>2, <2>3, <2>4, <2>5, <2>6, <2>7, QuietSessions
<1>3. ASSUME Clear, UNCHANGED vars PROVE Clear'
  BY <1>3 DEF vars, sessions
<1> HIDE DEF NewStaysNew, LoadsAreCurrent, ClearingIsClear
<1>4. Clear => NewStaysNew
  OBVIOUS
<1> HIDE DEF Clear
<1>5. TypeOK /\ Clear /\ [Next]_vars /\ [NewMissesTheWindows]_vars => Clear'
  BY <1>2, <1>3
<1> QED BY <1>1, <1>4, <1>5, TypeCorrect, PTL DEF Spec
=============================================================================
