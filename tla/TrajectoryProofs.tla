-------------------------- MODULE TrajectoryProofs --------------------------
(***************************************************************************)
(* Proofs about Trajectory, for any files, commands and numbers of kept    *)
(* operations and reminders: its variables keep their types, the answer    *)
(* claims no more than there is evidence for, a failed check is shown, and *)
(* a change of the work is reminded of once.                               *)
(***************************************************************************)
EXTENDS Trajectory, SequenceTheorems, TLAPS

USE DEF trajectoryVars, status, marks, checks, history

Tools == {"write", "read", "diff", "other", "tests", "shell", "check_app"}

CallRecord ==
    [tool : Tools, done : BOOLEAN, verdict : {"unknown", "passed", "failed"},
     mutated : BOOLEAN, path : Paths \cup {NoPath},
     command : CommandLines \cup {NoCommand},
     clean : BOOLEAN, counts : BOOLEAN, rejected : BOOLEAN]

\* The calls of Write, ReadText, Shell, RunTests, OtherTool and CheckApp.
CallType == {o \in CallRecord : o.tool = "check_app" => o.path \in Targets}

\* What every step is made of.
ACall == \E o \in CallType : AfterTool(o)
ARequest == \E longer \in BOOLEAN : NewRequest(longer)
ALostCall == \E changed \in BOOLEAN : LostCall(changed)
ASmokeTest == \E t \in Targets, result \in {"passed", "failed", "unverified", "other"} :
                  RecordSmoke(t, result)

-----------------------------------------------------------------------------
(* Steps *)

LEMMA CallIsTyped ==
    ASSUME NEW tool \in Tools, NEW done \in BOOLEAN,
           NEW verdict \in {"unknown", "passed", "failed"}, NEW mutated \in BOOLEAN
    PROVE  Call(tool, done, verdict, mutated) \in CallRecord
BY DEF Call, CallRecord

\* The calls that differ from those in a field.
LEMMA ChangedIsTyped ==
    ASSUME NEW o \in CallRecord
    PROVE  /\ WithError(o) \in CallRecord /\ WithError(o).tool = o.tool
           /\ Refuted(o) \in CallRecord /\ Refuted(o).tool = o.tool
BY DEF CallRecord, WithError, Refuted

LEMMA CountingIsTyped ==
    ASSUME NEW o \in CallRecord, NEW k \in BOOLEAN
    PROVE  Counting(o, k) \in CallRecord /\ Counting(o, k).tool = o.tool
BY DEF CallRecord, Counting

LEMMA ToolIsKept ==
    ASSUME NEW tool, NEW done, NEW verdict, NEW mutated
    PROVE  Call(tool, done, verdict, mutated).tool = tool
BY DEF Call

LEMMA SilentIsTyped ==
    ASSUME NEW tool \in Tools, NEW o \in Silent(tool)
    PROVE  o \in CallRecord /\ o.tool = tool
<1>1. PICK d \in BOOLEAN, m \in BOOLEAN : o = Call(tool, d, "unknown", m)
  BY DEF Silent
<1> QED BY <1>1, CallIsTyped, ToolIsKept

LEMMA PassingIsTyped ==
    ASSUME NEW tool \in Tools, NEW o \in Passing(tool)
    PROVE  o \in CallRecord /\ o.tool = tool
<1>1. PICK m \in BOOLEAN : o = Call(tool, TRUE, "passed", m)
  BY DEF Passing
<1> QED BY <1>1, CallIsTyped, ToolIsKept

LEMMA UncleanIsTyped ==
    ASSUME NEW tool \in Tools, NEW o \in Unclean(tool)
    PROVE  o \in CallRecord /\ o.tool = tool
<1>1. PICK m \in BOOLEAN : o = WithError(Call(tool, TRUE, "unknown", m))
  BY DEF Unclean
<1> DEFINE call == Call(tool, TRUE, "unknown", m)
<1>2. call \in CallRecord /\ call.tool = tool
  BY CallIsTyped, ToolIsKept
<1>3. o = WithError(call)
  BY <1>1
<1> HIDE DEF call
<1> QED BY <1>2, <1>3, ChangedIsTyped

LEMMA FailingIsTyped ==
    ASSUME NEW tool \in Tools, NEW dones \in SUBSET BOOLEAN, NEW o \in Failing(tool, dones)
    PROVE  o \in CallRecord /\ o.tool = tool
<1>1. PICK d \in dones, m \in BOOLEAN, k \in BOOLEAN :
          o = Counting(Call(tool, d, "failed", m), k)
  BY DEF Failing
<1>2. Call(tool, d, "failed", m) \in CallRecord
  BY CallIsTyped
<1> QED BY <1>1, <1>2, CountingIsTyped, ToolIsKept

LEMMA AuditedIsTyped ==
    ASSUME NEW tool \in Tools, NEW o \in Audited(tool)
    PROVE  o \in CallRecord /\ o.tool = tool
<1>1. CASE o \in Rejected(tool)
  <2>1. PICK m \in BOOLEAN : o = Refuted(Call(tool, FALSE, "failed", m))
    BY <1>1 DEF Rejected
  <2> DEFINE call == Call(tool, FALSE, "failed", m)
  <2>2. call \in CallRecord /\ call.tool = tool
    BY CallIsTyped, ToolIsKept
  <2>3. o = Refuted(call)
    BY <2>1
  <2> HIDE DEF call
  <2> QED BY <2>2, <2>3, ChangedIsTyped
<1> QED BY <1>1, PassingIsTyped DEF Audited

\* What a tool is called with.
LEMMA PathIsTyped ==
    ASSUME NEW o \in CallRecord, NEW p \in Paths, o.tool = "check_app" => p \in Targets
    PROVE  [o EXCEPT !.path = p] \in CallType
BY DEF CallRecord, CallType

LEMMA CommandIsTyped ==
    ASSUME NEW o \in CallRecord, o.tool = "shell", NEW c \in CommandLines
    PROVE  [o EXCEPT !.command = c] \in CallType
BY DEF CallRecord, CallType

LEMMA ShellCallsAreTyped ==
    ASSUME NEW c \in CommandLines, NEW o \in ShellCalls(c)
    PROVE  o \in CallRecord /\ o.tool = "shell"
<1> DEFINE dones == IF c \in CheckRuns THEN BOOLEAN ELSE {FALSE}
<1>1. dones \in SUBSET BOOLEAN
  OBVIOUS
<1>2. o \in Silent("shell") \cup Unclean("shell") \cup Audited("shell") \cup Failing("shell", dones)
  BY DEF ShellCalls
<1> HIDE DEF dones
<1> QED
  BY <1>1, <1>2, SilentIsTyped, UncleanIsTyped, AuditedIsTyped, FailingIsTyped DEF Tools

LEMMA PageCallsAreTyped ==
    ASSUME NEW o \in PageCalls
    PROVE  o \in CallRecord
<1>1. /\ Call("check_app", TRUE, "unknown", FALSE) \in CallRecord
      /\ Call("check_app", FALSE, "unknown", FALSE) \in CallRecord
      /\ Call("check_app", TRUE, "failed", FALSE) \in CallRecord
  BY CallIsTyped DEF Tools
<1> QED BY <1>1, ChangedIsTyped DEF PageCalls

\* Every step is a call, a request, a lost call, the check of a deliverable or
\* a reminder: the tools differ in the calls they make and in nothing else.
LEMMA StepsAreFew ==
    ASSUME TrajectoryNext
    PROVE  ACall \/ ARequest \/ ALostCall \/ ASmokeTest \/ Remind
<1>1. ASSUME NEW p \in Paths, Write(p) PROVE ACall
  <2>1. PICK o \in WriteCalls : AfterTool([o EXCEPT !.path = p])
    BY <1>1 DEF Write
  <2>2. o \in CallRecord /\ o.tool = "write"
    BY <2>1, SilentIsTyped, AuditedIsTyped DEF WriteCalls, Tools
  <2>3. [o EXCEPT !.path = p] \in CallType
    BY <2>2, PathIsTyped
  <2> QED BY <2>1, <2>3 DEF ACall
<1>2. ASSUME NEW p \in Paths, ReadText(p) PROVE ACall
  <2>1. PICK o \in ReadCalls : AfterTool([o EXCEPT !.path = p])
    BY <1>2 DEF ReadText
  <2>2. PICK d \in BOOLEAN : o = Call("read", d, "unknown", FALSE)
    BY <2>1 DEF ReadCalls
  <2>3. o \in CallRecord /\ o.tool = "read"
    BY <2>2, CallIsTyped DEF Call, Tools
  <2>4. [o EXCEPT !.path = p] \in CallType
    BY <2>3, PathIsTyped
  <2> QED BY <2>1, <2>4 DEF ACall
<1>3. ASSUME NEW c \in CommandLines, Shell(c) PROVE ACall
  <2>1. PICK o \in ShellCalls(c) : AfterTool([o EXCEPT !.command = c])
    BY <1>3 DEF Shell
  <2>2. [o EXCEPT !.command = c] \in CallType
    BY <2>1, ShellCallsAreTyped, CommandIsTyped
  <2> QED BY <2>1, <2>2 DEF ACall
<1>4. ASSUME RunTests PROVE ACall
  <2>1. PICK o \in TestCalls : AfterTool(o)
    BY <1>4 DEF RunTests
  <2>2. o \in CallType
    <3>1. o \in CallRecord /\ o.tool = "tests"
      BY <2>1, SilentIsTyped, PassingIsTyped, FailingIsTyped DEF TestCalls, Tools
    <3> QED BY <3>1 DEF CallType
  <2> QED BY <2>1, <2>2 DEF ACall
<1>5. ASSUME OtherTool PROVE ACall
  <2>1. PICK o \in DiffCalls \cup OtherCalls : AfterTool(o)
    BY <1>5 DEF OtherTool
  <2>2. CASE o \in DiffCalls
    BY <2>1, <2>2 DEF DiffCalls, CallType, CallRecord, Call, Tools, ACall
  <2>3. CASE o \in OtherCalls
    <3>1. o \in CallRecord /\ o.tool = "other"
      BY <2>3, SilentIsTyped, AuditedIsTyped DEF OtherCalls, Tools
    <3> QED BY <2>1, <3>1 DEF CallType, ACall
  <2> QED BY <2>1, <2>2, <2>3
<1>6. ASSUME NEW t \in Targets, CheckApp(t) PROVE ACall
  <2>1. PICK o \in PageCalls : AfterTool([o EXCEPT !.path = t])
    BY <1>6 DEF CheckApp
  <2>2. t \in Paths
    BY TrajectoryAssumption DEF Paths
  <2> QED BY <2>1, <2>2, PageCallsAreTyped, PathIsTyped DEF ACall
<1> QED
  BY <1>1, <1>2, <1>3, <1>4, <1>5, <1>6
     DEF TrajectoryNext, ARequest, ALostCall, ASmokeTest

-----------------------------------------------------------------------------
(* Types *)

LEMMA RecordedIsTyped ==
    ASSUME finished \in Seq(BOOLEAN), Len(finished) <= MaxOperations, NEW done \in BOOLEAN
    PROVE  Recorded(done) \in Seq(BOOLEAN) /\ Len(Recorded(done)) <= MaxOperations
<1> USE TrajectoryAssumption
<1>1. CASE Len(finished) < MaxOperations
  <2>1. Append(finished, done) \in Seq(BOOLEAN) /\ Len(Append(finished, done)) = Len(finished) + 1
    BY AppendProperties
  <2> QED BY <1>1, <2>1, LenProperties DEF Recorded
<1>2. CASE ~(Len(finished) < MaxOperations)
  <2>1. finished # <<>>
    BY <1>2
  <2>2. Tail(finished) \in Seq(BOOLEAN) /\ Len(Tail(finished)) = Len(finished) - 1
    BY <2>1, HeadTailProperties
  <2>3. /\ Append(Tail(finished), done) \in Seq(BOOLEAN)
        /\ Len(Append(Tail(finished), done)) = Len(Tail(finished)) + 1
    BY <2>2, AppendProperties
  <2>4. Recorded(done) = Append(Tail(finished), done)
    BY <1>2 DEF Recorded
  <2>5. Len(finished) \in Nat
    BY LenProperties
  <2> QED BY <2>2, <2>3, <2>4, <2>5
<1> QED BY <1>1, <1>2

FailingType == [on : BOOLEAN, command : CommandLines \cup {NoCommand},
                files : SUBSET Paths, page : Targets \cup {NoPath}]

LEMMA BoundsAreTyped == MaxReminders \in Nat /\ MaxOperations \in Nat \ {0}
BY TrajectoryAssumption

LEMMA NoneIsTyped == None \in FailingType
BY DEF None, FailingType

LEMMA FailingIsKept ==
    ASSUME TrajectoryTypeOK, NEW o \in CallType
    PROVE  NowWritten(o) \subseteq Paths /\ FailingAfter(o) \in FailingType
<1>1. NowWritten(o) \subseteq Paths
  BY DEF NowWritten, TrajectoryTypeOK, CallType, CallRecord
<1>2. Failure(o) \in FailingType
  <2>1. (IF o.command \in CommandLines \ CheckRuns THEN Runs[o.command] \cap NowWritten(o) ELSE {})
            \in SUBSET Paths
    BY <1>1
  <2>2. (IF o.tool = "check_app" THEN o.path ELSE NoPath) \in Targets \cup {NoPath}
    BY DEF CallType
  <2>3. o.command \in CommandLines \cup {NoCommand}
    BY DEF CallType, CallRecord
  <2> QED BY <2>1, <2>2, <2>3 DEF Failure, FailingType
<1>3. failing \in FailingType
  BY DEF TrajectoryTypeOK, FailingType
<1> QED BY <1>1, <1>2, <1>3, NoneIsTyped DEF FailingAfter

LEMMA CallKeepsType ==
    ASSUME TrajectoryTypeOK, NEW o \in CallType, AfterTool(o)
    PROVE  TrajectoryTypeOK'
<1> USE DEF TrajectoryTypeOK, AfterTool
<1>1. finished' \in Seq(BOOLEAN) /\ Len(finished') <= MaxOperations
  <2>1. o.done \in BOOLEAN /\ finished' = Recorded(o.done)
    BY DEF CallType, CallRecord
  <2>2. finished \in Seq(BOOLEAN) /\ Len(finished) <= MaxOperations
    OBVIOUS
  <2> HIDE DEF TrajectoryTypeOK, AfterTool
  <2> QED BY <2>1, <2>2, RecordedIsTyped
<1>2. verification' \in {"not_needed", "pending", "inspected", "verified"}
  BY DEF VerificationAfter, Judged
<1>3. requested' \in BOOLEAN /\ ranOk' \in BOOLEAN /\ byPage' \in BOOLEAN /\ unseen' \in BOOLEAN
  BY Zenon DEF RequestedAfter
<1>4. written' \subseteq Paths /\ failing' \in FailingType
  BY FailingIsKept
<1>5. grounds' \in 0 .. Passed
  BY DEF EvidenceOf, Better, Passed, Ran, Read
<1> QED BY <1>1, <1>2, <1>3, <1>4, <1>5 DEF FailingType

LEMMA SmokeTestKeepsType ==
    ASSUME TrajectoryTypeOK, ASmokeTest
    PROVE  TrajectoryTypeOK'
<1>1. PICK t \in Targets, result \in {"passed", "failed", "unverified", "other"} :
          RecordSmoke(t, result)
  BY DEF ASmokeTest
<1> USE <1>1 DEF TrajectoryTypeOK, RecordSmoke
<1>2. t \in Paths /\ NameOf[t] \in Names
  BY TrajectoryAssumption DEF Paths
<1>3. verification' \in {"not_needed", "pending", "inspected", "verified"}
  BY DEF VerificationSmoked
<1>4. byPage' \in BOOLEAN
  BY Zenon
<1>5. checkedAt' \subseteq Targets /\ passedAt' \subseteq checkedAt'
  BY DEF StillPasses
<1>6. failing' \in FailingType
  BY NoneIsTyped DEF FailingType
<1>7. notes' \subseteq Names /\ unsure' \subseteq Targets /\ broken' \subseteq Targets
  BY <1>2
<1>8. grounds' \in 0 .. Passed
  BY DEF Better, Passed, Ran
<1> QED BY <1>3, <1>4, <1>5, <1>6, <1>7, <1>8 DEF FailingType

\* Every variable keeps its type: the kept operations are at most
\* MAX_OPERATIONS, and what passed at this state of the work was checked at it.
THEOREM TrajectoryTypeCorrect == TrajectorySpec => []TrajectoryTypeOK
<1>1. TrajectoryInit => TrajectoryTypeOK
  <2> SUFFICES ASSUME TrajectoryInit PROVE TrajectoryTypeOK
    OBVIOUS
  <2>1. finished \in Seq(BOOLEAN) /\ Len(finished) = 0
    BY EmptySeq DEF TrajectoryInit
  <2>2. failing \in FailingType
    BY NoneIsTyped DEF TrajectoryInit
  <2>3. requests \in 0 .. MaxReminders /\ grounds \in 0 .. Passed /\ reminders \in Nat
    BY BoundsAreTyped DEF TrajectoryInit, Passed
  <2>4. requested \in BOOLEAN /\ ranOk \in BOOLEAN /\ byPage \in BOOLEAN /\ unseen \in BOOLEAN
    BY Zenon DEF TrajectoryInit
  <2>5. Len(finished) <= MaxOperations
    BY <2>1, BoundsAreTyped
  <2> QED
    BY <2>1, <2>2, <2>3, <2>4, <2>5 DEF TrajectoryInit, TrajectoryTypeOK, FailingType
<1>2. TrajectoryTypeOK /\ [TrajectoryNext]_trajectoryVars => TrajectoryTypeOK'
  <2> SUFFICES ASSUME TrajectoryTypeOK, [TrajectoryNext]_trajectoryVars PROVE TrajectoryTypeOK'
    OBVIOUS
  <2>1. CASE ACall
    BY <2>1, CallKeepsType DEF ACall
  <2>2. CASE ASmokeTest
    BY <2>2, SmokeTestKeepsType
  <2>3. CASE ARequest
    <3>1. PICK longer \in BOOLEAN : NewRequest(longer)
      BY <2>3 DEF ARequest
    <3>2. CASE StartAfresh
      <4>1. finished' \in Seq(BOOLEAN) /\ Len(finished') = 0
        BY <3>2, EmptySeq DEF StartAfresh
      <4>2. failing' \in FailingType
        BY <3>2, NoneIsTyped DEF StartAfresh
      <4>3. requests' \in 0 .. MaxReminders /\ grounds' \in 0 .. Passed /\ reminders' \in Nat
        BY <3>2, BoundsAreTyped DEF StartAfresh, Passed
      <4>4. requested' \in BOOLEAN /\ ranOk' \in BOOLEAN /\ byPage' \in BOOLEAN /\ unseen' \in BOOLEAN
        BY <3>2, Zenon DEF StartAfresh
      <4>5. Len(finished') <= MaxOperations
        BY <4>1, BoundsAreTyped
      <4> QED
        BY <3>2, <4>1, <4>2, <4>3, <4>4, <4>5 DEF StartAfresh, TrajectoryTypeOK, FailingType
    <3>3. CASE CarryOver
      BY <3>3, TrajectoryAssumption DEF CarryOver, TrajectoryTypeOK
    <3>4. CASE UNCHANGED trajectoryVars
      BY <3>4 DEF TrajectoryTypeOK
    <3> QED BY <3>1, <3>2, <3>3, <3>4 DEF NewRequest
  <2>4. CASE ALostCall
    <3>1. PICK changed \in BOOLEAN : LostCall(changed)
      BY <2>4 DEF ALostCall
    <3>2. finished' \in Seq(BOOLEAN) /\ Len(finished') <= MaxOperations
      <4>1. finished \in Seq(BOOLEAN) /\ Len(finished) <= MaxOperations
        BY DEF TrajectoryTypeOK
      <4>2. finished' = Recorded(FALSE)
        BY <3>1 DEF LostCall
      <4> QED BY <4>1, <4>2, RecordedIsTyped
    <3>3. unseen' \in BOOLEAN
      BY <3>1, Zenon DEF LostCall, TrajectoryTypeOK
    <3>4. grounds' \in 0 .. Passed
      BY <3>1 DEF LostCall, TrajectoryTypeOK, Passed
    <3> QED BY <3>1, <3>2, <3>3, <3>4 DEF LostCall, TrajectoryTypeOK
  <2>5. CASE Remind
    BY <2>5, TrajectoryAssumption DEF Remind, TrajectoryTypeOK
  <2>6. CASE UNCHANGED trajectoryVars
    BY <2>6 DEF TrajectoryTypeOK
  <2> QED BY <2>1, <2>2, <2>3, <2>4, <2>5, <2>6, StepsAreFew
<1> QED BY <1>1, <1>2, PTL DEF TrajectorySpec

-----------------------------------------------------------------------------
(* The answer and its evidence *)

\* What the answer may be stamped with rests on evidence of its own kind, be
\* it gathered by a tool call, a smoke test or a run of the changed program.
EvidenceHolds ==
    /\ verification = "verified" => grounds = Passed
    /\ ranOk \/ passedAt # {} => grounds >= Ran
    /\ verification = "inspected" => grounds >= Read

Evidenced == unseen \/ EvidenceHolds

LEMMA BetterIsBest ==
    ASSUME NEW old \in 0 .. Passed, NEW new \in 0 .. Passed
    PROVE  /\ Better(old, new) \in 0 .. Passed
           /\ Better(old, new) >= old /\ Better(old, new) >= new
BY DEF Better, Passed

LEMMA CallIsEvidenced ==
    ASSUME TrajectoryTypeOK, Evidenced, NEW o \in CallType, AfterTool(o)
    PROVE  Evidenced'
<1>1. EvidenceOf(o) \in 0 .. Passed
  BY DEF EvidenceOf, Passed, Ran, Read
<1>2. grounds \in 0 .. Passed
  BY DEF TrajectoryTypeOK
<1>3. CASE ChangesWork(o)
  <2>1. ~RunsChangedProgram(o) /\ ~Inspects(o)
    BY <1>3, Zenon DEF ChangesWork, Mutates, Inspects
  <2>2. ~ranOk' /\ passedAt' = {}
    BY <1>3, <2>1, Zenon DEF AfterTool, ChangesWork
  <2>3. verification' # "inspected" /\ (verification' = "verified" => o.verdict = "passed")
    BY <1>3, <2>1 DEF AfterTool, VerificationAfter, Judged
  <2>4. grounds' >= EvidenceOf(o) /\ grounds' \in 0 .. Passed
    <3>1. grounds' = Better(0, EvidenceOf(o))
      BY <1>3 DEF AfterTool
    <3> QED BY <1>1, <3>1 DEF Better, Passed
  <2>5. o.verdict = "passed" => EvidenceOf(o) = Passed
    BY DEF EvidenceOf
  <2>6. verification' = "verified" => grounds' = Passed
    BY <2>3, <2>4, <2>5 DEF Passed
  <2> QED BY <2>2, <2>3, <2>6, Zenon DEF Evidenced, EvidenceHolds
<1>4. CASE ~ChangesWork(o)
  <2> SUFFICES ASSUME ~unseen PROVE EvidenceHolds'
    BY <1>4, Zenon DEF AfterTool, Evidenced
  <2>1. EvidenceHolds
    BY Zenon DEF Evidenced
  <2>2. grounds' >= grounds /\ grounds' >= EvidenceOf(o) /\ grounds' \in 0 .. Passed
    <3>1. grounds' = Better(grounds, EvidenceOf(o))
      BY <1>4 DEF AfterTool
    <3> QED BY <1>1, <1>2, <3>1, BetterIsBest
  <2>3. verification' = "verified" => grounds' = Passed
    <3>1. verification' = "verified" => o.verdict = "passed" \/ verification = "verified"
      BY <1>4 DEF AfterTool, VerificationAfter, Judged
    <3>2. o.verdict = "passed" => EvidenceOf(o) = Passed
      BY DEF EvidenceOf
    <3>3. verification = "verified" => grounds = Passed
      BY <2>1, Zenon DEF EvidenceHolds
    <3> QED BY <1>2, <2>2, <3>1, <3>2, <3>3 DEF Passed
  <2>4. ranOk' \/ passedAt' # {} => grounds' >= Ran
    <3>1. ranOk' \/ passedAt' # {} => RunsChangedProgram(o) \/ ranOk \/ passedAt # {}
      BY Zenon DEF AfterTool
    <3>2. RunsChangedProgram(o) => EvidenceOf(o) >= Ran
      BY DEF EvidenceOf, Passed, Ran
    <3>3. ranOk \/ passedAt # {} => grounds >= Ran
      BY <2>1, Zenon DEF EvidenceHolds
    <3>4. RunsChangedProgram(o) => grounds' >= Ran
      BY <1>1, <2>2, <3>2 DEF Passed, Ran
    <3>5. grounds >= Ran => grounds' >= Ran
      BY <1>2, <2>2 DEF Passed, Ran
    <3> QED BY <3>1, <3>3, <3>4, <3>5, Zenon
  <2>5. verification' = "inspected" => grounds' >= Read
    <3>1. verification' = "inspected" => Inspects(o) \/ verification = "inspected"
      BY <1>4 DEF AfterTool, VerificationAfter, Judged
    <3>2. Inspects(o) => EvidenceOf(o) >= Read
      BY DEF EvidenceOf, Passed, Ran, Read
    <3>3. verification = "inspected" => grounds >= Read
      BY <2>1, Zenon DEF EvidenceHolds
    <3> QED BY <1>1, <1>2, <2>2, <3>1, <3>2, <3>3 DEF Passed, Read
  <2> QED BY <2>3, <2>4, <2>5, Zenon DEF EvidenceHolds
<1> QED BY <1>3, <1>4

LEMMA SmokeTestIsEvidenced ==
    ASSUME TrajectoryTypeOK, Evidenced, ASmokeTest
    PROVE  Evidenced'
<1>1. PICK t \in Targets, result \in {"passed", "failed", "unverified", "other"} :
          RecordSmoke(t, result)
  BY DEF ASmokeTest
<1> SUFFICES ASSUME ~unseen PROVE EvidenceHolds'
  BY <1>1, Zenon DEF RecordSmoke, Evidenced
<1>2. EvidenceHolds
  BY Zenon DEF Evidenced
<1>3. grounds \in 0 .. Passed
  BY DEF TrajectoryTypeOK
<1>4. CASE result = "passed"
  <2>1. grounds' = Better(grounds, Ran) /\ grounds' >= Ran /\ grounds' >= grounds /\ grounds' \in 0 .. Passed
    BY <1>1, <1>3, <1>4, BetterIsBest DEF RecordSmoke, Ran, Passed
  <2>2. verification' = "verified" => verification = "verified"
    BY <1>1, <1>4 DEF RecordSmoke, VerificationSmoked
  <2>3. verification = "verified" => grounds = Passed
    BY <1>2, Zenon DEF EvidenceHolds
  <2>4. verification' = "verified" => grounds' = Passed
    BY <1>3, <2>1, <2>2, <2>3 DEF Passed
  <2>5. grounds' >= Read
    BY <2>1 DEF Read, Ran, Passed
  <2> QED BY <2>1, <2>4, <2>5, Zenon DEF EvidenceHolds
<1>5. CASE result # "passed"
  <2>1. grounds' = grounds /\ (ranOk' <=> ranOk) /\ (passedAt' # {} => passedAt # {})
    BY <1>1, <1>5, Zenon DEF RecordSmoke, StillPasses
  <2>2. /\ verification' = "verified" => verification = "verified"
        /\ verification' = "inspected" => verification = "inspected"
    BY <1>1, <1>5 DEF RecordSmoke, VerificationSmoked
  <2> QED BY <1>2, <2>1, <2>2, Zenon DEF EvidenceHolds
<1> QED BY <1>4, <1>5

\* The answer claims no more than the best evidence since the work last
\* changed: for any work, commands and sequence of tool calls, checks and
\* requests.
THEOREM AssuranceIsGrounded == TrajectorySpec => []AssuranceHasGrounds
<1>1. TrajectoryInit => Evidenced
  BY Zenon DEF TrajectoryInit, Evidenced, EvidenceHolds
<1>2. TrajectoryTypeOK /\ Evidenced /\ [TrajectoryNext]_trajectoryVars => Evidenced'
  <2> SUFFICES ASSUME TrajectoryTypeOK, Evidenced, [TrajectoryNext]_trajectoryVars
               PROVE  Evidenced'
    OBVIOUS
  <2>1. CASE ACall
    BY <2>1, CallIsEvidenced DEF ACall
  <2>2. CASE ASmokeTest
    BY <2>2, SmokeTestIsEvidenced
  <2>3. CASE ARequest
    <3>1. PICK longer \in BOOLEAN : NewRequest(longer)
      BY <2>3 DEF ARequest
    <3>2. CASE StartAfresh
      BY <3>2, Zenon DEF StartAfresh, Evidenced, EvidenceHolds
    <3>3. CASE CarryOver
      BY <3>3, Zenon DEF CarryOver, Evidenced, EvidenceHolds
    <3>4. CASE UNCHANGED trajectoryVars
      BY <3>4, Zenon DEF Evidenced, EvidenceHolds
    <3> QED BY <3>1, <3>2, <3>3, <3>4 DEF NewRequest
  <2>4. CASE ALostCall
    <3>1. PICK changed \in BOOLEAN : LostCall(changed)
      BY <2>4 DEF ALostCall
    <3>2. CASE changed
      BY <3>1, <3>2, Zenon DEF LostCall, Evidenced
    <3>3. CASE ~changed
      BY <3>1, <3>3, Zenon DEF LostCall, Evidenced, EvidenceHolds
    <3> QED BY <3>2, <3>3
  <2>5. CASE Remind
    BY <2>5, Zenon DEF Remind, Evidenced, EvidenceHolds
  <2>6. CASE UNCHANGED trajectoryVars
    BY <2>6, Zenon DEF Evidenced, EvidenceHolds
  <2> QED BY <2>1, <2>2, <2>3, <2>4, <2>5, <2>6, StepsAreFew
<1>3. TrajectoryTypeOK /\ Evidenced => AssuranceHasGrounds
  <2> SUFFICES ASSUME TrajectoryTypeOK, EvidenceHolds PROVE Worth(Assurance) <= grounds
    BY Zenon DEF Evidenced, AssuranceHasGrounds
  <2>1. grounds \in 0 .. Passed
    BY DEF TrajectoryTypeOK
  <2>2. Assurance = "tested" => verification = "verified"
    BY DEF Assurance
  <2>3. Assurance = "exercised" => ranOk \/ passedAt # {}
    BY Zenon DEF Assurance
  <2>4. Assurance = "inspected" => verification = "inspected"
    BY DEF Assurance
  <2>5. /\ Assurance = "tested" => grounds = Passed
        /\ Assurance = "exercised" => grounds >= Ran
        /\ Assurance = "inspected" => grounds >= Read
    BY <2>2, <2>3, <2>4, Zenon DEF EvidenceHolds
  <2> HIDE DEF Assurance
  <2> QED BY <2>1, <2>5 DEF Worth, Passed, Ran, Read
<1> QED BY <1>1, <1>2, <1>3, TrajectoryTypeCorrect, PTL DEF TrajectorySpec

-----------------------------------------------------------------------------
(* Failed checks *)

\* No other target has its name, so that no other target's note is its own.
OwnName(t) == \A u \in Targets \ {t} : NameOf[u] # NameOf[t]

\* A failed target's note is there, and it does not wait for a run that would
\* settle it: only the latter are cleared by a command.
Noted == \A t \in broken : OwnName(t) => NameOf[t] \in notes /\ t \notin unsure

LEMMA CallKeepsNotes ==
    ASSUME TrajectoryTypeOK, Noted, NEW o \in CallType, AfterTool(o)
    PROVE  Noted'
<1> SUFFICES ASSUME NEW t \in broken, OwnName(t)
             PROVE  NameOf[t] \in notes' /\ t \notin unsure'
  BY Zenon DEF AfterTool, Noted, OwnName
<1>1. NameOf[t] \in notes /\ t \notin unsure
  BY DEF Noted
<1>2. t \notin unsure'
  BY <1>1 DEF AfterTool
<1>3. ASSUME NEW u \in Cleared(o) PROVE NameOf[u] # NameOf[t]
  <2>1. u \in unsure /\ u \in Targets
    BY DEF Cleared, TrajectoryTypeOK
  <2>2. u # t
    BY <1>1, <2>1
  <2> QED BY <2>1, <2>2 DEF OwnName
<1>4. NameOf[t] \notin {NameOf[u] : u \in Cleared(o)}
  BY <1>3
<1> QED BY <1>1, <1>2, <1>4 DEF AfterTool

LEMMA SmokeTestKeepsNotes ==
    ASSUME TrajectoryTypeOK, Noted, ASmokeTest
    PROVE  Noted'
<1>1. PICK u \in Targets, result \in {"passed", "failed", "unverified", "other"} :
          RecordSmoke(u, result)
  BY DEF ASmokeTest
<1> SUFFICES ASSUME NEW t \in broken', OwnName(t)
             PROVE  NameOf[t] \in notes' /\ t \notin unsure'
  BY Zenon DEF Noted, OwnName
<1>2. CASE t = u
  <2>1. result = "failed"
    BY <1>1, <1>2 DEF RecordSmoke
  <2> QED BY <1>1, <1>2, <2>1 DEF RecordSmoke
<1>3. CASE t # u
  <2>1. t \in broken
    BY <1>1, <1>3 DEF RecordSmoke
  <2>2. NameOf[t] \in notes /\ t \notin unsure
    BY <2>1 DEF Noted
  <2>3. NameOf[u] # NameOf[t]
    BY <1>3 DEF OwnName
  <2> QED BY <1>1, <1>3, <2>2, <2>3 DEF RecordSmoke
<1> QED BY <1>2, <1>3

\* The failure of a page or script stays in the answer until a check of it, or
\* of another of its name, says otherwise: for any targets, whatever else is
\* run, read, written or checked.
THEOREM FailureStaysShown == TrajectorySpec => []FailureIsShown
<1>1. TrajectoryInit => Noted
  BY DEF TrajectoryInit, Noted
<1>2. TrajectoryTypeOK /\ Noted /\ [TrajectoryNext]_trajectoryVars => Noted'
  <2> SUFFICES ASSUME TrajectoryTypeOK, Noted, [TrajectoryNext]_trajectoryVars PROVE Noted'
    OBVIOUS
  <2>1. CASE ACall
    BY <2>1, CallKeepsNotes DEF ACall
  <2>2. CASE ASmokeTest
    BY <2>2, SmokeTestKeepsNotes
  <2>3. CASE ARequest
    <3>1. PICK longer \in BOOLEAN : NewRequest(longer)
      BY <2>3 DEF ARequest
    <3>2. CASE StartAfresh \/ CarryOver
      BY <3>2 DEF StartAfresh, CarryOver, Noted
    <3>3. CASE UNCHANGED trajectoryVars
      BY <3>3, Zenon DEF Noted, OwnName
    <3> QED BY <3>1, <3>2, <3>3 DEF NewRequest
  <2>4. CASE ALostCall \/ Remind \/ UNCHANGED trajectoryVars
    BY <2>4, Zenon DEF ALostCall, LostCall, Remind, Noted, OwnName
  <2> QED BY <2>1, <2>2, <2>3, <2>4, StepsAreFew
<1>3. Noted => FailureIsShown
  <2> SUFFICES ASSUME Noted, NEW t \in broken, OwnName(t)
               PROVE  Assurance \in {"none", "failed"}
    BY Zenon DEF FailureIsShown, OwnName
  <2>1. notes # {}
    BY DEF Noted
  <2> QED BY <2>1 DEF Assurance
<1> QED BY <1>1, <1>2, <1>3, TrajectoryTypeCorrect, PTL DEF TrajectorySpec

-----------------------------------------------------------------------------
(* Reminders *)

\* Once reminded, the mark stands until the work changes.
Reminded == reminders = 0 \/ (reminders = 1 /\ requested)

LEMMA CallRemindsNot ==
    ASSUME Reminded, NEW o \in CallType, AfterTool(o)
    PROVE  Reminded'
<1>1. CASE ChangesWork(o)
  BY <1>1 DEF AfterTool, Reminded
<1>2. CASE ~ChangesWork(o)
  <2>1. reminders' = reminders /\ (requested' <=> requested)
    BY <1>2, Zenon DEF AfterTool, RequestedAfter
  <2> QED BY <2>1, Zenon DEF Reminded
<1> QED BY <1>1, <1>2

\* One change of the work, one reminder, however many requests, scratch files
\* and checks come in between.
THEOREM OneReminder == TrajectorySpec => []RemindedOnce
<1>1. TrajectoryInit => Reminded
  BY DEF TrajectoryInit, Reminded
<1>2. Reminded /\ [TrajectoryNext]_trajectoryVars => Reminded'
  <2> SUFFICES ASSUME Reminded, [TrajectoryNext]_trajectoryVars PROVE Reminded'
    OBVIOUS
  <2>1. CASE ACall
    BY <2>1, CallRemindsNot DEF ACall
  <2>2. CASE ASmokeTest
    <3>1. reminders' = reminders /\ requested' = requested
      BY <2>2 DEF ASmokeTest, RecordSmoke
    <3> QED BY <3>1, Zenon DEF Reminded
  <2>3. CASE ARequest
    <3>1. PICK longer \in BOOLEAN : NewRequest(longer)
      BY <2>3 DEF ARequest
    <3>2. reminders' = 0 \/ (reminders' = reminders /\ (requested' <=> requested))
      BY <3>1, Zenon DEF NewRequest, StartAfresh, CarryOver
    <3> QED BY <3>2, Zenon DEF Reminded
  <2>4. CASE ALostCall
    <3>1. reminders' = reminders /\ requested' = requested
      BY <2>4 DEF ALostCall, LostCall
    <3> QED BY <3>1, Zenon DEF Reminded
  <2>5. CASE Remind
    <3>1. reminders = 0
      BY <2>5, Zenon DEF Remind, Reminded
    <3>2. reminders' = 1
      BY <2>5, <3>1 DEF Remind
    <3>3. requested'
      BY <2>5, Zenon DEF Remind
    <3> QED BY <3>2, <3>3, Zenon DEF Reminded
  <2>6. CASE UNCHANGED trajectoryVars
    BY <2>6, Zenon DEF Reminded
  <2> QED BY <2>1, <2>2, <2>3, <2>4, <2>5, <2>6, StepsAreFew
<1>3. Reminded => RemindedOnce
  BY DEF Reminded, RemindedOnce
<1> QED BY <1>1, <1>2, <1>3, PTL DEF TrajectorySpec
=============================================================================
