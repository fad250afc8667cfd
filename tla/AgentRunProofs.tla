--------------------------- MODULE AgentRunProofs ---------------------------
(***************************************************************************)
(* Proofs about AgentRun: for every limit, the counters stay in bounds,    *)
(* the completion checks ask a bounded number of times, the cap on         *)
(* finishing checks is announced before it cuts a run off, and a run can   *)
(* go on without news only for the rounds its allowances pay for.          *)
(***************************************************************************)
EXTENDS AgentRun, TLAPS

\* The continuations since the last progress are among those not handed back;
\* once progress was made, there are none.
Charged ==
    /\ since <= spent /\ spent <= Limit
    /\ total <= Limit * Factor
    /\ mark = "moved" => since = 0

IInv == RunTypeOK /\ Charged /\ CapIsTold

LEMMA Caps ==
    /\ Limit \in Nat /\ PostRounds \in Nat /\ Searches \in Nat
    /\ Factor \in Nat /\ StallRounds \in Nat /\ 1 <= StallRounds
    /\ MaxCuts \in Nat /\ 1 <= MaxCuts /\ MaxProse \in Nat /\ 1 <= MaxProse
    /\ Unknowns \in Nat /\ Missings \in Nat /\ Malformed \in Nat
    /\ Warnings \in Nat /\ 1 <= Warnings
    /\ NotFinishing = PostRounds + 2
<1>1. /\ Factor \in Nat \ {0} /\ StallRounds \in Nat \ {0} /\ MaxCuts \in Nat \ {0}
      /\ MaxProse \in Nat \ {0} /\ Unknowns \in Nat \ {0} /\ Missings \in Nat \ {0}
      /\ Malformed \in Nat \ {0} /\ Warnings \in Nat \ {0}
  BY Zenon, RunCapsAssumption DEF RunCapsAssumption
<1>2. Limit \in Nat /\ PostRounds \in Nat /\ Searches \in Nat
  BY RunCapsAssumption DEF RunCapsAssumption
<1> QED BY <1>1, <1>2 DEF NotFinishing

LEMMA CapOnAll == Limit * Factor \in Nat
BY Caps

LEMMA ReturnKeeps ==
    ASSUME NEW how \in Endings, Return(how)
    PROVE  IInv'
<1>1. RunTypeOK'
  <2>1. BreakersOK' BY Caps DEF Return, BreakersOK
  <2>2. CorrectionsOK' BY Caps DEF Return, CorrectionsOK
  <2>3. BudgetOK' BY DEF Return, BudgetOK
  <2>4. FlagsOK' BY Zenon DEF Return, FlagsOK
  <2>5. once' \subseteq Chances /\ over' \in {"no"} \cup Endings BY DEF Return
  <2> QED BY <2>1, <2>2, <2>3, <2>4, <2>5 DEF RunTypeOK
<1>2. Charged' BY Caps, CapOnAll DEF Return, Charged
<1>3. CapIsTold' BY Caps DEF Return, CapIsTold
<1> QED BY <1>1, <1>2, <1>3 DEF IInv

LEMMA RunStarts == RunInit => IInv
<1> SUFFICES ASSUME RunInit PROVE IInv OBVIOUS
<1>1. RunTypeOK
  <2>1. BreakersOK BY Caps DEF RunInit, BreakersOK
  <2>2. CorrectionsOK BY Caps DEF RunInit, CorrectionsOK
  <2>3. BudgetOK BY DEF RunInit, BudgetOK
  <2>4. FlagsOK BY Zenon DEF RunInit, FlagsOK
  <2>5. once \subseteq Chances /\ over \in {"no"} \cup Endings BY DEF RunInit
  <2> QED BY <2>1, <2>2, <2>3, <2>4, <2>5 DEF RunTypeOK
<1>2. Charged BY Caps, CapOnAll DEF RunInit, Charged
<1>3. CapIsTold BY Caps DEF RunInit, CapIsTold
<1> QED BY <1>1, <1>2, <1>3 DEF IInv

\* What leaves the budget and the count of finishing rounds alone.
LEMMA UntouchedKeep ==
    ASSUME IInv, UNCHANGED budget, UNCHANGED finishing
    PROVE  BudgetOK' /\ Charged' /\ CapIsTold'
BY Zenon DEF IInv, RunTypeOK, BudgetOK, Charged, CapIsTold, NotFinishing, budget, finishing

\* A saved file is progress, which costs nothing.
LEMMA ProgressKeeps ==
    ASSUME IInv, NEW moved \in BOOLEAN, Progress(moved)
    PROVE  BudgetOK' /\ Charged'
<1>1. BudgetOK' BY DEF IInv, RunTypeOK, BudgetOK, Progress
<1>2. Charged'
  <2>1. spent \in Nat /\ since \in Nat /\ since <= spent /\ spent <= Limit
    BY DEF IInv, RunTypeOK, BudgetOK, Charged
  <2>2. since' <= spent' /\ spent' <= Limit BY <2>1 DEF Progress
  <2>3. total' <= Limit * Factor BY DEF IInv, Charged, Progress
  <2>4. mark' = "moved" => since' = 0 BY DEF IInv, Charged, Progress
  <2> QED BY <2>2, <2>3, <2>4 DEF Charged
<1> QED BY <1>1, <1>2

LEMMA SalvageKeeps ==
    ASSUME IInv, NEW kind, Salvage(kind)
    PROVE  BudgetOK' /\ Charged' /\ parts' \in BOOLEAN
<1>1. CASE kind = "tool_call"
  <2>1. parts' \in BOOLEAN /\ \E moved \in BOOLEAN : Progress(moved)
    BY Zenon, <1>1 DEF Salvage
  <2> QED BY <2>1, ProgressKeeps
<1>2. CASE kind # "tool_call"
  <2>1. parts' = parts /\ UNCHANGED budget BY Zenon, <1>2 DEF Salvage
  <2>2. parts' \in BOOLEAN BY Zenon, <2>1 DEF IInv, RunTypeOK, FlagsOK
  <2>3. BudgetOK' /\ Charged'
    BY Zenon, <2>1 DEF IInv, RunTypeOK, BudgetOK, Charged, budget
  <2> QED BY <2>2, <2>3
<1> QED BY <1>1, <1>2

LEMMA CutOffKeeps ==
    ASSUME IInv, NEW kind, CutOff(kind)
    PROVE  IInv'
<1> DEFINE loops == IF kind = "prose" THEN prose + 1 ELSE 0
<1>1. CASE cuts + 1 >= MaxCuts \/ loops >= MaxProse
  <2>1. Return("cutoff") BY <1>1 DEF CutOff
  <2> QED BY <2>1, ReturnKeeps DEF Endings
<1>2. CASE ~(cuts + 1 >= MaxCuts \/ loops >= MaxProse)
  <2>1. /\ cuts' = cuts + 1 /\ prose' = loops
        /\ forcing' = FALSE /\ strikes' = 0
        /\ Salvage(kind)
        /\ UNCHANGED <<corrections, finishing, quiet, once, over>>
    BY <1>2 DEF CutOff
  <2>2. UNCHANGED finishing BY <2>1
  <2>3. BudgetOK' /\ Charged' /\ parts' \in BOOLEAN BY <2>1, SalvageKeeps
  <2>4. FlagsOK' /\ CapIsTold'
    <3>1. forcing' = FALSE /\ told' = told /\ post' = post BY <2>1 DEF finishing
    <3>2. FlagsOK' BY Zenon, <2>3, <3>1 DEF IInv, RunTypeOK, FlagsOK
    <3>3. CapIsTold' BY Zenon, <3>1 DEF IInv, CapIsTold
    <3> QED BY <3>2, <3>3
  <2>5. BreakersOK'
    <3>1. cuts \in 0 .. MaxCuts - 1 /\ prose \in 0 .. MaxProse - 1
      BY DEF IInv, RunTypeOK, BreakersOK
    <3>2. cuts' \in 0 .. MaxCuts - 1 /\ prose' \in 0 .. MaxProse - 1
      BY <1>2, <2>1, <3>1, Caps
    <3>3. post' = post /\ quiet' = quiet /\ strikes' = 0 BY <2>1 DEF finishing
    <3> QED BY <3>2, <3>3, Caps DEF IInv, RunTypeOK, BreakersOK
  <2>6. CorrectionsOK' BY <2>1 DEF IInv, RunTypeOK, CorrectionsOK, corrections
  <2>7. once' \subseteq Chances /\ over' \in {"no"} \cup Endings
    BY <2>1 DEF IInv, RunTypeOK
  <2> QED BY <2>3, <2>4, <2>5, <2>6, <2>7 DEF IInv, RunTypeOK
<1> QED BY <1>1, <1>2

\* The count of finishing rounds stops short of its cap, and tells on the way.
LEMMA CountRoundKeeps ==
    ASSUME IInv, NEW work \in Works, ~Capped(work), CountRound(work)
    PROVE  post' \in 0 .. NotFinishing /\ CapIsTold'
<1> DEFINE rounds == RoundsAfter(work)
<1>1. post \in 0 .. NotFinishing /\ told \in BOOLEAN /\ PostRounds \in Nat /\ NotFinishing = PostRounds + 2
  BY Caps DEF IInv, RunTypeOK, BreakersOK, FlagsOK
<1>2. rounds \in 0 .. NotFinishing /\ (rounds = NotFinishing => rounds = post)
      /\ (rounds # post => rounds = 0 /\ post = NotFinishing)
  BY <1>1 DEF RoundsAfter
<1>3. CASE PostRounds = 0 \/ rounds = NotFinishing
  <2>1. post' = rounds /\ told' = told BY <1>3 DEF CountRound
  <2> QED BY <1>1, <1>2, <1>3, <2>1 DEF IInv, CapIsTold
<1>4. CASE ~(PostRounds = 0 \/ rounds = NotFinishing) /\ work = "changed"
  <2>1. post' = 0 /\ told' = FALSE BY <1>4 DEF CountRound
  <2> QED BY <1>1, <1>4, <2>1 DEF CapIsTold
<1>5. CASE ~(PostRounds = 0 \/ rounds = NotFinishing) /\ work # "changed"
  <2>1. post' = rounds + 1 /\ (told' <=> (told \/ rounds + 1 = PostRounds))
    BY <1>5 DEF CountRound
  <2>2. rounds # PostRounds + 1 BY <1>1, <1>5 DEF Capped
  <2>3. rounds + 1 \in 0 .. PostRounds + 1 BY <1>1, <1>2, <1>5, <2>2
  <2>4. told <=> rounds = PostRounds
    BY <1>1, <1>2, <1>5, <2>2 DEF IInv, CapIsTold
  <2>5. (told \/ rounds + 1 = PostRounds) <=> rounds + 1 \in {PostRounds, PostRounds + 1}
    BY <1>1, <1>2, <2>4
  <2> QED BY <1>1, <1>5, <2>1, <2>3, <2>5 DEF CapIsTold
<1> QED BY <1>3, <1>4, <1>5

LEMMA ExecutedKeeps ==
    ASSUME IInv, NEW work \in Works, NEW news \in News, Executed(work, news)
    PROVE  IInv'
<1>1. CASE Capped(work)
  <2>1. Return("backstop") BY <1>1 DEF Executed
  <2> QED BY <2>1, ReturnKeeps DEF Endings
<1>2. CASE ~Capped(work) /\ Stalled(news)
  <2>1. Return("stall") BY <1>2 DEF Executed
  <2> QED BY <2>1, ReturnKeeps DEF Endings
<1>3. CASE ~Capped(work) /\ ~Stalled(news)
  <2>1. /\ WholeReply /\ Progress(news = "moved") /\ CountRound(work) /\ Forgive
        /\ quiet' = IF news = "none" THEN quiet + 1 ELSE 0
        /\ parts' \in {parts, FALSE} \cup IF work = "changed" THEN {TRUE} ELSE {}
        /\ UNCHANGED <<once, over>>
    BY <1>3 DEF Executed
  <2>2. post' \in 0 .. NotFinishing /\ CapIsTold' BY <1>3, <2>1, CountRoundKeeps
  <2>3. quiet' \in 0 .. 2 * StallRounds
    <3>1. quiet \in 0 .. 2 * StallRounds BY DEF IInv, RunTypeOK, BreakersOK
    <3> QED BY <1>3, <2>1, <3>1, Caps DEF Stalled
  <2>4. BreakersOK' BY <2>1, <2>2, <2>3, Caps DEF BreakersOK, WholeReply, Forgive
  <2>5. CorrectionsOK'
    BY <2>1, Caps DEF IInv, RunTypeOK, CorrectionsOK, Forgive
  <2>6. FlagsOK'
    <3>1. told' \in BOOLEAN
      BY Zenon, <2>1 DEF IInv, RunTypeOK, FlagsOK, CountRound
    <3>2. parts' \in BOOLEAN
      BY Zenon, <2>1 DEF IInv, RunTypeOK, FlagsOK
    <3>3. forcing' \in BOOLEAN BY Zenon, <2>1 DEF Forgive
    <3> QED BY <3>1, <3>2, <3>3 DEF FlagsOK
  <2>7. BudgetOK' /\ Charged' BY <2>1, ProgressKeeps
  <2>9. once' \subseteq Chances /\ over' \in {"no"} \cup Endings
    BY <2>1 DEF IInv, RunTypeOK
  <2> QED BY <2>2, <2>4, <2>5, <2>6, <2>7, <2>9 DEF IInv, RunTypeOK
<1> QED BY <1>1, <1>2, <1>3

LEMMA WarnKeeps ==
    ASSUME IInv, NEW strike \in 1 .. Warnings, Warn(strike), CorrectionsOK'
    PROVE  IInv'
<1>1. UNCHANGED budget /\ UNCHANGED finishing BY DEF Warn
<1>2. BudgetOK' /\ Charged' /\ CapIsTold' BY <1>1, UntouchedKeep
<1>3. FlagsOK' BY Zenon DEF IInv, RunTypeOK, FlagsOK, Warn, finishing
<1>4. BreakersOK'
  BY Caps DEF IInv, RunTypeOK, BreakersOK, Warn, WholeReply, finishing
<1>5. once' \subseteq Chances /\ over' \in {"no"} \cup Endings
  BY DEF IInv, RunTypeOK, Warn
<1> QED BY <1>2, <1>3, <1>4, <1>5 DEF IInv, RunTypeOK

LEMMA ChanceKeeps ==
    ASSUME IInv, ChanceToBuild, CorrectionsOK'
    PROVE  IInv'
<1>1. UNCHANGED budget /\ UNCHANGED finishing BY DEF ChanceToBuild
<1>2. BudgetOK' /\ Charged' /\ CapIsTold' BY <1>1, UntouchedKeep
<1>3. FlagsOK' BY Zenon DEF IInv, RunTypeOK, FlagsOK, ChanceToBuild, finishing
<1>4. BreakersOK'
  BY Caps DEF IInv, RunTypeOK, BreakersOK, ChanceToBuild, WholeReply, finishing
<1>5. once' \subseteq Chances /\ over' \in {"no"} \cup Endings
  BY DEF IInv, RunTypeOK, ChanceToBuild
<1> QED BY <1>2, <1>3, <1>4, <1>5 DEF IInv, RunTypeOK

LEMMA CorrectionsKept ==
    ASSUME IInv, UNCHANGED corrections
    PROVE  CorrectionsOK'
BY DEF IInv, RunTypeOK, CorrectionsOK, corrections

LEMMA RepeatedKeeps ==
    ASSUME IInv, Repeated
    PROVE  IInv'
<1>1. CASE Return("forced") BY <1>1, ReturnKeeps DEF Endings
<1>2. CASE ChanceToBuild /\ UNCHANGED corrections
  BY <1>2, CorrectionsKept, ChanceKeeps
<1>3. CASE ~(forcing /\ strikes = Warnings)
  <2> DEFINE strike == IF forcing THEN strikes + 1 ELSE 1
  <2>1. Warn(strike) /\ UNCHANGED corrections BY <1>3 DEF Repeated
  <2>2. strike \in 1 .. Warnings
    BY <1>3, Caps DEF IInv, RunTypeOK, BreakersOK
  <2> QED BY <2>1, <2>2, CorrectionsKept, WarnKeeps
<1> QED BY <1>1, <1>2, <1>3 DEF Repeated

LEMMA RefusedKeeps ==
    ASSUME IInv, Refused
    PROVE  IInv'
<1>1. CASE Return("forced") BY <1>1, ReturnKeeps DEF Endings
<1>2. CASE ChanceToBuild /\ UNCHANGED corrections
  BY <1>2, CorrectionsKept, ChanceKeeps
<1>3. CASE Warn(1) /\ UNCHANGED corrections
  <2>1. 1 \in 1 .. Warnings BY Caps
  <2> QED BY <1>3, <2>1, CorrectionsKept, WarnKeeps
<1> QED BY <1>1, <1>2, <1>3 DEF Refused

LEMMA MalformsKeeps ==
    ASSUME IInv,
           NEW f \in 0 .. Missings - missing, NEW m \in 0 .. Malformed + 1 - parse,
           Malforms(f, m)
    PROVE  IInv'
<1>1. CASE Return("forced") BY <1>1, ReturnKeeps DEF Endings
<1>2. CASE ~Return("forced")
  <2>1. /\ missing' = missing + f /\ parse' = parse + m
        /\ UNCHANGED <<unknown, searches, empty>>
        /\ IF missing' + parse' <= Malformed
           THEN WholeReply /\ UNCHANGED <<repeats, budget, finishing, quiet, parts, once, over>>
           ELSE IF forcing THEN ChanceToBuild ELSE Warn(1)
    BY <1>2 DEF Malforms
  <2>2. CorrectionsOK'
    BY <2>1, Caps DEF IInv, RunTypeOK, CorrectionsOK
  <2>3. CASE WholeReply /\ UNCHANGED <<repeats, budget, finishing, quiet, parts, once, over>>
    <3>1. UNCHANGED budget /\ UNCHANGED finishing BY <2>3
    <3>2. BudgetOK' /\ Charged' /\ CapIsTold' BY <3>1, UntouchedKeep
    <3>3. FlagsOK' BY Zenon, <2>3 DEF IInv, RunTypeOK, FlagsOK, repeats, finishing
    <3>4. BreakersOK'
      BY <2>3, Caps DEF IInv, RunTypeOK, BreakersOK, WholeReply, repeats, finishing
    <3>5. once' \subseteq Chances /\ over' \in {"no"} \cup Endings
      BY <2>3 DEF IInv, RunTypeOK
    <3> QED BY <2>2, <3>2, <3>3, <3>4, <3>5 DEF IInv, RunTypeOK
  <2>4. CASE ChanceToBuild BY <2>2, <2>4, ChanceKeeps
  <2>5. CASE Warn(1)
    <3>1. 1 \in 1 .. Warnings BY Caps
    <3> QED BY <2>2, <2>5, <3>1, WarnKeeps
  <2> QED BY <2>1, <2>3, <2>4, <2>5
<1> QED BY <1>1, <1>2

\* What a reply that is not taken as the answer leaves of the breakers and flags.
LEMMA ReplyKeeps ==
    ASSUME IInv, WholeReply, UNCHANGED repeats, UNCHANGED <<quiet, over>>,
           post' \in 0 .. NotFinishing, told' \in BOOLEAN, parts' \in BOOLEAN,
           once' \subseteq Chances,
           CorrectionsOK', BudgetOK', Charged', CapIsTold'
    PROVE  IInv'
<1>1. FlagsOK' BY Zenon DEF IInv, RunTypeOK, FlagsOK, repeats
<1>2. BreakersOK' BY Caps DEF IInv, RunTypeOK, BreakersOK, WholeReply, repeats
<1>3. over' \in {"no"} \cup Endings BY DEF IInv, RunTypeOK
<1> QED BY <1>1, <1>2, <1>3 DEF IInv, RunTypeOK

LEMMA Typed ==
    ASSUME IInv
    PROVE  /\ post \in 0 .. NotFinishing /\ told \in BOOLEAN /\ parts \in BOOLEAN
           /\ once \subseteq Chances /\ NotFinishing = PostRounds + 2 /\ PostRounds \in Nat
BY Zenon, Caps DEF IInv, RunTypeOK, FlagsOK, BreakersOK

\* A finishing check starts the count, unless the model was told to answer.
LEMMA CountStarts ==
    ASSUME IInv, ~told, post' = 0, UNCHANGED told
    PROVE  post' \in 0 .. NotFinishing /\ CapIsTold'
BY Typed DEF CapIsTold

LEMMA SpendKeeps ==
    ASSUME IInv, NEW moved \in BOOLEAN, SpendOne(moved)
    PROVE  BudgetOK' /\ Charged'
<1>1. spent \in Nat /\ total \in Nat /\ since \in Nat /\ since <= spent /\ spent <= Limit
      /\ mark \in {"none", "same", "moved"} /\ (mark = "moved" => since = 0)
  BY DEF IInv, RunTypeOK, BudgetOK, Charged
<1>2. Seen \in Nat /\ since <= Seen /\ Seen < Limit
  BY <1>1, Caps DEF Seen, SpendOne, CanSpend
<1>3. spent' = Seen + 1 /\ total' = total + 1 /\ since' \in {0, since + 1}
      /\ mark' \in {"same", "moved"} /\ (mark' = "moved" => since' = 0)
  BY DEF SpendOne
<1>4. BudgetOK' BY <1>1, <1>2, <1>3 DEF BudgetOK
<1>5. since' <= spent' /\ spent' <= Limit BY <1>1, <1>2, <1>3, Caps
<1>6. total' <= Limit * Factor
  <2>1. total < Limit * Factor BY DEF SpendOne, CanSpend
  <2> QED BY <1>1, <1>3, <2>1, CapOnAll
<1> QED BY <1>3, <1>4, <1>5, <1>6 DEF Charged

LEMMA RefusalKeeps ==
    ASSUME IInv, SpendNone
    PROVE  BudgetOK' /\ Charged'
<1>1. spent \in Nat /\ since \in Nat /\ since <= spent /\ spent <= Limit
      /\ (mark = "moved" => since = 0)
  BY DEF IInv, RunTypeOK, BudgetOK, Charged
<1>2. Seen \in Nat /\ since <= Seen /\ Seen <= Limit BY <1>1, Caps DEF Seen
<1>3. spent' = Seen /\ mark' = "same" /\ total' = total /\ since' = since BY DEF SpendNone
<1> QED BY <1>2, <1>3 DEF IInv, RunTypeOK, BudgetOK, Charged

LEMMA AskedKeeps ==
    ASSUME IInv, MayHaveAsked
    PROVE  BudgetOK' /\ Charged'
<1>1. CASE UNCHANGED budget
  BY <1>1 DEF IInv, RunTypeOK, BudgetOK, Charged, budget
<1>2. CASE SpendNone BY <1>2, RefusalKeeps
<1> QED BY <1>1, <1>2 DEF MayHaveAsked

LEMMA EmptyReplyKeeps ==
    ASSUME IInv, NEW pending \in BOOLEAN, EmptyReply(pending)
    PROVE  IInv'
<1>1. BudgetOK' /\ Charged'
  <2>1. CASE pending
    <3>1. SpendOne(FALSE) BY <2>1 DEF EmptyReply
    <3> QED BY <3>1, SpendKeeps
  <2>2. CASE ~pending
    <3>1. UNCHANGED budget /\ UNCHANGED finishing BY <2>2 DEF EmptyReply
    <3> QED BY <3>1, UntouchedKeep
  <2> QED BY <2>1, <2>2
<1>2. post' = post /\ told' = told /\ parts' = parts /\ once' = once
  BY DEF EmptyReply, finishing
<1>3. CapIsTold' BY <1>2 DEF IInv, CapIsTold
<1>4. CorrectionsOK' BY DEF EmptyReply, IInv, RunTypeOK, CorrectionsOK
<1> QED BY <1>1, <1>2, <1>3, <1>4, Typed, ReplyKeeps DEF EmptyReply

LEMMA InterveneKeeps ==
    ASSUME IInv, NEW what \in Chances, Intervene(what)
    PROVE  IInv'
<1>1. BudgetOK' /\ Charged'
  <2>1. MayHaveAsked BY DEF Intervene, MayHaveAsked
  <2> QED BY <2>1, AskedKeeps
<1>2. post' \in 0 .. NotFinishing /\ told' \in BOOLEAN /\ CapIsTold'
  <2>1. CASE what = "replan"
    <3>1. post' = NotFinishing /\ told' = FALSE BY <2>1 DEF Intervene
    <3>2. told' \in BOOLEAN /\ ~told' BY <3>1, Zenon
    <3>3. post' \in 0 .. NotFinishing /\ post' \notin {PostRounds, PostRounds + 1}
      BY <3>1, Caps DEF NotFinishing
    <3> QED BY <3>2, <3>3 DEF CapIsTold
  <2>2. CASE what # "replan"
    <3>1. post' = post /\ told' = told BY <2>2 DEF Intervene, finishing
    <3> QED BY <3>1, Typed DEF IInv, CapIsTold
  <2> QED BY <2>1, <2>2
<1>3. CorrectionsOK' BY CorrectionsKept DEF Intervene
<1>4. once' \subseteq Chances BY Typed DEF Intervene
<1>5. parts' \in BOOLEAN BY Zenon, Typed DEF Intervene
<1> QED BY <1>1, <1>2, <1>3, <1>4, <1>5, ReplyKeeps DEF Intervene

\* The replies that correct or accompany: no counter but their own moves.
LEMMA QuietReplyKeeps ==
    ASSUME IInv, UnknownTool \/ SpentSearch \/ Aside
    PROVE  IInv'
<1>1. WholeReply /\ UNCHANGED repeats /\ UNCHANGED budget /\ UNCHANGED finishing
      /\ UNCHANGED <<quiet, over>> /\ parts' = parts /\ once' \subseteq Chances
  BY Typed DEF UnknownTool, SpentSearch, Aside
<1>2. CorrectionsOK'
  <2>1. CASE UnknownTool BY <2>1, Caps DEF UnknownTool, IInv, RunTypeOK, CorrectionsOK
  <2>2. CASE SpentSearch BY <2>2, Caps DEF SpentSearch, IInv, RunTypeOK, CorrectionsOK
  <2>3. CASE Aside BY <2>3, CorrectionsKept DEF Aside
  <2> QED BY <2>1, <2>2, <2>3
<1>3. BudgetOK' /\ Charged' /\ CapIsTold' BY <1>1, UntouchedKeep
<1>4. post' = post /\ told' = told BY <1>1 DEF finishing
<1> QED BY <1>1, <1>2, <1>3, <1>4, Typed, ReplyKeeps

LEMMA AuditPartsKeeps ==
    ASSUME IInv, AuditParts
    PROVE  IInv'
<1>1. BudgetOK' /\ Charged' BY AskedKeeps DEF AuditParts
<1>2. CorrectionsOK' BY CorrectionsKept DEF AuditParts
<1>3. post' \in 0 .. NotFinishing /\ CapIsTold' BY CountStarts DEF AuditParts
<1>4. told' = told /\ parts' = FALSE /\ once' = once BY DEF AuditParts
<1> QED BY <1>1, <1>2, <1>3, <1>4, Typed, ReplyKeeps DEF AuditParts

LEMMA NudgeKeeps ==
    ASSUME IInv, NEW moved \in BOOLEAN, Nudge(moved)
    PROVE  IInv'
<1>1. BudgetOK' /\ Charged' BY SpendKeeps DEF Nudge
<1>2. CorrectionsOK' BY CorrectionsKept DEF Nudge
<1>3. post' \in 0 .. NotFinishing /\ CapIsTold' BY CountStarts DEF Nudge
<1>4. told' = told /\ parts' = FALSE /\ once' = once BY DEF Nudge
<1> QED BY <1>1, <1>2, <1>3, <1>4, Typed, ReplyKeeps DEF Nudge

LEMMA RoundKeeps ==
    ASSUME IInv, [RunNext]_runVars
    PROVE  IInv'
<1>1. CASE UNCHANGED runVars
  BY <1>1 DEF runVars, repeats, corrections, cutoffs, budget, finishing, IInv, RunTypeOK,
              FlagsOK, BreakersOK, CorrectionsOK, BudgetOK, Charged, CapIsTold, NotFinishing
<1>2. CASE RunNext
  <2>1. ASSUME NEW kind \in {"tool_call", "prose", "empty"}, CutOff(kind) PROVE IInv'
    BY <2>1, CutOffKeeps
  <2>2. ASSUME NEW work \in Works, NEW news \in News, Executed(work, news) PROVE IInv'
    BY <2>2, ExecutedKeeps
  <2>3. CASE Repeated BY <2>3, RepeatedKeeps
  <2>4. CASE Refused BY <2>4, RefusedKeeps
  <2>5. ASSUME NEW f \in 0 .. Missings - missing, NEW m \in 0 .. Malformed + 1 - parse,
               Malforms(f, m)
        PROVE  IInv'
    BY <2>5, MalformsKeeps
  <2>6. CASE UnknownTool \/ SpentSearch \/ Aside BY <2>6, QuietReplyKeeps
  <2>7. ASSUME NEW pending \in BOOLEAN, EmptyReply(pending) PROVE IInv'
    BY <2>7, EmptyReplyKeeps
  <2>8. ASSUME NEW what \in Chances, Intervene(what) PROVE IInv'
    BY <2>8, InterveneKeeps
  <2>9. CASE AuditParts BY <2>9, AuditPartsKeeps
  <2>10. ASSUME NEW moved \in BOOLEAN, Nudge(moved) PROVE IInv'
    BY <2>10, NudgeKeeps
  <2>11. CASE TakeAnswer BY <2>11, ReturnKeeps DEF TakeAnswer, Endings
  <2>12. CASE Stopped BY <2>12, ReturnKeeps DEF Stopped, Endings
  <2> QED BY <1>2, <2>1, <2>2, <2>3, <2>4, <2>5, <2>6, <2>7, <2>8, <2>9, <2>10, <2>11, <2>12
          DEF RunNext, LoopRound
<1> QED BY <1>1, <1>2

\* Every counter of the loop stays in its bounds, whatever the limits.
THEOREM RunTypeCorrect == RunSpec => []RunTypeOK
<1>1. IInv => RunTypeOK BY DEF IInv
<1> QED BY RunStarts, RoundKeeps, <1>1, PTL DEF RunSpec

\* The completion checks ask for at most Limit continuations without progress and
\* Limit * Factor in all (ContinuationBudget).
THEOREM NudgesBounded == RunSpec => []NudgesAreBounded
<1>1. IInv => NudgesAreBounded
  BY Caps DEF IInv, RunTypeOK, BudgetOK, Charged, NudgesAreBounded
<1> QED BY RunStarts, RoundKeeps, <1>1, PTL DEF RunSpec

\* The cap on finishing checks is announced PostRounds rounds after the last check
\* or change, and what the backstop cuts off was told to answer.
THEOREM CapAnnounced == RunSpec => []CapIsTold
<1>1. IInv => CapIsTold BY DEF IInv
<1> QED BY RunStarts, RoundKeeps, <1>1, PTL DEF RunSpec

-----------------------------------------------------------------------------
(***************************************************************************)
(* How long a run can go on without news                                   *)
(***************************************************************************)

\* What is left of each allowance, in the order in which the rounds that use one
\* give others back: none gives back what stands before it.
Chance(what) == IF what \in Chances \ once THEN 1 ELSE 0
Left ==
    << MaxCuts - cuts,
       Limit * Factor - total,
       Chance("diagnosis") + Chance("replan") + Chance("plan") + Chance("build"),
       2 * StallRounds - quiet,
       IF parts THEN 1 ELSE 0,
       Missings + Malformed + 1 - (missing + parse),
       Unknowns - unknown,
       1 - empty,
       Warnings - IF forcing THEN strikes ELSE 0 >>

\* How much there is of each at most.
Full == << MaxCuts, Limit * Factor, 4, 2 * StallRounds, 1, Missings + Malformed + 1,
           Unknowns, 1, Warnings >>

Fits(a) == \A i \in 1 .. 9 : a[i] \in 0 .. Full[i]

\* Of the allowances, the first in which b differs from a is smaller in b.
Shrinks(b, a) ==
    \E i \in 1 .. 9 : b[i] < a[i] /\ \A j \in 1 .. i - 1 : b[j] = a[j]

\* Loops of prose are cut-offs too.
ProseIsCut == prose <= cuts

LEMMA ProseCut ==
    ASSUME IInv, ProseIsCut, [RunNext]_runVars
    PROVE  ProseIsCut'
<1> USE DEF ProseIsCut
<1>0. cuts \in Nat /\ prose \in Nat
  BY Caps DEF IInv, RunTypeOK, BreakersOK
<1>1. \/ UNCHANGED cutoffs
      \/ cuts' = 0 /\ prose' = 0
      \/ cuts' = cuts + 1 /\ prose' \in {0, prose + 1}
  <2>1. CASE UNCHANGED runVars
    BY <2>1 DEF runVars
  <2>2. CASE \E kind \in {"tool_call", "prose", "empty"} : CutOff(kind)
    BY <2>2 DEF CutOff, Return
  <2>3. CASE \/ \E work \in Works, news \in News : Executed(work, news)
             \/ Repeated \/ Refused
             \/ \E f \in 0 .. Missings - missing, m \in 0 .. Malformed + 1 - parse : Malforms(f, m)
    BY <2>3 DEF Executed, Repeated, Refused, Malforms, Warn, ChanceToBuild, Return, WholeReply
  <2>4. CASE \/ UnknownTool \/ SpentSearch \/ AuditParts \/ Aside \/ TakeAnswer \/ Stopped
             \/ \E pending \in BOOLEAN : EmptyReply(pending)
             \/ \E what \in Chances : Intervene(what)
             \/ \E moved \in BOOLEAN : Nudge(moved)
    BY <2>4 DEF UnknownTool, SpentSearch, AuditParts, Aside, TakeAnswer, Stopped, EmptyReply,
                Intervene, Nudge, Return, WholeReply
  <2> QED BY <2>1, <2>2, <2>3, <2>4 DEF RunNext, LoopRound
<1> QED BY <1>0, <1>1 DEF cutoffs

\* The counters behind the allowances.
LEMMA Counters ==
    ASSUME IInv
    PROVE  /\ cuts \in 0 .. MaxCuts - 1 /\ total \in Nat /\ total <= Limit * Factor
           /\ quiet \in 0 .. 2 * StallRounds /\ parts \in BOOLEAN /\ forcing \in BOOLEAN
           /\ missing \in 0 .. Missings /\ parse \in 0 .. Malformed + 1
           /\ unknown \in 0 .. Unknowns /\ empty \in 0 .. 1 /\ strikes \in 0 .. Warnings
BY Caps, Zenon DEF IInv, RunTypeOK, FlagsOK, BreakersOK, CorrectionsOK, BudgetOK, Charged

LEMMA LeftFits == ASSUME IInv PROVE Fits(Left)
<1> SUFFICES ASSUME NEW i \in 1 .. 9 PROVE Left[i] \in 0 .. Full[i]
  BY DEF Fits
<1>1. Left[1] \in 0 .. Full[1] BY Counters, Caps DEF Left, Full
<1>2. Left[2] \in 0 .. Full[2] BY Counters, CapOnAll DEF Left, Full
<1>3. Left[3] \in 0 .. Full[3] BY DEF Left, Full, Chance
<1>4. Left[4] \in 0 .. Full[4] BY Counters, Caps DEF Left, Full
<1>5. Left[5] \in 0 .. Full[5] BY Counters DEF Left, Full
<1>6. Left[6] \in 0 .. Full[6] BY Counters, Caps DEF Left, Full
<1>7. Left[7] \in 0 .. Full[7] BY Counters, Caps DEF Left, Full
<1>8. Left[8] \in 0 .. Full[8] BY Counters DEF Left, Full
<1>9. Left[9] \in 0 .. Full[9] BY Counters, Caps DEF Left, Full
<1> QED BY <1>1, <1>2, <1>3, <1>4, <1>5, <1>6, <1>7, <1>8, <1>9

\* The first allowance that a round uses is the one it pays with.
LEMMA Pays ==
    ASSUME NEW i \in 1 .. 9, Left'[i] < Left[i], \A j \in 1 .. i - 1 : Left'[j] = Left[j]
    PROVE  Shrinks(Left', Left)
BY DEF Shrinks

\* A whole reply that is no news follows no cut-off.
LEMMA NothingCut ==
    ASSUME IInv, ProseIsCut, WholeReply, ~NewsComes
    PROVE  cuts = 0 /\ prose = 0 /\ UNCHANGED cutoffs
<1>1. cuts \in Nat /\ prose \in Nat
  BY Caps DEF IInv, RunTypeOK, BreakersOK
<1>2. cuts' = 0 /\ ~(cuts' < cuts)
  BY Zenon DEF WholeReply, NewsComes
<1> QED BY <1>1, <1>2 DEF WholeReply, ProseIsCut, cutoffs

LEMMA CutOffPays ==
    ASSUME IInv, NEW kind, CutOff(kind), over' = "no"
    PROVE  Shrinks(Left', Left)
<1>1. cuts' = cuts + 1
  BY DEF CutOff, Return
<1>2. Left'[1] < Left[1]
  BY <1>1, Counters, Caps DEF Left
<1> QED BY <1>2, Pays

\* A round of old calls brings the stall watch nearer; what it gives back stands
\* after that.
LEMMA ExecutedPays ==
    ASSUME IInv, ProseIsCut, NEW work \in Works, Executed(work, "none"), over' = "no", ~NewsComes
    PROVE  Shrinks(Left', Left)
<1>1. WholeReply /\ total' = total /\ once' = once /\ quiet' = quiet + 1
  BY DEF Executed, Return, Progress
<1>2. cuts' = cuts
  BY <1>1, NothingCut DEF cutoffs
<1>3. Left'[4] < Left[4]
  BY <1>1, Counters, Caps DEF Left
<1>4. Left'[1] = Left[1] /\ Left'[2] = Left[2] /\ Left'[3] = Left[3]
  BY <1>1, <1>2 DEF Left, Chance
<1> QED BY <1>3, <1>4, Pays

\* The chance to build is used once.
LEMMA ChancePays ==
    ASSUME IInv, ProseIsCut, ChanceToBuild, ~NewsComes
    PROVE  Shrinks(Left', Left)
<1>1. total' = total /\ once' = once \cup {"build"} /\ "build" \in Chances \ once
  BY DEF ChanceToBuild, budget
<1>2. cuts' = cuts
  BY NothingCut DEF cutoffs, ChanceToBuild
<1>3. Left'[3] < Left[3]
  BY <1>1 DEF Left, Chance
<1>4. Left'[1] = Left[1] /\ Left'[2] = Left[2]
  BY <1>1, <1>2 DEF Left
<1> QED BY <1>3, <1>4, Pays

\* Each warning is a step towards the forced answer.
LEMMA WarnPays ==
    ASSUME IInv, ProseIsCut, NEW strike \in Nat, Warn(strike), UNCHANGED corrections,
           strike = IF forcing THEN strikes + 1 ELSE 1, ~NewsComes
    PROVE  Shrinks(Left', Left)
<1>1. /\ total' = total /\ once' = once /\ quiet' = quiet /\ parts' = parts
      /\ missing' = missing /\ parse' = parse /\ unknown' = unknown /\ empty' = empty
      /\ forcing' = TRUE /\ strikes' = strike
  BY DEF Warn, budget, corrections
<1>2. cuts' = cuts
  BY NothingCut DEF cutoffs, Warn
<1>3. Left'[9] < Left[9]
  BY <1>1, Counters, Caps DEF Left
<1>4. /\ Left'[1] = Left[1] /\ Left'[2] = Left[2] /\ Left'[3] = Left[3] /\ Left'[4] = Left[4]
      /\ Left'[5] = Left[5] /\ Left'[6] = Left[6] /\ Left'[7] = Left[7] /\ Left'[8] = Left[8]
  BY <1>1, <1>2 DEF Left, Chance
<1> QED BY <1>3, <1>4, Pays

LEMMA MalformsPays ==
    ASSUME IInv, ProseIsCut, NEW f \in 0 .. Missings - missing,
           NEW m \in 0 .. Malformed + 1 - parse, Malforms(f, m), over' = "no", ~NewsComes
    PROVE  Shrinks(Left', Left)
<1>1. CASE ChanceToBuild
  BY <1>1, ChancePays
<1>2. CASE ~ChanceToBuild
  <2>1. /\ missing' = missing + f /\ parse' = parse + m /\ f + m > 0 /\ WholeReply
        /\ total' = total /\ once' = once /\ quiet' = quiet /\ parts' = parts
    BY <1>2 DEF Malforms, Return, Warn, budget
  <2>2. cuts' = cuts
    BY <2>1, NothingCut DEF cutoffs
  <2>3. Left'[6] < Left[6]
    BY <2>1, Counters, Caps DEF Left
  <2>4. /\ Left'[1] = Left[1] /\ Left'[2] = Left[2] /\ Left'[3] = Left[3] /\ Left'[4] = Left[4]
        /\ Left'[5] = Left[5]
    BY <2>1, <2>2 DEF Left, Chance
  <2> QED BY <2>3, <2>4, Pays
<1> QED BY <1>1, <1>2

LEMMA UnknownPays ==
    ASSUME IInv, ProseIsCut, UnknownTool, ~NewsComes
    PROVE  Shrinks(Left', Left)
<1>1. /\ total' = total /\ once' = once /\ quiet' = quiet /\ parts' = parts
      /\ missing' = missing /\ parse' = parse /\ unknown' = unknown + 1 /\ WholeReply
  BY DEF UnknownTool, budget
<1>2. cuts' = cuts
  BY <1>1, NothingCut DEF cutoffs
<1>3. Left'[7] < Left[7]
  BY <1>1, Counters, Caps DEF Left
<1>4. /\ Left'[1] = Left[1] /\ Left'[2] = Left[2] /\ Left'[3] = Left[3] /\ Left'[4] = Left[4]
      /\ Left'[5] = Left[5] /\ Left'[6] = Left[6]
  BY <1>1, <1>2 DEF Left, Chance
<1> QED BY <1>3, <1>4, Pays

\* A continuation is one of Limit * Factor.
LEMMA SpendPays ==
    ASSUME IInv, ProseIsCut, NEW moved \in BOOLEAN, SpendOne(moved), WholeReply, ~NewsComes
    PROVE  Shrinks(Left', Left)
<1>1. total' = total + 1 /\ cuts' = cuts
  BY NothingCut DEF SpendOne, cutoffs
<1>2. Left'[2] < Left[2]
  BY <1>1, Counters, CapOnAll DEF Left
<1>3. Left'[1] = Left[1]
  BY <1>1 DEF Left
<1> QED BY <1>2, <1>3, Pays

LEMMA EmptyPays ==
    ASSUME IInv, ProseIsCut, NEW pending \in BOOLEAN, EmptyReply(pending), ~NewsComes
    PROVE  Shrinks(Left', Left)
<1>1. CASE pending
  BY <1>1, SpendPays DEF EmptyReply
<1>2. CASE ~pending
  <2>1. /\ total' = total /\ once' = once /\ quiet' = quiet /\ parts' = parts
        /\ missing' = missing /\ parse' = parse /\ unknown' = unknown
        /\ empty = 0 /\ empty' = 1 /\ WholeReply
    BY <1>2 DEF EmptyReply, budget
  <2>2. cuts' = cuts
    BY <2>1, NothingCut DEF cutoffs
  <2>3. Left'[8] < Left[8]
    BY <2>1 DEF Left
  <2>4. /\ Left'[1] = Left[1] /\ Left'[2] = Left[2] /\ Left'[3] = Left[3] /\ Left'[4] = Left[4]
        /\ Left'[5] = Left[5] /\ Left'[6] = Left[6] /\ Left'[7] = Left[7]
    BY <2>1, <2>2 DEF Left, Chance
  <2> QED BY <2>3, <2>4, Pays
<1> QED BY <1>1, <1>2

LEMMA IntervenePays ==
    ASSUME IInv, ProseIsCut, NEW what \in Chances, Intervene(what), ~NewsComes
    PROVE  Shrinks(Left', Left)
<1>1. once' = once \cup {what} /\ what \in Chances \ once /\ WholeReply
  BY DEF Intervene
<1>2. total' = total
  BY DEF Intervene, MayHaveAsked, SpendNone, budget
<1>3. cuts' = cuts
  BY <1>1, NothingCut DEF cutoffs
<1>4. what \in {"diagnosis", "replan", "plan", "build"}
  BY RunCapsAssumption DEF RunCapsAssumption
<1>5. Left'[3] < Left[3]
  BY <1>1, <1>4 DEF Left, Chance
<1>6. Left'[1] = Left[1] /\ Left'[2] = Left[2]
  BY <1>2, <1>3 DEF Left
<1> QED BY <1>5, <1>6, Pays

\* An audit of what was written in parts takes the parts with it; only a round of
\* calls brings others.
LEMMA AuditPays ==
    ASSUME IInv, ProseIsCut, AuditParts, ~NewsComes
    PROVE  Shrinks(Left', Left)
<1>1. /\ once' = once /\ quiet' = quiet /\ parts = TRUE /\ parts' = FALSE /\ WholeReply
  BY Counters DEF AuditParts
<1>2. total' = total
  BY DEF AuditParts, MayHaveAsked, SpendNone, budget
<1>3. cuts' = cuts
  BY <1>1, NothingCut DEF cutoffs
<1>4. Left'[5] < Left[5]
  BY <1>1 DEF Left
<1>5. Left'[1] = Left[1] /\ Left'[2] = Left[2] /\ Left'[3] = Left[3] /\ Left'[4] = Left[4]
  BY <1>1, <1>2, <1>3 DEF Left, Chance
<1> QED BY <1>4, <1>5, Pays

LEMMA RoundPays ==
    ASSUME IInv, ProseIsCut, [RunNext]_runVars, over' = "no", ~NewsComes
    PROVE  Shrinks(Left', Left) \/ UNCHANGED runVars
<1>1. ASSUME NEW kind \in {"tool_call", "prose", "empty"}, CutOff(kind) PROVE Shrinks(Left', Left)
  BY <1>1, CutOffPays
<1>2. ASSUME NEW work \in Works, NEW news \in News, Executed(work, news) PROVE Shrinks(Left', Left)
  <2>1. news = "none"
    BY <1>2, Zenon DEF NewsComes
  <2> QED BY <1>2, <2>1, ExecutedPays
<1>3. CASE Repeated
  <2>1. CASE ChanceToBuild BY <2>1, ChancePays
  <2>2. CASE Warn(IF forcing THEN strikes + 1 ELSE 1) /\ UNCHANGED corrections
    BY <2>2, WarnPays, Counters
  <2> QED BY <1>3, <2>1, <2>2 DEF Repeated, Return
<1>4. CASE Refused
  <2>1. CASE ChanceToBuild BY <2>1, ChancePays
  <2>2. CASE ~forcing /\ Warn(1) /\ UNCHANGED corrections
    BY <2>2, WarnPays
  <2> QED BY <1>4, <2>1, <2>2 DEF Refused, Return
<1>5. ASSUME NEW f \in 0 .. Missings - missing, NEW m \in 0 .. Malformed + 1 - parse,
             Malforms(f, m)
      PROVE  Shrinks(Left', Left)
  BY <1>5, MalformsPays
<1>6. CASE UnknownTool BY <1>6, UnknownPays
<1>7. CASE SpentSearch BY <1>7, Zenon DEF NewsComes
<1>8. ASSUME NEW pending \in BOOLEAN, EmptyReply(pending) PROVE Shrinks(Left', Left)
  BY <1>8, EmptyPays
<1>9. ASSUME NEW what \in Chances, Intervene(what) PROVE Shrinks(Left', Left)
  BY <1>9, IntervenePays
<1>10. CASE AuditParts BY <1>10, AuditPays
<1>11. CASE Aside
  BY <1>11, NothingCut DEF Aside, runVars
<1>12. ASSUME NEW moved \in BOOLEAN, Nudge(moved) PROVE Shrinks(Left', Left)
  BY <1>12, SpendPays DEF Nudge
<1>13. CASE TakeAnswer \/ Stopped BY <1>13 DEF TakeAnswer, Stopped, Return
<1> QED BY <1>1, <1>2, <1>3, <1>4, <1>5, <1>6, <1>7, <1>8, <1>9, <1>10, <1>11, <1>12, <1>13
        DEF RunNext, LoopRound

-----------------------------------------------------------------------------
(***************************************************************************)
(* The rounds that the allowances pay for, as a number                     *)
(***************************************************************************)

\* What one of an allowance is worth in rounds: one more than all those after it
\* come to.
Worth8 == Warnings + 1
Worth7 == 2 * Worth8
Worth6 == (Unknowns + 1) * Worth7
Worth5 == (Missings + Malformed + 2) * Worth6
Worth4 == 2 * Worth5
Worth3 == (2 * StallRounds + 1) * Worth4
Worth2 == 5 * Worth3
Worth1 == (Limit * Factor + 1) * Worth2
Most == (MaxCuts + 1) * Worth1

From9(a) == a[9]
From8(a) == a[8] * Worth8 + From9(a)
From7(a) == a[7] * Worth7 + From8(a)
From6(a) == a[6] * Worth6 + From7(a)
From5(a) == a[5] * Worth5 + From6(a)
From4(a) == a[4] * Worth4 + From5(a)
From3(a) == a[3] * Worth3 + From4(a)
From2(a) == a[2] * Worth2 + From3(a)
Rounds(a) == a[1] * Worth1 + From2(a)

LEMMA TimesMonotone ==
    ASSUME NEW x \in Nat, NEW d \in Nat, NEW s \in Nat
    PROVE  x * s \in Nat /\ x * s <= (x + d) * s
<1>1. x * s \in Nat /\ d * s \in Nat
  OBVIOUS
<1>2. (x + d) * s = x * s + d * s
  OBVIOUS
<1> QED BY <1>1, <1>2

\* One more of what is worth s outweighs all that is worth less than s.
LEMMA Carries ==
    ASSUME NEW s \in Nat \ {0}, NEW n \in Nat, NEW x \in 0 .. n, NEW y \in 0 .. n,
           NEW p \in 0 .. s - 1, NEW q \in 0 .. s - 1
    PROVE  /\ (n + 1) * s \in Nat \ {0}
           /\ x * s + p \in 0 .. (n + 1) * s - 1
           /\ y * s + q \in 0 .. (n + 1) * s - 1
           /\ x < y \/ (x = y /\ p < q) => x * s + p < y * s + q
<1>1. ASSUME NEW u \in 0 .. n, NEW v \in 0 .. n + 1, u < v
      PROVE  u * s \in Nat /\ v * s \in Nat /\ u * s + s <= v * s
  <2>1. (u + 1) * s <= ((u + 1) + (v - (u + 1))) * s /\ v * s \in Nat /\ u * s \in Nat
    BY <1>1, TimesMonotone, u + 1 \in Nat, v - (u + 1) \in Nat, v \in Nat, u \in Nat, s \in Nat
  <2>2. (u + 1) * s = u * s + s
    OBVIOUS
  <2>3. (u + 1) + (v - (u + 1)) = v
    OBVIOUS
  <2> QED BY <2>1, <2>2, <2>3
<1>2. x * s + s <= (n + 1) * s /\ x * s \in Nat /\ (n + 1) * s \in Nat
  BY <1>1, n + 1 \in 0 .. n + 1
<1>3. y * s + s <= (n + 1) * s /\ y * s \in Nat
  BY <1>1, n + 1 \in 0 .. n + 1
<1>4. x < y => x * s + s <= y * s
  BY <1>1, y \in 0 .. n + 1
<1> HIDE DEF Carries
<1> DEFINE xs == x * s  ys == y * s  ns == (n + 1) * s
<1>5. xs \in Nat /\ ys \in Nat /\ ns \in Nat /\ xs + s <= ns /\ ys + s <= ns
      /\ (x < y => xs + s <= ys) /\ (x = y => xs = ys)
  BY <1>2, <1>3, <1>4
<1> HIDE DEF xs, ys, ns
<1>6. /\ ns \in Nat \ {0} /\ xs + p \in 0 .. ns - 1 /\ ys + q \in 0 .. ns - 1
      /\ x < y \/ (x = y /\ p < q) => xs + p < ys + q
  BY <1>5
<1> QED BY <1>6 DEF xs, ys, ns

LEMMA SizesOfFull ==
    /\ Full[1] = MaxCuts /\ Full[2] = Limit * Factor /\ Full[3] = 4
    /\ Full[4] = 2 * StallRounds /\ Full[5] = 1 /\ Full[6] = Missings + Malformed + 1
    /\ Full[7] = Unknowns /\ Full[8] = 1 /\ Full[9] = Warnings
BY DEF Full

\* An allowance that shrinks pays for fewer rounds.
LEMMA Counted ==
    ASSUME NEW a, NEW b, Fits(a), Fits(b)
    PROVE  Rounds(a) \in 0 .. Most - 1 /\ (Shrinks(b, a) => Rounds(b) < Rounds(a))
<1> USE DEF Fits
<1> DEFINE Below(i, r) == b[i] < a[i] \/ (b[i] = a[i] /\ r)
<1>9. /\ Worth8 \in Nat \ {0}
      /\ From9(a) \in 0 .. Worth8 - 1 /\ From9(b) \in 0 .. Worth8 - 1
      /\ b[9] < a[9] => From9(b) < From9(a)
  BY SizesOfFull, Caps DEF Worth8, From9
<1>8. /\ Worth7 \in Nat \ {0}
      /\ From8(a) \in 0 .. Worth7 - 1 /\ From8(b) \in 0 .. Worth7 - 1
      /\ Below(8, From9(b) < From9(a)) => From8(b) < From8(a)
  <2>1. a[8] \in 0 .. 1 /\ b[8] \in 0 .. 1
    BY SizesOfFull
  <2>2. Worth7 = (1 + 1) * Worth8
    BY DEF Worth7
  <2> HIDE DEF Fits
  <2> QED BY <1>9, <2>1, <2>2, Carries, 1 \in Nat DEF From8
<1>7. /\ Worth6 \in Nat \ {0}
      /\ From7(a) \in 0 .. Worth6 - 1 /\ From7(b) \in 0 .. Worth6 - 1
      /\ Below(7, From8(b) < From8(a)) => From7(b) < From7(a)
  <2>1. a[7] \in 0 .. Unknowns /\ b[7] \in 0 .. Unknowns
    BY SizesOfFull
  <2> HIDE DEF Fits
  <2> QED BY <1>8, <2>1, Carries, Caps DEF From7, Worth6
<1>6. /\ Worth5 \in Nat \ {0}
      /\ From6(a) \in 0 .. Worth5 - 1 /\ From6(b) \in 0 .. Worth5 - 1
      /\ Below(6, From7(b) < From7(a)) => From6(b) < From6(a)
  <2>1. a[6] \in 0 .. Missings + Malformed + 1 /\ b[6] \in 0 .. Missings + Malformed + 1
    BY SizesOfFull
  <2>2. Worth5 = ((Missings + Malformed + 1) + 1) * Worth6 /\ Missings + Malformed + 1 \in Nat
    BY Caps DEF Worth5
  <2> HIDE DEF Fits
  <2> QED BY <1>7, <2>1, <2>2, Carries DEF From6
<1>5. /\ Worth4 \in Nat \ {0}
      /\ From5(a) \in 0 .. Worth4 - 1 /\ From5(b) \in 0 .. Worth4 - 1
      /\ Below(5, From6(b) < From6(a)) => From5(b) < From5(a)
  <2>1. a[5] \in 0 .. 1 /\ b[5] \in 0 .. 1
    BY SizesOfFull
  <2>2. Worth4 = (1 + 1) * Worth5
    BY DEF Worth4
  <2> HIDE DEF Fits
  <2> QED BY <1>6, <2>1, <2>2, Carries, 1 \in Nat DEF From5
<1>4. /\ Worth3 \in Nat \ {0}
      /\ From4(a) \in 0 .. Worth3 - 1 /\ From4(b) \in 0 .. Worth3 - 1
      /\ Below(4, From5(b) < From5(a)) => From4(b) < From4(a)
  <2>1. a[4] \in 0 .. 2 * StallRounds /\ b[4] \in 0 .. 2 * StallRounds
    BY SizesOfFull
  <2>2. 2 * StallRounds \in Nat
    BY Caps
  <2> HIDE DEF Fits
  <2> QED BY <1>5, <2>1, <2>2, Carries DEF From4, Worth3
<1>3. /\ Worth2 \in Nat \ {0}
      /\ From3(a) \in 0 .. Worth2 - 1 /\ From3(b) \in 0 .. Worth2 - 1
      /\ Below(3, From4(b) < From4(a)) => From3(b) < From3(a)
  <2>1. a[3] \in 0 .. 4 /\ b[3] \in 0 .. 4
    BY SizesOfFull
  <2>2. Worth2 = (4 + 1) * Worth3
    BY DEF Worth2
  <2> HIDE DEF Fits
  <2> QED BY <1>4, <2>1, <2>2, Carries, 4 \in Nat DEF From3
<1>2. /\ Worth1 \in Nat \ {0}
      /\ From2(a) \in 0 .. Worth1 - 1 /\ From2(b) \in 0 .. Worth1 - 1
      /\ Below(2, From3(b) < From3(a)) => From2(b) < From2(a)
  <2>1. a[2] \in 0 .. Limit * Factor /\ b[2] \in 0 .. Limit * Factor
    BY SizesOfFull
  <2> HIDE DEF Fits
  <2> QED BY <1>3, <2>1, CapOnAll, Carries DEF From2, Worth1
<1>1. Rounds(a) \in 0 .. Most - 1 /\ (Below(1, From2(b) < From2(a)) => Rounds(b) < Rounds(a))
  <2>1. a[1] \in 0 .. MaxCuts /\ b[1] \in 0 .. MaxCuts
    BY SizesOfFull
  <2> HIDE DEF Fits
  <2>2. MaxCuts \in Nat
    BY Caps
  <2> QED BY <1>2, <2>1, <2>2, Carries DEF Rounds, Most
<1>10. ASSUME Shrinks(b, a) PROVE Rounds(b) < Rounds(a)
  <2>1. PICK i \in 1 .. 9 : b[i] < a[i] /\ \A j \in 1 .. i - 1 : b[j] = a[j]
    BY <1>10 DEF Shrinks
  <2> HIDE DEF Fits
  <2>2. i = 9 => Below(8, From9(b) < From9(a)) BY <2>1, <1>9
  <2>3. i >= 8 => Below(7, From8(b) < From8(a)) BY <2>1, <2>2, <1>8
  <2>4. i >= 7 => Below(6, From7(b) < From7(a)) BY <2>1, <2>3, <1>7
  <2>5. i >= 6 => Below(5, From6(b) < From6(a)) BY <2>1, <2>4, <1>6
  <2>6. i >= 5 => Below(4, From5(b) < From5(a)) BY <2>1, <2>5, <1>5
  <2>7. i >= 4 => Below(3, From4(b) < From4(a)) BY <2>1, <2>6, <1>4
  <2>8. i >= 3 => Below(2, From3(b) < From3(a)) BY <2>1, <2>7, <1>3
  <2>9. i >= 2 => Below(1, From2(b) < From2(a)) BY <2>1, <2>8, <1>2
  <2> QED BY <2>1, <2>9, <1>1
<1> QED BY <1>1, <1>10

\* A run without news can go on for no more rounds than its allowances pay for:
\* there are fewer than Most of them, and each round ends the run or leaves fewer,
\* whatever the model replies (the breakers of _run_agent_loop).
THEOREM RoundsArePaidFor ==
    RunSpec => [][over' = "no" /\ ~NewsComes =>
                      Rounds(Left) \in 0 .. Most - 1 /\ Rounds(Left') < Rounds(Left)]_runVars
<1> DEFINE J == IInv /\ ProseIsCut
<1>1. RunInit => J
  BY RunStarts DEF RunInit, ProseIsCut
<1>2. J /\ [RunNext]_runVars => J'
  BY RoundKeeps, ProseCut
<1>3. IInv => Fits(Left)
  BY LeftFits
<1>4. IInv' => Fits(Left')
  <2>1. IInv' => Fits(Left)'
    BY <1>3, PTL
  <2> QED BY <2>1 DEF Fits
<1>5. J /\ J' /\ [RunNext]_runVars =>
          [over' = "no" /\ ~NewsComes =>
               Rounds(Left) \in 0 .. Most - 1 /\ Rounds(Left') < Rounds(Left)]_runVars
  <2> SUFFICES ASSUME IInv, ProseIsCut, IInv', [RunNext]_runVars, ~UNCHANGED runVars,
                      over' = "no", ~NewsComes
               PROVE  Rounds(Left) \in 0 .. Most - 1 /\ Rounds(Left') < Rounds(Left)
    OBVIOUS
  <2>1. Shrinks(Left', Left)
    BY RoundPays
  <2>2. Fits(Left) /\ Fits(Left')
    BY <1>3, <1>4
  <2> QED BY <2>1, <2>2, Counted
<1> QED BY <1>1, <1>2, <1>5, PTL DEF RunSpec
=============================================================================
