------------------------------ MODULE AgentRun ------------------------------
(***************************************************************************)
(* How a run of the main agent's loop ends (_run_agent_loop, engine.py, at *)
(* depth 0): the breakers, retry allowances and budgets that a reply of    *)
(* the model meets, and which of them each kind of round gives back.  One  *)
(* step is a round.  What the model replies, and what its calls bring, is  *)
(* free; the ceilings of the whole run (rounds, tokens, time) and ESC are  *)
(* Stopped.                                                                *)
(*                                                                         *)
(* The names carry a Run where a module composed with this one uses them.  *)
(***************************************************************************)
EXTENDS Naturals

CONSTANTS Limit,       \* max_completion_continuations; 0: no completion checks
          Factor,      \* TOTAL_CONTINUATION_FACTOR
          PostRounds,  \* max_post_check_rounds; 0: no cap
          StallRounds, \* STALL_ROUNDS
          MaxCuts,     \* length_cutoff_max_retries
          MaxProse,    \* PROSE_CUTOFF_MAX
          Unknowns,    \* corrections of an unknown tool, in a row
          Searches,    \* corrections of a search whose allowance is spent
          Missings,    \* corrections of a call without its arguments
          Malformed,   \* MALFORMED_CALL_RETRIES
          Warnings,    \* Len(REPEAT_WARNINGS)
          Chances      \* the one-time interventions the request gives cause for

ASSUME RunCapsAssumption ==
    /\ Limit \in Nat /\ PostRounds \in Nat /\ Searches \in Nat
    /\ {Factor, StallRounds, MaxCuts, MaxProse, Unknowns, Missings, Malformed, Warnings}
           \subseteq Nat \ {0}
    /\ Chances \subseteq {"diagnosis", "replan", "plan", "build"}

VARIABLES forcing,     \* the model was told to stop repeating itself
          strikes,     \* repeat_strikes
          unknown,     \* unknown_retries
          searches,    \* search_corrections, up to Searches
          missing,     \* missing_args_retries
          parse,       \* parse_error_retries, up to Malformed + 1
          empty,       \* empty_retries, up to 1
          cuts,        \* length_retries
          prose,       \* prose_cutoffs
          spent,       \* ContinuationBudget.spent
          total,       \* ContinuationBudget.total
          mark,        \* progress since its _mark was taken ("none": not taken)
          since,       \* history: nudges since the budget last saw progress
          post,        \* post_check_rounds
          told,        \* post_check_told
          quiet,       \* _StallWatch.quiet
          parts,       \* _pending_chunk_audits is not empty
          once,        \* the one-time interventions that are used up
          over         \* how the run ended

repeats == <<forcing, strikes>>
corrections == <<unknown, searches, missing, parse, empty>>
cutoffs == <<cuts, prose>>
budget == <<spent, total, mark, since>>
finishing == <<post, told>>
runVars == <<repeats, corrections, cutoffs, budget, finishing, quiet, parts, once, over>>

\* post_check_rounds is None until a finishing check starts the count.
NotFinishing == PostRounds + 2

Works == {"none", "tested", "changed"}
News == {"none", "new", "moved"}
Endings == {"answer", "backstop", "stall", "forced", "cutoff", "stopped"}

FlagsOK == forcing \in BOOLEAN /\ told \in BOOLEAN /\ parts \in BOOLEAN

BreakersOK ==
    /\ strikes \in 0 .. Warnings
    /\ cuts \in 0 .. MaxCuts - 1 /\ prose \in 0 .. MaxProse - 1
    /\ quiet \in 0 .. 2 * StallRounds /\ post \in 0 .. NotFinishing

CorrectionsOK ==
    /\ unknown \in 0 .. Unknowns /\ searches \in 0 .. Searches
    /\ missing \in 0 .. Missings /\ parse \in 0 .. Malformed + 1 /\ empty \in 0 .. 1

BudgetOK == spent \in Nat /\ total \in Nat /\ since \in Nat /\ mark \in {"none", "same", "moved"}

RunTypeOK ==
    /\ FlagsOK /\ BreakersOK /\ CorrectionsOK /\ BudgetOK
    /\ once \subseteq Chances /\ over \in {"no"} \cup Endings

RunInit ==
    /\ forcing = FALSE /\ strikes = 0
    /\ unknown = 0 /\ searches = 0 /\ missing = 0 /\ parse = 0 /\ empty = 0
    /\ cuts = 0 /\ prose = 0
    /\ spent = 0 /\ total = 0 /\ mark = "none" /\ since = 0
    /\ post = NotFinishing /\ told = FALSE
    /\ quiet = 0 /\ parts = FALSE /\ once = {}
    /\ over = "no"

\* The loop returns, and its variables go with it.
Return(how) ==
    /\ forcing' = FALSE /\ strikes' = 0
    /\ unknown' = 0 /\ searches' = 0 /\ missing' = 0 /\ parse' = 0 /\ empty' = 0
    /\ cuts' = 0 /\ prose' = 0
    /\ spent' = 0 /\ total' = 0 /\ mark' = "none" /\ since' = 0
    /\ post' = NotFinishing /\ told' = FALSE
    /\ quiet' = 0 /\ parts' = FALSE /\ once' = {}
    /\ over' = how

-----------------------------------------------------------------------------
\* What the loop sees when something changed: the mark moved.
Progress(moved) ==
    /\ mark' = IF moved /\ mark # "none" THEN "moved" ELSE mark
    /\ since' = IF moved THEN 0 ELSE since
    /\ UNCHANGED <<spent, total>>

\* A file whose writing was cut off may be saved as far as it came: a write, with
\* the audits of files in parts that it starts or carries out.
Salvage(kind) ==
    IF kind = "tool_call"
    THEN parts' \in BOOLEAN /\ \E moved \in BOOLEAN : Progress(moved)
    ELSE UNCHANGED <<parts, budget>>

\* Mutant: one cut-off more than allowed, and loops of prose are not counted.
CutOffOnceMore(kind) ==
    /\ cuts <= MaxCuts
    /\ cuts' = cuts + 1 /\ prose' = 0
    /\ forcing' = FALSE /\ strikes' = 0
    /\ Salvage(kind)
    /\ UNCHANGED <<corrections, finishing, quiet, once, over>>

\* A reply that reached the output limit is discarded, save the file it was
\* writing; the kind of what was cut off decides how many more there may be.
CutOff(kind) ==
    LET loops == IF kind = "prose" THEN prose + 1 ELSE 0
    IN  IF cuts + 1 >= MaxCuts \/ loops >= MaxProse
        THEN Return("cutoff")
        ELSE /\ cuts' = cuts + 1 /\ prose' = loops
             /\ forcing' = FALSE /\ strikes' = 0
             /\ Salvage(kind)
             /\ UNCHANGED <<corrections, finishing, quiet, once, over>>

\* Any other reply is stored, and the count of cut-offs starts over.
WholeReply == cuts' = 0 /\ prose' = 0

-----------------------------------------------------------------------------
\* A round of which a call was carried out.

\* _StallWatch.record: told at StallRounds, stopped at twice that.
Stalled(news) == news = "none" /\ quiet + 1 >= 2 * StallRounds

\* The count of rounds after a finishing check, which a tested change starts.
RoundsAfter(work) == IF post = NotFinishing /\ work = "tested" THEN 0 ELSE post

Capped(work) ==
    PostRounds > 0 /\ work # "changed" /\ RoundsAfter(work) = PostRounds + 1

CountRound(work) ==
    LET rounds == RoundsAfter(work)
    IN  IF PostRounds = 0 \/ rounds = NotFinishing THEN post' = rounds /\ UNCHANGED told
        ELSE IF work = "changed" THEN post' = 0 /\ told' = FALSE
        ELSE post' = rounds + 1 /\ told' = (told \/ rounds + 1 = PostRounds)

Forgive ==
    /\ forcing' = FALSE /\ strikes' = 0
    /\ unknown' = 0 /\ missing' = 0 /\ parse' = 0 /\ empty' = 0
    /\ UNCHANGED searches

\* work: a file or state changed, or what was changed stands tested; news: a call
\* was new and worked, or the progress mark moved.
Executed(work, news) ==
    IF Capped(work) THEN Return("backstop")
    ELSE IF Stalled(news) THEN Return("stall")
    ELSE /\ WholeReply
         /\ Progress(news = "moved")
         /\ CountRound(work)
         /\ Forgive
         /\ quiet' = IF news = "none" THEN quiet + 1 ELSE 0
         /\ parts' \in {parts, FALSE} \cup IF work = "changed" THEN {TRUE} ELSE {}
         /\ UNCHANGED <<once, over>>

-----------------------------------------------------------------------------
\* A round of which no call was carried out.
Warn(strike) ==
    /\ WholeReply
    /\ forcing' = TRUE /\ strikes' = strike
    /\ UNCHANGED <<budget, finishing, quiet, parts, once, over>>

\* Mutant: build_chance_used is not set.
ChanceAgain ==
    /\ "build" \in Chances
    /\ forcing' = FALSE
    /\ WholeReply
    /\ UNCHANGED <<strikes, budget, finishing, quiet, parts, once, over>>

\* A request to build that has written nothing gets one more chance.
ChanceToBuild ==
    /\ "build" \in Chances \ once
    /\ once' = once \cup {"build"} /\ forcing' = FALSE
    /\ WholeReply
    /\ UNCHANGED <<strikes, budget, finishing, quiet, parts, over>>

\* A call was only repeated: it gets every warning first.
Repeated ==
    IF forcing /\ strikes = Warnings
    THEN Return("forced") \/ (ChanceToBuild /\ UNCHANGED corrections)
    ELSE Warn(IF forcing THEN strikes + 1 ELSE 1) /\ UNCHANGED corrections

\* A call was refused.
Refused ==
    IF forcing
    THEN Return("forced") \/ (ChanceToBuild /\ UNCHANGED corrections)
    ELSE Warn(1) /\ UNCHANGED corrections

\* f calls came without their arguments, m could not be parsed.
Malforms(f, m) ==
    /\ f + m > 0
    /\ \/ /\ missing' = missing + f /\ parse' = parse + m
          /\ UNCHANGED <<unknown, searches, empty>>
          /\ IF missing' + parse' <= Malformed
             THEN WholeReply /\ UNCHANGED <<repeats, budget, finishing, quiet, parts, once, over>>
             ELSE IF forcing THEN ChanceToBuild ELSE Warn(1)
       \/ forcing /\ missing + f + parse + m > Malformed /\ Return("forced")

-----------------------------------------------------------------------------
\* A reply without a call that is offered.
UnknownTool ==
    /\ ~forcing /\ unknown < Unknowns
    /\ WholeReply
    /\ unknown' = unknown + 1
    /\ UNCHANGED <<repeats, searches, missing, parse, empty, budget, finishing, quiet, parts, once, over>>

\* The search tool, after its allowance: either allowance lets it be corrected,
\* and only its own is used.  Past Searches the count makes no difference, and
\* such a correction changes nothing.
SpentSearch ==
    /\ ~forcing /\ (unknown < Unknowns \/ searches < Searches)
    /\ WholeReply
    /\ searches' = IF searches < Searches THEN searches + 1 ELSE searches
    /\ once' \in {once, once \cup ({"build"} \cap Chances)}
    /\ UNCHANGED <<repeats, unknown, missing, parse, empty, budget, finishing, quiet, parts, over>>

\* Mutant: every look at the budget hands a slot back.
SeenAnyway == IF mark # "none" /\ spent > 0 THEN spent - 1 ELSE spent

\* ContinuationBudget.observe: progress since the last nudge hands its slot back.
Seen == IF mark = "moved" /\ spent > 0 THEN spent - 1 ELSE spent

CanSpend == Limit > 0 /\ Seen < Limit /\ total < Limit * Factor

\* ContinuationBudget.spend.  The mark is the one taken before the checks: what
\* they mark as done counts as progress the next time.
SpendOne(moved) ==
    /\ CanSpend
    /\ spent' = Seen + 1 /\ total' = total + 1
    /\ mark' = IF moved THEN "moved" ELSE "same"
    /\ since' = IF moved THEN 0 ELSE since + 1

\* ...and when nothing is left: the progress is seen all the same.
SpendNone == ~CanSpend /\ Limit > 0 /\ spent' = Seen /\ mark' = "same" /\ UNCHANGED <<total, since>>

\* With work pending an empty reply costs a continuation; without, one is free.
EmptyReply(pending) ==
    /\ ~forcing
    /\ WholeReply
    /\ IF pending THEN SpendOne(FALSE) ELSE empty = 0 /\ UNCHANGED budget
    /\ empty' = 1
    /\ UNCHANGED <<repeats, unknown, searches, missing, parse, finishing, quiet, parts, once, over>>

\* An empty reply with work pending asks the budget, and goes on when it is spent.
MayHaveAsked == UNCHANGED budget \/ (~forcing /\ SpendNone)

\* What the reply is answered with once: a check of the environment it gave up
\* on, a call for another approach, and a plan that was not presented.
Intervene(what) ==
    /\ what \in Chances \ {"build"} /\ what \notin once
    /\ told => what = "diagnosis"
    /\ WholeReply
    /\ once' = once \cup {what}
    /\ IF what = "replan" THEN MayHaveAsked ELSE UNCHANGED budget
    /\ IF what = "replan" THEN post' = NotFinishing /\ told' = FALSE ELSE UNCHANGED finishing
    /\ parts' = (what # "plan" /\ parts)
    /\ UNCHANGED <<repeats, corrections, quiet, over>>

\* The auditor has something to say of a file written in parts.
AuditParts ==
    /\ ~told /\ parts
    /\ WholeReply /\ MayHaveAsked
    /\ post' = 0 /\ parts' = FALSE
    /\ UNCHANGED <<repeats, corrections, told, quiet, once, over>>

\* A reply that loads a tool's schema, or calls what plan mode forbids.  Neither
\* goes on for ever: a schema is loaded once, and the second is counted (Stopped).
Aside == WholeReply /\ UNCHANGED <<repeats, corrections, budget, finishing, quiet, parts, once, over>>

\* A completion check fails and a continuation is left; the auditor, asked first,
\* had nothing to say.
Nudge(moved) ==
    /\ ~told
    /\ WholeReply
    /\ SpendOne(moved)
    /\ post' = 0 /\ parts' = FALSE
    /\ UNCHANGED <<repeats, corrections, told, quiet, once, over>>

\* The reply is the answer: the checks pass, are off, or may ask no more.
TakeAnswer == Return("answer")

-----------------------------------------------------------------------------
\* The ceiling on rounds, a spent token, cost or time budget, a model that
\* fails, the plan-mode retry limit, a second denial, ESC.
Stopped == Return("stopped")

LoopRound ==
    \/ \E kind \in {"tool_call", "prose", "empty"} : CutOff(kind)
    \/ \E work \in Works, news \in News : Executed(work, news)
    \/ Repeated
    \/ Refused
    \/ \E f \in 0 .. Missings - missing, m \in 0 .. Malformed + 1 - parse : Malforms(f, m)
    \/ UnknownTool
    \/ SpentSearch
    \/ \E pending \in BOOLEAN : EmptyReply(pending)
    \/ \E what \in Chances : Intervene(what)
    \/ AuditParts
    \/ Aside
    \/ \E moved \in BOOLEAN : Nudge(moved)
    \/ TakeAnswer
    \/ Stopped

RunNext == over = "no" /\ LoopRound

RunSpec == RunInit /\ [][RunNext]_runVars

-----------------------------------------------------------------------------
\* What is news: a call that was new and worked, an answer after a cut-off, and
\* (see SpentSearch) a search that was refused before.
NewsComes ==
    \/ \E work \in Works, news \in News \ {"none"} : Executed(work, news)
    \/ cuts' < cuts
    \/ SpentSearch

\* A run whose rounds bring nothing new ends by itself, however the model goes
\* from repeats to malformed calls, unknown tools, empty and unfinished replies:
\* each allowance is given back by some rounds, never in a circle.  Nothing is
\* said of a model that only calls the search tool after its allowance: nothing
\* but the ceiling on rounds ends that.
RunEnds == <>[][~NewsComes]_runVars => <>(over # "no")

\* The completion checks ask for no more than Limit continuations without
\* progress, and Limit * Factor in all (ContinuationBudget's docstring).
NudgesAreBounded == since <= Limit /\ total <= Limit * Factor

\* The model is told to answer PostRounds rounds after the last finishing check or
\* change, and only then; so what the backstop cuts off was told before, and a
\* check that may still nudge is never one the model was told to stop.
CapIsTold == told <=> PostRounds > 0 /\ post \in {PostRounds, PostRounds + 1}
=============================================================================
