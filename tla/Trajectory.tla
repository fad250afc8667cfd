----------------------------- MODULE Trajectory -----------------------------
(***************************************************************************)
(* What a session remembers of its own work (TrajectoryState,              *)
(* trajectory.py) and what it claims of it in the answer: whether the      *)
(* changed work was tested, run, read back or left unchecked, and which    *)
(* check fails.  One step is a tool call with its bookkeeping, the check   *)
(* of one deliverable, a reminder, or the next request of the session.     *)
(* Marks of the mutation count ("passed at this count") are kept as what   *)
(* they are compared for: whether the work has changed since.              *)
(***************************************************************************)
EXTENDS Naturals, Sequences, FiniteSets

CONSTANTS Files,          \* files of the work
          Scratch,        \* throwaway files (_is_scratch_path)
          Targets,        \* the files of the work that are smoke-tested
          Names, NameOf,  \* a file's name without its folder
          CommandLines,   \* shell commands; a retry of a check is one value
          CheckRuns,      \* those that are checks (_is_check_run)
          Mentions,       \* the files a command names
          Runs,           \* the files it starts
          NoPath, NoCommand,
          MaxOperations,  \* MAX_OPERATIONS
          MaxReminders    \* MAX_VERIFICATION_REQUESTS

\* record_smoke keeps the notes of the last four names: no more are tested here.
MaxNotes == 4

Paths == Files \cup Scratch

ASSUME TrajectoryAssumption ==
    /\ Files \cap Scratch = {} /\ Targets \subseteq Files /\ CheckRuns \subseteq CommandLines
    /\ NameOf \in [Paths -> Names] /\ Cardinality({NameOf[t] : t \in Targets}) <= MaxNotes
    /\ Mentions \in [CommandLines -> SUBSET Paths] /\ Runs \in [CommandLines -> SUBSET Paths]
    /\ NoPath \notin Paths /\ NoCommand \notin CommandLines
    /\ MaxOperations \in Nat \ {0} /\ MaxReminders \in Nat

VARIABLES finished,      \* of the last operations: did each end as done?
          verification,  \* verification
          requested,     \* verification_requested
          requests,      \* verification_requests
          changes,       \* mutation_count against request_mutation_start
          written,       \* written_paths
          ranOk,         \* ran_ok_at is the present count
          checkedAt,     \* smoke_checked at the present count
          passedAt,      \* smoke_passed_at the present count
          byPage,        \* inspected_by_page_check is the present count
          failing,       \* the failing check: its command, files and page
          notes,         \* the names whose smoke note says FAILED
          unsure,        \* smoke_unverified
          grounds,       \* history: the best evidence since the work changed
          unseen,        \* history: it changed in a call that did not return
          broken,        \* history: targets whose last check failed
          reminders      \* history: reminders since the work changed

status == <<finished, verification, requested, requests>>
marks == <<changes, written, ranOk, checkedAt, passedAt, byPage>>
checks == <<failing, notes, unsure>>
history == <<grounds, unseen, broken, reminders>>
trajectoryVars == <<status, marks, checks, history>>

\* What a check's evidence is worth.
Read == 1
Ran == 2
Passed == 3

Better(old, new) == IF new > old THEN new ELSE old

None == [on |-> FALSE, command |-> NoCommand, files |-> {}, page |-> NoPath]

TrajectoryTypeOK ==
    /\ finished \in Seq(BOOLEAN) /\ Len(finished) <= MaxOperations
    /\ verification \in {"not_needed", "pending", "inspected", "verified"}
    /\ requested \in BOOLEAN /\ requests \in 0 .. MaxReminders
    /\ changes \in {"none", "before", "now"} /\ written \subseteq Paths
    /\ ranOk \in BOOLEAN /\ byPage \in BOOLEAN
    /\ passedAt \subseteq checkedAt /\ checkedAt \subseteq Targets
    /\ failing \in [on : BOOLEAN, command : CommandLines \cup {NoCommand},
                    files : SUBSET Paths, page : Targets \cup {NoPath}]
    /\ notes \subseteq Names /\ unsure \subseteq Targets
    /\ grounds \in 0 .. Passed /\ unseen \in BOOLEAN
    /\ broken \subseteq Targets /\ reminders \in Nat

StartAfresh ==
    /\ verification' = "not_needed"
    /\ requested' = FALSE /\ requests' = 0
    /\ changes' = "none" /\ written' = {}
    /\ ranOk' = FALSE /\ byPage' = FALSE /\ checkedAt' = {} /\ passedAt' = {}
    /\ failing' = None /\ notes' = {} /\ unsure' = {}
    /\ finished' = <<>>
    /\ grounds' = 0 /\ unseen' = FALSE /\ broken' = {} /\ reminders' = 0

TrajectoryInit ==
    /\ verification = "not_needed"
    /\ requested = FALSE /\ requests = 0
    /\ changes = "none" /\ written = {}
    /\ ranOk = FALSE /\ byPage = FALSE /\ checkedAt = {} /\ passedAt = {}
    /\ failing = None /\ notes = {} /\ unsure = {}
    /\ finished = <<>>
    /\ grounds = 0 /\ unseen = FALSE /\ broken = {} /\ reminders = 0

-----------------------------------------------------------------------------
(* The next request *)

Unresolved ==
    verification = "pending" \/ \E i \in DOMAIN finished : ~finished[i]

\* The reminder budget and the smoke notes are a request's own; the rest of
\* unresolved work carries over.
CarryOver ==
    /\ requests' = 0
    /\ changes' = IF changes = "now" THEN "before" ELSE changes
    /\ checkedAt' = {} /\ passedAt' = {} /\ notes' = {} /\ unsure' = {}
    /\ broken' = {}
    /\ UNCHANGED <<finished, verification, requested, written, ranOk, byPage,
                   failing, grounds, unseen, reminders>>

\* The conversation is longer than at the last request, unless it was
\* compacted in between: then the request passes for the same one.
NewRequest(longer) ==
    IF longer /\ ~Unresolved THEN StartAfresh
    ELSE IF longer THEN CarryOver
    ELSE UNCHANGED trajectoryVars

-----------------------------------------------------------------------------
(* A tool call *)

\* before_tool appends the operation, the end of the call gives its status.
\* Mutant: the list is not trimmed.
RecordedAll(done) == Append(finished, done)
Recorded(done) ==
    IF Len(finished) < MaxOperations THEN Append(finished, done)
    ELSE Append(Tail(finished), done)

\* A call as after_tool sees it.  done: neither failed nor blocked; mutated:
\* the mutation sequence moved; clean: no error in what it printed; counts:
\* a failure that is the work's, not the machine's or the sandbox's; rejected:
\* it went well and the auditor (/audit on) said that it had not.
Call(tool, done, verdict, mutated) ==
    [tool |-> tool, done |-> done, verdict |-> verdict, mutated |-> mutated,
     path |-> NoPath, command |-> NoCommand,
     clean |-> TRUE, counts |-> TRUE, rejected |-> FALSE]

WithError(o) == [o EXCEPT !.clean = FALSE]
Counting(o, k) == [o EXCEPT !.counts = k]
Refuted(o) == [o EXCEPT !.rejected = TRUE]

\* A tool that says neither that a check passed nor that it failed.
Silent(tool) == {Call(tool, d, "unknown", m) : d \in BOOLEAN, m \in BOOLEAN}
Unclean(tool) == {WithError(Call(tool, TRUE, "unknown", m)) : m \in BOOLEAN}
Passing(tool) == {Call(tool, TRUE, "passed", m) : m \in BOOLEAN}
Failing(tool, dones) ==
    {Counting(Call(tool, d, "failed", m), k) : d \in dones, m \in BOOLEAN, k \in BOOLEAN}

\* The auditor looks at calls that change something: its pass is a check that
\* the harness trusts, its fail a failure of the call.
Rejected(tool) == {Refuted(Call(tool, FALSE, "failed", m)) : m \in BOOLEAN}
Audited(tool) == Passing(tool) \cup Rejected(tool)

ReadCalls == {Call("read", d, "unknown", FALSE) : d \in BOOLEAN}
DiffCalls == {Call("diff", d, "unknown", FALSE) : d \in BOOLEAN}
WriteCalls == Silent("write") \cup Audited("write")
OtherCalls == Silent("other") \cup Audited("other")
TestCalls == Silent("tests") \cup Passing("tests") \cup Failing("tests", BOOLEAN)

\* A command whose exit status is not zero has failed, and so has a test
\* runner whose output says so.  A script that the run wrote may report that
\* its checks passed.
ShellCalls(c) ==
    Silent("shell") \cup Unclean("shell") \cup Audited("shell")
      \cup Failing("shell", IF c \in CheckRuns THEN BOOLEAN ELSE {FALSE})

\* check_app: clean says that it passed, which is no verdict.
PageCalls ==
    {Call("check_app", TRUE, "unknown", FALSE),
     WithError(Call("check_app", TRUE, "unknown", FALSE)),
     WithError(Call("check_app", FALSE, "unknown", FALSE)),
     WithError(Call("check_app", TRUE, "failed", FALSE))}

\* _runs_changed_program: starting the program that waits for a check is a
\* check of it, not one more change.
RunsChangedProgram(o) ==
    /\ o.tool = "shell" /\ o.mutated /\ (o.done \/ o.rejected) /\ verification = "pending"
    /\ Mentions[o.command] \cap written # {}

\* mutated, as after_tool is told.
Mutates(o) == o.mutated /\ ~RunsChangedProgram(o)

\* A scratch file is not the work.
ChangesWork(o) == Mutates(o) /\ o.path \notin Scratch

NowWritten(o) ==
    IF Mutates(o) /\ o.done /\ o.path # NoPath THEN written \cup {o.path} ELSE written

\* The failure a call leaves.  A check without a command is a check tool.
Fails(o) ==
    /\ o.verdict = "failed" /\ o.counts
    /\ \/ o.command = NoCommand
       \/ o.command \in CheckRuns
       \/ Runs[o.command] \cap NowWritten(o) # {}

Failure(o) ==
    [on |-> TRUE, command |-> o.command,
     files |-> IF o.command \in CommandLines \ CheckRuns THEN Runs[o.command] \cap NowWritten(o)
               ELSE {},
     page |-> IF o.tool = "check_app" THEN o.path ELSE NoPath]

\* A pass settles any failure; the same check, or a run of the file whose run
\* failed, settles its own when it prints no error; a page that passes its
\* own check settles that check (settle_check_app).
Settles(o) ==
    \/ o.verdict = "passed"
    \/ /\ o.done /\ o.verdict = "unknown" /\ o.clean /\ o.command # NoCommand
       /\ failing.command = o.command \/ Runs[o.command] \cap failing.files # {}
    \/ o.tool = "check_app" /\ o.clean /\ failing.page = o.path

FailingAfter(o) == IF Fails(o) THEN Failure(o) ELSE IF Settles(o) THEN None ELSE failing

\* _touches_changed_work, of the inspecting tools.
Touches(o) ==
    \/ o.tool = "diff"
    \/ o.tool \in {"read", "shell"} /\ written = {}
    \/ o.tool = "read" /\ \E p \in written : NameOf[p] = NameOf[o.path]
    \/ o.tool = "shell" /\ Mentions[o.command] \cap written # {}

Inspects(o) ==
    /\ verification = "pending" \/ (verification = "inspected" /\ byPage)
    /\ o.done /\ o.verdict # "failed" /\ ~Mutates(o) /\ Touches(o)

Judged(o, now) ==
    IF o.verdict = "passed"
    THEN IF now \in {"pending", "inspected"} THEN "verified" ELSE now
    ELSE IF Inspects(o) THEN "inspected" ELSE now

\* Mutant: a write that reported an error has changed nothing.
VerificationDone(o) ==
    Judged(o, IF ChangesWork(o) /\ o.done THEN "pending" ELSE verification)
VerificationAfter(o) ==
    Judged(o, IF ChangesWork(o) THEN "pending" ELSE verification)

\* Mutant: a scratch file brings the reminder back.
RequestedScratch(o) == requested /\ ~Mutates(o)
\* The reminder is due again when the work has changed.
RequestedAfter(o) == requested /\ ~ChangesWork(o)

EvidenceOf(o) ==
    IF o.verdict = "passed" THEN Passed
    ELSE IF RunsChangedProgram(o) THEN Ran
    ELSE IF Inspects(o) THEN Read ELSE 0

Succeeds(o) == o.done /\ o.verdict # "failed" /\ o.command # NoCommand
\* Mutant: any note of a script that ran is dropped, the failed ones too.
ClearedAny(o) == IF Succeeds(o) THEN Targets \cap Runs[o.command] ELSE {}
\* _clear_unverified_run: a command that ran a target settles its "not verified".
Cleared(o) == IF Succeeds(o) THEN unsure \cap Runs[o.command] ELSE {}

\* after_tool
AfterTool(o) ==
    /\ finished' = Recorded(o.done)
    /\ written' = NowWritten(o)
    /\ failing' = FailingAfter(o)
    /\ unsure' = unsure \ Cleared(o)
    /\ notes' = notes \ {NameOf[t] : t \in Cleared(o)}
    /\ verification' = VerificationAfter(o)
    /\ requested' = RequestedAfter(o)
    /\ changes' = IF Mutates(o) THEN "now" ELSE changes
    /\ ranOk' = (RunsChangedProgram(o) \/ (ranOk /\ ~Mutates(o)))
    /\ byPage' = (byPage /\ ~Mutates(o) /\ VerificationAfter(o) = verification /\ ~Inspects(o))
    /\ checkedAt' = IF Mutates(o) THEN {} ELSE checkedAt
    /\ passedAt' = IF Mutates(o) THEN {} ELSE passedAt
    /\ grounds' = Better(IF ChangesWork(o) THEN 0 ELSE grounds, EvidenceOf(o))
    /\ unseen' = (unseen /\ ~ChangesWork(o))
    /\ reminders' = IF ChangesWork(o) THEN 0 ELSE reminders
    /\ UNCHANGED <<requests, broken>>

Write(p) == \E o \in WriteCalls : AfterTool([o EXCEPT !.path = p])
ReadText(p) == \E o \in ReadCalls : AfterTool([o EXCEPT !.path = p])
Shell(c) == \E o \in ShellCalls(c) : AfterTool([o EXCEPT !.command = c])
RunTests == \E o \in TestCalls : AfterTool(o)
OtherTool == \E o \in DiffCalls \cup OtherCalls : AfterTool(o)

\* A call that never comes back: ESC in a sub-agent, or the end of the process.
\* Its operation is left running, and the next request calls it unknown.
LostCall(changed) ==
    /\ finished' = Recorded(FALSE)
    /\ grounds' = IF changed THEN 0 ELSE grounds
    /\ unseen' = (unseen \/ changed)
    /\ UNCHANGED <<verification, requested, requests, marks, checks, broken, reminders>>

-----------------------------------------------------------------------------
(* The checks of a reply, and what the answer claims *)

CheckApp(t) == \E o \in PageCalls : AfterTool([o EXCEPT !.path = t])

\* record_smoke, for a target not yet checked at the present count.  A target
\* whose check is skipped is not recorded.
StillPasses(t) == passedAt \ {t}
VerificationSmoked(t, passed) ==
    IF passed /\ verification = "pending" THEN "inspected"
    ELSE IF ~passed /\ byPage /\ verification = "inspected" /\ StillPasses(t) = {} THEN "pending"
    ELSE verification

RecordSmoke(t, result) ==
    LET passed == result = "passed"
    IN  /\ t \in Targets \cap written /\ t \notin checkedAt
        /\ checkedAt' = checkedAt \cup {t}
        /\ passedAt' = IF passed THEN passedAt \cup {t} ELSE StillPasses(t)
        /\ verification' = VerificationSmoked(t, passed)
        /\ byPage' = IF VerificationSmoked(t, passed) = verification THEN byPage ELSE passed
        /\ notes' = IF result = "failed" THEN notes \cup {NameOf[t]} ELSE notes \ {NameOf[t]}
        /\ unsure' = IF result = "unverified" THEN unsure \cup {t} ELSE unsure \ {t}
        /\ failing' = IF passed /\ failing.page = t THEN None ELSE failing
        /\ grounds' = IF passed THEN Better(grounds, Ran) ELSE grounds
        /\ broken' = IF result = "failed" THEN broken \cup {t} ELSE broken \ {t}
        /\ UNCHANGED <<finished, requested, requests, changes, written, ranOk, unseen, reminders>>

\* request_verification
Remind ==
    /\ verification = "pending" /\ ~requested /\ changes = "now" /\ requests < MaxReminders
    /\ requested' = TRUE /\ requests' = requests + 1 /\ reminders' = reminders + 1
    /\ UNCHANGED <<finished, verification, marks, checks, grounds, unseen, broken>>

\* assurance(), of a request that does not ask for a web app.
Assurance ==
    IF changes = "none" THEN "none"
    ELSE IF failing.on \/ notes # {} THEN "failed"
    ELSE IF verification = "verified" THEN "tested"
    ELSE IF passedAt # {} \/ ranOk THEN "exercised"
    ELSE IF verification = "inspected" THEN "inspected"
    ELSE "unchecked"

-----------------------------------------------------------------------------

TrajectoryNext ==
    \/ \E longer \in BOOLEAN : NewRequest(longer)
    \/ \E p \in Paths : Write(p) \/ ReadText(p)
    \/ \E c \in CommandLines : Shell(c)
    \/ RunTests \/ OtherTool
    \/ \E changed \in BOOLEAN : LostCall(changed)
    \/ \E t \in Targets : CheckApp(t)
    \/ \E t \in Targets, result \in {"passed", "failed", "unverified", "other"} : RecordSmoke(t, result)
    \/ Remind

TrajectorySpec == TrajectoryInit /\ [][TrajectoryNext]_trajectoryVars

-----------------------------------------------------------------------------
(* Properties *)

Worth(level) ==
    CASE level = "tested" -> Passed
      [] level = "exercised" -> Ran
      [] level = "inspected" -> Read
      [] OTHER -> 0

\* The answer claims no more than the best evidence gathered since the work
\* last changed, however many requests ago that was and whatever scratch files,
\* reads, runs and page checks came since; except for a change made by a call
\* that did not return.
AssuranceHasGrounds == unseen \/ Worth(Assurance) <= grounds

\* A page or script whose last check of this request failed is not hidden by
\* what was recorded of other files, unless another has its name.
FailureIsShown ==
    \A t \in broken :
        (\A u \in Targets \ {t} : NameOf[u] # NameOf[t]) => Assurance \in {"none", "failed"}

\* However the model answers a reminder, it is not asked again before it has
\* changed the work.
RemindedOnce == reminders <= 1
=============================================================================
