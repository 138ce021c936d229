------------------------------ MODULE Curator ------------------------------
(***************************************************************************)
(* hermes-core/curator.py: when a review of the skill library is due, the  *)
(* transitions it makes by the clock, the fork that merges skills, the     *)
(* report that repairs the cron jobs, and the state file .curator_state    *)
(* that everyone reads and writes whole, without a lock.                   *)
(*                                                                         *)
(* A reviewer is a thread that runs maybe_run_curator or a review asked    *)
(* for by hand; several exist because a review goes on in a thread of its  *)
(* own while its process, or another one, starts the next.  The skill      *)
(* store, the cron store and the fork's tools are outside this repository. *)
(* Summaries, report files, counters, durations, provider resolution and   *)
(* the snapshot taken before a review are left out.                        *)
(***************************************************************************)
EXTENDS SkillRemoval, Integers, FiniteSets

CONSTANTS
    Reviewers,      \* threads that may run a review
    Consolidators,  \* bound: those whose review may have a fork
    Interval,       \* get_interval_hours
    StaleAfter,     \* get_stale_after_days
    ArchiveAfter,   \* get_archive_after_days
    FirstLibraries, \* what the library may be at first
    FirstJobs,      \* and the skills that the job lists
    Epoch,          \* the clock at first
    MaxTime,        \* bound: the clock
    MaxReviews,     \* bound: reviews begun
    MaxCalls,       \* bound: calls of one fork
    Breakable,      \* bound: what may go wrong, each once
    MaxUpsets       \* bound: what goes wrong and what the user does, together

\* stateRead, stateSave: the state file; cronRead, cronWrite: the cron store;
\* listing: curated_report after a review; raise: the skill store, during the
\* transitions; archive: archive_skill answers False; fork: the fork raises;
\* reportDir: the report's directory; crash: a review's process ends.
FaultKinds == {"stateRead", "stateSave", "cronRead", "cronWrite", "listing", "raise",
               "archive", "fork", "reportDir", "crash"}

Never == -1    \* no last_run_at
Time == 0 .. MaxTime

\* touched: the last activity, or the creation; used: use_count is not 0;
\* persisted: the usage store has a record.  An archived skill is in no listing.
Records == [state : {"active", "stale", "archived"}, touched : Time,
            used : BOOLEAN, pinned : BOOLEAN, persisted : BOOLEAN]

ASSUME CuratorAssumption ==
    /\ {Interval, StaleAfter, ArchiveAfter, MaxTime, MaxReviews, MaxCalls, MaxUpsets} \subseteq Nat
    /\ Consolidators \subseteq Reviewers
    /\ Epoch \in Time
    /\ FirstLibraries \subseteq [Skills -> Records]
    /\ FirstJobs \subseteq SUBSET Skills
    /\ Breakable \subseteq FaultKinds

VARIABLES
    clock,
    st,        \* .curator_state: when the last review began, and paused
    lib,       \* the record of each skill
    job,       \* the skills a cron job lists
    pc,        \* where each reviewer is
    mode,      \* how its review was asked for
    start,     \* when it began
    plan,      \* the skills its transitions still have to treat, and how
    copy,      \* the state file as it read it
    before,    \* the skills listed before its fork
    calls,     \* the fork's calls so far
    reviews, moves, faults,  \* what the bounds count
    reviewed,  \* ghost: when the latest review that was recorded began
    wish,      \* ghost: the pause the user can count on
    tangled,   \* ghost: a state file was written over one that was not read
    touchedUp, \* ghost: skills the user touched since a reviewer's survey
    deleted    \* ghost: skills that a fork deleted

reviewVars == <<mode, start, plan, copy, before, calls>>
world == <<clock, lib, job>>
ghosts == <<reviewed, wish, tangled, touchedUp, deleted>>
bounds == <<reviews, moves, faults>>
vars == <<clock, st, lib, job, pc, reviewVars, bounds, ghosts>>

Blank == [last |-> Never, paused |-> FALSE]
Modes == [dry : BOOLEAN, consolidate : BOOLEAN]
ModesOf(r) == {m \in Modes : m.consolidate => r \in Consolidators}
Preview == [dry |-> TRUE, consolidate |-> FALSE]
Pcs == {"idle", "transitions", "fork", "closing"}
Treatments == {"seed", "archive", "stale", "reactivate"}

Listed == {s \in Skills : lib[s].state # "archived"}

Goes(r, to) == pc' = [pc EXCEPT ![r] = to]

\* What goes wrong in a step.
Breaks(kinds) ==
    /\ kinds \subseteq Breakable /\ kinds \cap faults = {}
    /\ kinds # {} => moves + Cardinality(faults \cup kinds) <= MaxUpsets
    /\ faults' = faults \cup kinds
Fault(kind) == Breaks({kind})
Unless(holds, kind) == IF holds THEN {} ELSE {kind}

\* load_state: a file that cannot be read, or parsed, counts as an empty one.
Reading(readable) == IF readable THEN st ELSE Blank

\* save_state: a failure is not noticed.
Save(data, unread) ==
    \E saved \in BOOLEAN :
      /\ Breaks(unread \cup Unless(saved, "stateSave"))
      /\ st' = IF saved THEN data ELSE st

\* The reviewer's thread is free, or its process gone.
Rest(r) ==
    /\ Goes(r, "idle")
    /\ mode' = [mode EXCEPT ![r] = Preview]
    /\ start' = [start EXCEPT ![r] = 0]
    /\ plan' = [plan EXCEPT ![r] = <<>>]
    /\ copy' = [copy EXCEPT ![r] = Blank]
    /\ before' = [before EXCEPT ![r] = {}]
    /\ calls' = [calls EXCEPT ![r] = <<>>]
    /\ touchedUp' = [touchedUp EXCEPT ![r] = {}]

-----------------------------------------------------------------------------
(* When a review is due, and the transitions by the clock. *)

\* Mutant: a skill that was never seen before is judged at once.
VerdictUnseeded(k, now) ==
    IF k.touched <= now - ArchiveAfter /\ (k.used \/ k.touched <= now - StaleAfter) THEN "archive"
    ELSE IF k.touched <= now - StaleAfter /\ k.state = "active" THEN "stale"
    ELSE IF k.touched > now - StaleAfter /\ k.state = "stale" THEN "reactivate"
    ELSE "keep"

\* What becomes of a listed skill that nothing protects.  A never-used one is
\* not archived before StaleAfter, whatever ArchiveAfter is.
Verdict(k, now) ==
    IF ~k.persisted THEN "seed"
    ELSE IF k.touched <= now - ArchiveAfter /\ (k.used \/ k.touched <= now - StaleAfter) THEN "archive"
    ELSE IF k.touched <= now - StaleAfter /\ k.state = "active" THEN "stale"
    ELSE IF k.touched > now - StaleAfter /\ k.state = "stale" THEN "reactivate"
    ELSE "keep"

\* The protected skills and the usage report are read once, before the first
\* transition; an unreadable cron store protects nothing.
Survey(protected) ==
    LET judged == {s \in Listed \ protected : ~lib[s].pinned /\ Verdict(lib[s], clock) # "keep"}
    IN  [s \in judged |-> Verdict(lib[s], clock)]

\* run_curator_review up to its first change: a dry run makes no transitions.
Begin(r, m, unread) ==
    /\ reviews < MaxReviews
    /\ reviews' = reviews + 1
    /\ mode' = [mode EXCEPT ![r] = m]
    /\ start' = [start EXCEPT ![r] = clock]
    /\ \E protected \in IF m.dry THEN {job} ELSE {job, {}} :
         /\ Breaks(unread \cup Unless(protected = job, "cronRead"))
         /\ plan' = [plan EXCEPT ![r] = IF m.dry THEN <<>> ELSE Survey(protected)]
    /\ Goes(r, "transitions")

\* A review asked for by hand passes no gate.
AskReview(r) ==
    /\ pc[r] = "idle"
    /\ \E m \in ModesOf(r) : Begin(r, m, {})
    /\ UNCHANGED <<world, st, copy, before, calls, moves, ghosts>>

Due(last) == clock - last >= Interval

\* maybe_run_curator: is_paused and should_run_now each read the state file.
\* The first sight of a library puts its review off by one interval; a caller
\* that was not idle for long enough goes away, and does nothing.
Tick(r) ==
    /\ pc[r] = "idle" /\ reviews < MaxReviews
    /\ \E first, second \in BOOLEAN :
         LET data == Reading(second)
             unread == Unless(first /\ second, "stateRead")
         IN  /\ ~Reading(first).paused
             /\ \/ /\ data.last = Never
                   /\ Save([data EXCEPT !.last = clock], unread)
                   /\ UNCHANGED <<reviews, mode, start, plan, pc>>
                \/ /\ data.last # Never /\ Due(data.last)
                   /\ \E m \in ModesOf(r) : ~m.dry /\ Begin(r, m, unread)
                   /\ UNCHANGED st
    /\ UNCHANGED <<world, copy, before, calls, moves, ghosts>>

Treated(s, treatment) ==
    CASE treatment = "seed" ->
             IF lib[s].persisted THEN lib[s] ELSE [lib[s] EXCEPT !.persisted = TRUE, !.touched = clock]
      [] treatment = "archive" -> [lib[s] EXCEPT !.state = "archived"]
      [] treatment = "stale" -> [lib[s] EXCEPT !.state = "stale"]
      [] treatment = "reactivate" -> [lib[s] EXCEPT !.state = "active"]

\* One row of the report, in any order.  What happened to the skill since the
\* report was read is not looked at; one that is no longer there stays so.
Transition(r) ==
    /\ pc[r] = "transitions"
    /\ \E s \in DOMAIN plan[r] :
         /\ \/ /\ lib' = IF s \in Listed THEN [lib EXCEPT ![s] = Treated(s, plan[r][s])] ELSE lib
               /\ UNCHANGED faults
            \/ plan[r][s] = "archive" /\ Fault("archive") /\ UNCHANGED lib
         /\ plan' = [plan EXCEPT ![r] = [o \in DOMAIN @ \ {s} |-> @[o]]]
    /\ UNCHANGED <<clock, job, st, pc, mode, start, copy, before, calls, reviews, moves, ghosts>>

\* The skill store raises: the review ends there and is not recorded.
TransitionsRaise(r) ==
    /\ pc[r] = "transitions" /\ ~mode[r].dry
    /\ Fault("raise")
    /\ Rest(r)
    /\ UNCHANGED <<world, st, reviews, moves, reviewed, wish, tangled, deleted>>

-----------------------------------------------------------------------------
(* The record of the review, and the fork. *)

\* Mutant: only the summary is saved before the fork.
RecordedLate(r, data) == data

\* A dry run records its summary only.
Recorded(r, data) == IF mode[r].dry THEN data ELSE [data EXCEPT !.last = start[r]]

\* The review is recorded before its fork, so that a crash leaves the record.
\* _llm_pass then lists the skills: none, when they cannot be listed.
RecordRun(r) ==
    /\ pc[r] = "transitions" /\ DOMAIN plan[r] = {}
    /\ \E readable, listed \in BOOLEAN :
         LET state == Recorded(r, Reading(readable))
         IN  /\ Save(state, Unless(readable, "stateRead") \cup Unless(listed, "listing"))
             /\ copy' = [copy EXCEPT ![r] = state]
             /\ before' = [before EXCEPT ![r] = IF listed THEN Listed ELSE {}]
    /\ Goes(r, "fork")
    /\ reviewed' = IF mode[r].dry \/ reviewed > start[r] THEN reviewed ELSE start[r]
    /\ tangled' = (tangled \/ (~mode[r].dry /\ reviewed > start[r]))
    /\ UNCHANGED <<world, mode, start, plan, calls, reviews, moves, wish, touchedUp, deleted>>

\* The fork merges the content of a skill into another, or deletes a skill and
\* says where its content went.  A dry run is told to do neither.
ForkCall(r) ==
    /\ pc[r] = "fork" /\ mode[r].consolidate /\ ~mode[r].dry /\ Len(calls[r]) < MaxCalls
    /\ \/ \E s \in Listed, about \in Skills, clipped \in BOOLEAN :
            /\ about # s
            /\ calls' = [calls EXCEPT ![r] = Append(@, Write(s, about, clipped))]
            /\ UNCHANGED <<lib, deleted>>
       \/ \E s \in Listed, into \in Targets :
            /\ ~lib[s].pinned /\ into # s
            /\ lib' = [lib EXCEPT ![s].state = "archived"]
            /\ calls' = [calls EXCEPT ![r] = Append(@, Delete(s, into))]
            /\ deleted' = deleted \cup {s}
    /\ UNCHANGED <<clock, job, st, pc, mode, start, plan, copy, before, bounds,
                   reviewed, wish, tangled, touchedUp>>

-----------------------------------------------------------------------------
(* The report, and the second write of the state file. *)

\* The surveys that do not know what now happens to some skills.
Meddled(skills) ==
    [r \in Reviewers |-> IF pc[r] = "transitions" THEN touchedUp[r] \cup skills ELSE touchedUp[r]]

\* What the result of the fork has of its calls: none when it raised.
Heard(r, returned) == IF returned THEN calls[r] ELSE <<>>

\* What its last answer claims of the skills that are gone.
Claims(r, returned, gone) ==
    IF returned /\ mode[r].consolidate THEN [gone -> Targets] ELSE [gone -> {Silent}]

\* Mutant: the state that the review recorded is used again.
StateAtEndRecorded(r) == copy[r]

StateAtEnd(r) == st

\* The end of _llm_pass: the state file is read before the report is written.
\* Without a directory for the report nothing is compared and no job is
\* repaired; skills that cannot be listed count as gone.
WriteRunReport(r) ==
    /\ pc[r] = "fork"
    /\ \E readable, listed \in BOOLEAN, returned \in {TRUE, ~mode[r].consolidate},
          repair \in {"done", "reportDir", "cronWrite"} :
         LET after == IF listed THEN Listed ELSE {}
             went(claims) == DiffAndClassify(before[r], after, Heard(r, returned), claims)
         IN  /\ Breaks(Unless(readable, "stateRead") \cup Unless(returned, "fork")
                       \cup Unless(listed, "listing") \cup Unless(repair = "done", repair))
             /\ copy' = [copy EXCEPT ![r] = IF readable THEN StateAtEnd(r) ELSE Blank]
             /\ \E claims \in Claims(r, returned, before[r] \ after) :
                  job' = IF repair = "done" THEN RewriteCronRefs(job, went(claims)) ELSE job
    /\ Goes(r, "closing")
    /\ before' = [before EXCEPT ![r] = {}]
    /\ calls' = [calls EXCEPT ![r] = <<>>]
    /\ touchedUp' = Meddled(job' \ job)
    /\ UNCHANGED <<clock, lib, st, mode, start, plan, reviews, moves, reviewed, wish, tangled, deleted>>

\* Duration, summary and report path go into the state read before the report.
FinishSave(r) ==
    /\ pc[r] = "closing"
    /\ Save(copy[r], {})
    /\ tangled' = (tangled \/ st # copy[r])
    /\ Rest(r)
    /\ UNCHANGED <<world, reviews, moves, reviewed, wish, deleted>>

Crash(r) ==
    /\ pc[r] # "idle"
    /\ Fault("crash")
    /\ Rest(r)
    /\ UNCHANGED <<world, st, reviews, moves, reviewed, wish, tangled, deleted>>

-----------------------------------------------------------------------------
(* The user, and the clock. *)

UserMoves ==
    /\ moves + Cardinality(faults) < MaxUpsets
    /\ moves' = moves + 1

Moved(s) ==
    /\ UserMoves
    /\ touchedUp' = Meddled({s})

UseSkill(s) ==
    /\ s \in Listed
    /\ Moved(s)
    /\ lib' = [lib EXCEPT ![s].touched = clock, ![s].used = TRUE, ![s].persisted = TRUE]
    /\ UNCHANGED <<clock, job, st, pc, reviewVars, reviews, faults, reviewed, wish, tangled, deleted>>

PinSkill(s) ==
    /\ s \in Listed
    /\ Moved(s)
    /\ lib' = [lib EXCEPT ![s].pinned = TRUE, ![s].persisted = TRUE]
    /\ UNCHANGED <<clock, job, st, pc, reviewVars, reviews, faults, reviewed, wish, tangled, deleted>>

ListInJob(s) ==
    /\ s \in Listed \ job
    /\ Moved(s)
    /\ job' = job \cup {s}
    /\ UNCHANGED <<clock, lib, st, pc, reviewVars, reviews, faults, reviewed, wish, tangled, deleted>>

\* set_paused.  A pause set while a reviewer is to write what it read before
\* the pause is not one to count on.
SetPaused(paused) ==
    /\ UserMoves
    /\ \E readable \in BOOLEAN :
         Save([Reading(readable) EXCEPT !.paused = paused], Unless(readable, "stateRead"))
    /\ wish' = IF ~paused THEN "free"
               ELSE IF \E r \in Reviewers : pc[r] = "closing" THEN "unsure" ELSE "paused"
    /\ UNCHANGED <<world, pc, reviewVars, reviews, reviewed, tangled, touchedUp, deleted>>

Wait ==
    /\ clock < MaxTime
    /\ clock' = clock + 1
    /\ UNCHANGED <<lib, job, st, pc, reviewVars, bounds, ghosts>>

-----------------------------------------------------------------------------
Init ==
    /\ clock = Epoch
    /\ st = Blank
    /\ lib \in FirstLibraries
    /\ job \in FirstJobs
    /\ pc = [r \in Reviewers |-> "idle"]
    /\ mode = [r \in Reviewers |-> Preview]
    /\ start = [r \in Reviewers |-> 0]
    /\ plan = [r \in Reviewers |-> <<>>]
    /\ copy = [r \in Reviewers |-> Blank]
    /\ before = [r \in Reviewers |-> {}]
    /\ calls = [r \in Reviewers |-> <<>>]
    /\ reviews = 0 /\ moves = 0 /\ faults = {}
    /\ reviewed = Never /\ wish = "free" /\ tangled = FALSE
    /\ touchedUp = [r \in Reviewers |-> {}]
    /\ deleted = {}

Review(r) ==
    \/ Tick(r) \/ AskReview(r) \/ Transition(r) \/ TransitionsRaise(r) \/ RecordRun(r)
    \/ ForkCall(r) \/ WriteRunReport(r) \/ FinishSave(r) \/ Crash(r)

User == \/ \E s \in Skills : UseSkill(s) \/ PinSkill(s) \/ ListInJob(s)
        \/ \E paused \in BOOLEAN : SetPaused(paused)

Next == (\E r \in Reviewers : Review(r)) \/ User \/ Wait

Spec == Init /\ [][Next]_vars

-----------------------------------------------------------------------------
TypeOK ==
    /\ clock \in Time
    /\ st \in [last : Time \cup {Never}, paused : BOOLEAN]
    /\ lib \in [Skills -> Records]
    /\ job \in SUBSET Skills
    /\ pc \in [Reviewers -> Pcs]
    /\ mode \in [Reviewers -> Modes]
    /\ start \in [Reviewers -> Time]
    /\ DOMAIN plan = Reviewers
    /\ \A r \in Reviewers : /\ DOMAIN plan[r] \subseteq Skills
                            /\ \A s \in DOMAIN plan[r] : plan[r][s] \in Treatments
    /\ calls \in [Reviewers -> Seq(WriteCalls \cup DeleteCalls)]
    /\ copy \in [Reviewers -> [last : Time \cup {Never}, paused : BOOLEAN]]
    /\ before \in [Reviewers -> SUBSET Skills]
    /\ reviews \in 0 .. MaxReviews /\ moves \in 0 .. MaxUpsets /\ faults \subseteq Breakable
    /\ reviewed \in Time \cup {Never} /\ wish \in {"free", "unsure", "paused"}
    /\ tangled \in BOOLEAN
    /\ deleted \subseteq Skills
    /\ touchedUp \in [Reviewers -> SUBSET Skills]

StateFileWorks == faults \cap {"stateRead", "stateSave"} = {}

(* A pause that the user sets while nobody is between reading the state file  *)
(* and writing it stays in the file until the user lifts it, through every    *)
(* later review and crash: set_paused and run_curator_review read the file    *)
(* afresh before each write.                                                  *)
PauseHolds == wish = "paused" /\ StateFileWorks => st.paused

(* An automatic review begins no sooner than one interval after the latest    *)
(* review that got as far as its fork, even when that one crashed there or is *)
(* still going on: run_curator_review records the run before the fork.        *)
ReviewsSpaced == [][
    \A r \in Reviewers :
      Tick(r) /\ pc'[r] = "transitions" /\ StateFileWorks /\ ~tangled /\ reviewed # Never
        => clock - reviewed >= Interval]_vars

(* The clock archives only skills with a record of their own, unpinned, in no *)
(* job, and out of use for the whole period, whatever other reviews and the   *)
(* user did in between, unless it was after the review had read its report.   *)
ArchiveEarned == [][
    \A r \in Reviewers, s \in Listed :
      plan'[r] # plan[r] /\ lib'[s].state = "archived" /\ s \notin touchedUp[r]
        => /\ lib[s].persisted /\ ~lib[s].pinned
           /\ clock - lib[s].touched >= ArchiveAfter
           /\ ~lib[s].used => clock - lib[s].touched >= StaleAfter
           /\ "cronRead" \notin faults => s \notin job]_vars

ReportWorks == faults \cap {"cronWrite", "listing", "reportDir"} = {}

(* When all reviews are over, no job lists a skill that its fork deleted: the     *)
(* scheduler would fail to load it (_rewrite_cron_refs).  A crash between the *)
(* delete and the report is not made good by a later review.                  *)
JobsLoadable ==
    /\ TypeOK
    /\ \A s \in job \ Listed :
         s \in deleted => ~ReportWorks \/ "crash" \in faults \/ \E r \in Reviewers : pc[r] # "idle"

(* The report changes a job only by what it finds: a skill that is there      *)
(* stays, one that this review's fork deleted with a declared target that is  *)
(* still there is replaced by the target, whatever the summary says, and      *)
(* what is put in can be loaded.                                              *)
JobsFollow == [][
    \A r \in Reviewers :
      pc[r] = "fork" /\ pc'[r] = "closing" /\ ReportWorks' /\ "fork" \notin faults'
        => /\ job \cap Listed \subseteq job'
           /\ job' \ job \subseteq Listed
           /\ \A i \in DOMAIN calls[r] :
                LET call == calls[r][i]
                IN  call.verb = "delete" /\ call.on \in job /\ call.into \in Listed
                      => call.into \in job' /\ call.on \notin job']_vars

(* No step of a review takes a skill out of a job while the skill is there:   *)
(* the report says jobs are updated so that they keep loading the right       *)
(* instructions (:767-768).                                                   *)
LiveSkillsKept == [][job \cap Listed \subseteq job']_vars

=============================================================================
