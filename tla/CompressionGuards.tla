------------------------- MODULE CompressionGuards -------------------------
(***************************************************************************)
(* When the context compressor may run (context_compressor.py): the failure *)
(* cooldown, the structural backoff and the anti-thrash breaker of one      *)
(* compressor, their durable copies on the session's row, and what restarts,*)
(* rotations, a worker that outlives its host's patience, other writers of  *)
(* the row and a failing store do to them.                                  *)
(*                                                                         *)
(* Time is counted in ticks that remain: a timer at 0 has run out, a        *)
(* recovery deadline at 0 is due.  The counters of strikes and fallbacks    *)
(* stop at 2, above which the code tells no values apart.  All writes of one *)
(* step reach the store or none does.                                       *)
(***************************************************************************)
EXTENDS Integers

CONSTANTS
    Window,       \* _ANTI_THRASH_RECOVERY_SECONDS
    Backoff,      \* _STRUCTURAL_NO_OP_BACKOFF_SECONDS
    LadderTop,    \* the last rung of _TIMEOUT_COOLDOWN_LADDER
    ShortPause,   \* the cooldown after a transient failure
    AbortOnFailure, \* abort_on_summary_failure
    Upsets,       \* what may go wrong around it: subset of {"store", "clock", "row"}
    MaxUpsets     \* how often (bound of the model)

ASSUME GuardsAssumption ==
    /\ {Window, Backoff, LadderTop, ShortPause} \subseteq Nat \ {0}
    /\ AbortOnFailure \in BOOLEAN
    /\ Upsets \subseteq {"store", "clock", "row"}
    /\ MaxUpsets \in Nat

VARIABLES
    c,         \* the compressor's memory
    row,       \* the session's row
    pc,        \* "idle", in compress() ("gated", "overflow", "forced"), "commit", "bookkeep"
    done,      \* what compress() is to be committed with: "ok", "fallback" or "skip"
    late,      \* a worker its host gave up on: "none", "working" or "clearing"
    since,     \* ticks since the row's breaker tripped (ghost)
    unkept,    \* a skip left a carried streak unsaved (ghost)
    stale,     \* a forced attempt began while the clock ran (ghost)
    failures, jumps, reliefs  \* upsets so far: of the store, the clock, the row

vars == <<c, row, pc, done, late, since, unkept, stale, failures, jumps, reliefs>>

Unarmed == -1
LongPause == LadderTop   \* _SUMMARY_FAILURE_COOLDOWN_SECONDS

Longer(a, b) == IF a >= b THEN a ELSE b
Shorter(a, b) == IF a <= b THEN a ELSE b
OneMore(count) == Shorter(count + 1, 2)
Rung(n) == Shorter(n, LadderTop)

Memory == [strikes : 0 .. 2, streak : 0 .. 2, deadline : Unarmed .. Window + 1,
           cooldown : 0 .. Longer(LadderTop, ShortPause), backoff : 0 .. Backoff,
           timeouts : 0 .. LadderTop, verify : BOOLEAN, unsaved : BOOLEAN, terminal : BOOLEAN]
SessionRow == [strikes : 0 .. 2, streak : 0 .. 2, deadline : Unarmed .. Window + 1,
        cooldown : 0 .. Longer(LadderTop, ShortPause), hygiene : BOOLEAN]

FreshMemory == [strikes |-> 0, streak |-> 0, deadline |-> Unarmed, cooldown |-> 0, backoff |-> 0,
                timeouts |-> 0, verify |-> FALSE, unsaved |-> FALSE, terminal |-> FALSE]
FreshRow == [strikes |-> 0, streak |-> 0, deadline |-> Unarmed, cooldown |-> 0, hygiene |-> FALSE]

\* Memory and row together, as the operators below pass them on.
Now == [mem |-> c, row |-> row]

Tripped(m) == m.strikes >= 2 \/ m.streak >= 2

-----------------------------------------------------------------------------
(* Counters, and their durable copies.  up: the store answers. *)

PersistStrikes(st, n, up) ==
    [mem |-> [st.mem EXCEPT !.strikes = n],
     row |-> IF up THEN [st.row EXCEPT !.strikes = n] ELSE st.row]

RecordVerdict(st, n, up) == IF n = st.mem.strikes THEN st ELSE PersistStrikes(st, n, up)

Strike(st, up) == PersistStrikes(st, OneMore(st.mem.strikes), up)

PersistStreak(st, n, up) ==
    [mem |-> [st.mem EXCEPT !.streak = n],
     row |-> IF up THEN [st.row EXCEPT !.streak = n] ELSE st.row]

SetRecoveryDeadline(st, d, up) ==
    IF d = st.mem.deadline THEN st
    ELSE [mem |-> [st.mem EXCEPT !.deadline = d],
          row |-> IF up THEN [st.row EXCEPT !.deadline = d] ELSE st.row]

RecordCooldown(st, ticks, up) ==
    LET until == Longer(st.mem.cooldown, ticks)
    IN  [mem |-> [st.mem EXCEPT !.cooldown = until, !.unsaved = ~up],
         row |-> IF up THEN [st.row EXCEPT !.cooldown = until, !.hygiene = FALSE] ELSE st.row]

RecordTimeout(st, up) ==
    LET n == Shorter(st.mem.timeouts + 1, LadderTop)
    IN  RecordCooldown([st EXCEPT !.mem.timeouts = n], Rung(n), up)

\* What the clearing writes, once the fence was passed.
ClearCooldown(st, up) ==
    [mem |-> [st.mem EXCEPT !.cooldown = 0, !.timeouts = 0, !.unsaved = FALSE],
     row |-> IF up THEN [st.row EXCEPT !.cooldown = 0, !.hygiene = FALSE] ELSE st.row]

\* Mutant: an empty row means that the cooldown was cleared.
LoadCooldownTrusting(st, refresh) ==
    IF ~refresh /\ st.mem.cooldown > 0 THEN st
    ELSE IF st.row.cooldown = 0 \/ st.row.hygiene THEN [st EXCEPT !.mem.cooldown = 0]
    ELSE [st EXCEPT !.mem.cooldown = st.row.cooldown, !.mem.unsaved = FALSE]

\* get_active_compression_failure_cooldown, with refresh or at the binding of a
\* row.  A row the pre-agent pass wrote is no fault of the summary model.
LoadCooldown(st, refresh) ==
    IF ~refresh /\ st.mem.cooldown > 0 THEN st
    ELSE IF st.row.cooldown = 0
    THEN IF ~refresh \/ (st.mem.cooldown > 0 /\ st.mem.unsaved) THEN st
         ELSE [st EXCEPT !.mem.cooldown = 0]
    ELSE IF st.row.hygiene THEN [st EXCEPT !.mem.cooldown = 0]
    ELSE [st EXCEPT !.mem.cooldown = st.row.cooldown, !.mem.unsaved = FALSE]

LoadBreaker(st) == [st EXCEPT !.mem.strikes = st.row.strikes, !.mem.streak = st.row.streak]

RefreshDurableGuards(st, up) == IF up THEN LoadBreaker(LoadCooldown(st, TRUE)) ELSE st

Zeroed(st) == [st EXCEPT !.mem = [FreshMemory EXCEPT !.verify = st.mem.verify,
                                                     !.terminal = st.mem.terminal]]

\* Mutant: a compressor bound to a row starts with no strikes.
BindSessionStateUnstruck(st, up) ==
    IF up THEN LoadCooldown(Zeroed(st), FALSE) ELSE Zeroed(st)

BindSessionState(st, up) ==
    LET loaded == LoadBreaker(LoadCooldown(Zeroed(st), FALSE))
    IN  IF up THEN [loaded EXCEPT !.mem.deadline = st.row.deadline] ELSE Zeroed(st)

-----------------------------------------------------------------------------
(* The gate. *)

\* At the end of the window the counters drop to one strike, for one probe.
AllowProbe(st, up) ==
    LET disarmed == SetRecoveryDeadline(st, Unarmed, up)
        struck == IF disarmed.mem.strikes >= 2 THEN RecordVerdict(disarmed, 1, up) ELSE disarmed
    IN  IF struck.mem.streak >= 2 THEN PersistStreak(struck, 1, up) ELSE struck

BlockedLocally(st, ignoreCooldown, up) ==
    LET m == st.mem
    IN  IF (m.cooldown > 0 /\ ~ignoreCooldown) \/ m.backoff > 0
        THEN [blocked |-> TRUE, st |-> st]
        ELSE IF ~Tripped(m) THEN [blocked |-> FALSE, st |-> SetRecoveryDeadline(st, Unarmed, up)]
        ELSE IF m.deadline = Unarmed \/ m.deadline > Window
        THEN [blocked |-> TRUE, st |-> SetRecoveryDeadline(st, Window, up)]
        ELSE IF m.deadline = 0 THEN [blocked |-> FALSE, st |-> AllowProbe(st, up)]
        ELSE [blocked |-> TRUE, st |-> st]

GateVerdict(st, ignoreCooldown, up) ==
    LET first == BlockedLocally(st, ignoreCooldown, up)
    IN  IF ~first.blocked THEN first
        ELSE BlockedLocally(RefreshDurableGuards(first.st, up), ignoreCooldown, up)

-----------------------------------------------------------------------------
(* Steps.  Take(st) puts a pair back; the ghosts follow. *)

RowTripped == Tripped(row)

MayUpset(kind) == kind \in Upsets /\ failures + jumps + reliefs < MaxUpsets

\* The step leaves memory and row as st says; a failing store is counted.
Take(st, up) ==
    /\ up \/ MayUpset("store")
    /\ failures' = IF up THEN failures ELSE failures + 1
    /\ \E next \in {st} :
          /\ c' = next.mem
          /\ row' = next.row
          /\ since' = IF RowTripped /\ Tripped(next.row) THEN since ELSE 0

\* A request over the threshold: should_compress_info, or the overflow path,
\* which asks the same gate without the cooldown and then bypasses it.
Gate(overflow) ==
    /\ pc = "idle"
    /\ \E up \in BOOLEAN : \E verdict \in {GateVerdict(Now, overflow, up)} :
          /\ Take(verdict.st, up)
          /\ pc' = IF verdict.blocked THEN "idle" ELSE IF overflow THEN "overflow" ELSE "gated"
    /\ UNCHANGED <<done, late, unkept, stale, jumps, reliefs>>

\* What the host's hook may answer: as long as a worker is still at an attempt that the
\* host gave up on, the hook may be that attempt's, which is cancelled.
FenceAnswers == IF late = "none" THEN {FALSE} ELSE BOOLEAN

\* /compress: no gate, no cooldown, no backoff.
ForceCompress ==
    /\ pc = "idle"
    /\ \E up \in BOOLEAN, fenced \in FenceAnswers :
          LET cleared == IF fenced THEN Now ELSE ClearCooldown(Now, up)
          IN  Take([cleared EXCEPT !.mem.backoff = 0], up)
    /\ pc' = "forced"
    /\ stale' = (stale \/ c.deadline # Unarmed)
    /\ UNCHANGED <<done, late, unkept, jumps, reliefs>>

InCompress == pc \in {"gated", "overflow", "forced"}

StructuralNoOp ==
    /\ InCompress
    /\ c' = [c EXCEPT !.backoff = Backoff]
    /\ pc' = "idle"
    /\ UNCHANGED <<row, done, late, since, unkept, stale, failures, jumps, reliefs>>

\* The window is too small to be worth a call, after a strike.
FeasibilitySkip ==
    /\ InCompress /\ pc # "forced" /\ c.strikes >= 1
    /\ pc' = "commit"
    /\ done' = "skip"
    /\ UNCHANGED <<c, row, late, since, unkept, stale, failures, jumps, reliefs>>

\* No summary: abort, or drop the window behind a static fallback.
WithoutSummary(terminal) ==
    IF terminal \/ AbortOnFailure
    THEN pc' = "idle" /\ done' = done
    ELSE pc' = "commit" /\ done' = "fallback"

CooldownSkips ==
    /\ InCompress /\ pc # "overflow" /\ c.cooldown > 0
    /\ WithoutSummary(c.terminal)
    /\ UNCHANGED <<c, row, late, since, unkept, stale, failures, jumps, reliefs>>

\* The hook calls the attempt cancelled, before the summary call or after it.
CallCancelled ==
    /\ InCompress /\ TRUE \in FenceAnswers
    /\ pc' = "idle"
    /\ UNCHANGED <<c, row, done, late, since, unkept, stale, failures, jumps, reliefs>>

\* Mutant: the attempt relies on what the gate saw.
MayCallTrusting == InCompress

\* The cooldown is looked at once more before the call: it may have begun since the
\* gate, by the failure of a late worker, and the fence may have kept /compress from
\* clearing it.
MayCall == InCompress /\ (c.cooldown = 0 \/ pc = "overflow")

SummaryArrives ==
    /\ MayCall
    /\ \E up \in BOOLEAN : Take([ClearCooldown(Now, up) EXCEPT !.mem.terminal = FALSE], up)
    /\ pc' = "commit"
    /\ done' = "ok"
    /\ UNCHANGED <<late, unkept, stale, jumps, reliefs>>

Failures == {"no_provider", "timeout", "access", "broken", "other"}

\* Access, network, truncated and empty answers are terminal.
IsTerminal(kind) == kind \in {"access", "broken"}

Failed(st, kind, up) ==
    LET marked == [st EXCEPT !.mem.terminal = @ \/ IsTerminal(kind)]
    IN  CASE kind = "timeout" -> RecordTimeout(marked, up)
          [] kind = "no_provider" -> RecordCooldown(marked, LongPause, up)
          [] OTHER -> RecordCooldown(marked, ShortPause, up)

\* A separate summary model had its retry on the main model before this.
SummaryFails(kind) ==
    /\ MayCall
    /\ \E up \in BOOLEAN :
          LET after == Failed(Now, kind, up)
          IN  Take(after, up) /\ WithoutSummary(after.mem.terminal)
    /\ UNCHANGED <<late, unkept, stale, jumps, reliefs>>

\* The host stops waiting: it cancels the worker and records the timeout.  The
\* worker may be in its call, or past the fence and about to clear.
HostTimesOut ==
    /\ MayCall /\ late = "none"
    /\ \E up \in BOOLEAN : Take(RecordTimeout(Now, up), up)
    /\ \E where \in {"working", "clearing"} : late' = where
    /\ pc' = "idle"
    /\ UNCHANGED <<done, unkept, stale, jumps, reliefs>>

\* The fence is tested before the clearing, not with it: a worker that had passed it
\* when the host gave up clears what the host recorded.
LateSuccess ==
    /\ late # "none"
    /\ late' = "none"
    /\ \E up \in BOOLEAN :
          LET cleared == IF late = "working" THEN Now ELSE ClearCooldown(Now, up)
          IN  Take([cleared EXCEPT !.mem.terminal = FALSE], up)
    /\ UNCHANGED <<pc, done, unkept, stale, jumps, reliefs>>

\* The answer finds the attempt cancelled and is dropped.
LateCancelled ==
    /\ late = "working"
    /\ late' = "none"
    /\ UNCHANGED <<c, row, pc, done, since, unkept, stale, failures, jumps, reliefs>>

LateFailure(kind) ==
    /\ late = "working"
    /\ late' = "none"
    /\ \E up \in BOOLEAN : Take(Failed(Now, kind, up), up)
    /\ UNCHANGED <<pc, done, unkept, stale, jumps, reliefs>>

-----------------------------------------------------------------------------
(* The host commits the rewrite. *)

\* It would grow the transcript: a strike, and nothing is written.
RejectCompaction ==
    /\ pc = "commit"
    /\ \E up \in BOOLEAN : Take(Strike(Now, up), up)
    /\ pc' = "idle"
    /\ done' = "ok"
    /\ UNCHANGED <<late, unkept, stale, jumps, reliefs>>

CommitInPlace ==
    /\ pc = "commit"
    /\ pc' = "bookkeep"
    /\ UNCHANGED <<c, row, done, late, since, unkept, stale, failures, jumps, reliefs>>

\* Mutant: the strikes too wait for the next bookkeeping.
RotatedOntoUnsaved(st, up) ==
    LET bound == BindSessionState([st EXCEPT !.row = FreshRow], up)
    IN  [bound EXCEPT !.mem.streak = st.mem.streak, !.mem.strikes = st.mem.strikes]

\* A child session with a fresh row: the parent's counters are carried over, the
\* strikes onto the row at once, the streak in memory only.
RotatedOnto(st, up) ==
    LET strikes == IF up THEN st.row.strikes ELSE st.mem.strikes
        streak == IF up THEN st.row.streak ELSE st.mem.streak
        bound == BindSessionState([st EXCEPT !.row = FreshRow], up)
        carried == [bound EXCEPT !.mem.streak = streak]
    IN  IF strikes = carried.mem.strikes THEN carried ELSE PersistStrikes(carried, strikes, up)

Rotate ==
    /\ pc = "commit"
    /\ \E up \in BOOLEAN : Take(RotatedOnto(Now, up), up)
    /\ pc' = "bookkeep"
    /\ UNCHANGED <<done, late, unkept, stale, jumps, reliefs>>

\* record_completed_compaction.
Bookkept(st, up) ==
    LET armed == [st EXCEPT !.mem.backoff = 0, !.mem.verify = TRUE]
    IN  IF done = "skip" THEN armed
        ELSE PersistStreak(armed, IF done = "fallback" THEN OneMore(st.mem.streak) ELSE 0, up)

RecordCompletedCompaction ==
    /\ pc = "bookkeep"
    /\ \E up \in BOOLEAN : Take(Bookkept(Now, up), up)
    /\ pc' = "idle"
    /\ done' = "ok"
    /\ unkept' = (unkept \/ (done = "skip" /\ c.streak # row.streak))
    /\ UNCHANGED <<late, stale, jumps, reliefs>>

-----------------------------------------------------------------------------
(* Responses, model switches, restarts, the row's other writers, time. *)

Readings == {"fits", "exceeds", "none"}

\* The prompt the provider counted, if it did, against the threshold.
VerdictOnResponse(st, reading, up) ==
    IF reading = "fits" THEN RecordVerdict(st, 0, up)
    ELSE IF reading = "exceeds" /\ st.mem.verify THEN Strike(st, up) ELSE st

UpdateFromResponse(reading) ==
    /\ pc = "idle"
    /\ \E up \in BOOLEAN :
          LET judged == VerdictOnResponse(Now, reading, up)
          IN  Take([judged EXCEPT !.mem.verify = FALSE], up)
    /\ UNCHANGED <<pc, done, late, unkept, stale, jumps, reliefs>>

\* A switch to another provider also lifts the cooldown and the streak.
UpdateModel(runtimeChanged) ==
    /\ pc = "idle"
    /\ \E up \in BOOLEAN, fenced \in FenceAnswers :
          LET unstruck == RecordVerdict(Now, 0, up)
              unstreaked == PersistStreak(unstruck, 0, up)
              switched == IF ~runtimeChanged THEN unstruck
                          ELSE IF fenced THEN unstreaked ELSE ClearCooldown(unstreaked, up)
          IN  Take([switched EXCEPT !.mem.verify = FALSE], up)
    /\ UNCHANGED <<pc, done, late, unkept, stale, jumps, reliefs>>

\* A new compressor on the same row, at any time: a crash, or a rebuilt agent.
Rebuild ==
    /\ \E up \in BOOLEAN : Take(BindSessionState([Now EXCEPT !.mem = FreshMemory], up), up)
    /\ pc' = "idle"
    /\ done' = "ok"
    /\ late' = "none"
    /\ UNCHANGED <<unkept, stale, jumps, reliefs>>

\* Another agent on the row records a fitting prompt or a healthy summary.
SiblingRelieves ==
    /\ MayUpset("row")
    /\ reliefs' = reliefs + 1
    /\ row' = FreshRow
    /\ since' = 0
    /\ UNCHANGED <<c, pc, done, late, unkept, stale, failures, jumps>>

\* The pre-agent pass writes a cooldown of its own into the column.
HygieneDefers ==
    /\ MayUpset("row")
    /\ reliefs' = reliefs + 1
    /\ row' = [row EXCEPT !.cooldown = ShortPause, !.hygiene = TRUE]
    /\ UNCHANGED <<c, pc, done, late, since, unkept, stale, failures, jumps>>

Less(ticks) == IF ticks > 0 THEN ticks - 1 ELSE ticks

Tick ==
    /\ c' = [c EXCEPT !.deadline = Less(@), !.cooldown = Less(@), !.backoff = Less(@)]
    /\ row' = [row EXCEPT !.deadline = Less(@), !.cooldown = Less(@)]
    /\ since' = IF RowTripped THEN Shorter(since + 1, Window) ELSE 0
    /\ UNCHANGED <<pc, done, late, unkept, stale, failures, jumps, reliefs>>

\* The wall clock is set back: deadlines move away, the farthest tells no more.
Later(d) == IF d = Unarmed THEN d ELSE Shorter(d + Window, Window + 1)

ClockJumpsBack ==
    /\ MayUpset("clock")
    /\ jumps' = jumps + 1
    /\ c' = [c EXCEPT !.deadline = Later(@)]
    /\ row' = [row EXCEPT !.deadline = Later(@)]
    /\ UNCHANGED <<pc, done, late, since, unkept, stale, failures, reliefs>>

Init ==
    /\ c = FreshMemory
    /\ row = FreshRow
    /\ pc = "idle"
    /\ done = "ok"
    /\ late = "none"
    /\ since = 0
    /\ unkept = FALSE
    /\ stale = FALSE
    /\ failures = 0
    /\ jumps = 0
    /\ reliefs = 0

Next ==
    \/ \E overflow \in BOOLEAN : Gate(overflow)
    \/ ForceCompress \/ StructuralNoOp \/ FeasibilitySkip \/ CooldownSkips \/ SummaryArrives
    \/ \E kind \in Failures : SummaryFails(kind) \/ LateFailure(kind)
    \/ CallCancelled \/ HostTimesOut \/ LateSuccess \/ LateCancelled
    \/ RejectCompaction \/ CommitInPlace \/ Rotate \/ RecordCompletedCompaction
    \/ \E reading \in Readings : UpdateFromResponse(reading)
    \/ \E changed \in BOOLEAN : UpdateModel(changed)
    \/ Rebuild \/ SiblingRelieves \/ HygieneDefers
    \/ Tick \/ ClockJumpsBack

Spec == Init /\ [][Next]_vars

-----------------------------------------------------------------------------
(* Properties. *)

TypeOK ==
    /\ c \in Memory
    /\ row \in SessionRow
    /\ pc \in {"idle", "gated", "overflow", "forced", "commit", "bookkeep"}
    /\ done \in {"ok", "fallback", "skip"}
    /\ late \in {"none", "working", "clearing"}
    /\ since \in 0 .. Window
    /\ {unkept, stale} \subseteq BOOLEAN
    /\ {failures, jumps, reliefs} \subseteq Nat /\ failures + jumps + reliefs <= MaxUpsets

\* No other writer and no failing write has set memory and row apart.
Alone == failures = 0 /\ reliefs = 0

\* A streak that is in memory only, its clock stopped: a rotation has carried it and
\* the bookkeeping that saves it is still to come, or was skipped as infeasible.
StreakAtRisk == row.streak = 0 /\ c.deadline = Unarmed /\ (pc = "bookkeep" \/ unkept)

\* At any moment, in an attempt, during its commit or between two, a restart would
\* load the strikes, the streak and the running window that the compressor goes by:
\* no copy is missed by a probe, a rotation, a switch of models or a verdict.  The
\* exception is StreakAtRisk: a crash there forgets the streak, and disarms a breaker
\* that the streak had tripped.
DurableBreaker ==
    /\ TypeOK
    /\ Alone => /\ row.strikes = c.strikes /\ row.deadline = c.deadline
                /\ row.streak = c.streak \/ StreakAtRisk

\* A tripped breaker lets an automatic attempt through only when it has been
\* tripped for a whole window, whatever restarts, rotations and model switches
\* come in between (a forced attempt may leave an old clock running).
OneProbePerWindow ==
    [][Alone /\ ~stale /\ pc = "idle" /\ pc' \in {"gated", "overflow"} /\ RowTripped
         => since >= Window]_vars

\* Nor is the block permanent: once the clock runs it only runs down, over gates
\* and restarts, while the breaker stays tripped.
WindowOnlyShrinks ==
    [][Alone /\ Alone' /\ jumps' = jumps /\ ~unkept /\ pc # "commit"
       /\ Tripped(c) /\ Tripped(c') /\ c.deadline \in 0 .. Window
         => c'.deadline \in 0 .. c.deadline]_vars

\* One probe for each window, and a window that comes to its end.
RecoveryWindow == OneProbePerWindow /\ WindowOnlyShrinks

\* The attempt asks the summary model: it answers, fails, or outlasts its host.
CallsModel == SummaryArrives \/ HostTimesOut \/ \E kind \in Failures : SummaryFails(kind)

\* While the session's row holds a failure cooldown, no attempt but one for an overflow
\* calls the summary model: not on a gate passed before a late worker's failure, not by
\* /compress when the fence kept it from clearing, and not after a restart or another
\* gate's refresh.
NoCallInCooldown ==
    [][Alone /\ pc \in {"gated", "forced"} /\ CallsModel => row.cooldown = 0]_vars

\* A cooldown the store never got is not taken for one it has cleared.
UnsavedCooldownKept ==
    [][Gate(FALSE) /\ c.unsaved /\ row.cooldown = 0 => c'.cooldown = c.cooldown]_vars

\* The breaker blocks only while the row says so: what another agent relieved
\* there unblocks this one at its next request.
RowRelieves ==
    [][Gate(FALSE) /\ failures' = failures /\ pc' = "idle" /\ c'.cooldown = 0 /\ c'.backoff = 0
         => Tripped(row')]_vars

\* The row decides at the next request, except over what it never got.
RowHeeded == UnsavedCooldownKept /\ RowRelieves
=============================================================================
