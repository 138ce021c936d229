------------------------- MODULE SubagentLifecycle -------------------------
(***************************************************************************)
(* hermes-core/subagent_lifecycle.py: plugin threads launch children, wait *)
(* for them and cancel them through SubagentLifecycleService, while the    *)
(* threads of _EXECUTOR run _run.  All of them share _REGISTRY.            *)
(*                                                                         *)
(* A launch is one call of launch(); its identity stands for the child's   *)
(* subagent_id.  Steps are the critical sections of _REGISTRY.lock and     *)
(* what happens between them.  status, result and reconnect only read one  *)
(* record under the lock.  Request validation and the capability check     *)
(* reject without touching the registry and are left out.  The launches    *)
(* are those of one parent session; another may be active when a handle is *)
(* waited for.                                                             *)
(***************************************************************************)
EXTENDS Integers, FiniteSets

CONSTANTS
    Launch,         \* the calls of launch()
    Correlations,   \* correlation ids plugins use, within one parent session
    NoCorrelation,  \* correlation_id is None
    Workers         \* max_workers of _EXECUTOR

ASSUME SubagentAssumption ==
    /\ NoCorrelation \notin Correlations
    /\ Workers \in Nat \ {0}
    /\ "none" \notin Launch

VARIABLES
    corr,         \* the correlation id of each request
    lpc,          \* where each launch() call is
    records,      \* keys of _REGISTRY.records
    correlations, \* _REGISTRY.correlations, "none" where there is no entry
    state,        \* _Record.state
    result,       \* _Record.result.terminal_state, "none" before
    future,       \* the child's future and its _run
    computed,     \* the terminal state _run has computed and not yet published
    old,          \* completed_at is beyond the retention period
    cancel,       \* first cancel() of each child: never, before its verdict, after it
    wpc,          \* where a wait() for each child is
    answer,       \* what that wait() returned
    overlapped    \* two launches with one correlation id overlapped

registry == <<records, correlations>>
vars == <<corr, lpc, registry, state, result, future, computed, old, cancel, wpc, answer, overlapped>>

Terminal == {"SUCCEEDED", "FAILED", "INTERRUPTED", "CANCELLED"}
States == Terminal \cup {"PENDING", "RUNNING", "CANCEL_REQUESTED"}
Unsettled == [state |-> "none", completed |-> FALSE]
Unknown == [state |-> "UNKNOWN", completed |-> TRUE]

Init ==
    /\ corr \in [Launch -> Correlations \cup {NoCorrelation}]
    /\ lpc = [l \in Launch |-> "idle"]
    /\ records = {}
    /\ correlations = [c \in Correlations |-> "none"]
    /\ state = [l \in Launch |-> "none"]
    /\ result = [l \in Launch |-> "none"]
    /\ future = [l \in Launch |-> "none"]
    /\ computed = [l \in Launch |-> "none"]
    /\ old = {}
    /\ cancel = [l \in Launch |-> "never"]
    /\ wpc = [l \in Launch |-> "idle"]
    /\ answer = [l \in Launch |-> Unsettled]
    /\ overlapped = FALSE

Correlated(l) == corr[l] # NoCorrelation

---------------------------------------------------------------------------
(* launch()                                                                 *)

\* Mutant: cleanup takes a record without a result for one past its retention.
ExpiredAnyAge == {l \in records : result[l] # "none" => l \in old}

\* _cleanup_locked: the terminal records past their retention.
Expired == {l \in records : result[l] # "none" /\ l \in old}

\* Mutant: cleanup forgets to release the correlation ids.
CorrelationsAfterKeeps(gone) == correlations

\* ... which take with them the correlation entry of their id, whoever it names.
CorrelationsAfter(gone) ==
    [c \in Correlations |-> IF \E l \in gone : corr[l] = c THEN "none" ELSE correlations[c]]

\* The first critical section: clean up, then refuse a correlation id already held.
Check(l) ==
    /\ lpc[l] = "idle"
    /\ records' = records \ Expired
    /\ correlations' = CorrelationsAfter(Expired)
    /\ IF Correlated(l) /\ correlations'[corr[l]] # "none"
       THEN /\ lpc' = [lpc EXCEPT ![l] = "refused"]
            /\ UNCHANGED overlapped
       ELSE /\ lpc' = [lpc EXCEPT ![l] = "build"]
            /\ overlapped' = (overlapped \/ (Correlated(l) /\
                    \E m \in Launch : corr[m] = corr[l] /\ lpc[m] = "build"))
    /\ UNCHANGED <<corr, state, result, future, computed, old, cancel, wpc, answer>>

\* Building the child raises, or gives it no identity.
BuildFails(l) ==
    /\ lpc[l] = "build"
    /\ lpc' = [lpc EXCEPT ![l] = "refused"]
    /\ UNCHANGED <<corr, registry, state, result, future, computed, old, cancel, wpc, answer, overlapped>>

\* The second critical section: the record and its correlation entry.
Register(l) ==
    /\ lpc[l] = "build"
    /\ lpc' = [lpc EXCEPT ![l] = "submit"]
    /\ records' = records \cup {l}
    /\ correlations' = IF Correlated(l) THEN [correlations EXCEPT ![corr[l]] = l] ELSE correlations
    /\ state' = [state EXCEPT ![l] = "PENDING"]
    /\ UNCHANGED <<corr, result, future, computed, old, cancel, wpc, answer, overlapped>>

Submit(l) ==
    /\ lpc[l] = "submit"
    /\ lpc' = [lpc EXCEPT ![l] = "returned"]
    /\ future' = [future EXCEPT ![l] = "queued"]
    /\ UNCHANGED <<corr, registry, state, result, computed, old, cancel, wpc, answer, overlapped>>

\* The executor refuses: launch() raises and the PENDING record stays.
SubmitFails(l) ==
    /\ lpc[l] = "submit"
    /\ lpc' = [lpc EXCEPT ![l] = "refused"]
    /\ UNCHANGED <<corr, registry, state, result, future, computed, old, cancel, wpc, answer, overlapped>>

---------------------------------------------------------------------------
(* _run, on a thread of the executor                                        *)

Busy == {l \in Launch : future[l] \in {"running", "publishing"}}

\* Mutant: a child cancelled before it started is not run, and nobody settles it.
RunStartSkipsCancelled(l) ==
    /\ future[l] = "queued"
    /\ Cardinality(Busy) < Workers
    /\ state[l] # "CANCEL_REQUESTED"
    /\ future' = [future EXCEPT ![l] = "running"]
    /\ state' = [state EXCEPT ![l] = "RUNNING"]
    /\ UNCHANGED <<corr, lpc, registry, result, computed, old, cancel, wpc, answer, overlapped>>

\* Mutant: starting forgets an early cancellation.
RunStartForgets(l) ==
    /\ future[l] = "queued"
    /\ Cardinality(Busy) < Workers
    /\ future' = [future EXCEPT ![l] = "running"]
    /\ state' = [state EXCEPT ![l] = "RUNNING"]
    /\ UNCHANGED <<corr, lpc, registry, result, computed, old, cancel, wpc, answer, overlapped>>

RunStart(l) ==
    /\ future[l] = "queued"
    /\ Cardinality(Busy) < Workers
    /\ future' = [future EXCEPT ![l] = "running"]
    /\ state' = [state EXCEPT ![l] = IF @ = "CANCEL_REQUESTED" THEN @ ELSE "RUNNING"]
    /\ UNCHANGED <<corr, lpc, registry, result, computed, old, cancel, wpc, answer, overlapped>>

\* The verdict for a child's status, which reads record.state without the lock.
VerdictOf(l, status) ==
    CASE status = "completed"   -> "SUCCEEDED"
      [] status = "interrupted" -> IF state[l] = "CANCEL_REQUESTED" THEN "CANCELLED" ELSE "INTERRUPTED"
      [] OTHER                  -> "FAILED"

\* The child returns with a status, or raises an Exception.
ChildReturns(l) ==
    /\ future[l] = "running"
    /\ future' = [future EXCEPT ![l] = "publishing"]
    /\ \E status \in {"completed", "interrupted", "error"} :
        computed' = [computed EXCEPT ![l] = VerdictOf(l, status)]
    /\ UNCHANGED <<corr, lpc, registry, state, result, old, cancel, wpc, answer, overlapped>>

\* The child raises a BaseException: the future fails and no result is published.
ChildDies(l) ==
    /\ future[l] = "running"
    /\ future' = [future EXCEPT ![l] = "died"]
    /\ UNCHANGED <<corr, lpc, registry, state, result, computed, old, cancel, wpc, answer, overlapped>>

\* The last critical section of _run: result and state together.
Publish(l) ==
    /\ future[l] = "publishing"
    /\ future' = [future EXCEPT ![l] = "done"]
    /\ result' = [result EXCEPT ![l] = computed[l]]
    /\ state' = [state EXCEPT ![l] = computed[l]]
    /\ UNCHANGED <<corr, lpc, registry, computed, old, cancel, wpc, answer, overlapped>>

\* An hour passes after completed_at.
RetentionEnds(l) ==
    /\ l \in records
    /\ result[l] # "none"
    /\ l \notin old
    /\ old' = old \cup {l}
    /\ UNCHANGED <<corr, lpc, registry, state, result, future, computed, cancel, wpc, answer, overlapped>>

---------------------------------------------------------------------------
(* cancel() and wait() on a handle that launch() returned                    *)

\* _record(handle) finds the record.
Known(l) == lpc[l] = "returned" /\ l \in records

\* cancel() of a child without a result; of one with a result it changes nothing.  The
\* interrupt it then sends is one more reason for the child to return "interrupted".
Cancel(l) ==
    /\ Known(l)
    /\ result[l] = "none"
    /\ state' = [state EXCEPT ![l] = "CANCEL_REQUESTED"]
    /\ cancel' = [cancel EXCEPT ![l] = IF @ # "never" THEN @
                                       ELSE IF computed[l] = "none" THEN "before" ELSE "after"]
    /\ UNCHANGED <<corr, lpc, registry, result, future, computed, old, wpc, answer, overlapped>>

WaitBegins(l) ==
    /\ Known(l)
    /\ wpc[l] = "idle"
    /\ wpc' = [wpc EXCEPT ![l] = "waiting"]
    /\ UNCHANGED <<corr, lpc, registry, state, result, future, computed, old, cancel, answer, overlapped>>

\* _record(handle) finds nothing, because cleanup forgot the child or because another parent
\* session is active: wait() answers UNKNOWN at once, and calls that completed.
WaitFindsNothing(l) ==
    /\ lpc[l] = "returned"
    /\ wpc[l] = "idle"
    /\ \/ l \notin records /\ wpc' = [wpc EXCEPT ![l] = "returned"]
       \/ wpc' = [wpc EXCEPT ![l] = "foreign"]
    /\ answer' = [answer EXCEPT ![l] = Unknown]
    /\ UNCHANGED <<corr, lpc, registry, state, result, future, computed, old, cancel, overlapped>>

\* future.result() raises TimeoutError ...
WaitExpires(l) ==
    /\ wpc[l] = "waiting"
    /\ future[l] \notin {"done", "died"}
    /\ wpc' = [wpc EXCEPT ![l] = "expired"]
    /\ UNCHANGED <<corr, lpc, registry, state, result, future, computed, old, cancel, answer, overlapped>>

\* ... and the state is read afterwards, without the lock.
WaitTimesOut(l) ==
    /\ wpc[l] = "expired"
    /\ wpc' = [wpc EXCEPT ![l] = "returned"]
    /\ answer' = [answer EXCEPT ![l] = [state |-> state[l], completed |-> FALSE]]
    /\ UNCHANGED <<corr, lpc, registry, state, result, future, computed, old, cancel, overlapped>>

\* The future has finished.  wait() swallows an Exception of the future; a BaseException
\* leaves through it.
WaitEnds(l) ==
    /\ wpc[l] = "waiting"
    /\ \/ /\ future[l] = "done"
          /\ wpc' = [wpc EXCEPT ![l] = "returned"]
          /\ answer' = [answer EXCEPT ![l] = [state |-> state[l], completed |-> result[l] # "none"]]
       \/ /\ future[l] = "died"
          /\ wpc' = [wpc EXCEPT ![l] = "raised"]
          /\ UNCHANGED answer
    /\ UNCHANGED <<corr, lpc, registry, state, result, future, computed, old, cancel, overlapped>>

\* No launch, child or wait is in progress.
Quiescent ==
    /\ \A l \in Launch :
        /\ lpc[l] \in {"refused", "returned"}
        /\ future[l] \in {"none", "done", "died"}
        /\ wpc[l] \in {"idle", "returned", "raised", "foreign"}
    /\ UNCHANGED vars

Next ==
    \/ \E l \in Launch :
        \/ Check(l) \/ BuildFails(l) \/ Register(l) \/ Submit(l) \/ SubmitFails(l)
        \/ RunStart(l) \/ ChildReturns(l) \/ ChildDies(l) \/ Publish(l) \/ RetentionEnds(l)
        \/ Cancel(l) \/ WaitBegins(l) \/ WaitFindsNothing(l) \/ WaitExpires(l)
        \/ WaitTimesOut(l) \/ WaitEnds(l)
    \/ Quiescent

Spec == Init /\ [][Next]_vars

\* Pool threads and waiting threads are scheduled, and every child returns or dies (the
\* delegation layer bounds its turn).  No caller is obliged to launch, cancel or wait.
Fairness ==
    \A l \in Launch :
        /\ WF_vars(RunStart(l))
        /\ WF_vars(ChildReturns(l) \/ ChildDies(l))
        /\ WF_vars(Publish(l))
        /\ WF_vars(WaitTimesOut(l) \/ WaitEnds(l))

FairSpec == Spec /\ Fairness

---------------------------------------------------------------------------
(* Properties.                                                              *)

\* Every variable keeps its type.
TypeOK ==
    /\ corr \in [Launch -> Correlations \cup {NoCorrelation}]
    /\ lpc \in [Launch -> {"idle", "build", "submit", "returned", "refused"}]
    /\ records \in SUBSET Launch
    /\ correlations \in [Correlations -> Launch \cup {"none"}]
    /\ state \in [Launch -> States \cup {"none"}]
    /\ result \in [Launch -> Terminal \cup {"none"}]
    /\ future \in [Launch -> {"none", "queued", "running", "publishing", "done", "died"}]
    /\ computed \in [Launch -> Terminal \cup {"none"}]
    /\ old \in SUBSET Launch
    /\ cancel \in [Launch -> {"never", "before", "after"}]
    /\ wpc \in [Launch -> {"idle", "waiting", "expired", "returned", "raised", "foreign"}]
    /\ answer \in [Launch -> [state : States \cup {"none", "UNKNOWN"}, completed : BOOLEAN]]
    /\ overlapped \in BOOLEAN

Phase(l) ==
    IF l \in records
    THEN IF result[l] = "none" THEN "live" ELSE "settled"
    ELSE IF result[l] = "none" THEN "absent" ELSE "forgotten"

Promise == INSTANCE SubagentPromise WITH
    Verdicts <- Terminal,
    phase <- [l \in Launch |-> Phase(l)],
    verdict <- [l \in Launch |-> IF result[l] = "none" THEN "none" ELSE state[l]]

\* The registry keeps the promise of SubagentPromise: a live child is never forgotten, a
\* settled one keeps its verdict whatever cancel() does, and comes back under no handle.  The
\* promise is _cleanup_locked's; the class docstring's "completed results stay until process
\* exit" (239) is more than the code keeps, and not part of it.
KeepsPromise == Promise!Spec

\* A child whose cancellation was requested before its verdict and that reports
\* "interrupted" is CANCELLED, also when the request came before it started running.
CancelIsRemembered ==
    \A l \in Launch : cancel[l] = "before" => computed[l] # "INTERRUPTED"

\* While no two launches with one correlation id overlapped, each id's entry names exactly
\* the retained record that carries it: no id is lost or held by a forgotten child.
CorrelationsMatchRecords ==
    ~overlapped =>
        \A c \in Correlations : \A l \in Launch :
            correlations[c] = l <=> l \in records /\ corr[l] = c

\* A wait() that says completed says the child's verdict, for good, or UNKNOWN: that, while the
\* handle's own session is active, only of a child that settled and whose record aged out.
WaitTellsTheVerdict ==
    \A l \in Launch : answer[l].completed =>
        \/ answer[l].state = result[l]
        \/ answer[l].state = "UNKNOWN" /\ (wpc[l] = "foreign" \/ Phase(l) = "forgotten")

\* What the registry says of a child is what became of it: a requested cancellation is
\* remembered in the verdict, and every completed wait() is told that verdict, or that its
\* settled child is no longer known.
VerdictsAreTrue == TypeOK /\ CancelIsRemembered /\ WaitTellsTheVerdict

\* Whoever waits without a timeout gets an answer or the child's BaseException, also when
\* the child was cancelled before it started.
WaitReturns == \A l \in Launch : wpc[l] = "waiting" ~> wpc[l] \in {"returned", "raised"}
=============================================================================
