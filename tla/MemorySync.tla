----------------------------- MODULE MemorySync -----------------------------
(***************************************************************************)
(* The background worker of hermes-core/memory_manager.py: the host thread *)
(* hands tasks to _submit_background (sync_all, queue_prefetch_all,        *)
(* commit_session_boundary_async), one pool thread runs them in FIFO order *)
(* against the providers, another thread may call shutdown_all once, and   *)
(* another one flush_pending once.                                         *)
(*                                                                         *)
(* A task is its number in the host's order.  The providers are one: its   *)
(* state is the session it is bound to.  Steps are the critical sections   *)
(* of _sync_executor_lock and the accesses made without it.                *)
(***************************************************************************)
EXTENDS Integers, Sequences, FiniteSets

CONSTANTS
    MaxTasks,  \* bound: tasks the host submits
    Workers    \* max_workers of the sync executor

ASSUME MemoryAssumption == MaxTasks \in Nat \ {0} /\ Workers \in Nat \ {0}

Tasks == 1 .. MaxTasks
Sentinel == 0
Kinds == {"write", "prefetch", "boundary"}

VARIABLES
    task,        \* the task the host submits now, or next
    kind,        \* what each task does
    from,        \* the session of the host when it submitted each task
    hpc,         \* where the host is in _submit_background
    seen,        \* the executor the host read: none or open
    session,     \* AIAgent.session_id, as a count of session boundaries
    lock,        \* holder of _sync_executor_lock across steps: free or host
    executor,    \* _sync_executor: none or open
    closed,      \* executor.shutdown() was called
    exiting,     \* the interpreter is exiting: submit raises
    shutting,    \* _shutting_down
    queue,       \* the executor's work queue
    fut,         \* each task's future, "inline" for a task run by the host
    tracked,     \* keys of _background_futures
    attached,    \* tasks whose done callback is attached
    bound,       \* the session the provider is bound to
    misfiled,    \* on_session_end ran while bound to another session
    dpc,         \* where shutdown_all is
    pending,     \* the drain's futures: its snapshot, then those its wait left
    asked,       \* pending futures the drain called cancel() on
    counted,     \* those of them that it cancelled
    report,      \* _shutdown_drain_state
    fpc,         \* where flush_pending is
    before       \* tasks accepted when flush_pending was called

hostVars == <<task, kind, from, hpc, seen, session>>
execVars == <<executor, closed, exiting, queue>>
drainVars == <<shutting, dpc, pending, asked, counted, report>>
flushVars == <<fpc, before>>
vars == <<hostVars, lock, execVars, fut, tracked, attached, bound, misfiled, drainVars, flushVars>>

Over == {"done", "cancelled"}
\* Tasks some thread is running right now; a boundary runs in two steps.
Active == {t \in Tasks : fut[t] \in {"running", "ended", "inline"}}
Accepted == {t \in Tasks : fut[t] \notin {"none", "inline", "inlineDone", "rejected"}}
NoReport == [status |-> "not_started", writes |-> 0, prefetches |-> 0, active |-> 0]

Init ==
    /\ task = 1
    /\ kind \in [Tasks -> Kinds]
    /\ from = [t \in Tasks |-> 0]
    /\ hpc = "idle"
    /\ seen = "none"
    /\ session = 0
    /\ lock = "free"
    /\ executor = "none"
    /\ closed = FALSE
    /\ exiting = FALSE
    /\ shutting = FALSE
    /\ queue = <<>>
    /\ fut = [t \in Tasks |-> "none"]
    /\ tracked = {}
    /\ attached = {}
    /\ bound = 0
    /\ misfiled = FALSE
    /\ dpc = "idle"
    /\ pending = {}
    /\ asked = {}
    /\ counted = {}
    /\ report = NoReport
    /\ fpc = "idle"
    /\ before = {}

---------------------------------------------------------------------------
(* The host: _submit_background.                                            *)

\* Mutant: the boundary's switch is made inline, the worker only extracts.
SwitchesInline(t) == IF kind[t] = "boundary" THEN session + 1 ELSE bound

\* What submitting does to the providers: nothing, both hooks are in the queued task.
BoundOnSubmit(t) == bound

\* _submit_background is called; a session boundary moves the host to its new session.
Call ==
    /\ hpc = "idle"
    /\ task \in Tasks
    /\ hpc' = "read"
    /\ from' = [from EXCEPT ![task] = session]
    /\ session' = IF kind[task] = "boundary" THEN session + 1 ELSE session
    /\ bound' = BoundOnSubmit(task)
    /\ UNCHANGED <<task, kind, seen, lock, execVars, fut, tracked, attached, misfiled, drainVars, flushVars>>

\* The unlocked read of _shutting_down and _sync_executor.
ReadExecutor ==
    /\ hpc = "read"
    /\ seen' = IF shutting THEN "none" ELSE executor
    /\ hpc' = IF shutting \/ executor = "open" THEN "submit" ELSE "create"
    /\ UNCHANGED <<task, kind, from, session, lock, execVars, fut, tracked, attached, bound, misfiled,
                   drainVars, flushVars>>

\* The lazy creation under the lock, which may fail.
CreateExecutor ==
    /\ hpc = "create"
    /\ lock = "free"
    /\ \/ /\ ~shutting /\ executor = "none"
          /\ executor' = "open"
       \/ UNCHANGED executor
    /\ seen' = executor'
    /\ hpc' = "submit"
    /\ UNCHANGED <<task, kind, from, session, lock, closed, exiting, queue, fut, tracked, attached, bound,
                   misfiled, drainVars, flushVars>>

\* Mutant: the second look at _shutting_down, under the lock, is dropped.
RefusedNever == FALSE

\* The look at _shutting_down under the lock.
RefusedLate == shutting

Finish(t) == task' = t + 1 /\ hpc' = "idle"

Reject ==
    /\ hpc = "submit"
    /\ lock = "free"
    /\ RefusedLate
    /\ fut' = [fut EXCEPT ![task] = "rejected"]
    /\ Finish(task)
    /\ UNCHANGED <<kind, from, seen, session, lock, execVars, tracked, attached, bound, misfiled,
                   drainVars, flushVars>>

\* Submit and track in one critical section; its end is ReleaseLock.
SubmitTracked ==
    /\ hpc = "submit"
    /\ lock = "free"
    /\ ~RefusedLate
    /\ seen = "open" /\ ~closed /\ ~exiting
    /\ lock' = "host"
    /\ queue' = Append(queue, task)
    /\ fut' = [fut EXCEPT ![task] = "pending"]
    /\ tracked' = tracked \cup {task}
    /\ hpc' = "tracked"
    /\ UNCHANGED <<task, kind, from, seen, session, executor, closed, exiting, attached, bound, misfiled,
                   drainVars, flushVars>>

\* Mutant: the callback is attached before the lock is released.
ReleaseLate ==
    /\ hpc = "tracked"
    /\ hpc' = "attach"
    /\ UNCHANGED <<task, kind, from, seen, session, lock, execVars, fut, tracked, attached, bound, misfiled,
                   drainVars, flushVars>>

ReleaseLock ==
    /\ hpc = "tracked"
    /\ hpc' = "attach"
    /\ lock' = "free"
    /\ UNCHANGED <<task, kind, from, seen, session, execVars, fut, tracked, attached, bound, misfiled,
                   drainVars, flushVars>>

\* add_done_callback: a future already over runs the callback here, and it takes the lock.
AttachCallback ==
    /\ hpc = "attach"
    /\ IF fut[task] \in Over
       THEN lock = "free" /\ tracked' = tracked \ {task} /\ UNCHANGED attached
       ELSE attached' = attached \cup {task} /\ UNCHANGED tracked
    /\ lock' = "free"
    /\ Finish(task)
    /\ UNCHANGED <<kind, from, seen, session, execVars, fut, bound, misfiled, drainVars, flushVars>>

\* No executor: the host runs the task itself.
SubmitInline ==
    /\ hpc = "submit"
    /\ lock = "free"
    /\ ~RefusedLate
    /\ seen = "none"
    /\ fut' = [fut EXCEPT ![task] = "inline"]
    /\ hpc' = "inline"
    /\ UNCHANGED <<task, kind, from, seen, session, lock, execVars, tracked, attached, bound, misfiled,
                   drainVars, flushVars>>

\* executor.submit raises RuntimeError, and the lock is left ...
SubmitRaises ==
    /\ hpc = "submit"
    /\ lock = "free"
    /\ ~RefusedLate
    /\ seen = "open" /\ (closed \/ exiting)
    /\ hpc' = "raised"
    /\ UNCHANGED <<task, kind, from, seen, session, lock, execVars, fut, tracked, attached, bound, misfiled,
                   drainVars, flushVars>>

\* ... then the unlocked look at _shutting_down: reject the task, or run it here.
AfterRaise ==
    /\ hpc = "raised"
    /\ IF shutting
       THEN /\ fut' = [fut EXCEPT ![task] = "rejected"]
            /\ Finish(task)
       ELSE /\ fut' = [fut EXCEPT ![task] = "inline"]
            /\ hpc' = "inline"
            /\ UNCHANGED task
    /\ UNCHANGED <<kind, from, seen, session, lock, execVars, tracked, attached, bound, misfiled,
                   drainVars, flushVars>>

\* The host ends an inline task.
InlineEnds ==
    /\ hpc = "inline"
    /\ fut' = [fut EXCEPT ![task] = "inlineDone"]
    /\ misfiled' = (misfiled \/ (kind[task] = "boundary" /\ bound # from[task]))
    /\ bound' = IF kind[task] = "boundary" THEN from[task] + 1 ELSE bound
    /\ Finish(task)
    /\ UNCHANGED <<kind, from, seen, session, lock, execVars, tracked, attached, drainVars, flushVars>>

Host ==
    \/ Call \/ ReadExecutor \/ CreateExecutor \/ Reject \/ SubmitTracked \/ ReleaseLock
    \/ AttachCallback \/ SubmitInline \/ SubmitRaises \/ AfterRaise

---------------------------------------------------------------------------
(* The pool thread.                                                         *)

\* max_workers=1: one task at a time.
WorkerFree == Cardinality({t \in Tasks : fut[t] \in {"running", "ended"}}) < Workers

\* A pool thread takes the next queued item; a cancelled future is skipped, the sentinel of
\* flush_pending does nothing.
Take ==
    /\ queue # <<>>
    /\ WorkerFree
    /\ queue' = Tail(queue)
    /\ LET t == Head(queue) IN
        /\ fut' = IF t # Sentinel /\ fut[t] = "pending" THEN [fut EXCEPT ![t] = "running"] ELSE fut
        /\ fpc' = IF t = Sentinel /\ fpc = "waiting" THEN "true" ELSE fpc
    /\ UNCHANGED <<hostVars, lock, executor, closed, exiting, tracked, attached, bound, misfiled,
                   drainVars, before>>

\* The first half of a boundary task: on_session_end, failures swallowed.
EndSession(t) ==
    /\ fut[t] = "running"
    /\ kind[t] = "boundary"
    /\ fut' = [fut EXCEPT ![t] = "ended"]
    /\ misfiled' = (misfiled \/ bound # from[t])
    /\ UNCHANGED <<hostVars, lock, execVars, tracked, attached, bound, drainVars, flushVars>>

\* The task's last hook returns; the future is done and its callback, if attached, takes
\* the lock to forget it.
TaskEnds(t) ==
    /\ \/ fut[t] = "running" /\ kind[t] # "boundary" /\ UNCHANGED bound
       \/ fut[t] = "ended" /\ bound' = from[t] + 1
    /\ fut' = [fut EXCEPT ![t] = "done"]
    /\ UNCHANGED <<hostVars, lock, execVars, tracked, attached, misfiled, drainVars, flushVars>>

\* _forget_background_future, by the thread that finished or cancelled the future.
Forget(t) ==
    /\ t \in attached \cap tracked
    /\ fut[t] \in Over
    /\ lock = "free"
    /\ tracked' = tracked \ {t}
    /\ UNCHANGED <<hostVars, lock, execVars, fut, attached, bound, misfiled, drainVars, flushVars>>

\* The interpreter starts to exit: no executor accepts work any more.
InterpreterExits ==
    /\ ~exiting
    /\ exiting' = TRUE
    /\ UNCHANGED <<hostVars, lock, executor, closed, queue, fut, tracked, attached, bound, misfiled,
                   drainVars, flushVars>>

---------------------------------------------------------------------------
(* shutdown_all: _drain_sync_executor.                                      *)

\* The snapshot, under the lock.
DrainSnapshot ==
    /\ dpc = "idle"
    /\ lock = "free"
    /\ shutting' = TRUE
    /\ executor' = "none"
    /\ pending' = tracked
    /\ report' = [NoReport EXCEPT !.status = IF executor = "open" THEN "draining" ELSE "drained",
                                  !.active = Cardinality({t \in tracked : fut[t] \notin Over})]
    /\ dpc' = IF executor = "open" THEN "close" ELSE "done"
    /\ UNCHANGED <<hostVars, lock, closed, exiting, queue, fut, tracked, attached, bound, misfiled,
                   asked, counted, flushVars>>

\* executor.shutdown(wait=False, cancel_futures=False)
DrainClose ==
    /\ dpc = "close"
    /\ closed' = TRUE
    /\ dpc' = "wait"
    /\ UNCHANGED <<hostVars, lock, executor, exiting, queue, fut, tracked, attached, bound, misfiled,
                   shutting, pending, asked, counted, report, flushVars>>

\* wait(..., timeout=5) returns when all is over, or at the timeout, whatever is left.
WaitOver == TRUE

DrainWait ==
    /\ dpc = "wait"
    /\ WaitOver
    /\ pending' = {t \in pending : fut[t] \notin Over}
    /\ dpc' = "cancel"
    /\ UNCHANGED <<hostVars, lock, execVars, fut, tracked, attached, bound, misfiled,
                   shutting, asked, counted, report, flushVars>>

\* future.cancel() on each pending future, in the arbitrary order of a set, while the pool
\* thread goes on taking tasks.
DrainCancel ==
    /\ dpc = "cancel"
    /\ \E t \in pending \ asked :
        /\ asked' = asked \cup {t}
        /\ fut' = [fut EXCEPT ![t] = IF @ = "pending" THEN "cancelled" ELSE @]
        /\ counted' = IF fut[t] = "pending" THEN counted \cup {t} ELSE counted
    /\ UNCHANGED <<hostVars, lock, execVars, tracked, attached, bound, misfiled,
                   shutting, dpc, pending, report, flushVars>>

\* active_tasks: the pending futures that could not be cancelled.
LeftActive == Cardinality(pending) - Cardinality(counted)

\* The report, under the lock; the providers are shut down after it.
DrainReport ==
    /\ dpc = "cancel"
    /\ asked = pending
    /\ lock = "free"
    /\ report' = [status |-> IF pending # {} THEN "timed_out" ELSE "drained",
                  writes |-> Cardinality({t \in counted : kind[t] # "prefetch"}),
                  prefetches |-> Cardinality({t \in counted : kind[t] = "prefetch"}),
                  active |-> LeftActive]
    /\ dpc' = "done"
    /\ UNCHANGED <<hostVars, lock, execVars, fut, tracked, attached, bound, misfiled,
                   shutting, pending, asked, counted, flushVars>>

Drain == DrainSnapshot \/ DrainClose \/ DrainWait \/ DrainCancel \/ DrainReport

---------------------------------------------------------------------------
(* flush_pending.                                                           *)

\* The unlocked read of _sync_executor: none means nothing to wait for.
FlushRead ==
    /\ fpc = "idle"
    /\ before' = {t \in Accepted : fut[t] \notin Over}
    /\ fpc' = IF executor = "none" THEN "true" ELSE "submit"
    /\ UNCHANGED <<hostVars, lock, execVars, fut, tracked, attached, bound, misfiled, drainVars>>

\* The sentinel joins the queue; a RuntimeError means nothing is pending.
FlushSubmit ==
    /\ fpc = "submit"
    /\ IF closed \/ exiting
       THEN fpc' = "true" /\ UNCHANGED queue
       ELSE fpc' = "waiting" /\ queue' = Append(queue, Sentinel)
    /\ UNCHANGED <<hostVars, lock, executor, closed, exiting, fut, tracked, attached, bound, misfiled,
                   drainVars, before>>

FlushTimesOut ==
    /\ fpc = "waiting"
    /\ fpc' = "false"
    /\ UNCHANGED <<hostVars, lock, execVars, fut, tracked, attached, bound, misfiled, drainVars, before>>

Flush == FlushRead \/ FlushSubmit \/ FlushTimesOut

\* Nobody has anything left to do.
Quiet ==
    /\ hpc = "idle" /\ task > MaxTasks
    /\ dpc = "done" /\ fpc \in {"true", "false"} /\ exiting
    /\ queue = <<>> /\ Active = {} /\ tracked = {}
    /\ UNCHANGED vars

Next ==
    \/ Host \/ InlineEnds
    \/ Take \/ (\E t \in Tasks : EndSession(t) \/ TaskEnds(t) \/ Forget(t))
    \/ Drain \/ Flush
    \/ InterpreterExits
    \/ Quiet

Spec == Init /\ [][Next]_vars

\* Threads are scheduled and bounded waits end.  A provider may hang in a task for ever, and
\* nobody is obliged to submit, flush, shut down or exit.
Fairness ==
    /\ WF_vars(Host /\ hpc # "idle")
    /\ WF_vars(Take)
    /\ \A t \in Tasks : WF_vars(Forget(t))
    /\ WF_vars(Drain /\ dpc # "idle")

FairSpec == Spec /\ Fairness

---------------------------------------------------------------------------
(* Properties.                                                              *)

\* Every variable keeps its type.
TypeOK ==
    /\ task \in 1 .. MaxTasks + 1
    /\ kind \in [Tasks -> Kinds]
    /\ from \in [Tasks -> 0 .. MaxTasks]
    /\ hpc \in {"idle", "read", "create", "submit", "tracked", "attach", "raised", "inline"}
    /\ seen \in {"none", "open"}
    /\ session \in 0 .. MaxTasks
    /\ lock \in {"free", "host"}
    /\ executor \in {"none", "open"}
    /\ closed \in BOOLEAN
    /\ exiting \in BOOLEAN
    /\ shutting \in BOOLEAN
    /\ queue \in Seq(Tasks \cup {Sentinel})
    /\ fut \in [Tasks -> {"none", "pending", "running", "ended", "done", "cancelled",
                          "inline", "inlineDone", "rejected"}]
    /\ tracked \in SUBSET Tasks
    /\ attached \in SUBSET Tasks
    /\ bound \in 0 .. MaxTasks
    /\ misfiled \in BOOLEAN
    /\ dpc \in {"idle", "close", "wait", "cancel", "done"}
    /\ pending \in SUBSET Tasks
    /\ asked \in SUBSET Tasks
    /\ counted \in SUBSET Tasks
    /\ report.status \in {"not_started", "draining", "drained", "timed_out"}
    /\ {report.writes, report.prefetches, report.active} \subseteq 0 .. MaxTasks
    /\ fpc \in {"idle", "submit", "waiting", "true", "false"}
    /\ before \in SUBSET Tasks

\* After shutdown_all no accepted task is silently lost: each is over or still running, the
\* ones that never ran are exactly the ones the report counts, and "drained" means all ran.
NothingLostSilently ==
    dpc = "done" =>
        /\ \A t \in Tasks : fut[t] # "pending"
        /\ report.writes = Cardinality({t \in Tasks : fut[t] = "cancelled" /\ kind[t] # "prefetch"})
        /\ report.prefetches = Cardinality({t \in Tasks : fut[t] = "cancelled" /\ kind[t] = "prefetch"})
        /\ report.status = "drained" => \A t \in Accepted : fut[t] = "done"
        /\ report.active >= Cardinality({t \in Tasks : fut[t] \in {"running", "ended"}})

\* "on_session_end must run strictly BEFORE on_session_switch rebinds provider state": the
\* extraction of a session finds the provider bound to that session, however turns and
\* boundaries interleave with the worker, as long as no task ran inline or was abandoned.
BoundaryEndsItsOwnSession ==
    (\A t \in Tasks : fut[t] \notin {"inline", "inlineDone", "cancelled"}) => ~misfiled

\* A flush that says TRUE while nothing is shutting down says so of every task accepted
\* before it.
FlushIsHonest ==
    fpc = "true" /\ ~shutting /\ ~exiting => \A t \in before : fut[t] \in Over

\* What shutdown_all and flush_pending report of the accepted tasks is what became of them.
AccountsAreHonest == TypeOK /\ NothingLostSilently /\ FlushIsHonest

\* Submitting returns to the turn, whatever the providers and the drain are doing, unless
\* the task is run inline.
SubmitReturns == hpc = "read" ~> hpc \in {"idle", "inline"}

\* shutdown_all gets past its drain though a provider hangs in a task.
DrainReturns == dpc = "close" ~> dpc = "done"

\* A provider that hangs in a task blocks neither the turn that submits nor the shutdown:
\* the lock of the queue is never held over a provider's call.
NobodyWaitsForProviders == SubmitReturns /\ DrainReturns
=============================================================================
