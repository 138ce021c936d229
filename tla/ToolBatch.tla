----------------------------- MODULE ToolBatch -----------------------------
(***************************************************************************)
(* One concurrent tool batch of hermes-core/tool_executor.py: the turn's   *)
(* thread runs execute_tool_calls_concurrent and _ConcurrentBatch.run, one *)
(* pool thread per runnable call runs _ConcurrentBatch.run_worker, and     *)
(* AIAgent.interrupt() may be called from another thread at any time.      *)
(*                                                                         *)
(* Steps are the lines other threads can observe: a lock acquisition, a    *)
(* write to a shared field, an emitted hook.  Time is not modelled: the    *)
(* batch deadline, the gate timeout and the lock timeout are events that   *)
(* may happen.  Tool arguments, results and display are left out.  The     *)
(* middleware and the relay (not in the repository) are taken to return    *)
(* what the dispatch they wrap returned, or to raise before it.            *)
(***************************************************************************)
EXTENDS Integers, FiniteSets

CONSTANTS
    N,               \* tool calls in the batch, numbered in the model's order
    MaxWorkers,      \* _max_workers_for_tool_batch
    TimeoutEnabled,  \* timeout_s is not None
    MayInterrupt     \* some thread may call agent.interrupt()

ASSUME BatchAssumption ==
    /\ N \in Nat \ {0}
    /\ MaxWorkers \in Nat \ {0}
    /\ TimeoutEnabled \in BOOLEAN
    /\ MayInterrupt \in BOOLEAN

Calls == 1 .. N

VARIABLES
    mpc,          \* where the turn's thread is
    parseErr,     \* calls whose arguments are not a JSON object
    nextSubmit,   \* the next call submit_all looks at
    snapshot,     \* not_done of the current wait-loop pass
    expired,      \* the batch deadline, human waits excluded, has passed
    timedOut,     \* timed_out_indices
    fan,          \* worker tids the turn's thread has yet to interrupt
    slot,         \* the next slot to append to the transcript
    reported,     \* what the transcript says of each call
    persistFailed,\* agent._incremental_persistence_failed
    wpc,          \* where each call's worker is
    outcome,      \* the outcome a worker is about to store
    results,      \* _ConcurrentBatch.results
    nextOrder,    \* _StartOrderGate._next_order
    abandoned,    \* _StartOrderGate.abandoned
    gateExpired,  \* some worker's gate wait timed out
    authHolder,   \* holder of the authorization gate's lock, 0 when free
    unserialized, \* workers whose wait for that lock timed out
    begun,        \* calls whose execution began (tool.started)
    givenUp,      \* ghost: calls begun when the turn's thread stopped waiting
    posts,        \* terminal post_tool_call hooks emitted per call
    flag,         \* agent._interrupt_requested
    ipc,          \* where the thread inside agent.interrupt() is
    ifan,         \* worker tids agent.interrupt() has yet to interrupt
    bits          \* workers whose thread has its interrupt bit set

mainVars == <<mpc, nextSubmit, snapshot, timedOut, fan, slot, reported, persistFailed>>
gateVars == <<nextOrder, abandoned, gateExpired, givenUp>>
authVars == <<authHolder, unserialized>>
workVars == <<wpc, outcome, results, begun>>
intrVars == <<flag, ipc, ifan>>
vars == <<mainVars, parseErr, expired, workVars, gateVars, authVars, posts, intrVars, bits>>

MainPcs == {"enter", "skip", "submit", "poll", "decide", "cancel", "abandon", "notify",
            "snapTids", "fanOut", "append", "joining", "done", "raised"}
WorkerPcs == {"new", "queued", "starting", "pre", "auth", "human", "gateRun", "gateBlock",
              "callback", "exec", "blocked", "writing", "lateAdvance", "exiting",
              "clearing", "done", "cancelled"}
Outcomes == {"none", "invalid", "shutdown", "blocked", "undispatched", "real"}
Reports == (Outcomes \ {"none"}) \cup {"none", "skipped", "timeout", "cancelled", "missing"}

Larger(a, b) == IF a >= b THEN a ELSE b

Runnable == Calls \ parseErr
\* submit_index: the position of call i among the runnable calls.
Order(i) == Cardinality({j \in Runnable : j < i})
\* The tids in agent._tool_worker_threads.
Registered == {i \in Calls : wpc[i] \notin {"new", "queued", "clearing", "done", "cancelled"}}
\* Workers on a pool thread: the future is running.
Running == {i \in Calls : wpc[i] \notin {"new", "queued", "done", "cancelled"}}
FutureDone(i) == wpc[i] \in {"done", "cancelled"}
Submitted == {i \in Calls : wpc[i] # "new"}
\* The gate's condition lock: begin_in_order runs the begin callback while holding it.
GateLockFree == \A i \in Calls : wpc[i] # "callback"

Init ==
    /\ mpc = "enter"
    /\ parseErr \in SUBSET Calls
    /\ nextSubmit = 1
    /\ snapshot = {}
    /\ expired = FALSE
    /\ timedOut = {}
    /\ fan = {}
    /\ slot = 1
    /\ reported = [i \in Calls |-> "none"]
    /\ persistFailed = FALSE
    /\ wpc = [i \in Calls |-> "new"]
    /\ outcome = [i \in Calls |-> "none"]
    /\ results = [i \in Calls |-> IF i \in parseErr THEN "invalid" ELSE "none"]
    /\ nextOrder = 0
    /\ abandoned = FALSE
    /\ gateExpired = FALSE
    /\ authHolder = 0
    /\ unserialized = {}
    /\ begun = {}
    /\ givenUp = {}
    /\ posts = [i \in Calls |-> 0]
    /\ flag = FALSE
    /\ ipc = "idle"
    /\ ifan = {}
    /\ bits = {}

---------------------------------------------------------------------------
(* The turn's thread: execute_tool_calls_concurrent, _ConcurrentBatch.run.  *)

\* An interrupt seen on entry skips the whole batch; otherwise the batch starts.
Enter ==
    /\ mpc = "enter"
    /\ mpc' = IF flag THEN "skip" ELSE "submit"
    /\ UNCHANGED <<nextSubmit, snapshot, timedOut, fan, slot, reported, persistFailed,
                   parseErr, expired, workVars, gateVars, authVars, posts, intrVars, bits>>

\* _append_skipped_tool_results with stop_on_flush_failure=False: a failed flush is
\* recorded and the remaining calls still get their row.
SkipCall ==
    /\ mpc = "skip"
    /\ IF slot > N
       THEN /\ mpc' = "done"
            /\ UNCHANGED <<slot, reported, posts, persistFailed>>
       ELSE /\ reported' = [reported EXCEPT ![slot] = "skipped"]
            /\ posts' = [posts EXCEPT ![slot] = @ + 1]
            /\ slot' = slot + 1
            /\ \/ UNCHANGED persistFailed
               \/ persistFailed' = TRUE
            /\ UNCHANGED mpc
    /\ UNCHANGED <<nextSubmit, snapshot, timedOut, fan, parseErr, expired, workVars,
                   gateVars, authVars, intrVars, bits>>

\* submit_all hands the next runnable call to the pool.
Submit ==
    /\ mpc = "submit"
    /\ IF nextSubmit > N
       THEN /\ mpc' = IF Runnable = {} THEN "append" ELSE "poll"
            /\ UNCHANGED <<nextSubmit, wpc>>
       ELSE /\ nextSubmit' = nextSubmit + 1
            /\ wpc' = IF nextSubmit \in parseErr THEN wpc
                      ELSE [wpc EXCEPT ![nextSubmit] = "queued"]
            /\ UNCHANGED mpc
    /\ UNCHANGED <<snapshot, timedOut, fan, slot, reported, persistFailed, parseErr, expired,
                   outcome, results, begun, gateVars, authVars, posts, intrVars, bits>>

\* runnable[submit_index:], the calls an interpreter shutdown leaves unsubmitted.
SkippedFrom == {i \in Runnable : i >= nextSubmit}

\* executor.submit raises because the interpreter is shutting down: the unsubmitted
\* calls get an error result, without a hook, and the batch goes on with the others.
SubmitShutdown ==
    /\ mpc = "submit"
    /\ nextSubmit \in Runnable
    /\ results' = [i \in Calls |-> IF i \in SkippedFrom /\ results[i] = "none"
                                   THEN "shutdown" ELSE results[i]]
    /\ nextSubmit' = N + 1
    /\ mpc' = "poll"
    /\ UNCHANGED <<snapshot, timedOut, fan, slot, reported, persistFailed, parseErr, expired,
                   wpc, outcome, begun, gateVars, authVars, posts, intrVars, bits>>

\* executor.submit raises for another reason: the finally of run() joins the workers
\* already submitted, then the exception leaves without any result row.
SubmitRaises ==
    /\ mpc = "submit"
    /\ nextSubmit \in Runnable
    /\ mpc' = "joining"
    /\ UNCHANGED <<nextSubmit, snapshot, timedOut, fan, slot, reported, persistFailed, parseErr,
                   expired, workVars, gateVars, authVars, posts, intrVars, bits>>

JoinAfterRaise ==
    /\ mpc = "joining"
    /\ \A i \in Submitted : FutureDone(i)
    /\ mpc' = "raised"
    /\ UNCHANGED <<nextSubmit, snapshot, timedOut, fan, slot, reported, persistFailed, parseErr,
                   expired, workVars, gateVars, authVars, posts, intrVars, bits>>

\* await_completion: concurrent.futures.wait returns the futures still running.
Poll ==
    /\ mpc = "poll"
    /\ snapshot' = {i \in Submitted : ~FutureDone(i)}
    /\ mpc' = IF snapshot' = {} THEN "append" ELSE "decide"
    /\ givenUp' = IF snapshot' = {} THEN begun ELSE givenUp
    /\ UNCHANGED <<nextSubmit, timedOut, fan, slot, reported, persistFailed, parseErr, expired,
                   workVars, nextOrder, abandoned, gateExpired, authVars, posts, intrVars, bits>>

\* await_completion: the deadline first, then the interrupt flag, else wait again.
Decide ==
    /\ mpc = "decide"
    /\ timedOut' = IF expired THEN snapshot ELSE timedOut
    /\ mpc' = IF expired \/ flag THEN "cancel" ELSE "poll"
    /\ UNCHANGED <<nextSubmit, snapshot, fan, slot, reported, persistFailed, parseErr, expired,
                   workVars, gateVars, authVars, posts, intrVars, bits>>

\* f.cancel() for every f in not_done: only a future still queued is cancelled.
Cancel ==
    /\ mpc = "cancel"
    /\ IF snapshot = {}
       THEN /\ mpc' = "abandon"
            /\ UNCHANGED <<snapshot, wpc>>
       ELSE \E i \in snapshot :
            /\ wpc' = IF wpc[i] = "queued" THEN [wpc EXCEPT ![i] = "cancelled"] ELSE wpc
            /\ snapshot' = snapshot \ {i}
            /\ UNCHANGED mpc
    /\ UNCHANGED <<nextSubmit, timedOut, fan, slot, reported, persistFailed, parseErr, expired,
                   outcome, results, begun, gateVars, authVars, posts, intrVars, bits>>

\* gate.abandon(): the event is set before the condition's lock is taken ...
Abandon ==
    /\ mpc = "abandon"
    /\ abandoned' = TRUE
    /\ mpc' = "notify"
    /\ UNCHANGED <<nextSubmit, snapshot, timedOut, fan, slot, reported, persistFailed, parseErr,
                   expired, workVars, nextOrder, gateExpired, givenUp, authVars, posts, intrVars, bits>>

\* Mutant: abandon() sets the event and returns without taking the condition's lock.
NotifyWithoutLock ==
    /\ mpc = "notify"
    /\ mpc' = IF timedOut # {} THEN "snapTids" ELSE "append"
    /\ givenUp' = begun
    /\ UNCHANGED <<nextSubmit, snapshot, timedOut, fan, slot, reported, persistFailed, parseErr,
                   expired, workVars, nextOrder, abandoned, gateExpired, authVars, posts,
                   intrVars, bits>>

\* ... and notify_all needs that lock, so it waits for a begin callback in progress.
\* After an interrupt the 3 s grace wait follows, which is only a delay.
Notify ==
    /\ mpc = "notify"
    /\ GateLockFree
    /\ mpc' = IF timedOut # {} THEN "snapTids" ELSE "append"
    /\ givenUp' = begun
    /\ UNCHANGED <<nextSubmit, snapshot, timedOut, fan, slot, reported, persistFailed, parseErr,
                   expired, workVars, nextOrder, abandoned, gateExpired, authVars, posts,
                   intrVars, bits>>

\* After a timeout: copy the registered tids under their lock ...
SnapTids ==
    /\ mpc = "snapTids"
    /\ fan' = Registered
    /\ mpc' = "fanOut"
    /\ UNCHANGED <<nextSubmit, snapshot, timedOut, slot, reported, persistFailed, parseErr,
                   expired, workVars, gateVars, authVars, posts, intrVars, bits>>

\* ... and set the interrupt bit of each, outside the lock (_interrupt_worker_tids).
FanOut ==
    /\ mpc = "fanOut"
    /\ IF fan = {}
       THEN /\ mpc' = "append"
            /\ UNCHANGED <<fan, bits>>
       ELSE \E i \in fan :
            /\ bits' = bits \cup {i}
            /\ fan' = fan \ {i}
            /\ UNCHANGED mpc
    /\ UNCHANGED <<nextSubmit, snapshot, timedOut, slot, reported, persistFailed, parseErr,
                   expired, workVars, gateVars, authVars, posts, intrVars>>

\* _unfinished_tool_result: what is said of a slot no worker filled.  Its "cancelled" says
\* the call was skipped, also of a tool that began and has not returned.
Unfinished(i) ==
    IF i \in timedOut THEN "timeout" ELSE IF flag THEN "cancelled" ELSE "missing"

\* _commit_tool_result: the row is appended, then flushed; a failed flush stops the batch.
CommitRow(what) ==
    /\ reported' = [reported EXCEPT ![slot] = what]
    /\ slot' = slot + 1
    /\ \/ UNCHANGED <<mpc, persistFailed>>
       \/ /\ persistFailed' = TRUE
          /\ mpc' = "done"

\* _append_batch_results for one slot: a stored result wins over a synthesized one;
\* unfinished and invalid slots emit their hook here.
AppendResult ==
    /\ mpc = "append"
    /\ IF slot > N
       THEN /\ mpc' = "done"
            /\ UNCHANGED <<slot, reported, posts, persistFailed>>
       ELSE /\ CommitRow(IF results[slot] = "none" THEN Unfinished(slot) ELSE results[slot])
            /\ posts' = IF results[slot] \in {"none", "invalid"}
                        THEN [posts EXCEPT ![slot] = @ + 1] ELSE posts
    /\ UNCHANGED <<nextSubmit, snapshot, timedOut, fan, parseErr, expired, workVars,
                   gateVars, authVars, intrVars, bits>>

Main ==
    \/ Enter \/ SkipCall \/ Submit \/ SubmitShutdown \/ SubmitRaises \/ JoinAfterRaise
    \/ Poll \/ Decide \/ Cancel \/ Abandon \/ Notify \/ SnapTids \/ FanOut \/ AppendResult

---------------------------------------------------------------------------
(* The workers: run_worker, _dispatch_worker, _dispatch_authorized_once.    *)

Go(i, from, to) ==
    /\ wpc[i] = from
    /\ wpc' = [wpc EXCEPT ![i] = to]

\* A pool thread takes the oldest queued call and registers its tid.
Start(i) ==
    /\ Go(i, "queued", "starting")
    /\ \A j \in Calls : j < i => wpc[j] # "queued"
    /\ Cardinality(Running) < MaxWorkers
    /\ UNCHANGED <<mainVars, parseErr, expired, outcome, results, begun, gateVars, authVars,
                   posts, intrVars, bits>>

\* Mutant: the worker does not look at the flag after registering.
CheckInterruptSkipped(i) ==
    /\ Go(i, "starting", "pre")
    /\ UNCHANGED <<mainVars, parseErr, expired, outcome, results, begun, gateVars, authVars,
                   posts, intrVars, bits>>

\* run_worker: an interrupt that fanned out before the registration is applied here.
CheckInterrupt(i) ==
    /\ Go(i, "starting", "pre")
    /\ bits' = IF flag THEN bits \cup {i} ELSE bits
    /\ UNCHANGED <<mainVars, parseErr, expired, outcome, results, begun, gateVars, authVars,
                   posts, intrVars>>

\* The middleware raises, or answers without dispatching: _dispatch_worker emits the hook.
EndBeforeDispatch(i) ==
    /\ Go(i, "pre", "writing")
    /\ outcome' = [outcome EXCEPT ![i] = "undispatched"]
    /\ posts' = [posts EXCEPT ![i] = @ + 1]
    /\ UNCHANGED <<mainVars, parseErr, expired, results, begun, gateVars, authVars, intrVars, bits>>

\* The call is outside the session's tool scope: no hook runs.
ScopeBlock(i) ==
    /\ Go(i, "pre", "gateBlock")
    /\ UNCHANGED <<mainVars, parseErr, expired, outcome, results, begun, gateVars, authVars,
                   posts, intrVars, bits>>

\* The authorization gate: take its lock, then run the pre_tool_call hooks ...
AuthAcquire(i) ==
    /\ Go(i, "pre", "auth")
    /\ authHolder = 0
    /\ authHolder' = i
    /\ UNCHANGED <<mainVars, parseErr, expired, outcome, results, begun, gateVars, unserialized,
                   posts, intrVars, bits>>

\* ... or give up waiting for it and run them unserialized.
AuthTimesOut(i) ==
    /\ Go(i, "pre", "auth")
    /\ authHolder # 0
    /\ unserialized' = unserialized \cup {i}
    /\ UNCHANGED <<mainVars, parseErr, expired, outcome, results, begun, gateVars, authHolder,
                   posts, intrVars, bits>>

\* A hook asks the user for approval.
AskHuman(i) ==
    /\ Go(i, "auth", "human")
    /\ UNCHANGED <<mainVars, parseErr, expired, outcome, results, begun, gateVars, authVars,
                   posts, intrVars, bits>>

\* Mutant: the lock is released by whoever ran a hook, held or not.
AuthReleaseAlways(i) == 0

\* The finally of run() belongs to the branch that acquired the lock.
AuthRelease(i) == IF authHolder = i THEN 0 ELSE authHolder

\* The hooks and the guardrail answer: run the call or block it.
HooksAnswer(i) ==
    /\ wpc[i] \in {"auth", "human"}
    /\ \E verdict \in {"gateRun", "gateBlock"} : wpc' = [wpc EXCEPT ![i] = verdict]
    /\ authHolder' = AuthRelease(i)
    /\ UNCHANGED <<mainVars, parseErr, expired, outcome, results, begun, gateVars, unserialized,
                   posts, intrVars, bits>>

\* The guardrail raises: a call that raised, whose hook _dispatch_worker emits.
GuardrailRaises(i) ==
    /\ wpc[i] \in {"auth", "human"}
    /\ wpc' = [wpc EXCEPT ![i] = "writing"]
    /\ outcome' = [outcome EXCEPT ![i] = "undispatched"]
    /\ posts' = [posts EXCEPT ![i] = @ + 1]
    /\ authHolder' = AuthRelease(i)
    /\ UNCHANGED <<mainVars, parseErr, expired, results, begun, gateVars, unserialized,
                   intrVars, bits>>

\* A BaseException of the middleware, a hook or the guardrail: no result is stored, and
\* run_worker's finally still advances the gate.
DiesBeforeGate(i) ==
    /\ wpc[i] \in {"pre", "auth", "human"}
    /\ wpc' = [wpc EXCEPT ![i] = "lateAdvance"]
    /\ authHolder' = AuthRelease(i)
    /\ UNCHANGED <<mainVars, parseErr, expired, outcome, results, begun, gateVars, unserialized,
                   posts, intrVars, bits>>

\* Mutant: the gate forgets that a later worker may already have moved it on.
AdvancedPastForgetful(i) == Order(i) + 1

\* max(_next_order, order + 1).
AdvancedPast(i) == Larger(nextOrder, Order(i) + 1)

\* The wait's predicate: every earlier order has passed.
InOrder(i) == nextOrder >= Order(i)

\* Mutant: a worker that abandon() woke goes on as if its turn had come.
PassesWaitUnchecked(i) ==
    /\ GateLockFree
    /\ gateExpired' = (gateExpired \/ ~InOrder(i))

\* begin_in_order gets past its wait, in order or because the timeout expired.
PassesWait(i) ==
    /\ ~abandoned
    /\ GateLockFree
    /\ gateExpired' = (gateExpired \/ ~InOrder(i))

\* An authorized call takes the gate's lock and enters its begin callback.
EnterGate(i) ==
    /\ Go(i, "gateRun", "callback")
    /\ PassesWait(i)
    /\ UNCHANGED <<mainVars, parseErr, expired, outcome, results, begun, nextOrder, abandoned,
                   givenUp, authVars, posts, intrVars, bits>>

\* _begin_tool_execution, under the gate's lock; then the gate advances and is released,
\* also when the callback raises (the call then ends like a tool that raises).
BeginExecution(i) ==
    /\ Go(i, "callback", "exec")
    /\ begun' = begun \cup {i}
    /\ nextOrder' = AdvancedPast(i)
    /\ UNCHANGED <<mainVars, parseErr, expired, outcome, results, abandoned, gateExpired,
                   givenUp, authVars, posts, intrVars, bits>>

\* A blocked call advances the gate without a callback ...
BlockedAtGate(i) ==
    /\ Go(i, "gateBlock", "blocked")
    /\ PassesWait(i)
    /\ nextOrder' = AdvancedPast(i)
    /\ UNCHANGED <<mainVars, parseErr, expired, outcome, results, begun, abandoned, givenUp,
                   authVars, posts, intrVars, bits>>

\* Mutant: _dispatch_worker emits the hook of a blocked call a second time.
BlockedResultTwice(i) ==
    /\ Go(i, "blocked", "writing")
    /\ outcome' = [outcome EXCEPT ![i] = "blocked"]
    /\ posts' = [posts EXCEPT ![i] = @ + 2]
    /\ UNCHANGED <<mainVars, parseErr, expired, results, begun, gateVars, authVars, intrVars, bits>>

\* ... and then emits its hook.
BlockedResult(i) ==
    /\ Go(i, "blocked", "writing")
    /\ outcome' = [outcome EXCEPT ![i] = "blocked"]
    /\ posts' = [posts EXCEPT ![i] = @ + 1]
    /\ UNCHANGED <<mainVars, parseErr, expired, results, begun, gateVars, authVars, intrVars, bits>>

\* Abandoned at the gate: _BatchAbandoned, no result, no hook.
LeaveGate(i) ==
    /\ wpc[i] \in {"gateRun", "gateBlock", "lateAdvance"}
    /\ abandoned
    /\ GateLockFree
    /\ wpc' = [wpc EXCEPT ![i] = "exiting"]
    /\ UNCHANGED <<mainVars, parseErr, expired, outcome, results, begun, gateVars, authVars,
                   posts, intrVars, bits>>

\* The tool ends: it returns and its dispatcher emits the hook, or it raises and
\* _dispatch_worker does.
ToolEnds(i) ==
    /\ Go(i, "exec", "writing")
    /\ outcome' = [outcome EXCEPT ![i] = "real"]
    /\ posts' = [posts EXCEPT ![i] = @ + 1]
    /\ UNCHANGED <<mainVars, parseErr, expired, results, begun, gateVars, authVars, intrVars, bits>>

\* The tool raises KeyboardInterrupt: the worker calls agent.interrupt() and emits the hook.
ToolCancelled(i) ==
    /\ MayInterrupt
    /\ Go(i, "exec", "writing")
    /\ outcome' = [outcome EXCEPT ![i] = "real"]
    /\ posts' = [posts EXCEPT ![i] = @ + 1]
    /\ flag' = TRUE
    /\ ipc' = IF ipc = "idle" THEN "snap" ELSE ipc
    /\ UNCHANGED <<mainVars, parseErr, expired, results, begun, gateVars, authVars, ifan, bits>>

\* The tool raises another BaseException: the thread ends without a result.
ToolDies(i) ==
    /\ Go(i, "exec", "exiting")
    /\ UNCHANGED <<mainVars, parseErr, expired, outcome, results, begun, gateVars, authVars,
                   posts, intrVars, bits>>

\* self.results[index] = outcome; the finally then advances a gate not yet advanced.
StoreResult(i) ==
    /\ wpc[i] = "writing"
    /\ results' = [results EXCEPT ![i] = outcome[i]]
    /\ wpc' = [wpc EXCEPT ![i] = IF outcome[i] = "undispatched" THEN "lateAdvance" ELSE "exiting"]
    /\ UNCHANGED <<mainVars, parseErr, expired, outcome, begun, gateVars, authVars, posts,
                   intrVars, bits>>

LateAdvance(i) ==
    /\ Go(i, "lateAdvance", "exiting")
    /\ PassesWait(i)
    /\ nextOrder' = AdvancedPast(i)
    /\ UNCHANGED <<mainVars, parseErr, expired, outcome, results, begun, abandoned, givenUp,
                   authVars, posts, intrVars, bits>>

\* _registered_tool_worker's finally: leave the registry under its lock ...
Unregister(i) ==
    /\ Go(i, "exiting", "clearing")
    /\ UNCHANGED <<mainVars, parseErr, expired, outcome, results, begun, gateVars, authVars,
                   posts, intrVars, bits>>

\* ... then clear the interrupt bit of this tid.
ClearBit(i) ==
    /\ Go(i, "clearing", "done")
    /\ bits' = bits \ {i}
    /\ UNCHANGED <<mainVars, parseErr, expired, outcome, results, begun, gateVars, authVars,
                   posts, intrVars>>

\* What a worker does without waiting for a hook, a human or a tool.
WorkerStep(i) ==
    \/ Start(i) \/ CheckInterrupt(i) \/ EndBeforeDispatch(i) \/ ScopeBlock(i)
    \/ AuthAcquire(i) \/ AuthTimesOut(i) \/ EnterGate(i) \/ BlockedAtGate(i)
    \/ BlockedResult(i) \/ LeaveGate(i) \/ StoreResult(i)
    \/ LateAdvance(i) \/ Unregister(i) \/ ClearBit(i)

\* What only a callback, a hook, a human or a tool decides, and may never decide.
OutsideStep(i) ==
    \/ BeginExecution(i) \/ AskHuman(i) \/ HooksAnswer(i) \/ GuardrailRaises(i)
    \/ DiesBeforeGate(i)
    \/ ToolEnds(i) \/ ToolCancelled(i) \/ ToolDies(i)

---------------------------------------------------------------------------
(* The deadline, and AIAgent.interrupt() as the executor relies on it.      *)

\* Mutant: the whole stay in the authorization gate is excluded from the deadline.
ExcludedWaitResidency == \E i \in Calls : wpc[i] \in {"auth", "human"}

\* excluded_seconds(): only an open approval prompt stops the batch's clock.
ExcludedWait == \E i \in Calls : wpc[i] = "human"

DeadlineElapses ==
    /\ TimeoutEnabled
    /\ mpc \notin {"enter", "skip"}
    /\ ~expired
    /\ ~ExcludedWait
    /\ expired' = TRUE
    /\ UNCHANGED <<mainVars, parseErr, workVars, gateVars, authVars, posts, intrVars, bits>>

\* interrupt() raises the flag first ...
Interrupt ==
    /\ MayInterrupt
    /\ ipc = "idle"
    /\ flag' = TRUE
    /\ ipc' = "snap"
    /\ UNCHANGED <<mainVars, parseErr, expired, workVars, gateVars, authVars, posts, ifan, bits>>

\* ... then copies the registered tids ...
InterruptSnapshot ==
    /\ ipc = "snap"
    /\ ifan' = Registered
    /\ ipc' = "fan"
    /\ UNCHANGED <<mainVars, parseErr, expired, workVars, gateVars, authVars, posts, flag, bits>>

\* ... and sets the bit of each.
InterruptFanOut ==
    /\ ipc = "fan"
    /\ IF ifan = {}
       THEN /\ ipc' = "done"
            /\ UNCHANGED <<ifan, bits>>
       ELSE \E i \in ifan :
            /\ bits' = bits \cup {i}
            /\ ifan' = ifan \ {i}
            /\ UNCHANGED ipc
    /\ UNCHANGED <<mainVars, parseErr, expired, workVars, gateVars, authVars, posts, flag>>

\* The batch is over and every thread has left it.
Finished ==
    /\ mpc \in {"done", "raised"}
    /\ \A i \in Calls : wpc[i] \in {"new", "done", "cancelled"}
    /\ ipc \in {"idle", "done"}
    /\ UNCHANGED vars

Next ==
    \/ Main
    \/ \E i \in Calls : WorkerStep(i) \/ OutsideStep(i)
    \/ DeadlineElapses
    \/ Interrupt \/ InterruptSnapshot \/ InterruptFanOut
    \/ Finished

Spec == Init /\ [][Next]_vars

\* Python threads are scheduled and timed waits end; an approval prompt is bounded by
\* human_wait_ceiling.  A hook or a tool may hang forever: no fairness for them.
Scheduling ==
    /\ WF_vars(Main)
    /\ \A i \in Calls :
        /\ WF_vars(WorkerStep(i))
        /\ WF_vars(wpc[i] = "human" /\ HooksAnswer(i))
    /\ WF_vars(DeadlineElapses)

\* The begin callbacks (UI projections, checkpoint preflight) return.
CallbacksReturn == \A i \in Calls : WF_vars(BeginExecution(i))

FairSpec == Spec /\ Scheduling /\ CallbacksReturn

---------------------------------------------------------------------------
(* Properties.                                                              *)

\* Every variable keeps its type; the gate's order never exceeds the runnable calls.
TypeOK ==
    /\ mpc \in MainPcs
    /\ parseErr \in SUBSET Calls
    /\ nextSubmit \in 1 .. N + 1
    /\ snapshot \in SUBSET Calls
    /\ expired \in BOOLEAN
    /\ timedOut \in SUBSET Calls
    /\ fan \in SUBSET Calls
    /\ slot \in 1 .. N + 1
    /\ reported \in [Calls -> Reports]
    /\ persistFailed \in BOOLEAN
    /\ wpc \in [Calls -> WorkerPcs]
    /\ outcome \in [Calls -> Outcomes]
    /\ results \in [Calls -> Outcomes]
    /\ nextOrder \in 0 .. Cardinality(Runnable)
    /\ abandoned \in BOOLEAN
    /\ gateExpired \in BOOLEAN
    /\ authHolder \in Calls \cup {0}
    /\ unserialized \in SUBSET Calls
    /\ begun \in SUBSET Calls
    /\ givenUp \in SUBSET Calls
    /\ posts \in [Calls -> Nat]
    /\ flag \in BOOLEAN
    /\ ipc \in {"idle", "snap", "fan", "done"}
    /\ ifan \in SUBSET Calls
    /\ bits \in SUBSET Calls

\* No tool begins once the transcript has its row: "Release gate-parked workers BEFORE
\* interrupt fan-out so none later dispatches a tool the turn already reported".  It holds
\* only because abandon() takes the condition's lock after setting the event.
NoLateBegin == [][\A i \in begun' \ begun : reported[i] = "none"]_vars

\* A row that denies an effect is not the row of a tool that began, then or later: none that
\* says blocked, invalid arguments, not started because of the shutdown or skipped on entry,
\* and one that says "was skipped due to user interrupt" (tool_executor.py:1335) at most when
\* the tool had begun before the turn stopped waiting.  That exception is the code's own: a
\* tool still running after the 3 s grace, or whose thread died, gets that row although it ran.
NoEffectRowsAreTrue ==
    \A i \in begun :
        /\ reported[i] \notin {"blocked", "invalid", "shutdown", "skipped"}
        /\ reported[i] = "cancelled" => i \in givenUp

\* Once agent.interrupt() has returned, every worker past its registration check has its
\* interrupt bit until it clears it: none slips between the fan-out and the registration.
InterruptReachesWorkers ==
    ipc = "done" =>
        \A i \in Registered : wpc[i] # "starting" => i \in bits

\* The authorization lock is held exactly by the serialized worker that is in its hooks:
\* a worker that gave up waiting never frees the lock of another one.
AuthLockExact ==
    \A i \in Calls :
        authHolder = i <=> (wpc[i] \in {"auth", "human"} /\ i \notin unserialized)

\* The call has moved the gate past its own order.
Advanced(i) == i \in begun \/ wpc[i] = "blocked" \/ outcome[i] = "blocked"

\* While no gate wait timed out, tools begin in the order of the model's calls: whoever
\* began, every earlier runnable call had left the gate.
StartsInOrder ==
    ~gateExpired =>
        \A j \in begun : \A i \in Runnable :
            i < j => Advanced(i) \/ wpc[i] \in {"exiting", "clearing", "done"}

\* A worker parked at the gate is waiting for an earlier call that has yet to pass it, also
\* after calls passed out of order: the gate never makes anyone wait for a call already gone.
ParkedWaitsForSomeone ==
    \A i \in Calls :
        wpc[i] \in {"gateRun", "gateBlock", "lateAdvance"} /\ ~InOrder(i) =>
            \E j \in Runnable : Order(j) = nextOrder /\ ~Advanced(j)

\* The gate keeps the model's order and makes nobody wait for it in vain.
GateKeepsOrder == StartsInOrder /\ ParkedWaitsForSomeone

\* A batch that was not abandoned ends with one terminal post_tool_call for every row,
\* save the rows of calls never submitted because of the shutdown, which have none.
PostsMatchRows ==
    mpc = "done" /\ ~abandoned =>
        \A i \in Calls : reported[i] # "none" =>
            posts[i] = IF reported[i] = "shutdown" THEN 0 ELSE 1

\* With a deadline the turn gets its thread back, whatever hooks and tools do, unless
\* submitting raised: "A wedged plugin now contributes nothing to the exclusion and the
\* batch times out normally".
BatchReturns == <>(mpc \in {"done", "joining", "raised"})
=============================================================================
