# Verification of the Hermes core

TLA+ specifications, TLC runs and TLAPS proofs for `src/hermes-core/`, the agent core of this repository: the code
that runs a model's tool calls, the conversation turn, subagents, external memory, context compression and the
curator. Paths below are relative to `src/hermes-core/` unless they say otherwise.

## 1. The system

| component | state it keeps | operations | interacts with |
|---|---|---|---|
| concurrent tool batch (`tool_executor.py`) | results and timings per call, the start-order gate (`_next_order`, `abandoned`), the authorization lock and its excluded time, registered worker threads and their interrupt bits | submit, wait for completion, abandon, publish one row per call; per worker: authorize, begin in order, dispatch, store | the turn loop calls it; pool threads run it; hooks, the user and tools answer it; `AIAgent.interrupt()` reaches into it |
| sequential and segmented execution (`tool_executor.py`) | the future of one call, its worker's tid | poll, abandon, time out, skip the remainder; run a round as segments | as above; a parallel segment is a concurrent batch |
| conversation turn loop (`conversation_loop.py`, `turn_iteration_prep.py`, `turn_api_call.py`, `turn_api_request.py`, `turn_tool_round.py`) | messages, iteration count and budget, pending redirect and steer, retry state | prepare an iteration, call the model, restart, run a tool round, finish | other threads post redirects, steers and interrupts; the session store; the tool executors; the compressor |
| turn setup and finalization (`turn_context.py`, `turn_finalizer.py`) | what one turn reads and leaves behind | prologue, epilogue | turn loop, memory manager, compressor |
| subagent lifecycle registry (`subagent_lifecycle.py`) | records, correlation ids, a pool of eight threads | launch, wait, cancel, status, cleanup after retention | plugin threads call it, its pool runs children (whole agents) |
| memory manager (`memory_manager.py`) | providers, one background worker and its queue, tracked futures, the drain report, prefetch threads | sync, queue a prefetch, session boundary and switch, flush, shut down | the turn (must never block on it), the worker, interpreter exit |
| context compressor (`context_compressor.py`, `context_engine.py`) | the previous summary, failure cooldown, structural backoff, strikes, fallback streak and recovery window, with copies on the session row | decide, prune, summarize, fall back, assemble, repair tool pairs, restate the open request | turn loop and host, an auxiliary model, the session store, another agent on the same session |
| curator (`curator.py`) | a state file, skill usage records | due check, transitions by the clock, review fork, report, repair of cron jobs | a forked agent, the skill store, the cron store, the user |
| tool registry front end (`model_tools.py`, `inline_tool_executors.py`) | tool-definition cache, an event loop per thread | look up, coerce arguments, dispatch | the tool registry (outside this repository) |
| provider registry (`provider_registry.py`, `provider_base.py`) | registered classes, scoped overlays | register, resolve, snapshot, restore | plugins |
| memory provider interface, insights, learning graph | none of their own | an abstract base class; read-only reports; one pure function | |
| prompts and notes (`HARNESS.md`, `memory/`, `agents/` in the repository's root) | none | none: text for people and models | |

What is hard here: a batch's threads meet at two gates while the turn may give up on them; a deadline, an interrupt
and a late result race; a hook, a human or a tool may never answer; the memory worker is shut down while it is being
fed; plugin threads race on correlation ids and cancellations; a user's correction crosses the response it corrects; a
transcript is rewritten again and again by code that recognizes its own earlier rewrites; a breaker's counters live
in memory and in a row, and restarts, rotations and other agents come between; reviewers of one skill library share
a state file without a lock. `PROJECT.json` lists each of these hazards at its line with the property that covers
it, or why none does.

### What makes each component correct

- *Concurrent batch*: what the transcript says of a call is true of what ran and stays true; calls begin in the
  model's order; the gates park nobody for nothing; the locks belong to who took them; an interrupt reaches every
  worker; the turn gets its thread back; one terminal hook per call.
- *Sequential execution*: the same for one call at a time, and every call of the round gets exactly one row.
- *Turn loop*: every assistant row's calls have result rows before the next request, whatever cut the round short;
  a redirect is applied exactly once; the budget is charged once per model response kept; rows are in the session
  store before the model hears of them; the loop ends.
- *Subagents*: a child's verdict is final; a cancellation made in time is honoured; a live child is never forgotten; a
  correlation id names one record; a waiter gets its answer.
- *Memory*: a session is extracted from a provider still bound to it; nothing accepted is lost unreported; the turn
  and the shutdown never wait for a provider.
- *Compressor*: nothing said is lost, whether it is in a row or in a summary; tool calls and results stay paired and
  roles alternate; the open request stays open and no answered one is opened again; a breaker that tripped stays
  tripped over restarts, and lets one probe through per window; nobody asks the summary model in a cooldown.
- *Curator*: reviews are spaced; a pause holds; the clock archives only what earned it; no cron job is left with a
  skill that is gone, or loses one that is there.

## 2. Modules, and what is left of the plan

| modules | subject | status |
|---|---|---|
| `ToolBatch`, `MCToolBatch`, `ToolBatchProofs` | the concurrent batch | checked, proved |
| `SubagentPromise` (abstract), `SubagentLifecycle` (implements it), `MCSubagentLifecycle`, `SubagentLifecycleProofs` | children | checked, proved |
| `MemorySync`, `MCMemorySync`, `MemorySyncProofs` | the background worker | checked, proved |
| `TurnLoop`, `MCTurnLoop`, `TurnLoopProofs` | iterations, budget, redirects, steers, stops, retries, tool rounds, the end of a turn | checked, proved |
| `SequentialTool`, `MCSequentialTool`, `SequentialToolProofs` | the polled call, its late worker, the skipped remainder, segments | checked, proved |
| `CompactionWindow`, `Compaction` (composes it), `MCCompaction`, `CompactionProofs` | the window, and what a conversation goes through from compaction to compaction | checked, proved in part |
| `CompressionGuards`, `MCCompressionGuards`, `CompressionGuardsProofs` | when a compaction may be tried | checked, proved |
| `SkillRemoval`, `Curator` (composes it), `MCCurator`, `CuratorProofs` | reviews of the skill library and what they do to cron jobs | checked, proved |

Left for later: proofs of the two step properties of `Compaction` (alternation, the restated request); reuse of thread
ids in `ToolBatch`; the prefetch threads of `MemorySync`; the provider registry's snapshot and restore; the
tool-definition cache.

## 3. How the modules follow the code

### `ToolBatch` - one concurrent batch

State and steps follow `execute_tool_calls_concurrent`, `_ConcurrentBatch` and the two gates.

- `mpc` is the turn's thread: enter (skip everything if interrupted) -> `submit_all` -> the wait loop (`Poll` takes
  `not_done`, `Decide` looks at the deadline and then at the flag) -> cancel the queued futures -> `gate.abandon()` in
  its two halves (`Abandon` sets the event, `Notify` needs the condition's lock) -> after a deadline the fan-out of
  interrupt bits -> one row per slot. A failing `submit` either marks the rest as not started (interpreter shutdown)
  or joins what runs and raises.
- `wpc[i]` is call i's pool thread: queued -> registered -> flag check -> scope check -> authorization gate (lock, or
  the unserialized run after its timeout) -> hooks, perhaps a human -> verdict -> start-order gate -> begin callback
  under the gate's lock -> tool -> result stored -> gate advanced if it was not -> unregister -> clear its interrupt
  bit. At every point where outside code runs, it may also raise an exception or a `BaseException`.
- `ipc` is the thread inside `AIAgent.interrupt()`: flag, copy of the registered tids, one bit at a time. That class is
  not in this repository; the three steps are what the executor's own comments and code rely on.

Time is a set of events: the deadline may pass whenever the batch's clock is not stopped by an open approval prompt,
and a timed wait may time out whenever it waits. The arguments, results and display of tools are left out: no property
tells them apart. `parseErr` chooses the calls whose arguments do not parse.

### `SequentialTool` - one call after the other

`pc`, `cur` are the turn's thread in `execute_tool_calls_segmented` and `execute_tool_calls_sequential`; `wpc[i]` is the
worker that `_run_sequential_tool_execution_middleware` starts for call i. The kind of a call is how
`_resolve_sequential_dispatch` dispatches it, since that decides what becomes of an exception and of a
KeyboardInterrupt. `Poll...` is one slice of the poll loop; its order is the code's: the deadline first, then the
future, then the flag, so that a result that comes with the deadline is lost. A tool that raises `TimeoutError` is not
told from a slice that ran out (`PollDone`). A worker enters the agent's registry (`Register`) before it leaves its tid for the
turn (`LeaveTid`). An abandoned worker runs on beside the later calls. A parallel segment is one
step here, since `ToolBatch` says what happens in it. A failed save of a row ends the round.

### `SubagentLifecycle` and `SubagentPromise` - the registry of children

`SubagentPromise` says what a caller may count on: a child is absent, live, settled or forgotten, a verdict never
changes, a live child is never forgotten. It lets settled children be forgotten, as the cleanup after the retention period
does, and so promises less than the docstring of the service. `SubagentLifecycle` has one action per critical section of
`_REGISTRY.lock` and for what happens between two of them: `Check` and `Register` are the two halves of `launch()`,
`RunStart`, `ChildReturns`, `ChildDies` and `Publish` are `_run()`, and `wait()` ends in one of four ways: it times out, the
future is over, the child's BaseException passes through it, or `_record` finds nothing for the handle (`WaitFindsNothing`), because the record was
cleaned up or another parent session is active, and the answer is UNKNOWN, completed.
`Cleanup` happens inside `Check`, as in the code. `KeepsPromise` is the refinement.

Request validation and the capability check reject before any state changes; `status`, `result` and `reconnect` only
read: neither is modelled. `corr` (what each request asks for), `cancel`, `answer` and `overlapped` are observations.

### `MemorySync` - the background worker

One host thread submits tasks (turn syncs, prefetches, session boundaries) through `_submit_background`, step by step
from the unlocked read of the executor to the done callback, which takes the lock again. One pool thread takes them
from a queue. `shutdown_all` runs `_drain_sync_executor` in its critical sections, a flush may look at the executor at
any time, and the interpreter may begin to exit at any time, which makes executors refuse work and tasks run inline. A
boundary task has its two halves, the end of the old session and the switch to the new one; `bound` is the session the
provider is bound to and `misfiled` remembers that an extraction ran under the wrong one.

### `TurnLoop` - one turn after another

The turn's thread walks through `run_conversation`; `s` holds its locals (`_LoopState`) and where it is. Places and
actions follow the phases: `BeginIteration`, `DrainSteer` and `InjectSteer` (the two halves of `prepare_iteration`
between which another thread may steer), `PreflightGate`, the retry loop (`RateLimited`, `OpenRequest`, then `Answered`,
`RequestInterrupted` or `RequestFails`, then the checks), `ApplyRetryRestarts` with its flags in the code's order, the
text branch or the tool round (`StageToolCalls`, `ExecuteToolCalls`, `ResultsUnsaved`, `GuardrailHalts`, `RoundEnds`),
and `finalize_turn` in three steps: up to the save, up to the result, and the clearing of the interrupt. `Redirect`,
`Steer` and `Stop` are the other threads: `AIAgent.redirect()`, `steer()` and `interrupt()`, which the files here rely on
but do not contain.

A transcript is a sequence of rows of which the model knows the role and, for calls and results, whether they are in the
session store; all the results of a round are one row, since `ToolBatch` and `SequentialTool` say what is in them. Every
write to the store may fail. `flag` is `_interrupt_requested` with the reason it was raised for, which is what
`clear_interrupt` decides by. Phases that are not in this repository (`run_preflight_gate`, `check_api_response`,
`handle_api_error`, `finish_text_response`, `compress_after_tool_results`) may answer anything their callers handle,
within the caps the callers pass to them. `applied`, `delivered`, `handedBack`, `accepted`, `stopped`, `crossed` and
`cheap` are observations.

### `CompactionWindow` and `Compaction` - rewriting the transcript

`CompactionWindow` holds the functions that choose the window between head and tail: rows and what the compressor
recognizes in them (handoffs, blank echoes, scaffolding, requests), boundary alignment to tool groups, the probe for
handoffs after a restart, the tail's budget and the users it must keep. `Compaction` composes them: `Compress` is one call
of `compress()` from its first early return to `_finalize_compressed` (echoes dropped, window, scan for earlier
handoffs, summary or fallback or abort, head and tail stripped of handoffs, placement or merge of the summary, repair of
tool pairs, the open request appended again). `restarting` is the compaction in the middle of a call that overflowed:
`_should_skip_model_call_for_reference_handoff` then puts the turn's request back when only a handoff would drive the
next call. The conversation around it asks, calls tools, answers, is nudged, echoes, takes its last request back
(`RetryTurn`, by `split_user_originated_turn` and `history_before_user_originated_turn`) and restarts: the rows survive
a restart, the flags whose names begin with an underscore and the compressor's memory do not.

A row is a record of what the compressor tells rows apart by. Texts are sets of ids: what a row says itself (`live`), what
a summary in it covers (`sum`), what stands after its end marker (`after`). A summary covers what it was given. Budgets
count rows instead of tokens.

The functions were compared with the program itself: 18,616 calls of `compress()` and 2,728 retries taken from random
behaviours of this module were run through the real `ContextCompressor` with a stubbed summarizer, and the resulting
rows were compared one by one. One differed: a fallback's text caps how many tool results it lists, which ids of `said`
do not include.

### `CompressionGuards` - when a compaction may be tried

`c` is the compressor's memory, `row` the session's row, and every write takes the pair from one to the next, with the store
answering or not (`up`). `Gate` is `should_compress_info` with the local check, the refresh from the row and the second
local check; the overflow path asks the same gate without the cooldown. Then come the outcomes of `compress()`
(structural no-op, feasibility skip, a summary, five kinds of failure, a host that stops waiting), the host's commit in
place or onto a child session (`Rotate`), the bookkeeping, and around them responses, model switches, a rebuilt agent on
the same row, another agent that relieves the row, the pre-agent pass that writes a cooldown of its own, and a wall clock
that is set back. `late` is the worker that its host gave up on, before or past the fence: the first may fail, be dropped as
cancelled, or succeed without clearing anything, the second clears what the host recorded. While it is about, the host's
hook may answer for its attempt (`FenceAnswers`), which keeps `/compress` and a model switch from clearing and makes the
attempt in hand end as cancelled. Time is counted in ticks that remain.

### `SkillRemoval` and `Curator` - reviews of the skill library

`SkillRemoval` is what the report makes of skills that are gone: the evidence in the fork's tool calls, the declared
targets, the claims of the summary, their reconciliation, and what becomes of a job's list. `Curator` composes it with
the rest: `Tick` is `maybe_run_curator` with its two reads of the state file, `Begin` and `Transition` the survey and the
transitions one skill at a time, `RecordRun` the record before the fork, `ForkCall` the fork's tools, `WriteRunReport` and
`FinishSave` the read of the state file, the report and jobs, and the write. Two reviewers exist because a review goes on in
a thread of its own while its process, or another one, starts the next. Ten things may break, each once: reads and
writes of the state file and the cron store, the listing after a review, the skill store, the fork, the report's
directory, and the process.

## 4. What the runs check

| run | instance | distinct states | shows |
|---|---|---|---|
| `batch_gate` | 3 calls, 3 threads, no deadline, no interrupt | 1,305,460 | `AuthLockExact`: the authorization lock is held exactly by the serialized worker inside its hooks; `GateKeepsOrder`; `PostsMatchRows`: one terminal hook per row when nothing was abandoned |
| `batch_abandon` | 2 calls, a deadline | 177,723 | `NoLateBegin`: no tool begins after its row is written; `BatchReturns`: the turn gets its thread back |
| `batch_interrupt` | 2 calls, a deadline, a shutdown, interrupts from outside and from a worker | 3,784,085 | `InterruptReachesWorkers`; `NoEffectRowsAreTrue`: a row that denies an effect is of a call that never began, or, for the row of a cancelled call, began before the turn gave it up |
| `sequential` | 2 calls of any of six kinds, a deadline, a stop, a KeyboardInterrupt, a store that fails | 200,330 | `RowsInOrder`: every call answered once and in order unless a save failed; `RowsAreTrue`: no row denies an effect that was begun, a plain result is of a call that is over, whatever abandoned workers do later; `HooksAccounted`: one terminal hook for each call tried, and a second only from the worker of an abandoned call that its own hooks block; `StopReachesWorker`: a stop reaches a worker whose tid the turn has, even when it registered after the stop's fan-out; `RoundReturns` |
| `subagent` | 2 launches, one correlation id or none, one thread | 490,585 | `KeepsPromise`: the registry implements `SubagentPromise`; `VerdictsAreTrue`: cancellations in time are remembered, `wait` tells the final verdict, or UNKNOWN when it finds no record; `CorrelationsMatchRecords` when launches do not overlap; `WaitReturns` |
| `memory` | 2 tasks, one worker, shutdown, flush, exit | 329,103 | `AccountsAreHonest`: nothing accepted is lost unreported, and a flush that says True is right while nothing shuts down; `BoundaryEndsItsOwnSession`; `NobodyWaitsForProviders`: submission and drain return |
| `turn_loop` | one turn of 2 iterations; 2 corrections, 1 advice, 1 stop, 1 fallback, 1 compression, 1 attempt per request | 304,433 | `NoStaleResponse`: no answer is acted upon while a correction that crossed it waits; `RedirectsKept`: a correction leaves the queue only into the transcript, once; `NoIterationAfterStop`: a stop is not swallowed by the clearing of a redirect's cancellation; `InterruptedMeansStopped`: nor does such a cancellation end a turn; `SteersDeliveredOnce`; `BudgetMatchesCount`: the two counters of the loop are charged and refunded together; `OnlySavedRoundsAreSent`: the model hears of no call or result that a crash could lose; `TurnEnds` |
| `compaction` | up to 8 rows, 2 echoes, nudges, retries or restarts, every outcome of a summary | 65,570 | `NothingLost`: everything said is in a row or a summary, whatever was compacted, folded, merged or restarted; `PairsKept`: results follow their calls; `AlternationKept`: a compaction keeps the alternation of roles; `OnlyOpenAskRestated`: the open request stays open, no answered one is opened again |
| `compaction_inflight` | up to 9 rows, summaries that succeed | (stops at the violation) | see below |
| `guards` | one compressor, one row; one failing write, jump of the clock or other writer | 758,815 | `DurableBreaker`: what a restart would load at any moment is what the compressor goes by, but for a streak between a rotation and its bookkeeping; `RecoveryWindow`: a tripped breaker lets one probe through per window, and the window does end; `NoCallInCooldown`: no attempt but one for an overflow asks the summary model while the row holds a cooldown, whatever a late worker did after the gate; `RowHeeded`: the row decides, except over what it never got |
| `curator` | 2 reviewers, 2 skills, 1 job, one failure, crash or move of the user | 882,936 | `ReviewsSpaced`; `PauseHolds`; `ArchiveEarned`: only what is unpinned, in no job and out of use for the whole period is archived; `JobsFollow` and `JobsLoadable`: a job loses no skill that is there, follows the declared target of a merged one, and is not left with a deleted one |
| `curator_jobs` | the same | (stops at the violation) | see below |

Some properties are conjunctions of parts that are named and stated one by one in the modules: `GateKeepsOrder` (calls
begin in order unless a gate wait timed out; whoever is parked waits for a call that has yet to pass), `VerdictsAreTrue`,
`AccountsAreHonest`, `NobodyWaitsForProviders`, `OnlyOpenAskRestated` (`AskRestated`, `FinishedNotRevived`),
`RecoveryWindow` (`OneProbePerWindow`, `WindowOnlyShrinks`) and `RowHeeded` (`UnsavedCooldownKept`, `RowRelieves`).

Two runs are expected to fail, each against a sentence of the source:

| run | sentence | what happens |
|---|---|---|
| `compaction_inflight` | "SUMMARY_PREFIX instructs the model to act only on a user message that appears AFTER the summary, and to do nothing when none does" (`context_compressor.py:4045-4048`) and "Already actionable" (4083-4085) | a request kept on a leading carrier carries no mark; the next compaction takes the carrier for a handoff, strips the request, and restates none. The host's guard does not restore it either when tool rows follow the handoff |
| `curator_jobs` | "Cron jobs that referenced a consolidated or pruned skill were updated in-place so they keep loading the right instructions on their next run" (`curator.py:767-768`) | a listing that fails after the review (840-843) is taken for an empty library: every skill counts as pruned, and the job loses skills that are there |

Other disagreements between code and comments that were met while modelling and that no run checks; the properties of the
passing runs state their exceptions where they matter:

| line | what happens |
|---|---|
| `tool_executor.py:260` "the one terminal post_tool_call" | a worker in its tool when the deadline passes: the turn emits the hook for its slot, the worker emits it again when the tool ends |
| `tool_executor.py:1093` "one wedged dispatch can't starve later-ordered workers" | the begin callback runs under the condition's lock: while it hangs no timed wait returns, and neither does `abandon()` |
| `tool_executor.py:1583` "emits results for THIS and every remaining call" | the row of the call a KeyboardInterrupt hit says that it was skipped, although it ran; later segments get no rows |
| `tool_executor.py:1335` "was skipped due to user interrupt" | a call that is still in its tool when the grace after an interrupt ends, or whose thread died, gets this row although it ran (`NoEffectRowsAreTrue` excepts what had begun by then, `givenUp`) |
| `tool_executor.py:443-445` "a late-finishing abandoned worker must not report", `1618-1620` | the worker of an abandoned sequential call whose own hooks block it reports the block: a second terminal hook (`HooksAccounted` counts it) |
| `tool_executor.py:846-847` "this worker may have registered after that ran" | a worker between the registry (526) and its tid for the turn (831) when the turn looks, with `interrupt()` done before, or one that registers during the grace, is told of the stop by nobody |
| `tool_executor.py:533` "so a recycled tid starts clean" | an interrupt bit may be set on the tid of a worker that is over |
| `subagent_lifecycle.py:257` "Duplicate correlation_id" | test and registration are two critical sections: two overlapping launches both pass |
| `subagent_lifecycle.py:238-240` "completed results stay until process exit" | `_cleanup_locked` forgets a settled child after the retention period; `wait()` on its handle then answers UNKNOWN with `completed=True` (291-292) and no verdict |
| `memory_manager.py:535` "False on timeout" | during a drain the executor is gone or refuses, and the flush takes that for an empty queue |
| `turn_finalizer.py:226`, `236` | the explanation of an exit without a response is made after the transcript was closed and saved |
| `context_compressor.py:2995`, `4459` | the summary a fallback writes is not remembered: with a summary in memory, the next compaction drops what the fallback stood for (`unfolded`) |
| `context_compressor.py:2531` "the restart-must-not-disarm contract" | between a rotation and its bookkeeping the fallback streak is in memory only (1898-1899): a crash there loads 0 from the child's row, and a breaker the streak had tripped is disarmed (`StreakAtRisk`) |
| `context_compressor.py:2114` "a late cancelled worker must not undo the host's timeout cooldown", `2125-2128` | the fence is read before the clearing, not with it: a worker past it when the host gives up clears the cooldown that the host records |
| `context_compressor.py:2029` | a feasibility skip after a rotation leaves the carried streak unsaved (`unkept`) |
| `conversation_loop.py:159` | a request put back after a handoff of role user makes two user rows, until the repair of `turn_iteration_prep.py:96` |
| `curator.py:473` | arguments clipped at 400 characters do not parse, and the raw text is then no evidence either |
| `curator.py:202`, `209`, `212`, `926` | a failed read of the cron store protects nothing; a skill used, pinned or listed in a job after these reads is archived all the same; a pause set between the two halves of the last write is lost |
| `curator.py:931` | a crash between a fork's delete and the report is never made good; a chain of merges in one review drops a job's reference |

### Bounds, and why they are enough

- *Calls*: order, gates and hooks need a call before and a call after the one looked at, hence 3 in `batch_gate`. The
  abandonment and the interrupt concern one worker against the turn's thread, with one more to hold a lock or to be
  parked behind: 2. The safety properties that matter most do not rest on the bound: they are proved. Sequential calls meet
  only an abandoned predecessor and a skipped rest: 2, of any kinds.
- *Threads*: as many as calls. A smaller pool only delays starts, and a start may be delayed here anyway.
- *Launches and tasks*: every race of these two modules is between two of them; a third launch only repeats the
  cleanup of one by the other. `MaxTasks` bounds the sessions as well, since each boundary task opens one.
- *Iterations and turns*: a round's results are first sent in the iteration after it, hence 2. What crosses from turn to
  turn is a queue, a flag or a stored row: the run has one turn, the proofs hold for any number of them. The safety
  properties were also checked once on two turns of two iterations (3.9 million states), too slow for a run.
- *Corrections*: two, so that one may arrive while another waits. Retries, fallbacks and compressions: one of each, since
  each only leads back to a place the turn has been at, with a counter moved; a cap of one is reached at once and is
  left by the reset that a fallback does.
- *Rows*: with a head of one row beside the system's, a tail of three and a budget of two, a window first opens at seven
  rows; eight requests, replies and results leave room for further compactions that find each other's handoffs in head,
  window and tail, and between them for an echo, a nudge, a retry or a restart, two in all. The finding needs nine rows
  and none of these.
- *Guards*: counters stop where the code tells no values apart (two); window, backoff and ladder have two, one and one
  ticks, the least that tell "running" from "due" apart; one failure of the store, jump of the clock or write of another
  agent, anywhere.
- *Reviews*: two reviewers, two skills, one job, a clock of three days, two calls of a fork, and one failure, crash or
  move of the user: each exception of the properties needs one of them.
- `CHECK_DEADLOCK` is off where the bounds end a behaviour (`MaxRows`, `MaxReviews`). It is on everywhere else: those
  specifications have one step for the state in which everybody is done and nothing else may stop, and the guards are
  never stuck.

### Fairness

- Threads are scheduled, and timed waits end: weak fairness of the turn's thread, of what a worker does on its own, of
  the deadline, of the pool threads and of the drain. These are Python threads and `wait(timeout=...)`.
- An approval prompt ends: it is bounded by `human_wait_ceiling`, which is why it may stop the batch's clock.
- *Not* assumed: that a hook, a tool or a memory provider ever returns. `BatchReturns`, `RoundReturns` and
  `NobodyWaitsForProviders` hold although they hang.
- `FairSpec` of `ToolBatch` assumes that begin callbacks return: they run under the gate's lock, and without this
  the batch may be stuck.
- `SequentialTool`: the turn's thread, the deadline, and a worker's start and registration; a person who is asked
  answers. `RoundReturns` excepts interactive tools, which run on the turn's own thread.
- The turn's own thread is scheduled (`TurnLoop`, weak fairness of `TurnStep`): a request is answered or fails, since
  the client has deadlines, and a batch returns, which is `BatchReturns`. No choice among the outcomes is assumed fair,
  and nothing is assumed of the user.
- A child returns or dies (`SubagentLifecycle`): its turn is bounded by the delegation layer. Needed for `WaitReturns`
  only.
- The compressor and the curator have safety properties only: an attempt is made when a request asks for one, and a review
  when a session starts.

## 5. What is proved

`ToolBatchProofs` proves, for every number of calls and of threads and with or without a deadline and interrupts (the
only assumption is `BatchAssumption`, which says that `N` and `MaxWorkers` are positive and the switches Boolean):

| theorem | says |
|---|---|
| `TypeCorrect` | `Spec => []TypeOK`. Not a formality for `nextOrder`, which stays at most the number of runnable calls: this needs that `Order` is injective and below that number, which is proved from cardinalities |
| `NoLateBeginHolds` | `Spec => NoLateBegin`. `NoLateBegin` is a property of steps: the strengthening `TurnInv` says that rows appear only while the turn is skipping a batch with no workers, or after everyone is over, or with the gate shut and nobody in a callback - the last being what taking the lock in `abandon()` buys - and that a shut gate lets nobody in |
| `AuthLockExactHolds` | `Spec => []AuthLockExact`. `AuthInv` adds that the holder has not given up waiting before |
| `NoEffectRowsHold` | `Spec => []NoEffectRowsAreTrue`. `EffectInv` ties each place that may write a no-effect row (the row, the stored result, the pending outcome, the worker's position) to the call not having begun; `GivenUpInv` adds that once a batch that was stopped writes rows nobody begins any more, so that a cancelled row is at most of a call that had begun before |
| `InterruptReachesWorkersHolds` | `Spec => []InterruptReachesWorkers`. The flag is up before the thread ids are copied, so a worker that registers after the copy sees it; what was copied is signalled, or the worker is over |
| `PostsMatchRowsHold` | `Spec => []PostsMatchRows`. Each place of a worker and of the turn says which hooks have fired: one of the worker that stored a result, one of the turn for a row it wrote itself; and when rows are written, workers are over unless the batch was abandoned |
| `GateKeepsOrderHolds` | `Spec => []GateKeepsOrder`. `Order` maps the runnable calls one-to-one onto the numbers below their count (by cardinality), and the gate stands only past calls that have left it |

`TurnLoopProofs` proves every safety property of `TurnLoop`, for every limit (iterations, retries, fallbacks,
compressions, outer errors) and every number of turns, stops, corrections and steers. `TurnAssumption` says that the
limits are numbers, that a turn may iterate, try and fail at least once, and that no correction is also a steer.

| theorem | says | rests on |
|---|---|---|
| `TypeCorrect` | `Spec => []TypeOK`: in particular the counters of the loop stay within their limits and `applied` and `delivered` never exceed one | all of `IInv` |
| `BudgetIsCharged` | `Spec => []BudgetMatchesCount` | `CountInv`: an `execute_code` round was charged before it is refunded, so a refund never takes the count below zero or the budget above its maximum |
| `StaleResponsesDropped` | `Spec => []NoStaleResponse` | `QueueInv`: a correction waits in the request it crossed, in the restart that follows, before the iteration that writes it down (which the refund makes possible), or where a stop drops it |
| `CorrectionsKept` | `Spec => RedirectsKept` | `QueueInv` |
| `InterruptedByUserOnly` | `Spec => []InterruptedMeansStopped` | `FlagInv`: a cancellation lives as long as the request of its correction |
| `StopIsHeard` | `Spec => NoIterationAfterStop` | `FlagInv`: a stop stays in the flag until the turn is over |
| `SteersNeitherLostNorDoubled` | `Spec => []SteersDeliveredOnce` | `SteerInv`: only `inject` holds drained steers, and nobody holds a steer that was not sent |
| `RoundsSavedBeforeSent` | `Spec => []OnlySavedRoundsAreSent` | `RowsInv`: wherever a request may still follow, the rounds of the turn are saved; a failed save leads out of the loop |

`IInv`, the conjunction of these and of the types, is inductive: none of its parts is so alone, since the counts need
the places, the corrections need the flag and the types need the counts.

`SubagentLifecycleProofs` proves every safety property of `SubagentLifecycle`, for any number of launches, correlation ids and
pool threads (`SubagentAssumption`):

| theorem | says | rests on |
|---|---|---|
| `RegistryKeepsPromise` | `Spec => KeepsPromise`, the refinement of `SubagentPromise` | `RecordInv` (a record exists from its registration to its cleanup) and `VerdictInv` (a verdict is published once, with the state): `Register` accepts, `Publish` settles, the cleanup in `Check` forgets, everything else stutters |
| `VerdictsHold` | `Spec => []VerdictsAreTrue`: a completed wait is told the verdict, or UNKNOWN when the child is forgotten or another session asked | `CancelInv`: a cancellation in time stays in the state until the verdict is published; `ToldKept`: a settled child stays settled or is forgotten |
| `CorrelationsHold` | `Spec => []CorrelationsMatchRecords` | `CorrelationInv`: who is past the check of its id holds a free one, alone |

`MemorySyncProofs` proves the safety properties of `MemorySync` for any number of tasks (`MemoryAssumption`) and one pool
thread, which every theorem assumes (`Workers = 1`, the code's `max_workers=1`: with two threads a boundary could overtake
the writes before it):

| theorem | says | rests on |
|---|---|---|
| `InvariantHolds` | `Spec => []IInv` | all parts at once |
| `AccountsHold` | `Spec => []AccountsAreHonest` | `DrainInv`: the drain's snapshot misses no live task, since submit and track are one critical section, and what it counts is what it cancelled; `FlushInv`: what a flush waits for stands before its sentinel in the queue |
| `BoundariesEndTheirOwnSession` | `Spec => []BoundaryEndsItsOwnSession` | `QueueInv`: pending tasks stand in the queue in the host's order and begin in it; `SessionInv`: the host's session counts the boundaries submitted, the provider's those that are over |

`SequentialToolProofs` proves the three row properties of `SequentialTool` for rounds of any length, with or without a
deadline, stops and KeyboardInterrupts (`SequentialAssumption`):

| theorem | says | rests on |
|---|---|---|
| `TypeCorrect` | `Spec => []TypeOK` | all of `IInv` |
| `RowsInOrderHolds` | `Spec => []RowsInOrder` | `RowsInv`: how many rows there are at each place of the turn's thread, and that row j is of call j |
| `RowsAreTrueHolds` | `Spec => []RowsAreTrue` | `PlaceInv` and `TruthInv`: calls the turn has not come to are untouched; a row that denies an effect is of a call without a worker, now and later |
| `HooksAccountedHolds` | `Spec => []HooksAccounted`: one terminal hook for each call that was tried, two exactly when the worker of an abandoned call is blocked by its own hooks | `HookInv`: hooks are counted at each place, those of the turn and those of a worker whose own hooks blocked it |

`CompressionGuardsProofs` proves the four properties of `CompressionGuards` for any window, backoff and cooldowns and any
number of failing writes, clock jumps and other writers (`GuardsAssumption`):

| theorem | says | rests on |
|---|---|---|
| `InvariantHolds` | `Spec => []IInv` | all parts at once |
| `DurableBreakerHolds` | `Spec => []DurableBreaker` | `AloneInv`: at any moment strikes, clock and cooldown are on the row as in memory; a streak that is not was carried by a rotation and is still to be saved, or was left by a feasibility skip, with the clock stopped |
| `RecoveryWindowHolds` | `Spec => RecoveryWindow` | `ProbeInv`: while the row is tripped, the ticks passed and the ticks left make a window; a clock that runs while it is not judges no response, so that none can trip it under an old clock |
| `NoCallInCooldownHolds` | `Spec => NoCallInCooldown` | `AloneInv`: the cooldown in memory, which the attempt looks at once more, is the row's after every late answer, fence, restart and refresh |
| `RowIsHeeded` | `Spec => RowHeeded` | `Decided`: what the gate's two looks, the second after the row was read again, make of memory and row |

`CuratorProofs` proves every property of the passing run of `Curator`, for any number of reviewers, skills, reviews, calls
and faults, any intervals and any first library (`CuratorAssumption`, `SkillAssumption`):

| theorem | says | rests on |
|---|---|---|
| `TypeCorrect` | `Spec => []TypeOK` | all of `IInv` |
| `PauseHoldsAlways` | `Spec => []PauseHolds` | `PauseInv`: a pause to count on is also in every copy of the state file that is yet to be written |
| `ReviewsSpacedHolds` | `Spec => ReviewsSpaced` | `SpacedInv`: the state file knows of the latest recorded review, unless it was tangled or failed |
| `ArchiveEarnedHolds` | `Spec => ArchiveEarned` | `PlanInv`: what a survey says of a skill stays true, whatever other reviews do, until somebody touches it. It rests on a transition keeping the record of a skill that has one: `seed_record_if_missing` writes only a missing one |
| `JobsLoadableHolds` | `Spec => []JobsLoadable` | `ForkInv` and `JobsInv`: a deleted skill in a job was listed by a fork that is still under way and will miss it |
| `JobsFollowHolds` | `Spec => JobsFollow` | `ForkInv` (a fork deletes a skill once, so the declared target is the one), and what `Reconcile` and `RewriteCronRefs` return for any calls, claims and listings |

`CompactionProofs` proves the two invariants of `Compaction`, for any number of protected rows, any outcomes of a summary
and any number of rows and upsets (`CompactionAssumption`, `WindowAssumption`):

| theorem | says | rests on |
|---|---|---|
| `PairsKeptHolds` | `Spec => []PairsKept`: types, and every tool result after the call it answers | `Shaped` |
| `NothingLostHolds` | `Spec => []NothingLost`: everything said is in a row or a summary, short of a fallback after a remembered summary | `Sound`, which contains `Shaped` |

`Shaped` says more of a transcript than the properties do, because each part of `compress()` relies on another. The system
row leads. Every row is good: only a handoff carries a summary or text after one, a standalone one says nothing itself.
A tool result stands *right* after the row of its call, not merely somewhere after it. There is one handoff at most, which
is why the scan of the window and the stripping of head and tail agree on what is left. And a carrier that makes calls
(a summary merged into an assistant's row) is the first row after the protected head that is no tool row: otherwise it
could lie behind the window, and the tail, which begins right after the newest handoff, with a result whose call is gone. `Sound` adds that summaries cover ids that were handed out, that the
remembered summary covers those in the transcript, and that everything heard is in a row that is no tool result, since
the repair may drop those.

The proof follows `compress()`: the window starts and ends within the transcript and the tail begins with no tool row
(or the head is the system row alone); the scan gives the summarizer all rows between head and tail; the assembled transcript
is head, summary and tail, with the summary in a row of its own or in one of the tail's (`Spliced`); the repair drops orphans
and unanswered calls only; restating the open request adds a row or text after a carrier that has none. The rows around
it are appended (`SoundAppend`), taken back (`RetryShape`) or lose their flags (`RestartShape`). `FlattenSeq`, by which handoffs
and orphans are dropped, is unfolded piece by piece (`FlattenUnfold`), by induction over the set of lengths for which
the pieces exist.

Each follows the same way: initial states satisfy the strengthening, every action preserves it (lemmas by group of
actions or by conjunct, with one step per action), the strengthening implies the property, and a temporal step combines
the three.

Only model-checked: everything about liveness (`BatchReturns`, `RoundReturns`, `StopReachesWorker`, `WaitReturns`,
`NobodyWaitsForProviders`, `TurnEnds`), which rests on fairness and is out of the prover's reach; and for now
the step properties `AlternationKept` and `OnlyOpenAskRestated` of `Compaction`.
These two were also checked once with other heads, tails and budgets than the run's (`ProtectFirst` 0 to 3, `TailBudget` 0 to
3, `MinTailUsers` 1 and 2, up to eleven rows, one upset), and held. A theorem about alternation will need `ProbeExtra > 1`
(the program's is 4): with 0, TLC finds a restart after which the probe misses the handoff, the first rows are protected
again, the summary follows a user row as the assistant's, and a call without a result, turned into a reply by the repair,
stands right behind it.

## 6. What is not modelled

- The components marked `not_modelled` in `PROJECT.json`, each with its reason.
- In `ToolBatch` and `SequentialTool`: reuse of a thread id by the pool, the output budget and the `/steer` of
  `_finalize_tool_batch` (the steer is in `TurnLoop`), display and progress. The middleware around a dispatch is external
  and taken to return what the dispatch returned, or to raise or answer before it.
- In `SubagentLifecycle`: children that launch children, the contents of requests, several parent sessions (each has
  correlation ids of its own; that another one is active is an outcome of `wait()`).
- In `MemorySync`: several providers (they are called in turn inside one task, failures swallowed), the external
  prefetch thread, tool routing, the streaming context scrubber.
- In `TurnLoop`: what rows say (so neither the order of two steers nor the rows that a compaction rewrites, which are in
  `Compaction`), the grace call (nothing here sets `_budget_grace_call`), the codex and MoA runtimes, kanban workers, what
  happens after `clear_interrupt()` (memory sync, review, hooks), and the building and sanitizing of requests.
- In `Compaction` and `CompressionGuards`: token estimates, pruning and demoting of old tool results, the text of prompts,
  summaries and fallbacks, micro-compaction, media. The host (`conversation_compression`) is external: commit in place,
  rotation, timeout and fence are taken from how the compressor is called.
- In `Compaction`: rows of different sizes (all count as one), and a result in flight that comes after a replayed user row
  (3830-3832).
- In `Curator`: four pairs of a read and a write of a file without a lock are one step each: `set_paused`, the seeding in
  `should_run_now`, the record of a run, and the listing with the rewrite of jobs (931 to 703). The library never grows: no
  skill is created, or created again after its delete. The text of prompts and reports, configuration, provider resolution, the snapshot before a review, how
  a name is matched in a text. The skill store, the cron store and the fork's tools are external.
