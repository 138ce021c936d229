--------------------------- MODULE SequentialTool ---------------------------
(***************************************************************************)
(* A round of tool calls run one after the other by                        *)
(* hermes-core/tool_executor.py: execute_tool_calls_segmented over segments,*)
(* execute_tool_calls_sequential over the calls of one, and for each call   *)
(* the worker thread that _run_sequential_tool_execution_middleware polls   *)
(* and may abandon.  An abandoned worker goes on beside the turn.          *)
(*                                                                         *)
(* A parallel segment is one step here: what it may do to the transcript is *)
(* what ToolBatch shows of it.  Time is not modelled: the deadline, the     *)
(* grace period and a poll's slice are events that may happen.  Arguments,  *)
(* results, spinners and callbacks are left out.                           *)
(***************************************************************************)
EXTENDS Integers, Sequences

CONSTANTS
    N,               \* tool calls of the round, in the model's order
    Kinds,           \* the kinds of call that occur
    TimeoutEnabled,  \* timeout_s is not None
    MayInterrupt,    \* another thread may call agent.interrupt()
    MayKeyboard      \* KeyboardInterrupt may hit the turn's thread

\* invalid: arguments that do not parse; parallel: a call of a parallel segment;
\* registry; engine: context-engine and memory-provider tools; inline: agent
\* level tools and delegate_task; prompt: inline and in _NEVER_PARALLEL_TOOLS.
AllKinds == {"invalid", "parallel", "registry", "engine", "inline", "prompt"}

ASSUME SequentialAssumption ==
    /\ N \in Nat \ {0}
    /\ Kinds \subseteq AllKinds /\ Kinds # {}
    /\ {TimeoutEnabled, MayInterrupt, MayKeyboard} \subseteq BOOLEAN

Calls == 1 .. N

VARIABLES
    kind,          \* the kind of each call
    pc,            \* where the turn's thread is
    cur,           \* the call it is at
    rows,          \* result rows appended, in order
    persistFailed, \* agent._incremental_persistence_failed
    expired,       \* the deadline of the current call, prompts excluded
    abandoned,     \* calls whose worker the turn gave up on
    wpc,           \* where each call's worker is
    outcome,       \* what a call's future holds, or will
    begun,         \* calls whose tool was dispatched
    known,         \* calls whose worker has put its tid in worker_tid
    bits,          \* workers whose interrupt bit is set
    posts,         \* terminal post_tool_call hooks per call
    flag,          \* agent._interrupt_requested
    keyboard       \* the call a KeyboardInterrupt hit, 0 when none

turnVars == <<kind, pc, cur, rows, persistFailed, expired, abandoned, keyboard>>
vars == <<turnVars, wpc, outcome, begun, known, bits, posts, flag>>

TurnPcs == {"next", "poll", "grace", "joining", "prompt", "prompting", "publish",
            "skipRest", "done", "raised"}
WorkerPcs == {"none", "queued", "started", "registered", "hooks", "human", "tool", "leaving",
              "over", "cancelled"}
Outcomes == {"none", "result", "blocked", "error", "timeoutError"}
Effects == {"result", "none", "unknown", "invalid", "batch"}

Row(call, effect) == [call |-> call, effect |-> effect]
RowsFor(from, upto, effect) == [j \in 1 .. upto - from + 1 |-> Row(from + j - 1, effect)]

\* j is the last call of the segment that i is in.
SameSegment(i, j) == \A k \in i .. j : (kind[k] = "parallel") = (kind[i] = "parallel")
EndsSegment(i, j) == SameSegment(i, j) /\ (j < N => ~SameSegment(i, j + 1))

\* A registered worker: its tid is in agent._tool_worker_threads.
Registered(i) == wpc[i] \in {"registered", "hooks", "human", "tool", "leaving"}
HasWorker(i) == kind[i] \in {"registry", "engine", "inline"}

Posted(from, upto) == [i \in Calls |-> IF i \in from .. upto THEN posts[i] + 1 ELSE posts[i]]

-----------------------------------------------------------------------------
(* The turn's thread. *)

FinishRound ==
    /\ pc = "next" /\ cur > N
    /\ pc' = "done"
    /\ UNCHANGED <<kind, cur, rows, persistFailed, expired, abandoned, keyboard,
                   wpc, outcome, begun, known, bits, posts, flag>>

\* Mutant: the skipped rows start one call late.
SkippedFromLate(from, last, hooked, effect) ==
    \E upto \in from .. last, saved \in BOOLEAN :
        /\ upto < last => ~saved
        /\ rows' = rows \o RowsFor(from + 1, upto, effect)
        /\ posts' = IF hooked THEN Posted(from + 1, upto) ELSE posts
        /\ persistFailed' = ~saved
        /\ pc' = IF saved THEN "next" ELSE "done"
        /\ cur' = IF saved THEN last + 1 ELSE cur

\* One row for each call from .. last, up to the first that is not saved.
SkippedFrom(from, last, hooked, effect) ==
    \E upto \in from .. last, saved \in BOOLEAN :
        /\ upto < last => ~saved
        /\ rows' = rows \o RowsFor(from, upto, effect)
        /\ posts' = IF hooked THEN Posted(from, upto) ELSE posts
        /\ persistFailed' = ~saved
        /\ pc' = IF saved THEN "next" ELSE "done"
        /\ cur' = IF saved THEN last + 1 ELSE cur

\* A stop seen before a call skips the rest of the segment.
SkipSegment ==
    /\ pc = "next" /\ cur <= N /\ kind[cur] # "parallel" /\ flag
    /\ \E last \in cur .. N : EndsSegment(cur, last) /\ SkippedFrom(cur, last, TRUE, "none")
    /\ UNCHANGED <<kind, expired, abandoned, keyboard, wpc, outcome, begun, known, bits, flag>>

\* A parallel segment: every call answered in order, unless the store fails,
\* or an exception out of the batch before any row.
RunParallelSegment ==
    /\ pc = "next" /\ cur <= N /\ kind[cur] = "parallel"
    /\ \/ \E last \in cur .. N : EndsSegment(cur, last) /\ SkippedFrom(cur, last, FALSE, "batch")
       \/ ~flag /\ pc' = "raised" /\ UNCHANGED <<cur, rows, posts, persistFailed>>
    /\ UNCHANGED <<kind, expired, abandoned, keyboard, wpc, outcome, begun, known, bits, flag>>

\* A row is appended and flushed; an unsaved one ends the round.
Commit(effect, goesOn) ==
    \E saved \in BOOLEAN :
        /\ rows' = Append(rows, Row(cur, effect))
        /\ persistFailed' = ~saved
        /\ pc' = IF saved THEN goesOn ELSE "done"
        /\ cur' = IF saved /\ goesOn = "next" THEN cur + 1 ELSE cur

InvalidArguments ==
    /\ pc = "next" /\ cur <= N /\ kind[cur] = "invalid" /\ ~flag
    /\ Commit("invalid", "next")
    /\ posts' = Posted(cur, cur)
    /\ UNCHANGED <<kind, expired, abandoned, keyboard, wpc, outcome, begun, known, bits, flag>>

Dispatch ==
    /\ pc = "next" /\ cur <= N /\ ~flag
    /\ \/ /\ HasWorker(cur)
          /\ pc' = "poll"
          /\ wpc' = [wpc EXCEPT ![cur] = "queued"]
          /\ expired' = FALSE
       \/ /\ kind[cur] = "prompt"
          /\ pc' = "prompt"
          /\ UNCHANGED <<wpc, expired>>
    /\ UNCHANGED <<kind, cur, rows, persistFailed, abandoned, keyboard, outcome, begun, known,
                   bits, posts, flag>>

\* An interactive tool runs on the turn's own thread, its hooks first.
PromptHooks ==
    /\ pc = "prompt"
    /\ \/ /\ pc' = "prompting" /\ begun' = begun \cup {cur} /\ UNCHANGED <<outcome, posts>>
       \/ /\ pc' = "publish" /\ outcome' = [outcome EXCEPT ![cur] = "blocked"]
          /\ posts' = Posted(cur, cur) /\ UNCHANGED begun
       \/ pc' = "raised" /\ UNCHANGED <<begun, outcome, posts>>
    /\ UNCHANGED <<kind, cur, rows, persistFailed, expired, abandoned, keyboard, wpc, known, bits, flag>>

PromptEnds ==
    /\ pc = "prompting"
    /\ \/ pc' = "publish" /\ outcome' = [outcome EXCEPT ![cur] = "result"]
       \/ pc' = "raised" /\ outcome' = [outcome EXCEPT ![cur] = "error"]
    /\ UNCHANGED <<kind, cur, rows, persistFailed, expired, abandoned, keyboard, wpc, begun,
                   known, bits, posts, flag>>

\* An exception is a result for registry, engine and memory tools only.
Taken == IF outcome[cur] \in {"error", "timeoutError"} /\ kind[cur] = "inline"
         THEN "raised" ELSE "publish"

\* future.result(): a TimeoutError of the tool is not told from the slice's own.
PollDone ==
    /\ pc = "poll"
    /\ wpc[cur] = "over" /\ outcome[cur] # "timeoutError"
    /\ pc' = Taken
    /\ UNCHANGED <<kind, cur, rows, persistFailed, expired, abandoned, keyboard,
                   wpc, outcome, begun, known, bits, posts, flag>>

\* The bit _interrupt_worker_tids sets, on the tid the worker has left behind,
\* be it over by now or not.
Told == IF cur \in known THEN bits \cup {cur} ELSE bits

\* Mutant: the worker is left to the fan-out of interrupt().
PollInterruptedUntold ==
    /\ pc = "poll" /\ flag
    /\ wpc[cur] # "over" \/ outcome[cur] = "timeoutError"
    /\ pc' = "grace"
    /\ UNCHANGED <<kind, cur, rows, persistFailed, expired, abandoned, keyboard,
                   wpc, outcome, begun, known, bits, posts, flag>>

PollInterrupted ==
    /\ pc = "poll" /\ flag
    /\ wpc[cur] # "over" \/ outcome[cur] = "timeoutError"
    /\ pc' = "grace"
    /\ bits' = Told
    /\ UNCHANGED <<kind, cur, rows, persistFailed, expired, abandoned, keyboard,
                   wpc, outcome, begun, known, posts, flag>>

\* future.cancel() stops a worker that has not started, no other.
Abandon ==
    /\ pc' = "publish"
    /\ abandoned' = abandoned \cup {cur}
    /\ wpc' = [wpc EXCEPT ![cur] = IF @ = "queued" THEN "cancelled" ELSE @]
    /\ posts' = Posted(cur, cur)
    /\ UNCHANGED <<kind, cur, rows, persistFailed, expired, keyboard, outcome, begun, known, flag>>

\* The deadline is read before the future: a result that comes with it is lost.
PollTimesOut ==
    /\ pc = "poll" /\ expired
    /\ Abandon
    /\ bits' = Told

GraceDone ==
    /\ pc = "grace" /\ wpc[cur] = "over"
    /\ pc' = Taken
    /\ UNCHANGED <<kind, cur, rows, persistFailed, expired, abandoned, keyboard,
                   wpc, outcome, begun, known, bits, posts, flag>>

\* Mutant: the grace period waits for the worker itself.
GraceEndsJoined ==
    /\ pc = "grace" /\ wpc[cur] = "queued"
    /\ Abandon
    /\ UNCHANGED bits

\* Three seconds on, the worker still runs.
GraceEnds ==
    /\ pc = "grace" /\ wpc[cur] # "over"
    /\ Abandon
    /\ UNCHANGED bits

\* The finally joins the worker before the handler below runs.
KeyboardInterrupt ==
    /\ MayKeyboard /\ keyboard = 0
    /\ pc \in {"poll", "grace", "prompt", "prompting"}
    /\ keyboard' = cur
    /\ pc' = IF HasWorker(cur) THEN "joining" ELSE "raised"
    /\ UNCHANGED <<kind, cur, rows, persistFailed, expired, abandoned,
                   wpc, outcome, begun, known, bits, posts, flag>>

\* Rows for this call and the rest of its segment, unsaved; only registry tools.
KeyboardHandled ==
    /\ pc = "joining" /\ wpc[cur] = "over"
    /\ pc' = "raised"
    /\ IF kind[cur] = "registry"
       THEN /\ \E last \in cur .. N :
                 EndsSegment(cur, last) /\ rows' = rows \o RowsFor(cur, last, "none")
            /\ posts' = Posted(cur, cur)
            /\ flag' = TRUE
            /\ bits' = bits \cup {i \in Calls : Registered(i)}
       ELSE UNCHANGED <<rows, posts, flag, bits>>
    /\ UNCHANGED <<kind, cur, persistFailed, expired, abandoned, keyboard, wpc, outcome, begun, known>>

\* Mutant: a marker is published like a result.
PublishAnyResult ==
    /\ pc = "publish"
    /\ Commit("result", IF flag /\ ~EndsSegment(cur, cur) THEN "skipRest" ELSE "next")
    /\ posts' = IF outcome[cur] = "blocked" /\ cur \notin abandoned THEN posts ELSE Posted(cur, cur)
    /\ UNCHANGED <<kind, expired, abandoned, keyboard, wpc, outcome, begun, known, bits, flag>>

\* Mutant: the hook of an abandoned call is emitted with its row as well.
PublishTwice ==
    /\ pc = "publish"
    /\ Commit(IF cur \in abandoned THEN "unknown" ELSE "result",
              IF flag /\ ~EndsSegment(cur, cur) THEN "skipRest" ELSE "next")
    /\ posts' = IF outcome[cur] = "blocked" THEN posts ELSE Posted(cur, cur)
    /\ UNCHANGED <<kind, expired, abandoned, keyboard, wpc, outcome, begun, known, bits, flag>>

\* The hook of a blocked or an abandoned call is out already.
Publish ==
    /\ pc = "publish"
    /\ Commit(IF cur \in abandoned THEN "unknown" ELSE "result",
              IF flag /\ ~EndsSegment(cur, cur) THEN "skipRest" ELSE "next")
    /\ posts' = IF cur \in abandoned \/ outcome[cur] = "blocked" THEN posts ELSE Posted(cur, cur)
    /\ UNCHANGED <<kind, expired, abandoned, keyboard, wpc, outcome, begun, known, bits, flag>>

SkipRest ==
    /\ pc = "skipRest"
    /\ \E last \in cur + 1 .. N : EndsSegment(cur, last) /\ SkippedFrom(cur + 1, last, FALSE, "none")
    /\ UNCHANGED <<kind, expired, abandoned, keyboard, wpc, outcome, begun, known, bits, flag>>

-----------------------------------------------------------------------------
(* A call's worker; nothing tells it that the turn has left. *)

Moves(i, from, to) == wpc[i] \in from /\ wpc' = [wpc EXCEPT ![i] = to]

Start(i) ==
    /\ Moves(i, {"queued"}, "started")
    /\ UNCHANGED <<turnVars, outcome, begun, known, bits, posts, flag>>

\* The tid enters agent._tool_worker_threads, where interrupt() finds it ...
Register(i) ==
    /\ Moves(i, {"started"}, "registered")
    /\ UNCHANGED <<turnVars, outcome, begun, known, bits, posts, flag>>

\* ... and then worker_tid, where the turn does.
LeaveTid(i) ==
    /\ Moves(i, {"registered"}, "hooks")
    /\ known' = known \cup {i}
    /\ UNCHANGED <<turnVars, outcome, begun, bits, posts, flag>>

AskHuman(i) ==
    /\ Moves(i, {"hooks"}, "human")
    /\ UNCHANGED <<turnVars, outcome, begun, known, bits, posts, flag>>

HooksPass(i) ==
    /\ Moves(i, {"hooks", "human"}, "tool")
    /\ begun' = begun \cup {i}
    /\ UNCHANGED <<turnVars, outcome, known, bits, posts, flag>>

\* A blocked call reports itself, an exception out of the middleware does not.
HooksBlock(i) ==
    /\ Moves(i, {"hooks", "human"}, "leaving")
    /\ \/ outcome' = [outcome EXCEPT ![i] = "blocked"] /\ posts' = Posted(i, i)
       \/ outcome' = [outcome EXCEPT ![i] = "error"] /\ UNCHANGED posts
    /\ UNCHANGED <<turnVars, begun, known, bits, flag>>

\* handle_function_call answers exceptions of registry tools itself.
ToolEnds(i) ==
    /\ Moves(i, {"tool"}, "leaving")
    /\ \E o \in {"result", "error", "timeoutError"} :
          /\ kind[i] = "registry" => o # "timeoutError"
          /\ outcome' = [outcome EXCEPT ![i] = o]
    /\ UNCHANGED <<turnVars, begun, known, bits, posts, flag>>

Leave(i) ==
    /\ Moves(i, {"leaving"}, "over")
    /\ bits' = bits \ {i}
    /\ UNCHANGED <<turnVars, outcome, begun, known, posts, flag>>

-----------------------------------------------------------------------------
(* Outside: time, and another thread's interrupt(). *)

\* The deadline stands still while a person is being asked.
DeadlineElapses ==
    /\ TimeoutEnabled /\ pc = "poll" /\ ~expired /\ wpc[cur] # "human"
    /\ expired' = TRUE
    /\ UNCHANGED <<kind, pc, cur, rows, persistFailed, abandoned, keyboard,
                   wpc, outcome, begun, known, bits, posts, flag>>

Interrupt ==
    /\ MayInterrupt /\ ~flag
    /\ flag' = TRUE
    /\ bits' = bits \cup {i \in Calls : Registered(i)}
    /\ UNCHANGED <<turnVars, wpc, outcome, begun, known, posts>>

Init ==
    /\ kind \in [Calls -> Kinds]
    /\ pc = "next"
    /\ cur = 1
    /\ rows = <<>>
    /\ persistFailed = FALSE
    /\ expired = FALSE
    /\ abandoned = {}
    /\ wpc = [i \in Calls |-> "none"]
    /\ outcome = [i \in Calls |-> "none"]
    /\ begun = {}
    /\ known = {}
    /\ bits = {}
    /\ posts = [i \in Calls |-> 0]
    /\ flag = FALSE
    /\ keyboard = 0

Polling == PollDone \/ PollInterrupted \/ PollTimesOut \/ GraceDone \/ GraceEnds

Turn ==
    \/ FinishRound \/ SkipSegment \/ RunParallelSegment \/ InvalidArguments \/ Dispatch
    \/ Polling
    \/ KeyboardHandled \/ Publish \/ SkipRest

WorkerStep(i) ==
    \/ Start(i) \/ Register(i) \/ LeaveTid(i) \/ AskHuman(i)
    \/ HooksPass(i) \/ HooksBlock(i) \/ ToolEnds(i) \/ Leave(i)

\* A round that is over stays so; its abandoned workers run on.
RoundOver == pc \in {"done", "raised"} /\ UNCHANGED vars

Next ==
    \/ Turn \/ PromptHooks \/ PromptEnds
    \/ \E i \in Calls : WorkerStep(i)
    \/ KeyboardInterrupt \/ Interrupt \/ DeadlineElapses
    \/ RoundOver

Spec == Init /\ [][Next]_vars

\* Threads are scheduled and time passes; a person who is asked answers.  A
\* hook or a tool need never return.
Scheduling ==
    /\ WF_vars(Turn)
    /\ WF_vars(DeadlineElapses)
    /\ \A i \in Calls :
          /\ WF_vars(Start(i) \/ Register(i) \/ LeaveTid(i) \/ Leave(i))
          /\ WF_vars(wpc[i] = "human" /\ (HooksPass(i) \/ HooksBlock(i)))

FairSpec == Spec /\ Scheduling

-----------------------------------------------------------------------------
(* Properties. *)

\* Type correctness; a call that is over, or about to be, and no other, has an
\* outcome to give, and interrupt bits belong to workers that registered.
TypeOK ==
    /\ kind \in [Calls -> Kinds]
    /\ pc \in TurnPcs
    /\ cur \in 1 .. N + 1
    /\ rows \in Seq([call : Calls, effect : Effects])
    /\ {persistFailed, expired, flag} \subseteq BOOLEAN
    /\ {abandoned, begun, known, bits} \subseteq SUBSET Calls
    /\ wpc \in [Calls -> WorkerPcs]
    /\ outcome \in [Calls -> Outcomes]
    /\ posts \in [Calls -> Nat]
    /\ keyboard \in 0 .. N
    /\ \A i \in bits : Registered(i) \/ wpc[i] = "over"
    /\ \A i \in Calls : HasWorker(i) => (outcome[i] # "none" <=> wpc[i] \in {"leaving", "over"})

\* The transcript answers the calls in the model's order, each once and none
\* skipped, and a round that ends with its rows saved has answered them all:
\* whatever mixture of results, abandoned calls, stops and segments it was.
RowsInOrder ==
    /\ TypeOK
    /\ \A j \in 1 .. Len(rows) : rows[j].call = j
    /\ pc = "done" /\ ~persistFailed => Len(rows) = N

\* What a row says of its call is true and stays true while workers run on: a
\* row without an effect is of a call that was never dispatched, a plain
\* result is of a call that is over.  The one exception is a call that a
\* KeyboardInterrupt hit.
RowsAreTrue ==
    \A j \in 1 .. Len(rows) :
        LET call == rows[j].call
        IN  /\ rows[j].effect = "none" /\ call # keyboard => call \notin begun
            /\ rows[j].effect = "result" /\ HasWorker(call) => wpc[call] = "over"

\* An abandoned call whose worker its own hooks block, before or after the turn gave it up:
\* the worker reports it as well.
LateBlock(row) == row.effect = "unknown" /\ outcome[row.call] = "blocked"

\* Every call that was tried has its terminal hook, from whichever side owns it, and a second
\* one just when LateBlock: there the code does not keep what its own comments say, "a
\* late-finishing abandoned worker must not report" (443-445, and 1618-1620).
HooksAccounted ==
    \A j \in 1 .. Len(rows) :
        rows[j].effect \in {"result", "unknown", "invalid"} =>
            posts[rows[j].call] = IF LateBlock(rows[j]) THEN 2 ELSE 1

\* A stop reaches the worker the turn is waiting for if that worker has left its tid for the
\* turn, even when interrupt() had told the registered ones before.  Nobody tells a worker that
\* is still between the registry (526-527) and worker_tid (831) when the turn looks (848), or
\* that registers in the grace period: it does not look at the flag itself, and runs on.
StopReachesWorker ==
    \A i \in Calls :
        (pc = "poll" /\ cur = i /\ flag /\ i \in known) ~> (i \in bits \/ wpc[i] = "over" \/ keyboard # 0)

\* With a deadline the turn gets its thread back whatever hooks and tools do,
\* short of an interactive tool on its own thread, or a KeyboardInterrupt that
\* joins the worker.
RoundReturns == <>(pc \in {"done", "raised", "prompt", "prompting", "joining"})

=============================================================================
