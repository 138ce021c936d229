------------------------------ MODULE TurnLoop ------------------------------
(* The conversation turn: conversation_loop.run_conversation with the phases  *)
(* of turn_iteration_prep, turn_api_call, turn_tool_round and turn_finalizer, *)
(* against the threads that correct it (redirect), advise it (steer) and stop *)
(* it (interrupt). The phases that are not in this repository (the preflight  *)
(* gate, the checks of a response and of an error, normalization, the text    *)
(* branch) are taken to answer anything run_conversation handles.             *)
EXTENDS Integers, Sequences, SequencesExt

CONSTANTS
  MaxIterations,    \* agent.max_iterations
  MaxRetries,       \* agent._api_max_retries
  MaxFallbacks,     \* length of the provider fallback chain
  MaxCompressions,  \* max_compression_attempts
  MaxOuterErrors,   \* _MAX_OUTER_LOOP_ERRORS
  MaxTurns,         \* bound: turns of the session
  MaxStops,         \* bound: calls of interrupt()
  Redirects,        \* bound: the corrections users send with redirect()
  Steers            \* bound: the advice users send with steer()

ASSUME TurnAssumption ==
  /\ {MaxIterations, MaxRetries, MaxOuterErrors} \subseteq Nat \ {0}
  /\ {MaxFallbacks, MaxCompressions, MaxTurns, MaxStops} \subseteq Nat
  /\ Redirects \cap Steers = {}

VARIABLES
  s,                \* _LoopState: the locals of one turn, and where it is
  messages,         \* the transcript: one row per message
  base,             \* how many rows the turn found
  turn,             \* turns begun
  budget,           \* agent.iteration_budget.remaining
  fallbacks,        \* providers left in the chain
  active,           \* agent._model_request_active
  flag,             \* agent._interrupt_requested: unset, by a redirect, by a stop
  pendingRedirect,  \* agent._pending_redirect
  pendingSteer,     \* agent._pending_steer
  steer,            \* what prepare_iteration has drained and not placed yet
  stops,            \* calls of interrupt() so far
  accepted,         \* redirects and steers sent so far
  applied,          \* how often each redirect was written to the transcript
  delivered,        \* how often each steer was written to a tool row
  handedBack,       \* steers returned with a turn's result
  cheap,            \* rounds of this turn that ran only execute_code
  stopped,          \* this turn was asked to stop
  crossed           \* an API error crossed a pending redirect in this turn

loopVars == <<messages, base, turn, budget, fallbacks, steer, cheap>>
sharedVars == <<active, flag, pendingRedirect, pendingSteer>>
observations == <<stops, accepted, applied, delivered, handedBack, stopped, crossed>>
vars == <<s, loopVars, sharedVars, observations>>

(* A result row stands for all the rows of its round: ToolBatch says what is  *)
(* in them. `calls` is an assistant row with tool calls. Whether a row is in  *)
(* the session store is tracked for these two only.                           *)
Row(role, saved) == [role |-> role, saved |-> saved]

TailRole == Last(messages).role

(* _flush_messages_to_session_db and _persist_session write every unsaved row *)
(* or fail and write none.                                                    *)
Saved(rows, ok) == IF ok THEN [i \in DOMAIN rows |-> Row(rows[i].role, TRUE)] ELSE rows

(* A turn's locals as run_conversation binds them.                            *)
FreshState == [pc |-> "loop", count |-> 0, retry |-> 0, restart |-> "none", response |-> "none",
               final |-> "none", exit |-> "unknown", interrupted |-> FALSE, failed |-> FALSE,
               unsaved |-> FALSE, errors |-> 0, compressions |-> 0]

Init ==
  /\ s = [FreshState EXCEPT !.pc = "idle"]
  /\ messages = << >> /\ base = 0 /\ turn = 0 /\ budget = MaxIterations /\ fallbacks = MaxFallbacks
  /\ active = FALSE /\ flag = "none" /\ pendingRedirect = {} /\ pendingSteer = {} /\ steer = {}
  /\ stops = 0 /\ accepted = {} /\ handedBack = {} /\ cheap = 0
  /\ applied = [r \in Redirects |-> 0] /\ delivered = [x \in Steers |-> 0]
  /\ stopped = FALSE /\ crossed = FALSE

GoTo(place) == s' = [s EXCEPT !.pc = place]
Return == s' = [FreshState EXCEPT !.pc = "idle"]
BreakWith(reason) == s' = [s EXCEPT !.pc = "finalize", !.exit = reason]

-----------------------------------------------------------------------------
(* Turn setup *)

(* build_turn_context: a fresh budget, the user's row (whose first save may   *)
(* fail), a pending interrupt kept. The rows of earlier turns come back as    *)
(* they were.                                                                 *)
StartTurn ==
  /\ s.pc = "idle" /\ turn < MaxTurns
  /\ turn' = turn + 1 /\ base' = Len(messages)
  /\ \E ok \in BOOLEAN : messages' = Saved(Append(messages, Row("user", TRUE)), ok)
  /\ s' = FreshState
  /\ budget' = MaxIterations /\ fallbacks' = MaxFallbacks /\ cheap' = 0
  /\ stopped' = (flag = "stop")
  /\ crossed' = (flag = "cancel" \/ pendingRedirect # {})
  /\ UNCHANGED <<steer, sharedVars, stops, accepted, applied, delivered, handedBack>>

(* The preflight compression times out: a typed result, no row, no request.   *)
SetupTimesOut ==
  /\ s.pc = "idle" /\ turn < MaxTurns
  /\ turn' = turn + 1
  /\ UNCHANGED <<s, messages, base, budget, fallbacks, steer, cheap, sharedVars, observations>>

-----------------------------------------------------------------------------
(* One iteration up to the request *)

LoopGoesOn == s.count < MaxIterations /\ budget > 0

LeaveLoop ==
  /\ s.pc = "loop" /\ ~LoopGoesOn
  /\ GoTo("finalize")
  /\ UNCHANGED <<loopVars, sharedVars, observations>>

(* _apply_active_turn_redirect: the correction as a user row, after a         *)
(* placeholder unless the transcript ends with an assistant row.              *)
Redirected ==
  IF TailRole \in {"assistant", "calls"} THEN Append(messages, Row("user", TRUE))
  ELSE messages \o <<Row("assistant", TRUE), Row("user", TRUE)>>

(* A mutant that forgets all corrections but one. *)
AppliedNewest ==
  IF pendingRedirect = {} THEN applied ELSE [applied EXCEPT ![CHOOSE r \in pendingRedirect : TRUE] = @ + 1]

AppliedPending == [r \in Redirects |-> applied[r] + (IF r \in pendingRedirect THEN 1 ELSE 0)]

(* begin_iteration: the pending redirect first, then the exits, then the      *)
(* charge. Its budget exit cannot be taken: the loop has just seen a budget   *)
(* that only this thread uses. _budget_grace_call is never set.               *)
BeginIteration ==
  /\ s.pc = "loop" /\ LoopGoesOn
  /\ IF pendingRedirect = {} THEN UNCHANGED messages
     ELSE \E ok \in BOOLEAN : messages' = Saved(Redirected, ok)
  /\ applied' = AppliedPending /\ pendingRedirect' = {}
  /\ \/ /\ flag # "none"
        /\ s' = [s EXCEPT !.pc = "finalize", !.exit = "interrupted_by_user", !.interrupted = TRUE]
        /\ UNCHANGED budget
     \/ /\ flag = "none"
        /\ BreakWith("review_input_budget_exhausted")
        /\ UNCHANGED budget
     \/ /\ flag = "none"
        /\ s' = [s EXCEPT !.pc = "prepare", !.count = @ + 1]
        /\ budget' = budget - 1
  /\ UNCHANGED <<base, turn, fallbacks, steer, cheap, active, flag, pendingSteer,
                 stops, accepted, delivered, handedBack, stopped, crossed>>

(* prepare_iteration, in two steps: other threads may steer between them.     *)
DrainSteer ==
  /\ s.pc = "prepare"
  /\ steer' = pendingSteer /\ pendingSteer' = {}
  /\ GoTo("inject")
  /\ UNCHANGED <<messages, base, turn, budget, fallbacks, cheap, active, flag, pendingRedirect, observations>>

DeliveredWith(texts) == [x \in Steers |-> delivered[x] + (IF x \in texts THEN 1 ELSE 0)]

InjectSteerOverwriting ==
  /\ s.pc = "inject"
  /\ IF \E i \in DOMAIN messages : messages[i].role = "tool"
     THEN delivered' = DeliveredWith(steer) /\ UNCHANGED pendingSteer
     ELSE pendingSteer' = steer /\ UNCHANGED delivered
  /\ steer' = {}
  /\ GoTo("gate")
  /\ UNCHANGED <<messages, base, turn, budget, fallbacks, cheap, active, flag, pendingRedirect,
                 stops, accepted, applied, handedBack, stopped, crossed>>

(* _inject_steer_into_newest_tool_result: into the newest tool row, or back   *)
(* to the queue, beside what came meanwhile.                                  *)
InjectSteer ==
  /\ s.pc = "inject"
  /\ IF \E i \in DOMAIN messages : messages[i].role = "tool"
     THEN delivered' = DeliveredWith(steer) /\ UNCHANGED pendingSteer
     ELSE pendingSteer' = pendingSteer \cup steer /\ UNCHANGED delivered
  /\ steer' = {}
  /\ GoTo("gate")
  /\ UNCHANGED <<messages, base, turn, budget, fallbacks, cheap, active, flag, pendingRedirect,
                 stops, accepted, applied, handedBack, stopped, crossed>>

PreflightGateUncounted ==
  /\ s.pc = "gate"
  /\ \E back \in 0..1, place \in {"retry", "loop"} :
       s' = [s EXCEPT !.pc = place, !.count = @ - back] /\ budget' = budget + back
  /\ UNCHANGED <<messages, base, turn, fallbacks, steer, cheap, sharedVars, observations>>

(* run_preflight_gate and the per-request slots that run_conversation resets  *)
(* after it. A compression counts against the shared cap, and may give the    *)
(* iteration back.                                                            *)
PreflightGate ==
  /\ s.pc = "gate"
  /\ \/ /\ s' = [s EXCEPT !.pc = "retry", !.retry = 0, !.restart = "none", !.response = "none"]
        /\ UNCHANGED budget
     \/ /\ s.compressions < MaxCompressions
        /\ \E back \in 0..1 :
             /\ s' = [s EXCEPT !.pc = "loop", !.compressions = @ + 1, !.count = @ - back]
             /\ budget' = budget + back
     \/ /\ \E text \in {"none", "text"} :
             s' = [s EXCEPT !.pc = "finalize", !.exit = "compression", !.final = text]
        /\ UNCHANGED budget
     \/ Return /\ UNCHANGED budget
  /\ UNCHANGED <<messages, base, turn, fallbacks, steer, cheap, sharedVars, observations>>

-----------------------------------------------------------------------------
(* The request and its retries *)

RetriesExhausted ==
  /\ s.pc = "retry" /\ s.retry >= MaxRetries
  /\ GoTo("restart")
  /\ UNCHANGED <<loopVars, sharedVars, observations>>

(* _try_activate_fallback and _arm_fallback_restart, and what each of their   *)
(* callers resets.                                                            *)
FallBack ==
  /\ fallbacks > 0 /\ fallbacks' = fallbacks - 1
  /\ s' = [s EXCEPT !.pc = "restart", !.restart = "rebuilt", !.retry = 0, !.compressions = 0]

(* nous_rate_limit_guard while another session has recorded a rate limit.     *)
RateLimited ==
  /\ s.pc = "retry" /\ s.retry < MaxRetries
  /\ \/ FallBack /\ UNCHANGED messages
     \/ /\ Return
        /\ \E ok \in BOOLEAN : messages' = Saved(messages, ok)
        /\ UNCHANGED fallbacks
  /\ UNCHANGED <<base, turn, budget, steer, cheap, sharedVars, observations>>

(* perform_api_call opens its bracket: from here redirect() is heard.         *)
OpenRequest ==
  /\ s.pc = "retry" /\ s.retry < MaxRetries
  /\ active' = TRUE
  /\ GoTo("request")
  /\ UNCHANGED <<loopVars, flag, pendingRedirect, pendingSteer, observations>>

FlagKept == flag

FlagWiped == "none"

(* AIAgent.clear_interrupt(preserve_redirect=True): wipes the cancellation of *)
(* a redirect, and refuses when the user asked to stop.                       *)
ClearedPreserving == IF flag = "stop" THEN "stop" ELSE "none"

(* Rebuild from the correction, unless clear_interrupt refuses.               *)
RebuildOrStop ==
  /\ flag' = ClearedPreserving
  /\ s' = IF flag' = "none" THEN [s EXCEPT !.pc = "restart", !.restart = "redirected"]
          ELSE [s EXCEPT !.pc = "restart", !.interrupted = TRUE]

CrossedByFlag == flag = "cancel"

(* What a redirect found pending when the bracket closes. The lock makes      *)
(* closing and looking one step.                                              *)
RedirectCrossed == pendingRedirect # {}

(* The provider answers: perform_api_call discards an answer a redirect has   *)
(* crossed.                                                                   *)
Answered ==
  /\ s.pc = "request"
  /\ active' = FALSE
  /\ IF RedirectCrossed THEN RebuildOrStop
     ELSE /\ \E kind \in {"text", "tools", "code"} : s' = [s EXCEPT !.pc = "check", !.response = kind]
          /\ UNCHANGED flag
  /\ UNCHANGED <<loopVars, pendingRedirect, pendingSteer, observations>>

(* InterruptedError: the flag cut the call short. handle_api_interrupt keeps  *)
(* a redirect queued, and else keeps what was streamed.                       *)
RequestInterrupted ==
  /\ s.pc = "request" /\ flag # "none"
  /\ active' = FALSE
  /\ IF pendingRedirect # {} /\ flag # "stop" THEN RebuildOrStop /\ UNCHANGED messages
     ELSE /\ s' = [s EXCEPT !.pc = "restart", !.interrupted = TRUE, !.final = "text"]
          /\ \E partial, ok \in BOOLEAN :
               messages' = Saved(IF partial THEN Append(messages, Row("assistant", TRUE)) ELSE messages, ok)
          /\ UNCHANGED flag
  /\ UNCHANGED <<base, turn, budget, fallbacks, steer, cheap, pendingRedirect, pendingSteer, observations>>

(* Any other exception leaves perform_api_call past its crossing check.       *)
RequestFails ==
  /\ s.pc = "request"
  /\ active' = FALSE
  /\ crossed' = (crossed \/ pendingRedirect # {})
  /\ GoTo("error")
  /\ UNCHANGED <<loopVars, flag, pendingRedirect, pendingSteer,
                 stops, accepted, applied, delivered, handedBack, stopped>>

(* What check_api_response and handle_api_error have in common: retry, fall   *)
(* back, or end the turn. A retry forgets the response.                       *)
RetryOrGiveUp ==
  \/ s' = [s EXCEPT !.pc = "retry", !.retry = @ + 1, !.response = "none"] /\ UNCHANGED fallbacks
  \/ FallBack
  \/ Return /\ UNCHANGED fallbacks

(* handle_api_error; an overflow compresses and counts against the cap.       *)
HandleApiError ==
  /\ s.pc = "error"
  /\ \/ RetryOrGiveUp
     \/ /\ s.compressions < MaxCompressions
        /\ s' = [s EXCEPT !.pc = "restart", !.restart = "compressed", !.compressions = @ + 1]
        /\ UNCHANGED fallbacks
     \/ s' = [s EXCEPT !.pc = "restart", !.response = "none"] /\ UNCHANGED fallbacks
  /\ UNCHANGED <<messages, base, turn, budget, steer, cheap, sharedVars, observations>>

(* _should_rearm_compression_budget: a completed compaction that the provider *)
(* has confirmed gives the cap back, and nothing else does.                   *)
RearmedCompressions == {s.compressions, 0}

(* check_api_response: a valid response leaves the retry loop, a truncated    *)
(* one is to be continued.                                                    *)
CheckApiResponse ==
  /\ s.pc = "check"
  /\ \/ RetryOrGiveUp
     \/ /\ \E n \in RearmedCompressions : s' = [s EXCEPT !.pc = "restart", !.compressions = n]
        /\ UNCHANGED fallbacks
     \/ s' = [s EXCEPT !.pc = "restart", !.restart = "length"] /\ UNCHANGED fallbacks
  /\ UNCHANGED <<messages, base, turn, budget, steer, cheap, sharedVars, observations>>

-----------------------------------------------------------------------------
(* apply_retry_restarts *)

RefundCountOnly ==
  /\ s' = [s EXCEPT !.pc = "loop", !.count = @ - 1, !.restart = "none"]
  /\ UNCHANGED budget

(* A restart that produced no assistant item gives its iteration back.        *)
RefundAndContinue ==
  /\ s' = [s EXCEPT !.pc = "loop", !.count = @ - 1, !.restart = "none"]
  /\ budget' = budget + 1

(* The flags in the code's order of priority.                                 *)
ApplyRetryRestarts ==
  /\ s.pc = "restart"
  /\ IF s.restart = "redirected" THEN RefundAndContinue /\ UNCHANGED messages
     ELSE IF s.interrupted THEN BreakWith("interrupted_during_api_call") /\ UNCHANGED <<messages, budget>>
     ELSE IF s.restart = "compressed" THEN
       /\ UNCHANGED messages
       /\ \/ RefundAndContinue
          \/ /\ s' = [s EXCEPT !.pc = "finalize", !.exit = "compaction_handoff_not_actionable",
                              !.count = @ - 1, !.restart = "none", !.final = "text"]
             /\ budget' = budget + 1
     ELSE IF s.restart = "rebuilt" THEN RefundAndContinue /\ UNCHANGED messages
     ELSE IF s.restart = "length" THEN GoTo("loop") /\ UNCHANGED <<messages, budget>>
     ELSE IF s.response = "none" THEN
       /\ BreakWith("all_retries_exhausted_no_response")
       /\ \E ok \in BOOLEAN : messages' = Saved(messages, ok)
       /\ UNCHANGED budget
     ELSE GoTo("process") /\ UNCHANGED <<messages, budget>>
  /\ UNCHANGED <<base, turn, fallbacks, steer, cheap, sharedVars, observations>>

-----------------------------------------------------------------------------
(* The response *)

(* normalize_model_response, validate_tool_calls or finish_text_response ends *)
(* the turn, or asks the model again (an empty or an invalid answer).         *)
RejectResponse ==
  /\ s.pc = "process"
  /\ Return \/ GoTo("loop")
  /\ UNCHANGED <<loopVars, sharedVars, observations>>

(* finish_text_response accepts the answer.                                   *)
FinishText ==
  /\ s.pc = "process" /\ s.response = "text"
  /\ messages' = Append(messages, Row("assistant", TRUE))
  /\ s' = [s EXCEPT !.pc = "finalize", !.exit = "text_response", !.final = "text"]
  /\ UNCHANGED <<base, turn, budget, fallbacks, steer, cheap, sharedVars, observations>>

(* run_tool_round up to the execution: the row of the calls must be in the    *)
(* session store before any of them runs.                                     *)
StageToolCalls ==
  /\ s.pc = "process" /\ s.response \in {"tools", "code"}
  /\ \E ok \in BOOLEAN :
       /\ messages' = Saved(Append(messages, Row("calls", FALSE)), ok)
       /\ s' = IF ok THEN [s EXCEPT !.pc = "execute"]
               ELSE [s EXCEPT !.pc = "finalize", !.exit = "session_persistence_failed",
                              !.final = "empty", !.failed = TRUE]
  /\ UNCHANGED <<base, turn, budget, fallbacks, steer, cheap, sharedVars, observations>>

ExecuteToolCallsTrusting ==
  /\ s.pc = "execute"
  /\ \E ok \in BOOLEAN : messages' = Saved(Append(messages, Row("tool", FALSE)), ok)
  /\ GoTo("round")
  /\ UNCHANGED <<base, turn, budget, fallbacks, steer, cheap, sharedVars, observations>>

(* _execute_tool_calls: results are appended, saved one by one, and take the  *)
(* pending steers at the end; a batch that was skipped for an interrupt may   *)
(* leave them, one whose flush failed does.                                   *)
ExecuteToolCalls ==
  /\ s.pc = "execute"
  /\ \E ok, steered \in BOOLEAN :
       /\ steered => ok
       /\ ~steered => ~ok \/ flag # "none"
       /\ messages' = Saved(Append(messages, Row("tool", FALSE)), ok)
       /\ s' = [s EXCEPT !.pc = "round", !.unsaved = ~ok]
       /\ delivered' = IF steered THEN DeliveredWith(pendingSteer) ELSE delivered
       /\ pendingSteer' = IF steered THEN {} ELSE pendingSteer
  /\ UNCHANGED <<base, turn, budget, fallbacks, steer, cheap, active, flag, pendingRedirect,
                 stops, accepted, applied, handedBack, stopped, crossed>>

(* A result that is not in the session store ends the turn.                   *)
ResultsUnsaved ==
  /\ s.pc = "round" /\ s.unsaved
  /\ s' = [s EXCEPT !.pc = "finalize", !.exit = "session_persistence_failed", !.final = "empty", !.failed = TRUE]
  /\ UNCHANGED <<loopVars, sharedVars, observations>>

GuardrailHalts ==
  /\ s.pc = "round" /\ ~s.unsaved
  /\ messages' = Append(messages, Row("assistant", TRUE))
  /\ s' = [s EXCEPT !.pc = "finalize", !.exit = "guardrail_halt", !.final = "text"]
  /\ UNCHANGED <<base, turn, budget, fallbacks, steer, cheap, sharedVars, observations>>

(* A round that ran only execute_code is refunded; then                       *)
(* compress_after_tool_results goes on or ends the turn.                      *)
RoundEnds ==
  /\ s.pc = "round" /\ ~s.unsaved
  /\ LET refund == IF s.response = "code" THEN 1 ELSE 0
     IN  budget' = budget + refund /\ cheap' = cheap + refund
  /\ \/ GoTo("loop")
     \/ \E text \in {"none", "text"} :
          s' = [s EXCEPT !.pc = "finalize", !.exit = "compression", !.final = text]
  /\ UNCHANGED <<messages, base, turn, fallbacks, steer, sharedVars, observations>>

(* An exception out of the response's processing, in a batch perhaps after    *)
(* some results were saved: handle_outer_loop_error goes on, or ends the turn, *)
(* at the latest after MaxOuterErrors.                                        *)
OuterLoopError ==
  /\ s.pc \in {"process", "execute"}
  /\ \/ UNCHANGED messages
     \/ s.pc = "execute" /\ messages' = Append(messages, Row("tool", TRUE))
  /\ \/ /\ s.errors + 1 < MaxOuterErrors
        /\ s' = [s EXCEPT !.pc = "loop", !.errors = @ + 1]
     \/ s' = [s EXCEPT !.pc = "finalize", !.exit = "error", !.errors = @ + 1, !.final = "text"]
  /\ UNCHANGED <<base, turn, budget, fallbacks, steer, cheap, sharedVars, observations>>

-----------------------------------------------------------------------------
(* finalize_turn *)

(* _resolve_budget_fallback: one more request for a summary, or the answer a  *)
(* verification gate had held back.                                           *)
NeedsFallback == s.final = "none" /\ ~LoopGoesOn /\ ~s.interrupted /\ ~s.failed /\ s.exit = "unknown"

(* _close_transcript_tail for a turn that ends with the response `final`.     *)
Closed(final) ==
  IF \/ s.interrupted /\ TailRole = "tool"
     \/ final = "text" /\ ~s.interrupted /\ TailRole \notin {"assistant", "calls"}
  THEN Append(messages, Row("assistant", TRUE)) ELSE messages

(* finalize_turn up to _persist_step: text that was streamed stands in for a  *)
(* missing answer, the tail is closed, everything is saved.                   *)
PersistTurn ==
  /\ s.pc = "finalize"
  /\ \E streamed, ok \in BOOLEAN :
       LET final == IF NeedsFallback \/ (streamed /\ ~s.interrupted /\ ~s.failed) THEN "text" ELSE s.final
       IN  /\ messages' = Saved(Closed(final), ok)
           /\ s' = [s EXCEPT !.pc = "result", !.final = final,
                             !.exit = IF NeedsFallback THEN "max_iterations_reached" ELSE @]
  /\ UNCHANGED <<base, turn, budget, fallbacks, steer, cheap, sharedVars, observations>>

(* The rest of finalize_turn up to the result: _explain_abnormal_exit may put *)
(* an explanation where no answer is, and steers nobody took are handed back. *)
BuildResult ==
  /\ s.pc = "result"
  /\ \E explained \in BOOLEAN :
       s' = [s EXCEPT !.pc = "clear", !.final = IF explained /\ ~s.interrupted THEN "text" ELSE @]
  /\ handedBack' = handedBack \cup pendingSteer /\ pendingSteer' = {}
  /\ UNCHANGED <<loopVars, active, flag, pendingRedirect, stops, accepted, applied, delivered, stopped, crossed>>

(* agent.clear_interrupt(), which keeps no redirect; what follows it changes  *)
(* nothing of the turn.                                                       *)
ClearInterrupt ==
  /\ s.pc = "clear"
  /\ flag' = "none" /\ pendingRedirect' = {}
  /\ Return
  /\ UNCHANGED <<loopVars, active, pendingSteer, observations>>

-----------------------------------------------------------------------------
(* Other threads *)

(* AIAgent.redirect(): accepted while a request is open, under the lock.      *)
Redirect(r) ==
  /\ active /\ r \notin accepted
  /\ pendingRedirect' = pendingRedirect \cup {r}
  /\ flag' = IF flag = "none" THEN "cancel" ELSE flag
  /\ accepted' = accepted \cup {r}
  /\ UNCHANGED <<s, loopVars, active, pendingSteer, stops, applied, delivered, handedBack, stopped, crossed>>

(* AIAgent.steer() *)
Steer(x) ==
  /\ s.pc # "idle" /\ x \notin accepted
  /\ pendingSteer' = pendingSteer \cup {x}
  /\ accepted' = accepted \cup {x}
  /\ UNCHANGED <<s, loopVars, active, flag, pendingRedirect, stops, applied, delivered, handedBack, stopped, crossed>>

(* AIAgent.interrupt(), also while the next turn is being set up.             *)
Stop ==
  /\ stops < MaxStops
  /\ stops' = stops + 1 /\ flag' = "stop" /\ stopped' = TRUE
  /\ UNCHANGED <<s, loopVars, active, pendingRedirect, pendingSteer,
                 accepted, applied, delivered, handedBack, crossed>>

Over ==
  /\ s.pc = "idle" /\ turn = MaxTurns
  /\ UNCHANGED vars

-----------------------------------------------------------------------------
Iterate == LeaveLoop \/ BeginIteration \/ DrainSteer \/ InjectSteer \/ PreflightGate

Request ==
  \/ RetriesExhausted \/ RateLimited \/ OpenRequest \/ Answered \/ RequestInterrupted \/ RequestFails
  \/ HandleApiError \/ CheckApiResponse \/ ApplyRetryRestarts

Process ==
  \/ RejectResponse \/ FinishText \/ StageToolCalls \/ ExecuteToolCalls \/ ResultsUnsaved
  \/ GuardrailHalts \/ RoundEnds \/ OuterLoopError

Finalize == PersistTurn \/ BuildResult \/ ClearInterrupt

TurnStep == Iterate \/ Request \/ Process \/ Finalize

Next ==
  \/ StartTurn \/ SetupTimesOut \/ TurnStep
  \/ \E r \in Redirects : Redirect(r)
  \/ \E x \in Steers : Steer(x)
  \/ Stop \/ Over

Spec == Init /\ [][Next]_vars

(* The turn's own thread is scheduled; the provider and the tools answer or   *)
(* fail (stale-stream and tool deadlines see to it).                          *)
FairSpec == Spec /\ WF_vars(TurnStep)

-----------------------------------------------------------------------------
(* Properties *)

Places == {"idle", "loop", "prepare", "inject", "gate", "retry", "request", "check", "error", "restart",
           "process", "execute", "round", "finalize", "result", "clear"}

Restarts == {"none", "redirected", "compressed", "rebuilt", "length"}

Responses == {"none", "text", "tools", "code"}

Finals == {"none", "empty", "text"}

Exits == {"unknown", "interrupted_by_user", "review_input_budget_exhausted", "compression",
          "interrupted_during_api_call", "compaction_handoff_not_actionable",
          "all_retries_exhausted_no_response", "text_response", "session_persistence_failed",
          "guardrail_halt", "error", "max_iterations_reached"}

States == [pc : Places, count : 0..MaxIterations, retry : 0..MaxRetries, restart : Restarts,
           response : Responses, final : Finals, exit : Exits,
           interrupted : BOOLEAN, failed : BOOLEAN, unsaved : BOOLEAN,
           errors : 0..MaxOuterErrors, compressions : 0..MaxCompressions]

Rows == [role : {"user", "assistant", "calls", "tool"}, saved : BOOLEAN]

(* Every variable has its type: in particular the counters of run_conversation *)
(* stay within their limits, whatever is retried, restarted and refunded.     *)
TypeOK ==
  /\ s \in States
  /\ messages \in Seq(Rows) /\ base \in 0..Len(messages) /\ turn \in 0..MaxTurns
  /\ budget \in 0..MaxIterations /\ fallbacks \in 0..MaxFallbacks /\ cheap \in 0..MaxIterations
  /\ active \in BOOLEAN /\ flag \in {"none", "cancel", "stop"}
  /\ pendingRedirect \subseteq Redirects /\ pendingSteer \subseteq Steers /\ steer \subseteq Steers
  /\ stops \in 0..MaxStops /\ accepted \subseteq Redirects \cup Steers /\ handedBack \subseteq Steers
  /\ applied \in [Redirects -> 0..1] /\ delivered \in [Steers -> 0..1]
  /\ stopped \in BOOLEAN /\ crossed \in BOOLEAN

(* No response is acted upon while a correction that was accepted before it   *)
(* waits: perform_api_call throws such a response away. (An API error may     *)
(* leave one waiting: its exception passes the crossing check.)               *)
NoStaleResponse ==
  s.pc \in {"check", "process", "execute", "round"} => pendingRedirect = {} \/ crossed

(* A correction leaves the queue only into the transcript, once, and waits    *)
(* otherwise: it is dropped only in a turn that was stopped, or in which an   *)
(* API error crossed it (perform_api_call, begin_iteration, finalize_turn).   *)
RedirectsKept ==
  [][\A r \in Redirects :
       /\ r \in pendingRedirect /\ r \notin pendingRedirect' =>
            (applied'[r] = 1 /\ applied[r] = 0) \/ stopped \/ crossed
       /\ applied'[r] # applied[r] => r \in pendingRedirect]_vars

One(condition) == IF condition THEN 1 ELSE 0

(* A steer is in exactly one place: queued, drained by prepare_iteration, in  *)
(* a tool row, or handed back with a result. The three places that drain the  *)
(* queue and the one that refills it lose none and deliver none twice.        *)
SteersDeliveredOnce ==
  \A x \in Steers \cap accepted :
    One(x \in pendingSteer) + One(x \in steer) + delivered[x] + One(x \in handedBack) = 1

(* The turn calls itself interrupted only when the user asked it to stop: the *)
(* cancellation that a redirect sets never ends a turn (handle_api_interrupt, *)
(* "redirect() cancelled only this request"), short of an API error in        *)
(* between.                                                                   *)
InterruptedMeansStopped == s.interrupted => stopped \/ crossed

(* Once the user has asked to stop, the turn begins no further iteration,     *)
(* although clearing a redirect's cancellation clears the same flag. (The     *)
(* look at the flag and the charge are one step here: a stop that falls       *)
(* between them in begin_iteration meets the request instead.)                *)
NoIterationAfterStop == [][s'.count > s.count => ~stopped]_vars

(* api_call_count and the iteration budget are charged and refunded together, *)
(* by begin_iteration, the preflight gate and four kinds of restart; only a   *)
(* round of execute_code moves the one without the other.                     *)
BudgetMatchesCount == s.pc # "idle" => budget + s.count = MaxIterations + cheap

(* While a request is open, every tool call and every result of this turn is  *)
(* in the session store: nothing the model hears of can be lost by a crash    *)
(* (run_tool_round and _commit_tool_result stop the turn at a failed flush).  *)
OnlySavedRoundsAreSent ==
  active => \A i \in base + 1 .. Len(messages) : messages[i].role \in {"calls", "tool"} => messages[i].saved

(* Every turn ends: each way round the loop costs a retry, a compression, a   *)
(* fallback, an outer error, a correction of the user or an iteration.        *)
TurnEnds == s.pc # "idle" ~> s.pc = "idle"
=============================================================================
