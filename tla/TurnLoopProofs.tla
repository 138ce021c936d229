--------------------------- MODULE TurnLoopProofs ---------------------------
(***************************************************************************)
(* Proofs about TurnLoop, for every limit of the turn and every number of  *)
(* turns, stops, corrections and steers.                                   *)
(***************************************************************************)
EXTENDS TurnLoop, SequenceTheorems, TLAPS

---------------------------------------------------------------------------
(* The inductive invariant.                                                 *)

\* The places of an iteration that begin_iteration has charged.
Charged == {"prepare", "inject", "gate", "retry", "request", "check", "error", "restart", "process", "execute", "round"}

\* The count and the budget move together, and every execute_code round of the
\* turn was charged before it was refunded.
CountInv ==
  /\ s.pc # "idle" => budget + s.count = MaxIterations + cheap
  /\ s.pc # "idle" => cheap + One(s.pc \in Charged) <= s.count

\* What the place in the loop says of the retries, of the outer errors and of the
\* request bracket.
PlaceInv ==
  /\ s.pc \in {"request", "check", "error"} => s.retry < MaxRetries
  /\ s.pc \notin {"finalize", "result", "clear"} => s.errors < MaxOuterErrors
  /\ active => s.pc = "request"

\* The interrupt flag against what asked for it: a stop, or a redirect whose
\* correction is still queued.
FlagInv ==
  /\ flag = "stop" => stopped
  /\ stopped => flag = "stop" \/ s.pc = "idle"
  /\ flag = "cancel" => crossed \/ (s.pc = "request" /\ pendingRedirect # {})
  /\ s.interrupted => stopped \/ crossed

\* Where a correction can wait: in the request it has crossed, in the restart that
\* request ends in, before the iteration that writes it down, or where it is dropped.
QueueInv ==
  /\ pendingRedirect # {} =>
       \/ crossed
       \/ s.pc = "request"
       \/ s.pc = "restart" /\ (s.restart = "redirected" \/ s.interrupted)
       \/ s.pc = "loop" /\ LoopGoesOn
       \/ s.pc \in {"finalize", "result", "clear"} /\ stopped
  /\ \A r \in Redirects : r \in pendingRedirect \/ applied[r] # 0 => r \in accepted
  /\ \A r \in pendingRedirect : applied[r] = 0

\* Steers are drained only between the two steps of prepare_iteration, and nobody
\* holds a steer that was not sent.
SteerInv ==
  /\ s.pc # "inject" => steer = {}
  /\ pendingSteer \cup steer \cup handedBack \subseteq accepted
  /\ \A x \in Steers \ accepted : delivered[x] = 0
  /\ SteersDeliveredOnce

\* Every tool call and every result of this turn is in the session store.
RoundsSaved == \A i \in base + 1 .. Len(messages) : messages[i].role \in {"calls", "tool"} => messages[i].saved

\* The turn may still reach a request without a result known to be unsaved.
Goes == s.pc \in Charged \cup {"loop"} /\ (s.pc = "round" => ~s.unsaved)

RowsInv == Goes => RoundsSaved

\* The inductive invariant.
IInv == TypeOK /\ CountInv /\ PlaceInv /\ FlagInv /\ QueueInv /\ SteerInv /\ RowsInv

---------------------------------------------------------------------------
(* The locals of a turn.                                                    *)

\* The limits are numbers.
LEMMA Numbers ==
  /\ MaxIterations \in Nat /\ MaxIterations >= 1
  /\ MaxRetries \in Nat /\ MaxRetries >= 1
  /\ MaxOuterErrors \in Nat /\ MaxOuterErrors >= 1
  /\ MaxFallbacks \in Nat /\ MaxCompressions \in Nat /\ MaxTurns \in Nat /\ MaxStops \in Nat
  BY TurnAssumption

LEMMA Zeros ==
  0 \in 0..MaxIterations /\ 0 \in 0..MaxRetries /\ 0 \in 0..MaxOuterErrors /\ 0 \in 0..MaxCompressions
  BY Numbers

\* A new turn's locals are locals.
LEMMA FreshLocals == FreshState \in States
<1>1. "loop" \in Places /\ "none" \in Restarts /\ "none" \in Responses /\ "none" \in Finals /\ "unknown" \in Exits
  BY DEF Places, Restarts, Responses, Finals, Exits
<1> QED BY <1>1, Zeros DEF FreshState, States

\* GoTo changes the place only.
LEMMA WentTo ==
  ASSUME s \in States, NEW place \in Places, GoTo(place)
  PROVE  s' \in States /\ s'.pc = place
  BY DEF GoTo, States

\* Leaving the loop keeps the locals typed.
LEMMA BrokeWith ==
  ASSUME s \in States, NEW reason \in Exits, BreakWith(reason)
  PROVE  s' \in States
<1>1. "finalize" \in Places BY DEF Places
<1> QED BY <1>1 DEF BreakWith, States

\* A return from the turn leaves fresh locals.
LEMMA Returned ==
  ASSUME Return
  PROVE  /\ s' \in States
         /\ s'.pc = "idle" /\ s'.count = 0 /\ s'.errors = 0 /\ ~s'.interrupted
<1>1. "idle" \in Places BY DEF Places
<1>2. s' \in States BY <1>1, FreshLocals DEF Return, States
<1> QED BY <1>2 DEF Return, FreshState

\* A fallback keeps the count, the errors and the interruption, and restarts.
LEMMA FellBack ==
  ASSUME s \in States, FallBack
  PROVE  /\ s' \in States
         /\ s'.pc = "restart" /\ s'.restart = "rebuilt" /\ s'.retry = 0 /\ s'.count = s.count
         /\ s'.errors = s.errors /\ s'.interrupted = s.interrupted
<1>1. "restart" \in Places /\ "rebuilt" \in Restarts BY DEF Places, Restarts
<1>2. s' \in States BY <1>1, Zeros DEF FallBack, States
<1> QED BY <1>2 DEF FallBack, States

\* The locals of a turn stay within their limits: the iterations by LoopGoesOn, the
\* retries, the compressions and the outer errors by the guards of their phases.
LEMMA LocalsStep ==
  ASSUME IInv, [Next]_vars
  PROVE  s' \in States
<1>0. s \in States /\ budget \in 0..MaxIterations /\ cheap \in Nat /\ CountInv /\ PlaceInv
  BY DEF IInv, TypeOK
<1>1. CASE StartTurn
  BY <1>1, FreshLocals DEF StartTurn
<1>2. CASE SetupTimesOut
  BY <1>0, <1>2 DEF SetupTimesOut
<1>3. CASE LeaveLoop
<2>1. "finalize" \in Places BY DEF Places
<2> QED BY <1>0, <1>3, <2>1, WentTo DEF LeaveLoop
<1>4. CASE BeginIteration
<2>1. "finalize" \in Places /\ "prepare" \in Places /\ "interrupted_by_user" \in Exits
      /\ "review_input_budget_exhausted" \in Exits
  BY DEF Places, Exits
<2>2. CASE s' = [s EXCEPT !.pc = "finalize", !.exit = "interrupted_by_user", !.interrupted = TRUE]
  BY <1>0, <2>1, <2>2 DEF States
<2>3. CASE BreakWith("review_input_budget_exhausted")
  BY <1>0, <2>1, <2>3, BrokeWith
<2>4. CASE s' = [s EXCEPT !.pc = "prepare", !.count = @ + 1]
<3>1. s.count + 1 \in 0..MaxIterations BY <1>0, <1>4, Numbers DEF BeginIteration, LoopGoesOn, States
<3> QED BY <1>0, <2>1, <2>4, <3>1 DEF States
<2> QED BY <1>4, <2>2, <2>3, <2>4 DEF BeginIteration
<1>5. CASE DrainSteer
<2>1. "inject" \in Places BY DEF Places
<2> QED BY <1>0, <1>5, <2>1, WentTo DEF DrainSteer
<1>6. CASE InjectSteer
<2>1. "gate" \in Places BY DEF Places
<2> QED BY <1>0, <1>6, <2>1, WentTo DEF InjectSteer
<1>7. CASE PreflightGate
<2>1. "retry" \in Places /\ "loop" \in Places /\ "finalize" \in Places /\ "none" \in Restarts
      /\ "none" \in Responses /\ "compression" \in Exits /\ {"none", "text"} \subseteq Finals
  BY DEF Places, Restarts, Responses, Exits, Finals
<2>2. CASE s' = [s EXCEPT !.pc = "retry", !.retry = 0, !.restart = "none", !.response = "none"]
  BY <1>0, <2>1, <2>2, Zeros DEF States
<2>3. CASE /\ s.compressions < MaxCompressions
           /\ \E back \in 0..1 :
                s' = [s EXCEPT !.pc = "loop", !.compressions = @ + 1, !.count = @ - back]
<3>1. PICK back \in 0..1 : s' = [s EXCEPT !.pc = "loop", !.compressions = @ + 1, !.count = @ - back]
  BY <2>3
<3>2. s.count - back \in 0..MaxIterations /\ s.compressions + 1 \in 0..MaxCompressions
  BY <1>0, <1>7, <2>3, Numbers DEF PreflightGate, CountInv, Charged, One, States
<3> QED BY <1>0, <2>1, <3>1, <3>2 DEF States
<2>4. CASE \E text \in {"none", "text"} :
             s' = [s EXCEPT !.pc = "finalize", !.exit = "compression", !.final = text]
<3>1. PICK text \in Finals : s' = [s EXCEPT !.pc = "finalize", !.exit = "compression", !.final = text]
  BY <2>1, <2>4
<3> QED BY <1>0, <2>1, <3>1 DEF States
<2> QED BY <1>7, <2>2, <2>3, <2>4, Returned DEF PreflightGate
<1>8. CASE RetriesExhausted
<2>1. "restart" \in Places BY DEF Places
<2> QED BY <1>0, <1>8, <2>1, WentTo DEF RetriesExhausted
<1>9. CASE RateLimited
  BY <1>0, <1>9, FellBack, Returned DEF RateLimited
<1>10. CASE OpenRequest
<2>1. "request" \in Places BY DEF Places
<2> QED BY <1>0, <1>10, <2>1, WentTo DEF OpenRequest
<1>11. ASSUME RebuildOrStop PROVE s' \in States
<2>1. "restart" \in Places /\ "redirected" \in Restarts BY DEF Places, Restarts
<2> QED BY <1>0, <1>11, <2>1 DEF RebuildOrStop, States
<1>12. CASE Answered
<2>1. "check" \in Places /\ {"text", "tools", "code"} \subseteq Responses BY DEF Places, Responses
<2>2. CASE \E kind \in {"text", "tools", "code"} : s' = [s EXCEPT !.pc = "check", !.response = kind]
  BY <1>0, <2>1, <2>2 DEF States
<2> QED BY <1>11, <1>12, <2>2 DEF Answered
<1>13. CASE RequestInterrupted
<2>1. "restart" \in Places /\ "text" \in Finals BY DEF Places, Finals
<2>2. CASE s' = [s EXCEPT !.pc = "restart", !.interrupted = TRUE, !.final = "text"]
  BY <1>0, <2>1, <2>2 DEF States
<2> QED BY <1>11, <1>13, <2>2 DEF RequestInterrupted
<1>14. CASE RequestFails
<2>1. "error" \in Places BY DEF Places
<2> QED BY <1>0, <1>14, <2>1, WentTo DEF RequestFails
<1>15. ASSUME RetryOrGiveUp, s.pc \in {"check", "error"} PROVE s' \in States
<2>1. "retry" \in Places /\ "none" \in Responses BY DEF Places, Responses
<2>2. CASE s' = [s EXCEPT !.pc = "retry", !.retry = @ + 1, !.response = "none"]
<3>1. s.retry + 1 \in 0..MaxRetries BY <1>0, <1>15, Numbers DEF PlaceInv, States
<3> QED BY <1>0, <2>1, <2>2, <3>1 DEF States
<2> QED BY <1>0, <1>15, <2>2, FellBack, Returned DEF RetryOrGiveUp
<1>16. CASE HandleApiError
<2>1. "restart" \in Places /\ "compressed" \in Restarts /\ "none" \in Responses
  BY DEF Places, Restarts, Responses
<2>2. CASE /\ s.compressions < MaxCompressions
           /\ s' = [s EXCEPT !.pc = "restart", !.restart = "compressed", !.compressions = @ + 1]
<3>1. s.compressions + 1 \in 0..MaxCompressions BY <1>0, <2>2, Numbers DEF States
<3> QED BY <1>0, <2>1, <2>2, <3>1 DEF States
<2>3. CASE s' = [s EXCEPT !.pc = "restart", !.response = "none"]
  BY <1>0, <2>1, <2>3 DEF States
<2> QED BY <1>15, <1>16, <2>2, <2>3 DEF HandleApiError
<1>17. CASE CheckApiResponse
<2>1. "restart" \in Places /\ "length" \in Restarts BY DEF Places, Restarts
<2>2. CASE \E n \in RearmedCompressions : s' = [s EXCEPT !.pc = "restart", !.compressions = n]
  BY <1>0, <2>1, <2>2, Zeros DEF RearmedCompressions, States
<2>3. CASE s' = [s EXCEPT !.pc = "restart", !.restart = "length"]
  BY <1>0, <2>1, <2>3 DEF States
<2> QED BY <1>15, <1>17, <2>2, <2>3 DEF CheckApiResponse
<1>18. CASE ApplyRetryRestarts
<2>1. "loop" \in Places /\ "finalize" \in Places /\ "process" \in Places /\ "none" \in Restarts /\ "text" \in Finals
  BY DEF Places, Restarts, Finals
<2>2. "interrupted_during_api_call" \in Exits /\ "compaction_handoff_not_actionable" \in Exits
      /\ "all_retries_exhausted_no_response" \in Exits
  BY DEF Exits
<2>3. s.count - 1 \in 0..MaxIterations
  BY <1>0, <1>18, Numbers DEF ApplyRetryRestarts, CountInv, Charged, One, States
<2>4. CASE RefundAndContinue
  BY <1>0, <2>1, <2>3, <2>4 DEF RefundAndContinue, States
<2>5. CASE s' = [s EXCEPT !.pc = "finalize", !.exit = "compaction_handoff_not_actionable",
                          !.count = @ - 1, !.restart = "none", !.final = "text"]
  BY <1>0, <2>1, <2>2, <2>3, <2>5 DEF States
<2> QED BY <1>0, <1>18, <2>1, <2>2, <2>4, <2>5, WentTo, BrokeWith DEF ApplyRetryRestarts
<1>19. CASE RejectResponse
<2>1. "loop" \in Places BY DEF Places
<2> QED BY <1>0, <1>19, <2>1, WentTo, Returned DEF RejectResponse
<1>20. CASE FinishText
<2>1. "finalize" \in Places /\ "text_response" \in Exits /\ "text" \in Finals BY DEF Places, Exits, Finals
<2> QED BY <1>0, <1>20, <2>1 DEF FinishText, States
<1>21. CASE StageToolCalls
<2>1. "execute" \in Places /\ "finalize" \in Places /\ "session_persistence_failed" \in Exits /\ "empty" \in Finals
  BY DEF Places, Exits, Finals
<2>2. CASE s' = [s EXCEPT !.pc = "finalize", !.exit = "session_persistence_failed",
                              !.final = "empty", !.failed = TRUE]
  BY <1>0, <2>1, <2>2 DEF States
<2>3. CASE s' = [s EXCEPT !.pc = "execute"]
  BY <1>0, <2>1, <2>3 DEF States
<2> QED BY <1>21, <2>2, <2>3 DEF StageToolCalls
<1>22. CASE ExecuteToolCalls
<2>1. "round" \in Places BY DEF Places
<2> QED BY <1>0, <1>22, <2>1 DEF ExecuteToolCalls, States
<1>23. CASE ResultsUnsaved
<2>1. "finalize" \in Places /\ "session_persistence_failed" \in Exits /\ "empty" \in Finals
  BY DEF Places, Exits, Finals
<2> QED BY <1>0, <1>23, <2>1 DEF ResultsUnsaved, States
<1>24. CASE GuardrailHalts
<2>1. "finalize" \in Places /\ "guardrail_halt" \in Exits /\ "text" \in Finals BY DEF Places, Exits, Finals
<2> QED BY <1>0, <1>24, <2>1 DEF GuardrailHalts, States
<1>25. CASE RoundEnds
<2>1. "loop" \in Places /\ "finalize" \in Places /\ "compression" \in Exits /\ {"none", "text"} \subseteq Finals
  BY DEF Places, Exits, Finals
<2>2. CASE \E text \in {"none", "text"} :
             s' = [s EXCEPT !.pc = "finalize", !.exit = "compression", !.final = text]
<3>1. PICK text \in Finals : s' = [s EXCEPT !.pc = "finalize", !.exit = "compression", !.final = text]
  BY <2>1, <2>2
<3> QED BY <1>0, <2>1, <3>1 DEF States
<2> QED BY <1>0, <1>25, <2>1, <2>2, WentTo DEF RoundEnds
<1>26. CASE OuterLoopError
<2>1. "loop" \in Places /\ "finalize" \in Places /\ "error" \in Exits /\ "text" \in Finals
  BY DEF Places, Exits, Finals
<2>2. s.errors + 1 \in 0..MaxOuterErrors
  BY <1>0, <1>26, Numbers DEF OuterLoopError, PlaceInv, States
<2>3. CASE s' = [s EXCEPT !.pc = "loop", !.errors = @ + 1]
  BY <1>0, <2>1, <2>2, <2>3 DEF States
<2>4. CASE s' = [s EXCEPT !.pc = "finalize", !.exit = "error", !.errors = @ + 1, !.final = "text"]
  BY <1>0, <2>1, <2>2, <2>4 DEF States
<2> QED BY <1>26, <2>3, <2>4 DEF OuterLoopError
<1>27. CASE PersistTurn
<2>1. "result" \in Places /\ "max_iterations_reached" \in Exits /\ "text" \in Finals BY DEF Places, Exits, Finals
<2>2. PICK final \in Finals, reason \in Exits : s' = [s EXCEPT !.pc = "result", !.final = final, !.exit = reason]
  BY <1>0, <1>27, <2>1 DEF PersistTurn, States
<2> QED BY <1>0, <2>1, <2>2 DEF States
<1>28. CASE BuildResult
<2>1. "clear" \in Places /\ "text" \in Finals BY DEF Places, Finals
<2>2. PICK final \in Finals : s' = [s EXCEPT !.pc = "clear", !.final = final]
  BY <1>0, <1>28, <2>1 DEF BuildResult, States
<2> QED BY <1>0, <2>1, <2>2 DEF States
<1>29. CASE ClearInterrupt
  BY <1>29, Returned DEF ClearInterrupt
<1>30. CASE (\E r \in Redirects : Redirect(r)) \/ (\E x \in Steers : Steer(x)) \/ Stop \/ UNCHANGED vars
  BY <1>0, <1>30 DEF Redirect, Steer, Stop, vars
<1> QED
  BY <1>1, <1>2, <1>3, <1>4, <1>5, <1>6, <1>7, <1>8, <1>9, <1>10, <1>12, <1>13, <1>14, <1>16,
         <1>17, <1>18, <1>19,
     <1>20, <1>21, <1>22, <1>23, <1>24, <1>25, <1>26, <1>27, <1>28, <1>29, <1>30
     DEF Next, TurnStep, Iterate, Request, Process, Finalize, Over

---------------------------------------------------------------------------
(* The budget, the place and the flag.                                      *)

\* Charges and refunds keep the count and the budget together.
LEMMA CountInvStep ==
  ASSUME IInv, [Next]_vars
  PROVE  CountInv'
<1>0. s \in States /\ budget \in Nat /\ cheap \in Nat /\ CountInv
  BY DEF IInv, TypeOK
<1> USE DEF CountInv, Charged, One, States
<1>1. CASE StartTurn
  BY <1>0, <1>1 DEF StartTurn, FreshState
<1>2. CASE SetupTimesOut
  BY <1>0, <1>2 DEF SetupTimesOut
<1>3. CASE LeaveLoop
  BY <1>0, <1>3 DEF LeaveLoop, GoTo, loopVars
<1>4. CASE BeginIteration
<2>1. budget + s.count = MaxIterations + cheap /\ cheap <= s.count /\ budget > 0
  BY <1>0, <1>4 DEF BeginIteration, LoopGoesOn
<2>2. UNCHANGED cheap
  BY <1>4 DEF BeginIteration
<2>3. CASE s' = [s EXCEPT !.pc = "prepare", !.count = @ + 1] /\ budget' = budget - 1
<3>1. s'.pc = "prepare" /\ s'.count = s.count + 1
  BY <1>0, <2>3
<3> QED BY <1>0, <2>1, <2>2, <2>3, <3>1
<2>4. CASE s'.pc = "finalize" /\ s'.count = s.count /\ budget' = budget
  BY <1>0, <2>1, <2>2, <2>4
<2>5. ASSUME BreakWith("review_input_budget_exhausted") PROVE s'.pc = "finalize" /\ s'.count = s.count
  BY <1>0, <2>5 DEF BreakWith
<2>6. ASSUME s' = [s EXCEPT !.pc = "finalize", !.exit = "interrupted_by_user", !.interrupted = TRUE]
      PROVE  s'.pc = "finalize" /\ s'.count = s.count
  BY <1>0, <2>6
<2> QED BY <1>4, <2>3, <2>4, <2>5, <2>6 DEF BeginIteration
<1>5. CASE DrainSteer
  BY <1>0, <1>5 DEF DrainSteer, GoTo
<1>6. CASE InjectSteer
  BY <1>0, <1>6 DEF InjectSteer, GoTo
<1>7. CASE PreflightGate
<2>1. budget + s.count = MaxIterations + cheap /\ cheap + 1 <= s.count /\ UNCHANGED cheap
  BY <1>0, <1>7 DEF PreflightGate
<2>2. ASSUME NEW back \in 0..1, budget' = budget + back,
             s' = [s EXCEPT !.pc = "loop", !.compressions = @ + 1, !.count = @ - back]
      PROVE  CountInv'
<3>1. s'.pc = "loop" /\ s'.count = s.count - back
  BY <1>0, <2>2
<3> QED BY <1>0, <2>1, <2>2, <3>1
<2>3. CASE s'.count = s.count /\ s'.pc \in {"retry", "finalize"} /\ budget' = budget
  BY <1>0, <2>1, <2>3
<2>4. ASSUME s' = [s EXCEPT !.pc = "retry", !.retry = 0, !.restart = "none", !.response = "none"]
      PROVE  s'.count = s.count /\ s'.pc = "retry"
  BY <1>0, <2>4
<2>5. ASSUME NEW text, s' = [s EXCEPT !.pc = "finalize", !.exit = "compression", !.final = text]
      PROVE  s'.count = s.count /\ s'.pc = "finalize"
  BY <1>0, <2>5
<2>6. CASE Return
  BY <2>6, Returned
<2> QED BY <1>7, <2>2, <2>3, <2>4, <2>5, <2>6 DEF PreflightGate
<1>8. CASE RetriesExhausted
  BY <1>0, <1>8 DEF RetriesExhausted, GoTo, loopVars
<1>9. CASE RateLimited
  BY <1>0, <1>9, Returned, FellBack DEF RateLimited
<1>10. CASE OpenRequest
  BY <1>0, <1>10 DEF OpenRequest, GoTo, loopVars
<1>11. CASE Answered
  BY <1>0, <1>11 DEF Answered, RebuildOrStop, RedirectCrossed, ClearedPreserving, loopVars
<1>12. CASE RequestInterrupted
  BY <1>0, <1>12 DEF RequestInterrupted, RebuildOrStop, ClearedPreserving
<1>13. CASE RequestFails
  BY <1>0, <1>13 DEF RequestFails, GoTo, loopVars
<1>14. CASE HandleApiError
  BY <1>0, <1>14, Returned, FellBack DEF HandleApiError, RetryOrGiveUp
<1>15. CASE CheckApiResponse
  BY <1>0, <1>15, Returned, FellBack DEF CheckApiResponse, RetryOrGiveUp
<1>16. CASE ApplyRetryRestarts
<2>1. CASE s'.count = s.count - 1 /\ s'.pc \in {"loop", "finalize"} /\ budget' = budget + 1
  BY <1>0, <1>16, <2>1 DEF ApplyRetryRestarts
<2>2. CASE s'.count = s.count /\ s'.pc \in {"loop", "finalize", "process"} /\ budget' = budget
  BY <1>0, <1>16, <2>2 DEF ApplyRetryRestarts
<2> QED BY <1>0, <1>16, <2>1, <2>2 DEF ApplyRetryRestarts, RefundAndContinue, BreakWith, GoTo
<1>17. CASE RejectResponse
  BY <1>0, <1>17, Returned DEF RejectResponse, GoTo, loopVars
<1>18. CASE FinishText
  BY <1>0, <1>18 DEF FinishText
<1>19. CASE StageToolCalls
  BY <1>0, <1>19 DEF StageToolCalls
<1>20. CASE ExecuteToolCalls
  BY <1>0, <1>20 DEF ExecuteToolCalls
<1>21. CASE ResultsUnsaved
  BY <1>0, <1>21 DEF ResultsUnsaved, loopVars
<1>22. CASE GuardrailHalts
  BY <1>0, <1>22 DEF GuardrailHalts
<1>23. CASE RoundEnds
<2>1. s'.count = s.count /\ s'.pc \in {"loop", "finalize"}
  BY <1>0, <1>23 DEF RoundEnds, GoTo
<2>2. \/ budget' = budget /\ cheap' = cheap
      \/ budget' = budget + 1 /\ cheap' = cheap + 1
  BY <1>0, <1>23 DEF RoundEnds
<2>3. budget + s.count = MaxIterations + cheap /\ cheap + 1 <= s.count
  BY <1>0, <1>23 DEF RoundEnds
<2>4. One(s'.pc \in Charged) = 0
  BY <2>1
<2>5. budget' + s'.count = MaxIterations + cheap' /\ cheap' <= s'.count
  BY <1>0, <2>1, <2>2, <2>3, Numbers
<2> QED BY <1>0, <2>2, <2>4, <2>5
<1>24. CASE OuterLoopError
<2>1. s'.count = s.count /\ s'.pc \in {"loop", "finalize"}
  BY <1>0, <1>24 DEF OuterLoopError
<2> QED BY <1>0, <1>24, <2>1 DEF OuterLoopError
<1>25. CASE PersistTurn
  BY <1>0, <1>25 DEF PersistTurn
<1>26. CASE BuildResult
  BY <1>0, <1>26 DEF BuildResult, loopVars
<1>27. CASE ClearInterrupt
  BY <1>0, <1>27, Returned DEF ClearInterrupt, loopVars
<1>28. CASE Stop
  BY <1>0, <1>28 DEF Stop, loopVars
<1>29. CASE \E r \in Redirects : Redirect(r)
  BY <1>0, <1>29 DEF Redirect, loopVars
<1>30. CASE \E x \in Steers : Steer(x)
  BY <1>0, <1>30 DEF Steer, loopVars
<1>31. CASE UNCHANGED vars
  BY <1>0, <1>31 DEF vars, loopVars
<1> QED BY <1>1, <1>2, <1>3, <1>4, <1>5, <1>6, <1>7, <1>8, <1>9, <1>10, <1>11, <1>12, <1>13,
         <1>14, <1>15, <1>16, <1>17, <1>18, <1>19, <1>20, <1>21, <1>22, <1>23, <1>24, <1>25,
         <1>26, <1>27, <1>28, <1>29, <1>30, <1>31 DEF Next, TurnStep, Iterate, Request,
         Process, Finalize, Over

LEMMA PlaceInvStep ==
  ASSUME IInv, [Next]_vars
  PROVE  PlaceInv'
<1>0. s \in States /\ PlaceInv
  BY DEF IInv, TypeOK
<1> USE DEF PlaceInv, States
<1>1. CASE StartTurn
  BY <1>0, <1>1, Numbers DEF StartTurn, FreshState, sharedVars
<1>2. CASE SetupTimesOut
  BY <1>0, <1>2 DEF SetupTimesOut, sharedVars
<1>3. CASE LeaveLoop
  BY <1>0, <1>3 DEF LeaveLoop, GoTo, sharedVars
<1>4. CASE BeginIteration
  BY <1>0, <1>4 DEF BeginIteration, BreakWith, LoopGoesOn
<1>5. CASE DrainSteer
  BY <1>0, <1>5 DEF DrainSteer, GoTo
<1>6. CASE InjectSteer
  BY <1>0, <1>6 DEF InjectSteer, GoTo
<1>7. CASE PreflightGate
<2>1. CASE s'.pc \in {"loop", "retry", "finalize"} /\ s'.errors = s.errors
  BY <1>0, <1>7, <2>1 DEF PreflightGate, sharedVars
<2>2. CASE Return
  BY <1>0, <1>7, <2>2, Returned, Numbers DEF PreflightGate, sharedVars
<2> QED BY <1>0, <1>7, <2>1, <2>2 DEF PreflightGate
<1>8. CASE RetriesExhausted
  BY <1>0, <1>8 DEF RetriesExhausted, GoTo, sharedVars
<1>9. CASE RateLimited
<2>1. CASE FallBack
  BY <1>0, <1>9, <2>1, FellBack DEF RateLimited, sharedVars
<2>2. CASE Return
  BY <1>0, <1>9, <2>2, Returned, Numbers DEF RateLimited, sharedVars
<2> QED BY <1>9, <2>1, <2>2 DEF RateLimited
<1>10. CASE OpenRequest
  BY <1>0, <1>10 DEF OpenRequest, GoTo
<1>11. CASE Answered
  BY <1>0, <1>11 DEF Answered, RebuildOrStop, RedirectCrossed, ClearedPreserving
<1>12. CASE RequestInterrupted
  BY <1>0, <1>12 DEF RequestInterrupted, RebuildOrStop, ClearedPreserving
<1>13. CASE RequestFails
  BY <1>0, <1>13 DEF RequestFails, GoTo
<1>14. CASE HandleApiError
<2>1. CASE s'.pc \in {"retry", "restart"} /\ s'.errors = s.errors
  BY <1>0, <1>14, <2>1 DEF HandleApiError, sharedVars
<2>2. CASE Return
  BY <1>0, <1>14, <2>2, Returned, Numbers DEF HandleApiError, sharedVars
<2>3. CASE FallBack
  BY <1>0, <2>1, <2>3, FellBack
<2> QED BY <1>0, <1>14, <2>1, <2>2, <2>3 DEF HandleApiError, RetryOrGiveUp
<1>15. CASE CheckApiResponse
<2>1. CASE s'.pc \in {"retry", "restart"} /\ s'.errors = s.errors
  BY <1>0, <1>15, <2>1 DEF CheckApiResponse, sharedVars
<2>2. CASE Return
<3>1. s.pc = "check" /\ UNCHANGED active
  BY <1>15 DEF CheckApiResponse, sharedVars
<3> QED BY <1>0, <2>2, <3>1, Returned, Numbers
<2>3. CASE FallBack
  BY <1>0, <2>1, <2>3, FellBack
<2> QED BY <1>0, <1>15, <2>1, <2>2, <2>3 DEF CheckApiResponse, RetryOrGiveUp
<1>16. CASE ApplyRetryRestarts
<2>1. s'.pc \in {"loop", "finalize", "process"} /\ s'.errors = s.errors
  BY <1>0, <1>16 DEF ApplyRetryRestarts, RefundAndContinue, BreakWith, GoTo
<2> QED BY <1>0, <1>16, <2>1 DEF ApplyRetryRestarts, sharedVars
<1>17. CASE RejectResponse
  BY <1>0, <1>17, Returned, Numbers DEF RejectResponse, GoTo, sharedVars
<1>18. CASE FinishText
  BY <1>0, <1>18 DEF FinishText, sharedVars
<1>19. CASE StageToolCalls
  BY <1>0, <1>19 DEF StageToolCalls, sharedVars
<1>20. CASE ExecuteToolCalls
  BY <1>0, <1>20 DEF ExecuteToolCalls
<1>21. CASE ResultsUnsaved
  BY <1>0, <1>21 DEF ResultsUnsaved, sharedVars
<1>22. CASE GuardrailHalts
  BY <1>0, <1>22 DEF GuardrailHalts, sharedVars
<1>23. CASE RoundEnds
  BY <1>0, <1>23 DEF RoundEnds, GoTo, sharedVars
<1>24. CASE OuterLoopError
  BY <1>0, <1>24 DEF OuterLoopError, sharedVars
<1>25. CASE PersistTurn
  BY <1>0, <1>25 DEF PersistTurn, sharedVars
<1>26. CASE BuildResult
  BY <1>0, <1>26 DEF BuildResult
<1>27. CASE ClearInterrupt
  BY <1>0, <1>27, Returned, Numbers DEF ClearInterrupt
<1>28. CASE Stop
  BY <1>0, <1>28 DEF Stop
<1>29. CASE \E r \in Redirects : Redirect(r)
  BY <1>0, <1>29 DEF Redirect
<1>30. CASE \E x \in Steers : Steer(x)
  BY <1>0, <1>30 DEF Steer
<1>31. CASE UNCHANGED vars
  BY <1>0, <1>31 DEF vars, sharedVars
<1> QED BY <1>1, <1>2, <1>3, <1>4, <1>5, <1>6, <1>7, <1>8, <1>9, <1>10, <1>11, <1>12, <1>13,
         <1>14, <1>15, <1>16, <1>17, <1>18, <1>19, <1>20, <1>21, <1>22, <1>23, <1>24, <1>25,
         <1>26, <1>27, <1>28, <1>29, <1>30, <1>31 DEF Next, TurnStep, Iterate, Request,
         Process, Finalize, Over

\* A cancellation ends where the request it crossed ends: clear_interrupt wipes it,
\* or an API error crosses it.
LEMMA FlagInvStep ==
  ASSUME IInv, [Next]_vars
  PROVE  FlagInv'
<1>0. s \in States /\ FlagInv /\ PlaceInv /\ QueueInv
  BY DEF IInv, TypeOK
<1> USE DEF FlagInv, PlaceInv, States
<1>1. CASE StartTurn
  BY <1>0, <1>1 DEF StartTurn, FreshState, sharedVars
<1>2. CASE SetupTimesOut
  BY <1>0, <1>2 DEF SetupTimesOut, sharedVars, observations
<1>3. CASE LeaveLoop
  BY <1>0, <1>3 DEF LeaveLoop, GoTo, sharedVars, observations
<1>4. CASE BeginIteration
<2>1. flag = "cancel" => crossed
  BY <1>0, <1>4 DEF BeginIteration
<2>2. /\ s'.pc \in {"finalize", "prepare"}
      /\ s'.interrupted => s.interrupted \/ flag # "none"
  BY <1>0, <1>4 DEF BeginIteration, BreakWith
<2>3. UNCHANGED <<flag, stopped, crossed>> /\ flag \in {"none", "cancel", "stop"}
  BY <1>4 DEF BeginIteration, IInv, TypeOK
<2> QED BY <1>0, <1>4, <2>1, <2>2, <2>3 DEF BeginIteration
<1>5. CASE DrainSteer
  BY <1>0, <1>5 DEF DrainSteer, GoTo, observations
<1>6. CASE InjectSteer
  BY <1>0, <1>6 DEF InjectSteer, GoTo
<1>7. CASE PreflightGate
  BY <1>0, <1>7, Returned DEF PreflightGate, sharedVars, observations
<1>8. CASE RetriesExhausted
  BY <1>0, <1>8 DEF RetriesExhausted, GoTo, sharedVars, observations
<1>9. CASE RateLimited
  BY <1>0, <1>9, Returned, FellBack DEF RateLimited, sharedVars, observations
<1>10. CASE OpenRequest
  BY <1>0, <1>10 DEF OpenRequest, GoTo, observations
<1>11. CASE Answered
<2>1. CASE RedirectCrossed
<3>1. /\ flag' = (IF flag = "stop" THEN "stop" ELSE "none")
      /\ s'.pc = "restart" /\ (s'.interrupted => s.interrupted \/ flag = "stop")
  BY <1>0, <1>11, <2>1 DEF Answered, RebuildOrStop, ClearedPreserving
<3> QED BY <1>0, <1>11, <3>1 DEF Answered, observations
<2>2. CASE ~RedirectCrossed
<3>1. UNCHANGED flag /\ s'.pc = "check" /\ s'.interrupted = s.interrupted
  BY <1>0, <1>11, <2>2 DEF Answered
<3> QED BY <1>0, <1>11, <2>2, <3>1 DEF Answered, RedirectCrossed, observations
<2> QED BY <2>1, <2>2
<1>12. CASE RequestInterrupted
<2>1. CASE pendingRedirect # {} /\ flag # "stop"
<3>1. flag' = "none" /\ s'.pc = "restart" /\ s'.interrupted = s.interrupted
  BY <1>0, <1>12, <2>1 DEF RequestInterrupted, RebuildOrStop, ClearedPreserving
<3> QED BY <1>0, <1>12, <2>1, <3>1 DEF RequestInterrupted, observations
<2>2. CASE ~(pendingRedirect # {} /\ flag # "stop")
<3>1. UNCHANGED flag /\ s'.pc = "restart"
  BY <1>0, <1>12, <2>2 DEF RequestInterrupted
<3>2. flag \in {"cancel", "stop"}
  BY <1>12 DEF RequestInterrupted, IInv, TypeOK
<3>3. stopped \/ crossed
  BY <1>0, <2>2, <3>2
<3> QED BY <1>0, <1>12, <3>1, <3>2, <3>3 DEF RequestInterrupted, observations
<2> QED BY <2>1, <2>2
<1>13. CASE RequestFails
  BY <1>0, <1>13 DEF RequestFails, GoTo
<1>14. CASE HandleApiError
  BY <1>0, <1>14, Returned, FellBack DEF HandleApiError, RetryOrGiveUp, sharedVars, observations
<1>15. CASE CheckApiResponse
  BY <1>0, <1>15, Returned, FellBack DEF CheckApiResponse, RetryOrGiveUp, sharedVars, observations
<1>16. CASE ApplyRetryRestarts
  BY <1>0, <1>16 DEF ApplyRetryRestarts, RefundAndContinue, BreakWith, GoTo, sharedVars,
         observations
<1>17. CASE RejectResponse
  BY <1>0, <1>17, Returned DEF RejectResponse, GoTo, sharedVars, observations
<1>18. CASE FinishText
  BY <1>0, <1>18 DEF FinishText, sharedVars, observations
<1>19. CASE StageToolCalls
  BY <1>0, <1>19 DEF StageToolCalls, sharedVars, observations
<1>20. CASE ExecuteToolCalls
  BY <1>0, <1>20 DEF ExecuteToolCalls
<1>21. CASE ResultsUnsaved
  BY <1>0, <1>21 DEF ResultsUnsaved, sharedVars, observations
<1>22. CASE GuardrailHalts
  BY <1>0, <1>22 DEF GuardrailHalts, sharedVars, observations
<1>23. CASE RoundEnds
  BY <1>0, <1>23 DEF RoundEnds, GoTo, sharedVars, observations
<1>24. CASE OuterLoopError
  BY <1>0, <1>24 DEF OuterLoopError, sharedVars, observations
<1>25. CASE PersistTurn
  BY <1>0, <1>25 DEF PersistTurn, sharedVars, observations
<1>26. CASE BuildResult
  BY <1>0, <1>26 DEF BuildResult
<1>27. CASE ClearInterrupt
  BY <1>0, <1>27, Returned DEF ClearInterrupt, observations
<1>28. CASE Stop
  BY <1>0, <1>28 DEF Stop
<1>29. CASE \E r \in Redirects : Redirect(r)
  BY <1>0, <1>29 DEF Redirect
<1>30. CASE \E x \in Steers : Steer(x)
  BY <1>0, <1>30 DEF Steer
<1>31. CASE UNCHANGED vars
  BY <1>0, <1>31 DEF vars, sharedVars, observations
<1> QED BY <1>1, <1>2, <1>3, <1>4, <1>5, <1>6, <1>7, <1>8, <1>9, <1>10, <1>11, <1>12, <1>13,
         <1>14, <1>15, <1>16, <1>17, <1>18, <1>19, <1>20, <1>21, <1>22, <1>23, <1>24, <1>25,
         <1>26, <1>27, <1>28, <1>29, <1>30, <1>31 DEF Next, TurnStep, Iterate, Request,
         Process, Finalize, Over

---------------------------------------------------------------------------
(* Corrections.                                                             *)

\* A correction never slips past the response it crossed.
LEMMA QueueInvStep ==
  ASSUME IInv, [Next]_vars
  PROVE  QueueInv'
<1>0. /\ s \in States /\ budget \in Nat /\ QueueInv /\ FlagInv /\ PlaceInv
      /\ pendingRedirect \subseteq Redirects /\ applied \in [Redirects -> 0..1]
  BY DEF IInv, TypeOK
<1> USE DEF QueueInv
<1>1. CASE StartTurn
  BY <1>0, <1>1 DEF StartTurn, FreshState, sharedVars
<1>2. CASE SetupTimesOut
  BY <1>0, <1>2 DEF SetupTimesOut, sharedVars, observations
<1>3. CASE LeaveLoop
  BY <1>0, <1>3 DEF LeaveLoop, GoTo, loopVars, sharedVars, observations
<1>4. CASE BeginIteration
<2>1. pendingRedirect' = {} /\ accepted' = accepted
  BY <1>4 DEF BeginIteration
<2>2. ASSUME NEW r \in Redirects, applied'[r] # 0 PROVE r \in accepted'
  BY <1>0, <1>4, <2>1, <2>2 DEF BeginIteration, AppliedPending
<2> QED BY <2>1, <2>2
<1>5. CASE DrainSteer
  BY <1>0, <1>5 DEF DrainSteer, GoTo, observations
<1>6. CASE InjectSteer
  BY <1>0, <1>6 DEF InjectSteer, GoTo
<1>7. CASE PreflightGate
  BY <1>0, <1>7, Returned DEF PreflightGate, sharedVars, observations
<1>8. CASE RetriesExhausted
  BY <1>0, <1>8 DEF RetriesExhausted, GoTo, loopVars, sharedVars, observations
<1>9. CASE RateLimited
  BY <1>0, <1>9, Returned, FellBack DEF RateLimited, sharedVars, observations
<1>10. CASE OpenRequest
  BY <1>0, <1>10 DEF OpenRequest, GoTo, loopVars, observations
<1>11. CASE Answered
<2>1. UNCHANGED <<pendingRedirect, applied, accepted, crossed, stopped>>
  BY <1>11 DEF Answered, observations
<2>2. CASE pendingRedirect = {}
  BY <1>0, <2>1, <2>2
<2>3. CASE pendingRedirect # {}
<3>1. s'.pc = "restart" /\ (s'.restart = "redirected" \/ s'.interrupted)
  BY <1>0, <1>11, <2>3 DEF Answered, RedirectCrossed, RebuildOrStop, States
<3> QED BY <1>0, <2>1, <3>1
<2> QED BY <2>2, <2>3
<1>12. CASE RequestInterrupted
<2>1. UNCHANGED <<pendingRedirect, applied, accepted, crossed, stopped>>
  BY <1>12 DEF RequestInterrupted, observations
<2>2. s'.pc = "restart" /\ (s'.restart = "redirected" \/ s'.interrupted)
  BY <1>0, <1>12 DEF RequestInterrupted, RebuildOrStop, States
<2> QED BY <1>0, <2>1, <2>2
<1>13. CASE RequestFails
  BY <1>0, <1>13 DEF RequestFails, GoTo, loopVars
<1>14. CASE HandleApiError
  BY <1>0, <1>14, Returned, FellBack DEF HandleApiError, RetryOrGiveUp, sharedVars, observations
<1>15. CASE CheckApiResponse
  BY <1>0, <1>15, Returned, FellBack DEF CheckApiResponse, RetryOrGiveUp, sharedVars, observations
<1>16. CASE ApplyRetryRestarts
<2>1. UNCHANGED <<pendingRedirect, applied, accepted, crossed, stopped>> /\ s.pc = "restart"
  BY <1>16 DEF ApplyRetryRestarts, sharedVars, observations
<2>2. CASE pendingRedirect = {} \/ crossed
  BY <1>0, <2>1, <2>2
<2>3. CASE s.restart = "redirected"
<3>1. s'.pc = "loop" /\ s'.count = s.count - 1 /\ budget' = budget + 1
  BY <1>0, <1>16, <2>3 DEF ApplyRetryRestarts, RefundAndContinue, States
<3>2. LoopGoesOn'
  BY <1>0, <3>1, Numbers DEF LoopGoesOn, States
<3> QED BY <1>0, <2>1, <3>1, <3>2
<2>4. CASE s.restart # "redirected" /\ s.interrupted
<3>1. s'.pc = "finalize"
  BY <1>0, <1>16, <2>4 DEF ApplyRetryRestarts, BreakWith, States
<3>2. stopped \/ crossed
  BY <1>0, <2>4 DEF FlagInv
<3> QED BY <1>0, <2>1, <2>2, <3>1, <3>2
<2> QED BY <1>0, <2>1, <2>2, <2>3, <2>4
<1>17. CASE RejectResponse
  BY <1>0, <1>17, Returned DEF RejectResponse, GoTo, loopVars, sharedVars, observations
<1>18. CASE FinishText
  BY <1>0, <1>18 DEF FinishText, sharedVars, observations
<1>19. CASE StageToolCalls
  BY <1>0, <1>19 DEF StageToolCalls, sharedVars, observations
<1>20. CASE ExecuteToolCalls
  BY <1>0, <1>20 DEF ExecuteToolCalls
<1>21. CASE ResultsUnsaved
  BY <1>0, <1>21 DEF ResultsUnsaved, loopVars, sharedVars, observations
<1>22. CASE GuardrailHalts
  BY <1>0, <1>22 DEF GuardrailHalts, sharedVars, observations
<1>23. CASE RoundEnds
  BY <1>0, <1>23 DEF RoundEnds, GoTo, sharedVars, observations
<1>24. CASE OuterLoopError
  BY <1>0, <1>24 DEF OuterLoopError, sharedVars, observations
<1>25. CASE PersistTurn
  BY <1>0, <1>25 DEF PersistTurn, sharedVars, observations
<1>26. CASE BuildResult
  BY <1>0, <1>26 DEF BuildResult, loopVars
<1>27. CASE ClearInterrupt
  BY <1>0, <1>27, Returned DEF ClearInterrupt, loopVars, observations
<1>28. CASE Stop
  BY <1>0, <1>28 DEF Stop, LoopGoesOn, loopVars
<1>29. CASE \E r \in Redirects : Redirect(r)
  BY <1>0, <1>29 DEF Redirect, PlaceInv, LoopGoesOn, loopVars
<1>30. CASE \E x \in Steers : Steer(x)
  BY <1>0, <1>30 DEF Steer, LoopGoesOn, loopVars
<1>31. CASE UNCHANGED vars
  BY <1>0, <1>31 DEF vars, LoopGoesOn, loopVars, sharedVars, observations
<1> QED BY <1>1, <1>2, <1>3, <1>4, <1>5, <1>6, <1>7, <1>8, <1>9, <1>10, <1>11, <1>12, <1>13,
         <1>14, <1>15, <1>16, <1>17, <1>18, <1>19, <1>20, <1>21, <1>22, <1>23, <1>24, <1>25,
         <1>26, <1>27, <1>28, <1>29, <1>30, <1>31 DEF Next, TurnStep, Iterate, Request,
         Process, Finalize, Over

---------------------------------------------------------------------------
(* Steers.                                                                  *)

LEMMA OneCase ==
  ASSUME NEW A, NEW x
  PROVE  /\ x \in A => One(x \in A) = 1
         /\ x \notin A => One(x \in A) = 0
<1>1. CASE x \in A BY <1>1 DEF One
<1>2. CASE x \notin A BY <1>2 DEF One
<1> QED BY <1>1, <1>2

\* Draining, injecting, delivering, requeueing and handing back keep every steer in
\* exactly one place.
LEMMA SteerInvStep ==
  ASSUME IInv, [Next]_vars
  PROVE  SteerInv'
<1>0. /\ s \in States /\ SteerInv /\ delivered \in [Steers -> 0..1]
      /\ pendingSteer \subseteq Steers /\ steer \subseteq Steers /\ handedBack \subseteq Steers
  BY DEF IInv, TypeOK
<1> USE DEF SteerInv, SteersDeliveredOnce
<1>1. CASE StartTurn
  BY <1>0, <1>1 DEF StartTurn, FreshState, sharedVars
<1>2. CASE SetupTimesOut
  BY <1>0, <1>2 DEF SetupTimesOut, sharedVars, observations
<1>3. CASE LeaveLoop
  BY <1>0, <1>3 DEF LeaveLoop, GoTo, loopVars, sharedVars, observations
<1>4. CASE BeginIteration
  BY <1>0, <1>4 DEF BeginIteration, BreakWith, LoopGoesOn
<1>5. CASE DrainSteer
<2>1. steer = {} /\ steer' = pendingSteer /\ pendingSteer' = {} /\ UNCHANGED <<delivered, handedBack, accepted>>
  BY <1>0, <1>5 DEF DrainSteer, observations
<2>2. s'.pc = "inject"
  BY <1>0, <1>5 DEF DrainSteer, GoTo, States
<2>3. ASSUME NEW x \in Steers \cap accepted
      PROVE  One(x \in pendingSteer') + One(x \in steer') + delivered[x] + One(x \in handedBack) = 1
<3>1. /\ One(x \in pendingSteer) + One(x \in steer) + delivered[x] + One(x \in handedBack) = 1
      /\ delivered[x] \in Nat
  BY <1>0
<3> QED BY <2>1, <3>1, OneCase
<2> QED BY <1>0, <2>1, <2>2, <2>3
<1>6. CASE InjectSteer
<2>1. steer' = {} /\ UNCHANGED <<handedBack, accepted>>
  BY <1>6 DEF InjectSteer
<2>2. CASE delivered' = DeliveredWith(steer) /\ UNCHANGED pendingSteer
<3>1. ASSUME NEW x \in Steers \cap accepted
      PROVE  One(x \in pendingSteer) + One(x \in steer') + delivered'[x] + One(x \in handedBack) = 1
<4>1. /\ One(x \in pendingSteer) + One(x \in steer) + delivered[x] + One(x \in handedBack) = 1
      /\ delivered[x] \in Nat
  BY <1>0
<4>2. delivered'[x] = delivered[x] + (IF x \in steer THEN 1 ELSE 0)
  BY <2>2 DEF DeliveredWith
<4> QED BY <2>1, <4>1, <4>2, OneCase
<3>2. ASSUME NEW x \in Steers \ accepted PROVE delivered'[x] = 0
  BY <1>0, <2>2 DEF DeliveredWith
<3> QED BY <1>0, <2>1, <2>2, <3>1, <3>2
<2>3. CASE pendingSteer' = pendingSteer \cup steer /\ UNCHANGED delivered
<3>1. ASSUME NEW x \in Steers \cap accepted
      PROVE  One(x \in pendingSteer') + One(x \in steer') + delivered[x] + One(x \in handedBack) = 1
<4>1. /\ One(x \in pendingSteer) + One(x \in steer) + delivered[x] + One(x \in handedBack) = 1
      /\ delivered[x] \in Nat
  BY <1>0
<4> QED BY <2>1, <2>3, <4>1, OneCase
<3> QED BY <1>0, <2>1, <2>3, <3>1
<2> QED BY <1>6, <2>2, <2>3 DEF InjectSteer
<1>7. CASE PreflightGate
  BY <1>0, <1>7, Returned DEF PreflightGate, sharedVars, observations
<1>8. CASE RetriesExhausted
  BY <1>0, <1>8 DEF RetriesExhausted, GoTo, loopVars, sharedVars, observations
<1>9. CASE RateLimited
  BY <1>0, <1>9, Returned, FellBack DEF RateLimited, sharedVars, observations
<1>10. CASE OpenRequest
  BY <1>0, <1>10 DEF OpenRequest, GoTo, loopVars, observations
<1>11. CASE Answered
  BY <1>0, <1>11 DEF Answered, RebuildOrStop, RedirectCrossed, ClearedPreserving, loopVars,
         observations
<1>12. CASE RequestInterrupted
  BY <1>0, <1>12 DEF RequestInterrupted, RebuildOrStop, ClearedPreserving, observations
<1>13. CASE RequestFails
  BY <1>0, <1>13 DEF RequestFails, GoTo, loopVars
<1>14. CASE HandleApiError
  BY <1>0, <1>14, Returned, FellBack DEF HandleApiError, RetryOrGiveUp, sharedVars, observations
<1>15. CASE CheckApiResponse
  BY <1>0, <1>15, Returned, FellBack DEF CheckApiResponse, RetryOrGiveUp, sharedVars, observations
<1>16. CASE ApplyRetryRestarts
  BY <1>0, <1>16 DEF ApplyRetryRestarts, RefundAndContinue, BreakWith, GoTo, sharedVars,
         observations
<1>17. CASE RejectResponse
  BY <1>0, <1>17, Returned DEF RejectResponse, GoTo, loopVars, sharedVars, observations
<1>18. CASE FinishText
  BY <1>0, <1>18 DEF FinishText, sharedVars, observations
<1>19. CASE StageToolCalls
  BY <1>0, <1>19 DEF StageToolCalls, sharedVars, observations
<1>20. CASE ExecuteToolCalls
<2>1. steer' = steer /\ s.pc = "execute" /\ UNCHANGED <<handedBack, accepted>>
  BY <1>20 DEF ExecuteToolCalls
<2>2. CASE delivered' = delivered /\ pendingSteer' = pendingSteer
  BY <1>0, <2>1, <2>2
<2>3. CASE delivered' = DeliveredWith(pendingSteer) /\ pendingSteer' = {}
<3>1. ASSUME NEW x \in Steers \cap accepted
      PROVE  One(x \in pendingSteer') + One(x \in steer) + delivered'[x] + One(x \in handedBack) = 1
<4>1. /\ One(x \in pendingSteer) + One(x \in steer) + delivered[x] + One(x \in handedBack) = 1
      /\ delivered[x] \in Nat
  BY <1>0
<4>2. delivered'[x] = delivered[x] + (IF x \in pendingSteer THEN 1 ELSE 0)
  BY <2>3 DEF DeliveredWith
<4> QED BY <2>3, <4>1, <4>2, OneCase
<3>2. ASSUME NEW x \in Steers \ accepted PROVE delivered'[x] = 0
  BY <1>0, <2>3 DEF DeliveredWith
<3> QED BY <1>0, <2>1, <2>3, <3>1, <3>2
<2> QED BY <1>20, <2>2, <2>3 DEF ExecuteToolCalls
<1>21. CASE ResultsUnsaved
  BY <1>0, <1>21 DEF ResultsUnsaved, loopVars, sharedVars, observations
<1>22. CASE GuardrailHalts
  BY <1>0, <1>22 DEF GuardrailHalts, sharedVars, observations
<1>23. CASE RoundEnds
  BY <1>0, <1>23 DEF RoundEnds, GoTo, sharedVars, observations
<1>24. CASE OuterLoopError
  BY <1>0, <1>24 DEF OuterLoopError, sharedVars, observations
<1>25. CASE PersistTurn
  BY <1>0, <1>25 DEF PersistTurn, sharedVars, observations
<1>26. CASE BuildResult
<2>1. /\ handedBack' = handedBack \cup pendingSteer /\ pendingSteer' = {}
      /\ UNCHANGED <<steer, delivered, accepted>> /\ s.pc = "result"
  BY <1>26 DEF BuildResult, loopVars
<2>2. ASSUME NEW x \in Steers \cap accepted
      PROVE  One(x \in pendingSteer') + One(x \in steer) + delivered[x] + One(x \in handedBack') = 1
<3>1. /\ One(x \in pendingSteer) + One(x \in steer) + delivered[x] + One(x \in handedBack) = 1
      /\ delivered[x] \in Nat
  BY <1>0
<3> QED BY <2>1, <3>1, OneCase
<2> QED BY <1>0, <2>1, <2>2
<1>27. CASE ClearInterrupt
  BY <1>0, <1>27, Returned DEF ClearInterrupt, loopVars, observations
<1>28. CASE Stop
  BY <1>0, <1>28 DEF Stop, loopVars
<1>29. CASE \E r \in Redirects : Redirect(r)
<2>1. PICK r \in Redirects : Redirect(r)
  BY <1>29
<2>2. accepted' = accepted \cup {r} /\ UNCHANGED <<s, steer, pendingSteer, delivered, handedBack>>
  BY <2>1 DEF Redirect, loopVars
<2>3. Steers \cap accepted' = Steers \cap accepted /\ Steers \ accepted' = Steers \ accepted
  BY <2>2, TurnAssumption
<2> QED BY <1>0, <2>2, <2>3
<1>30. CASE \E x \in Steers : Steer(x)
<2>1. PICK y \in Steers : Steer(y)
  BY <1>30
<2>2. /\ y \notin accepted /\ accepted' = accepted \cup {y} /\ pendingSteer' = pendingSteer \cup {y}
      /\ UNCHANGED <<s, steer, delivered, handedBack>>
  BY <2>1 DEF Steer, loopVars
<2>3. ASSUME NEW x \in Steers \cap accepted'
      PROVE  One(x \in pendingSteer') + One(x \in steer) + delivered[x] + One(x \in handedBack) = 1
<3>1. CASE x \in accepted
<4>1. x \in pendingSteer <=> x \in pendingSteer'
  BY <2>2, <3>1
<4> QED BY <1>0, <3>1, <4>1, OneCase
<3>2. CASE x = y
  BY <1>0, <2>2, <3>2, OneCase
<3> QED BY <2>2, <3>1, <3>2
<2> QED BY <1>0, <2>2, <2>3
<1>31. CASE UNCHANGED vars
  BY <1>0, <1>31 DEF vars, loopVars, sharedVars, observations
<1> QED BY <1>1, <1>2, <1>3, <1>4, <1>5, <1>6, <1>7, <1>8, <1>9, <1>10, <1>11, <1>12, <1>13,
         <1>14, <1>15, <1>16, <1>17, <1>18, <1>19, <1>20, <1>21, <1>22, <1>23, <1>24, <1>25,
         <1>26, <1>27, <1>28, <1>29, <1>30, <1>31 DEF Next, TurnStep, Iterate, Request,
         Process, Finalize, Over

---------------------------------------------------------------------------
(* The transcript.                                                          *)

\* One transcript extends another: no row is lost or changed, and no row that was
\* saved becomes unsaved.
Extends(old, new) ==
  /\ old \in Seq(Rows) /\ new \in Seq(Rows) /\ Len(old) <= Len(new)
  /\ \A i \in 1..Len(old) : new[i].role = old[i].role /\ (old[i].saved => new[i].saved)

\* The rows added are neither unsaved tool calls nor unsaved results.
Quiet(old, new) ==
  \A i \in Len(old) + 1 .. Len(new) : new[i].role \in {"calls", "tool"} => new[i].saved

LEMMA RowIn ==
  ASSUME NEW role \in {"user", "assistant", "calls", "tool"}, NEW saved \in BOOLEAN
  PROVE  Row(role, saved) \in Rows /\ Row(role, saved).role = role /\ Row(role, saved).saved = saved
  BY DEF Row, Rows

LEMMA ExtendsItself ==
  ASSUME NEW rows \in Seq(Rows)
  PROVE  Extends(rows, rows) /\ Quiet(rows, rows)
  BY DEF Extends, Quiet

\* A save changes nothing else; one that succeeds saves every row.
LEMMA SavedExtends ==
  ASSUME NEW rows \in Seq(Rows), NEW ok \in BOOLEAN
  PROVE  /\ Extends(rows, Saved(rows, ok)) /\ Len(Saved(rows, ok)) = Len(rows)
         /\ Quiet(rows, Saved(rows, ok))
         /\ ok => \A i \in 1..Len(rows) : Saved(rows, ok)[i].saved
<1>1. CASE ~ok
  BY <1>1, ExtendsItself DEF Saved
<1>2. CASE ok
<2> DEFINE all == [i \in DOMAIN rows |-> Row(rows[i].role, TRUE)]
<2>1. Len(rows) \in Nat /\ DOMAIN rows = 1..Len(rows) /\ \A i \in 1..Len(rows) : rows[i] \in Rows
  BY LenProperties
<2>2. \A i \in 1..Len(rows) : all[i] \in Rows /\ all[i].role = rows[i].role /\ all[i].saved
  BY <2>1 DEF Row, Rows
<2>3. all \in Seq(Rows) /\ Len(all) = Len(rows)
<3>1. all \in [1..Len(rows) -> Rows]
  BY <2>1, <2>2
<3> HIDE DEF all
<3>2. all \in Seq(Rows)
  BY <2>1, <3>1, SeqDef
<3> QED BY <2>1, <3>1, <3>2, LenProperties
<2>4. Saved(rows, ok) = all
  BY <1>2 DEF Saved
<2> HIDE DEF all
<2> QED BY <2>1, <2>2, <2>3, <2>4 DEF Extends, Quiet
<1> QED BY <1>1, <1>2

LEMMA AppendExtends ==
  ASSUME NEW rows \in Seq(Rows), NEW row \in Rows
  PROVE  /\ Extends(rows, Append(rows, row)) /\ Len(Append(rows, row)) = Len(rows) + 1
         /\ Append(rows, row)[Len(rows) + 1] = row
  BY AppendProperties DEF Extends

LEMMA ExtendsTwice ==
  ASSUME NEW a, NEW b, NEW c, Extends(a, b), Extends(b, c)
  PROVE  Extends(a, c) /\ (Quiet(a, b) /\ Quiet(b, c) => Quiet(a, c))
<1>1. Len(a) \in Nat /\ Len(b) \in Nat /\ Len(c) \in Nat
  BY LenProperties DEF Extends
<1>2. Extends(a, c)
<2>1. ASSUME NEW i \in 1..Len(a)
      PROVE  c[i].role = a[i].role /\ (a[i].saved => c[i].saved)
<3>1. i \in 1..Len(b)
  BY <1>1 DEF Extends
<3> QED BY <3>1 DEF Extends
<2> QED BY <1>1, <2>1 DEF Extends
<1>3. ASSUME Quiet(a, b), Quiet(b, c), NEW i \in Len(a) + 1 .. Len(c), c[i].role \in {"calls", "tool"}
      PROVE  c[i].saved
<2>1. CASE i <= Len(b)
<3>1. i \in 1..Len(b) /\ i \in Len(a) + 1 .. Len(b)
  BY <1>1, <1>3, <2>1
<3> QED BY <1>3, <3>1 DEF Extends, Quiet
<2>2. CASE i > Len(b)
<3>1. i \in Len(b) + 1 .. Len(c)
  BY <1>1, <1>3, <2>2
<3> QED BY <1>3, <3>1 DEF Quiet
<2> QED BY <1>1, <1>3, <2>1, <2>2
<1> QED BY <1>2, <1>3 DEF Quiet

LEMMA QuietAppend ==
  ASSUME NEW rows \in Seq(Rows), NEW row \in Rows, row.saved \/ row.role \in {"user", "assistant"}
  PROVE  Quiet(rows, Append(rows, row))
<1>1. Len(rows) \in Nat
  BY LenProperties
<1> QED BY <1>1, AppendExtends DEF Quiet

LEMMA TwoAppends ==
  ASSUME NEW rows \in Seq(Rows), NEW a \in Rows, NEW b \in Rows
  PROVE  rows \o <<a, b>> = Append(Append(rows, a), b)
  OBVIOUS

\* _apply_active_turn_redirect adds rows no tool round is made of.
LEMMA RedirectedExtends ==
  ASSUME messages \in Seq(Rows)
  PROVE  Extends(messages, Redirected) /\ Quiet(messages, Redirected)
<1>1. Row("user", TRUE) \in Rows /\ Row("assistant", TRUE) \in Rows
      /\ Row("user", TRUE).saved /\ Row("assistant", TRUE).saved
  BY RowIn
<1>2. CASE Redirected = Append(messages, Row("user", TRUE))
  BY <1>1, <1>2, AppendExtends, QuietAppend
<1>3. CASE Redirected = messages \o <<Row("assistant", TRUE), Row("user", TRUE)>>
<2> DEFINE one == Append(messages, Row("assistant", TRUE))
<2>1. Redirected = Append(one, Row("user", TRUE))
  BY <1>1, <1>3, TwoAppends
<2>2. one \in Seq(Rows) /\ Extends(messages, one) /\ Quiet(messages, one)
  BY <1>1, AppendExtends, QuietAppend DEF Extends
<2>3. Extends(one, Redirected) /\ Quiet(one, Redirected)
  BY <1>1, <2>1, <2>2, AppendExtends, QuietAppend
<2> QED BY <2>2, <2>3, ExtendsTwice
<1> QED BY <1>2, <1>3 DEF Redirected

\* _close_transcript_tail adds at most an assistant row.
LEMMA ClosedExtends ==
  ASSUME messages \in Seq(Rows), NEW final
  PROVE  Extends(messages, Closed(final)) /\ Quiet(messages, Closed(final))
<1>1. Row("assistant", TRUE) \in Rows /\ Row("assistant", TRUE).saved
  BY RowIn
<1> QED BY <1>1, AppendExtends, QuietAppend, ExtendsItself DEF Closed

\* Such rows leave the rounds of the turn saved.
LEMMA RowsKept ==
  ASSUME messages \in Seq(Rows), base \in 0..Len(messages), RoundsSaved, UNCHANGED base,
         Extends(messages, messages'), Quiet(messages, messages')
  PROVE  RoundsSaved'
<1>1. Len(messages) \in Nat /\ Len(messages') \in Nat
  BY LenProperties DEF Extends
<1>2. ASSUME NEW i \in base + 1 .. Len(messages'), messages'[i].role \in {"calls", "tool"}
      PROVE  messages'[i].saved
<2>1. CASE i <= Len(messages)
<3>1. i \in base + 1 .. Len(messages) /\ i \in 1..Len(messages)
  BY <1>1, <1>2, <2>1
<3> QED BY <1>2, <3>1 DEF Extends, RoundsSaved
<2>2. CASE i > Len(messages)
<3>1. i \in Len(messages) + 1 .. Len(messages')
  BY <1>1, <1>2, <2>2
<3> QED BY <1>2, <3>1 DEF Quiet
<2> QED BY <1>1, <1>2, <2>1, <2>2
<1> QED BY <1>2 DEF RoundsSaved

\* What a step has to show of the transcript.
RowsGoal == messages' \in Seq(Rows) /\ base' \in 0..Len(messages') /\ RowsInv'

\* Four shapes of a step: it adds quiet rows, it adds none, it ends the turn, it
\* saves everything.
LEMMA QuietStep ==
  ASSUME IInv, UNCHANGED base, Extends(messages, messages'), Quiet(messages, messages'), Goes' => Goes
  PROVE  RowsGoal
<1>1. messages \in Seq(Rows) /\ base \in 0..Len(messages) /\ RowsInv
  BY DEF IInv, TypeOK
<1>2. messages' \in Seq(Rows) /\ base' \in 0..Len(messages')
  BY <1>1, LenProperties DEF Extends
<1> QED BY <1>1, <1>2, RowsKept DEF RowsInv, RowsGoal

LEMMA SameRowsStep ==
  ASSUME IInv, UNCHANGED <<messages, base>>, Goes' => Goes
  PROVE  RowsGoal
BY QuietStep, ExtendsItself DEF IInv, TypeOK

LEMMA EndingStep ==
  ASSUME IInv, UNCHANGED base, Extends(messages, messages'), ~Goes'
  PROVE  RowsGoal
<1>1. messages \in Seq(Rows) /\ base \in 0..Len(messages)
  BY DEF IInv, TypeOK
<1> QED BY <1>1, LenProperties DEF Extends, RowsInv, RowsGoal

LEMMA AllSavedStep ==
  ASSUME IInv, UNCHANGED base, Extends(messages, messages'), \A i \in 1..Len(messages') : messages'[i].saved
  PROVE  RowsGoal
<1>1. messages \in Seq(Rows) /\ base \in 0..Len(messages)
  BY DEF IInv, TypeOK
<1>2. messages' \in Seq(Rows) /\ Len(messages) <= Len(messages')
  BY DEF Extends
<1>3. base' \in 0..Len(messages') /\ \A i \in base' + 1 .. Len(messages') : i \in 1..Len(messages')
  BY <1>1, <1>2, LenProperties
<1> QED BY <1>2, <1>3 DEF RowsInv, RowsGoal, RoundsSaved

LEMMA SavedStep ==
  ASSUME IInv, UNCHANGED base, NEW rows, Extends(messages, rows), messages' = Saved(rows, TRUE)
  PROVE  RowsGoal
<1>1. rows \in Seq(Rows)
  BY DEF Extends
<1>2. Extends(messages, messages') /\ \A i \in 1..Len(messages') : messages'[i].saved
  BY <1>1, SavedExtends, ExtendsTwice
<1> QED BY <1>2, AllSavedStep

\* A save after quiet rows.
LEMMA QuietlySavedStep ==
  ASSUME IInv, UNCHANGED base, NEW rows, Extends(messages, rows), Quiet(messages, rows), NEW ok \in BOOLEAN,
         messages' = Saved(rows, ok), Goes' => Goes
  PROVE  RowsGoal
<1>1. rows \in Seq(Rows)
  BY DEF Extends
<1> QED BY <1>1, QuietStep, SavedExtends, ExtendsTwice

\* Every step keeps the rounds saved before the next request: a failed save of a tool
\* call or of a result leads out of the loop.
LEMMA RowsStep ==
  ASSUME IInv, [Next]_vars
  PROVE  messages' \in Seq(Rows) /\ base' \in 0..Len(messages') /\ RowsInv'
<1>0. /\ s \in States /\ messages \in Seq(Rows)
      /\ \A saved \in BOOLEAN : /\ Row("user", saved) \in Rows /\ Row("assistant", saved) \in Rows
                               /\ Row("calls", saved) \in Rows /\ Row("tool", saved) \in Rows
      /\ Row("user", TRUE).saved /\ Row("assistant", TRUE).saved /\ Row("tool", TRUE).saved
  BY RowIn DEF IInv, TypeOK
<1>a. Extends(messages, Append(messages, Row("assistant", TRUE)))
      /\ Quiet(messages, Append(messages, Row("assistant", TRUE)))
  BY <1>0, AppendExtends, QuietAppend
<1> SUFFICES RowsGoal
  BY DEF RowsGoal
<1>1. CASE StartTurn
<2>1. PICK ok \in BOOLEAN : messages' = Saved(Append(messages, Row("user", TRUE)), ok)
  BY <1>1 DEF StartTurn
<2> DEFINE rows == Append(messages, Row("user", TRUE))
<2>2. /\ rows \in Seq(Rows) /\ Len(rows) = Len(messages) + 1 /\ rows[Len(messages) + 1].role = "user"
      /\ Len(messages) \in Nat
  BY <1>0, RowIn, AppendExtends, LenProperties DEF Extends
<2> HIDE DEF rows
<2>3. Extends(rows, messages') /\ Len(messages') = Len(rows)
  BY <2>1, <2>2, SavedExtends DEF rows
<2>4. messages'[Len(messages) + 1].role = "user" /\ messages' \in Seq(Rows)
  BY <2>2, <2>3 DEF Extends
<2>5. base' = Len(messages)
  BY <1>1 DEF StartTurn
<2>6. \A i \in base' + 1 .. Len(messages') : i = Len(messages) + 1
  BY <2>2, <2>3, <2>5
<2> QED BY <2>2, <2>3, <2>4, <2>5, <2>6 DEF RowsGoal, RowsInv, RoundsSaved
<1>2. CASE SetupTimesOut
<2>1. UNCHANGED <<messages, base>> /\ (Goes' => Goes)
  BY <1>0, <1>2 DEF SetupTimesOut, Goes, Charged, States
<2> QED BY <2>1, SameRowsStep
<1>3. CASE LeaveLoop
<2>1. UNCHANGED <<messages, base>> /\ (Goes' => Goes)
  BY <1>0, <1>3 DEF LeaveLoop, GoTo, loopVars, Goes, Charged, States
<2> QED BY <2>1, SameRowsStep
<1>4. CASE BeginIteration
<2>1. UNCHANGED base /\ Goes
  BY <1>0, <1>4 DEF BeginIteration, Goes, Charged
<2>2. CASE UNCHANGED messages
  BY <2>1, <2>2, SameRowsStep
<2>3. CASE \E ok \in BOOLEAN : messages' = Saved(Redirected, ok)
  BY <1>0, <2>1, <2>3, RedirectedExtends, QuietlySavedStep
<2> QED BY <1>4, <2>2, <2>3 DEF BeginIteration
<1>5. CASE DrainSteer
<2>1. UNCHANGED <<messages, base>> /\ (Goes' => Goes)
  BY <1>0, <1>5 DEF DrainSteer, GoTo, Goes, Charged, States
<2> QED BY <2>1, SameRowsStep
<1>6. CASE InjectSteer
<2>1. UNCHANGED <<messages, base>> /\ (Goes' => Goes)
  BY <1>0, <1>6 DEF InjectSteer, GoTo, Goes, Charged, States
<2> QED BY <2>1, SameRowsStep
<1>7. CASE PreflightGate
<2>1. UNCHANGED <<messages, base>> /\ (Goes' => Goes)
  BY <1>0, <1>7, Returned DEF PreflightGate, Goes, Charged, States
<2> QED BY <2>1, SameRowsStep
<1>8. CASE RetriesExhausted
<2>1. UNCHANGED <<messages, base>> /\ (Goes' => Goes)
  BY <1>0, <1>8 DEF RetriesExhausted, GoTo, loopVars, Goes, Charged, States
<2> QED BY <2>1, SameRowsStep
<1>9. CASE RateLimited
<2>1. UNCHANGED base /\ Goes
  BY <1>0, <1>9 DEF RateLimited, Goes, Charged
<2>2. CASE UNCHANGED messages
  BY <2>1, <2>2, SameRowsStep
<2>3. CASE \E ok \in BOOLEAN : messages' = Saved(messages, ok)
  BY <1>0, <2>1, <2>3, ExtendsItself, QuietlySavedStep
<2> QED BY <1>9, <2>2, <2>3 DEF RateLimited
<1>10. CASE OpenRequest
<2>1. UNCHANGED <<messages, base>> /\ (Goes' => Goes)
  BY <1>0, <1>10 DEF OpenRequest, GoTo, loopVars, Goes, Charged, States
<2> QED BY <2>1, SameRowsStep
<1>11. CASE Answered
<2>1. UNCHANGED <<messages, base>> /\ (Goes' => Goes)
  BY <1>0, <1>11 DEF Answered, RebuildOrStop, RedirectCrossed, ClearedPreserving, loopVars,
         Goes, Charged, States
<2> QED BY <2>1, SameRowsStep
<1>12. CASE RequestInterrupted
<2>1. UNCHANGED base /\ Goes
  BY <1>0, <1>12 DEF RequestInterrupted, Goes, Charged
<2>2. CASE UNCHANGED messages
  BY <2>1, <2>2, SameRowsStep
<2>3. ASSUME NEW partial \in BOOLEAN, NEW ok \in BOOLEAN,
             messages' = Saved(IF partial THEN Append(messages, Row("assistant",
         TRUE)) ELSE messages, ok)
      PROVE  RowsGoal
<3>1. CASE partial
  BY <1>a, <2>1, <2>3, <3>1, QuietlySavedStep
<3>2. CASE ~partial
  BY <1>0, <2>1, <2>3, <3>2, ExtendsItself, QuietlySavedStep
<3> QED BY <3>1, <3>2
<2> QED BY <1>12, <2>2, <2>3 DEF RequestInterrupted
<1>13. CASE RequestFails
<2>1. UNCHANGED <<messages, base>> /\ (Goes' => Goes)
  BY <1>0, <1>13 DEF RequestFails, GoTo, loopVars, Goes, Charged, States
<2> QED BY <2>1, SameRowsStep
<1>14. CASE HandleApiError
<2>1. UNCHANGED <<messages, base>> /\ (Goes' => Goes)
  BY <1>0, <1>14, Returned, FellBack DEF HandleApiError, RetryOrGiveUp, Goes, Charged, States
<2> QED BY <2>1, SameRowsStep
<1>15. CASE CheckApiResponse
<2>1. UNCHANGED <<messages, base>> /\ (Goes' => Goes)
  BY <1>0, <1>15, Returned, FellBack DEF CheckApiResponse, RetryOrGiveUp, Goes, Charged, States
<2> QED BY <2>1, SameRowsStep
<1>16. CASE ApplyRetryRestarts
<2>1. UNCHANGED base /\ Goes
  BY <1>0, <1>16 DEF ApplyRetryRestarts, Goes, Charged
<2>2. CASE UNCHANGED messages
  BY <2>1, <2>2, SameRowsStep
<2>3. CASE \E ok \in BOOLEAN : messages' = Saved(messages, ok)
  BY <1>0, <2>1, <2>3, ExtendsItself, QuietlySavedStep
<2> QED BY <1>16, <2>2, <2>3 DEF ApplyRetryRestarts, RefundAndContinue
<1>17. CASE RejectResponse
<2>1. UNCHANGED <<messages, base>> /\ (Goes' => Goes)
  BY <1>0, <1>17, Returned DEF RejectResponse, GoTo, loopVars, Goes, Charged, States
<2> QED BY <2>1, SameRowsStep
<1>18. CASE FinishText
<2>1. UNCHANGED base /\ messages' = Append(messages, Row("assistant", TRUE)) /\ Goes
  BY <1>0, <1>18 DEF FinishText, Goes, Charged
<2> QED BY <1>a, <2>1, QuietStep
<1>19. CASE StageToolCalls
<2>1. PICK ok \in BOOLEAN :
        /\ messages' = Saved(Append(messages, Row("calls", FALSE)), ok)
        /\ ~ok => s' = [s EXCEPT !.pc = "finalize", !.exit = "session_persistence_failed",
                                  !.final = "empty", !.failed = TRUE]
  BY <1>19 DEF StageToolCalls
<2>2. UNCHANGED base
  BY <1>19 DEF StageToolCalls
<2>3. Extends(messages, Append(messages, Row("calls", FALSE)))
  BY <1>0, AppendExtends
<2>4. CASE ok
  BY <2>1, <2>2, <2>3, <2>4, SavedStep
<2>5. CASE ~ok
<3>1. s'.pc = "finalize"
  BY <1>0, <2>1, <2>5 DEF States
<3>2. Extends(messages, messages')
  BY <2>1, <2>3, <2>5 DEF Saved
<3> QED BY <2>2, <3>1, <3>2, EndingStep DEF Goes, Charged
<2> QED BY <2>4, <2>5
<1>20. CASE ExecuteToolCalls
<2>1. PICK ok \in BOOLEAN :
        /\ messages' = Saved(Append(messages, Row("tool", FALSE)), ok)
        /\ s' = [s EXCEPT !.pc = "round", !.unsaved = ~ok]
  BY <1>20 DEF ExecuteToolCalls
<2>2. UNCHANGED base
  BY <1>20 DEF ExecuteToolCalls
<2>3. Extends(messages, Append(messages, Row("tool", FALSE)))
  BY <1>0, AppendExtends
<2>4. CASE ok
  BY <2>1, <2>2, <2>3, <2>4, SavedStep
<2>5. CASE ~ok
<3>1. s'.pc = "round" /\ s'.unsaved
  BY <1>0, <2>1, <2>5 DEF States
<3>2. Extends(messages, messages')
  BY <2>1, <2>3, <2>5 DEF Saved
<3> QED BY <2>2, <3>1, <3>2, EndingStep DEF Goes
<2> QED BY <2>4, <2>5
<1>21. CASE ResultsUnsaved
<2>1. UNCHANGED <<messages, base>> /\ (Goes' => Goes)
  BY <1>0, <1>21 DEF ResultsUnsaved, loopVars, Goes, Charged, States
<2> QED BY <2>1, SameRowsStep
<1>22. CASE GuardrailHalts
<2>1. UNCHANGED base /\ messages' = Append(messages, Row("assistant", TRUE)) /\ Goes
  BY <1>0, <1>22 DEF GuardrailHalts, Goes, Charged
<2> QED BY <1>a, <2>1, QuietStep
<1>23. CASE RoundEnds
<2>1. UNCHANGED <<messages, base>> /\ (Goes' => Goes)
  BY <1>0, <1>23 DEF RoundEnds, GoTo, Goes, Charged, States
<2> QED BY <2>1, SameRowsStep
<1>24. CASE OuterLoopError
<2>1. UNCHANGED base /\ Goes
  BY <1>0, <1>24 DEF OuterLoopError, Goes, Charged
<2>2. CASE UNCHANGED messages
  BY <2>1, <2>2, SameRowsStep
<2>3. CASE messages' = Append(messages, Row("tool", TRUE))
  BY <1>0, <2>1, <2>3, AppendExtends, QuietAppend, QuietStep
<2> QED BY <1>24, <2>2, <2>3 DEF OuterLoopError
<1>25. CASE PersistTurn
<2>1. PICK streamed, ok \in BOOLEAN :
        messages' = Saved(Closed(IF NeedsFallback \/ (streamed /\ ~s.interrupted /\ ~s.failed)
                                 THEN "text" ELSE s.final), ok)
  BY <1>25 DEF PersistTurn
<2> DEFINE final == IF NeedsFallback \/ (streamed /\ ~s.interrupted /\ ~s.failed) THEN "text" ELSE s.final
<2>2. UNCHANGED base /\ ~Goes'
  BY <1>0, <1>25 DEF PersistTurn, Goes, Charged, States
<2>3. Extends(messages, Closed(final)) /\ Quiet(messages, Closed(final))
  BY <1>0, ClosedExtends
<2> QED BY <2>1, <2>2, <2>3, QuietlySavedStep
<1>26. CASE BuildResult
<2>1. UNCHANGED <<messages, base>> /\ (Goes' => Goes)
  BY <1>0, <1>26 DEF BuildResult, loopVars, Goes, Charged, States
<2> QED BY <2>1, SameRowsStep
<1>27. CASE ClearInterrupt
<2>1. UNCHANGED <<messages, base>> /\ (Goes' => Goes)
  BY <1>0, <1>27, Returned DEF ClearInterrupt, loopVars, Goes, Charged, States
<2> QED BY <2>1, SameRowsStep
<1>28. CASE Stop
<2>1. UNCHANGED <<messages, base>> /\ (Goes' => Goes)
  BY <1>0, <1>28 DEF Stop, loopVars, Goes, Charged, States
<2> QED BY <2>1, SameRowsStep
<1>29. CASE \E r \in Redirects : Redirect(r)
<2>1. UNCHANGED <<messages, base>> /\ (Goes' => Goes)
  BY <1>29 DEF Redirect, loopVars, Goes
<2> QED BY <2>1, SameRowsStep
<1>30. CASE \E x \in Steers : Steer(x)
<2>1. UNCHANGED <<messages, base>> /\ (Goes' => Goes)
  BY <1>30 DEF Steer, loopVars, Goes
<2> QED BY <2>1, SameRowsStep
<1>31. CASE UNCHANGED vars
<2>1. UNCHANGED <<messages, base>> /\ (Goes' => Goes)
  BY <1>31 DEF vars, loopVars, Goes
<2> QED BY <2>1, SameRowsStep
<1> QED BY <1>1, <1>2, <1>3, <1>4, <1>5, <1>6, <1>7, <1>8, <1>9, <1>10, <1>11, <1>12, <1>13,
         <1>14, <1>15, <1>16, <1>17, <1>18, <1>19, <1>20, <1>21, <1>22, <1>23, <1>24, <1>25,
         <1>26, <1>27, <1>28, <1>29, <1>30, <1>31 DEF Next, TurnStep, Iterate, Request,
         Process, Finalize, Over

---------------------------------------------------------------------------
(* The remaining types.                                                     *)

LEMMA CountersStep ==
  ASSUME IInv, [Next]_vars
  PROVE  /\ budget' \in Nat /\ (s'.pc = "idle" => budget' = budget)
         /\ cheap' \in Nat /\ (s'.pc = "idle" => cheap' = cheap)
<1>0. s \in States /\ budget \in Nat /\ cheap \in Nat /\ MaxIterations \in Nat
  BY Numbers DEF IInv, TypeOK
<1> USE DEF States
<1>1. CASE StartTurn
  BY <1>0, <1>1 DEF StartTurn, FreshState
<1>2. CASE SetupTimesOut
  BY <1>0, <1>2 DEF SetupTimesOut
<1>3. CASE LeaveLoop
  BY <1>0, <1>3 DEF LeaveLoop, GoTo, loopVars
<1>4. CASE BeginIteration
<2>1. cheap' = cheap /\ budget' \in {budget, budget - 1} /\ budget > 0
  BY <1>4 DEF BeginIteration, LoopGoesOn
<2>2. s'.pc # "idle"
  BY <1>0, <1>4 DEF BeginIteration, BreakWith
<2> QED BY <1>0, <2>1, <2>2
<1>5. CASE DrainSteer
  BY <1>0, <1>5 DEF DrainSteer, GoTo
<1>6. CASE InjectSteer
  BY <1>0, <1>6 DEF InjectSteer, GoTo
<1>7. CASE PreflightGate
<2>1. cheap' = cheap
  BY <1>7 DEF PreflightGate
<2>2. CASE UNCHANGED budget
  BY <1>0, <2>1, <2>2
<2>3. ASSUME NEW back \in 0..1, budget' = budget + back,
             s' = [s EXCEPT !.pc = "loop", !.compressions = @ + 1, !.count = @ - back]
      PROVE  budget' \in Nat /\ s'.pc = "loop"
  BY <1>0, <2>3
<2> QED BY <1>0, <1>7, <2>1, <2>2, <2>3 DEF PreflightGate
<1>8. CASE RetriesExhausted
  BY <1>0, <1>8 DEF RetriesExhausted, GoTo, loopVars
<1>9. CASE RateLimited
  BY <1>0, <1>9, Returned, FellBack DEF RateLimited
<1>10. CASE OpenRequest
  BY <1>0, <1>10 DEF OpenRequest, GoTo, loopVars
<1>11. CASE Answered
  BY <1>0, <1>11 DEF Answered, RebuildOrStop, RedirectCrossed, ClearedPreserving, loopVars
<1>12. CASE RequestInterrupted
  BY <1>0, <1>12 DEF RequestInterrupted, RebuildOrStop, ClearedPreserving
<1>13. CASE RequestFails
  BY <1>0, <1>13 DEF RequestFails, GoTo, loopVars
<1>14. CASE HandleApiError
  BY <1>0, <1>14, Returned, FellBack DEF HandleApiError, RetryOrGiveUp
<1>15. CASE CheckApiResponse
  BY <1>0, <1>15, Returned, FellBack DEF CheckApiResponse, RetryOrGiveUp
<1>16. CASE ApplyRetryRestarts
<2>1. cheap' = cheap /\ budget' \in {budget, budget + 1}
  BY <1>16 DEF ApplyRetryRestarts, RefundAndContinue
<2>2. s'.pc # "idle"
  BY <1>0, <1>16 DEF ApplyRetryRestarts, RefundAndContinue, BreakWith, GoTo
<2> QED BY <1>0, <2>1, <2>2
<1>17. CASE RejectResponse
  BY <1>0, <1>17, Returned DEF RejectResponse, GoTo, loopVars
<1>18. CASE FinishText
  BY <1>0, <1>18 DEF FinishText
<1>19. CASE StageToolCalls
  BY <1>0, <1>19 DEF StageToolCalls
<1>20. CASE ExecuteToolCalls
  BY <1>0, <1>20 DEF ExecuteToolCalls
<1>21. CASE ResultsUnsaved
  BY <1>0, <1>21 DEF ResultsUnsaved, loopVars
<1>22. CASE GuardrailHalts
  BY <1>0, <1>22 DEF GuardrailHalts
<1>23. CASE RoundEnds
<2>1. s'.pc # "idle"
  BY <1>0, <1>23 DEF RoundEnds, GoTo
<2>2. budget' \in Nat /\ cheap' \in Nat
  BY <1>0, <1>23 DEF RoundEnds
<2> QED BY <2>1, <2>2
<1>24. CASE OuterLoopError
  BY <1>0, <1>24 DEF OuterLoopError
<1>25. CASE PersistTurn
  BY <1>0, <1>25 DEF PersistTurn
<1>26. CASE BuildResult
  BY <1>0, <1>26 DEF BuildResult, loopVars
<1>27. CASE ClearInterrupt
  BY <1>0, <1>27, Returned DEF ClearInterrupt, loopVars
<1>28. CASE Stop
  BY <1>0, <1>28 DEF Stop, loopVars
<1>29. CASE \E r \in Redirects : Redirect(r)
  BY <1>0, <1>29 DEF Redirect, loopVars
<1>30. CASE \E x \in Steers : Steer(x)
  BY <1>0, <1>30 DEF Steer, loopVars
<1>31. CASE UNCHANGED vars
  BY <1>0, <1>31 DEF vars, loopVars
<1> QED BY <1>1, <1>2, <1>3, <1>4, <1>5, <1>6, <1>7, <1>8, <1>9, <1>10, <1>11, <1>12, <1>13,
         <1>14, <1>15, <1>16, <1>17, <1>18, <1>19, <1>20, <1>21, <1>22, <1>23, <1>24, <1>25,
         <1>26, <1>27, <1>28, <1>29, <1>30, <1>31 DEF Next, TurnStep, Iterate, Request,
         Process, Finalize, Over

\* The budget and the refunded rounds are bounded by the count.
LEMMA CountersTyped ==
  ASSUME IInv, [Next]_vars, s' \in States, CountInv'
  PROVE  budget' \in 0..MaxIterations /\ cheap' \in 0..MaxIterations
<1>1. /\ budget \in 0..MaxIterations /\ cheap \in 0..MaxIterations /\ MaxIterations \in Nat
  BY Numbers DEF IInv, TypeOK
<1>2. s'.count \in 0..MaxIterations
  BY DEF States
<1>3. CASE s'.pc = "idle"
  BY <1>1, <1>3, CountersStep
<1>4. CASE s'.pc # "idle"
<2>1. budget' + s'.count = MaxIterations + cheap' /\ cheap' + One(s'.pc \in Charged) <= s'.count
  BY <1>4 DEF CountInv
<2>2. One(s'.pc \in Charged) \in {0, 1}
  BY DEF One
<2>3. budget' \in Nat /\ cheap' \in Nat
  BY CountersStep
<2> QED BY <1>1, <1>2, <2>1, <2>2, <2>3
<1> QED BY <1>3, <1>4

LEMMA LimitsStep ==
  ASSUME IInv, [Next]_vars
  PROVE  turn' \in 0..MaxTurns /\ fallbacks' \in 0..MaxFallbacks /\ stops' \in 0..MaxStops
<1>0. /\ turn \in 0..MaxTurns /\ fallbacks \in 0..MaxFallbacks /\ stops \in 0..MaxStops
      /\ MaxTurns \in Nat /\ MaxFallbacks \in Nat /\ MaxStops \in Nat
  BY Numbers DEF IInv, TypeOK
<1>00. FallBack => fallbacks' \in 0..MaxFallbacks
  BY <1>0 DEF FallBack
<1>1. CASE StartTurn
  BY <1>0, <1>00, <1>1 DEF StartTurn, FreshState
<1>2. CASE SetupTimesOut
  BY <1>0, <1>00, <1>2 DEF SetupTimesOut, observations
<1>3. CASE LeaveLoop
  BY <1>0, <1>00, <1>3 DEF LeaveLoop, GoTo, loopVars, observations
<1>4. CASE BeginIteration
  BY <1>0, <1>00, <1>4 DEF BeginIteration, BreakWith, LoopGoesOn
<1>5. CASE DrainSteer
  BY <1>0, <1>00, <1>5 DEF DrainSteer, GoTo, observations
<1>6. CASE InjectSteer
  BY <1>0, <1>00, <1>6 DEF InjectSteer, GoTo
<1>7. CASE PreflightGate
  BY <1>0, <1>00, <1>7 DEF PreflightGate, observations
<1>8. CASE RetriesExhausted
  BY <1>0, <1>00, <1>8 DEF RetriesExhausted, GoTo, loopVars, observations
<1>9. CASE RateLimited
  BY <1>0, <1>00, <1>9 DEF RateLimited, observations
<1>10. CASE OpenRequest
  BY <1>0, <1>00, <1>10 DEF OpenRequest, GoTo, loopVars, observations
<1>11. CASE Answered
  BY <1>0, <1>00, <1>11 DEF Answered, RebuildOrStop, RedirectCrossed, ClearedPreserving,
         loopVars, observations
<1>12. CASE RequestInterrupted
  BY <1>0, <1>00, <1>12 DEF RequestInterrupted, RebuildOrStop, ClearedPreserving, observations
<1>13. CASE RequestFails
  BY <1>0, <1>00, <1>13 DEF RequestFails, GoTo, loopVars
<1>14. CASE HandleApiError
  BY <1>0, <1>00, <1>14 DEF HandleApiError, RetryOrGiveUp, observations
<1>15. CASE CheckApiResponse
  BY <1>0, <1>00, <1>15 DEF CheckApiResponse, RetryOrGiveUp, observations
<1>16. CASE ApplyRetryRestarts
  BY <1>0, <1>00, <1>16 DEF ApplyRetryRestarts, RefundAndContinue, BreakWith, GoTo, observations
<1>17. CASE RejectResponse
  BY <1>0, <1>00, <1>17 DEF RejectResponse, GoTo, loopVars, observations
<1>18. CASE FinishText
  BY <1>0, <1>00, <1>18 DEF FinishText, observations
<1>19. CASE StageToolCalls
  BY <1>0, <1>00, <1>19 DEF StageToolCalls, observations
<1>20. CASE ExecuteToolCalls
  BY <1>0, <1>00, <1>20 DEF ExecuteToolCalls
<1>21. CASE ResultsUnsaved
  BY <1>0, <1>00, <1>21 DEF ResultsUnsaved, loopVars, observations
<1>22. CASE GuardrailHalts
  BY <1>0, <1>00, <1>22 DEF GuardrailHalts, observations
<1>23. CASE RoundEnds
  BY <1>0, <1>00, <1>23 DEF RoundEnds, GoTo, observations
<1>24. CASE OuterLoopError
  BY <1>0, <1>00, <1>24 DEF OuterLoopError, observations
<1>25. CASE PersistTurn
  BY <1>0, <1>00, <1>25 DEF PersistTurn, observations
<1>26. CASE BuildResult
  BY <1>0, <1>00, <1>26 DEF BuildResult, loopVars
<1>27. CASE ClearInterrupt
  BY <1>0, <1>00, <1>27 DEF ClearInterrupt, loopVars, observations
<1>28. CASE Stop
  BY <1>0, <1>00, <1>28 DEF Stop, loopVars
<1>29. CASE \E r \in Redirects : Redirect(r)
  BY <1>0, <1>00, <1>29 DEF Redirect, loopVars
<1>30. CASE \E x \in Steers : Steer(x)
  BY <1>0, <1>00, <1>30 DEF Steer, loopVars
<1>31. CASE UNCHANGED vars
  BY <1>0, <1>00, <1>31 DEF vars, loopVars, observations
<1> QED BY <1>1, <1>2, <1>3, <1>4, <1>5, <1>6, <1>7, <1>8, <1>9, <1>10, <1>11, <1>12, <1>13,
         <1>14, <1>15, <1>16, <1>17, <1>18, <1>19, <1>20, <1>21, <1>22, <1>23, <1>24, <1>25,
         <1>26, <1>27, <1>28, <1>29, <1>30, <1>31 DEF Next, TurnStep, Iterate, Request,
         Process, Finalize, Over

LEMMA QueuesStep ==
  ASSUME IInv, [Next]_vars
  PROVE  /\ active' \in BOOLEAN /\ flag' \in {"none", "cancel", "stop"}
         /\ pendingRedirect' \subseteq Redirects /\ pendingSteer' \subseteq Steers /\ steer' \subseteq Steers
         /\ accepted' \subseteq Redirects \cup Steers /\ handedBack' \subseteq Steers
         /\ stopped' \in BOOLEAN /\ crossed' \in BOOLEAN
<1>0. /\ active \in BOOLEAN /\ flag \in {"none", "cancel", "stop"}
      /\ pendingRedirect \subseteq Redirects /\ pendingSteer \subseteq Steers /\ steer \subseteq Steers
      /\ accepted \subseteq Redirects \cup Steers /\ handedBack \subseteq Steers
      /\ stopped \in BOOLEAN /\ crossed \in BOOLEAN
  BY DEF IInv, TypeOK
<1>1. CASE StartTurn
  BY <1>0, <1>1 DEF StartTurn, FreshState, sharedVars
<1>2. CASE SetupTimesOut
  BY <1>0, <1>2 DEF SetupTimesOut, sharedVars, observations
<1>3. CASE LeaveLoop
  BY <1>0, <1>3 DEF LeaveLoop, GoTo, loopVars, sharedVars, observations
<1>4. CASE BeginIteration
  BY <1>0, <1>4 DEF BeginIteration, BreakWith, LoopGoesOn
<1>5. CASE DrainSteer
  BY <1>0, <1>5 DEF DrainSteer, GoTo, observations
<1>6. CASE InjectSteer
  BY <1>0, <1>6 DEF InjectSteer, GoTo
<1>7. CASE PreflightGate
  BY <1>0, <1>7 DEF PreflightGate, sharedVars, observations
<1>8. CASE RetriesExhausted
  BY <1>0, <1>8 DEF RetriesExhausted, GoTo, loopVars, sharedVars, observations
<1>9. CASE RateLimited
  BY <1>0, <1>9 DEF RateLimited, sharedVars, observations
<1>10. CASE OpenRequest
  BY <1>0, <1>10 DEF OpenRequest, GoTo, loopVars, observations
<1>11. CASE Answered
  BY <1>0, <1>11 DEF Answered, RebuildOrStop, RedirectCrossed, ClearedPreserving, loopVars,
         observations
<1>12. CASE RequestInterrupted
  BY <1>0, <1>12 DEF RequestInterrupted, RebuildOrStop, ClearedPreserving, observations
<1>13. CASE RequestFails
  BY <1>0, <1>13 DEF RequestFails, GoTo, loopVars
<1>14. CASE HandleApiError
  BY <1>0, <1>14 DEF HandleApiError, RetryOrGiveUp, sharedVars, observations
<1>15. CASE CheckApiResponse
  BY <1>0, <1>15 DEF CheckApiResponse, RetryOrGiveUp, sharedVars, observations
<1>16. CASE ApplyRetryRestarts
  BY <1>0, <1>16 DEF ApplyRetryRestarts, RefundAndContinue, BreakWith, GoTo, sharedVars,
         observations
<1>17. CASE RejectResponse
  BY <1>0, <1>17 DEF RejectResponse, GoTo, loopVars, sharedVars, observations
<1>18. CASE FinishText
  BY <1>0, <1>18 DEF FinishText, sharedVars, observations
<1>19. CASE StageToolCalls
  BY <1>0, <1>19 DEF StageToolCalls, sharedVars, observations
<1>20. CASE ExecuteToolCalls
  BY <1>0, <1>20 DEF ExecuteToolCalls
<1>21. CASE ResultsUnsaved
  BY <1>0, <1>21 DEF ResultsUnsaved, loopVars, sharedVars, observations
<1>22. CASE GuardrailHalts
  BY <1>0, <1>22 DEF GuardrailHalts, sharedVars, observations
<1>23. CASE RoundEnds
  BY <1>0, <1>23 DEF RoundEnds, GoTo, sharedVars, observations
<1>24. CASE OuterLoopError
  BY <1>0, <1>24 DEF OuterLoopError, sharedVars, observations
<1>25. CASE PersistTurn
  BY <1>0, <1>25 DEF PersistTurn, sharedVars, observations
<1>26. CASE BuildResult
  BY <1>0, <1>26 DEF BuildResult, loopVars
<1>27. CASE ClearInterrupt
  BY <1>0, <1>27 DEF ClearInterrupt, loopVars, observations
<1>28. CASE Stop
  BY <1>0, <1>28 DEF Stop, loopVars
<1>29. CASE \E r \in Redirects : Redirect(r)
  BY <1>0, <1>29 DEF Redirect, loopVars
<1>30. CASE \E x \in Steers : Steer(x)
  BY <1>0, <1>30 DEF Steer, loopVars
<1>31. CASE UNCHANGED vars
  BY <1>0, <1>31 DEF vars, loopVars, sharedVars, observations
<1> QED BY <1>1, <1>2, <1>3, <1>4, <1>5, <1>6, <1>7, <1>8, <1>9, <1>10, <1>11, <1>12, <1>13,
         <1>14, <1>15, <1>16, <1>17, <1>18, <1>19, <1>20, <1>21, <1>22, <1>23, <1>24, <1>25,
         <1>26, <1>27, <1>28, <1>29, <1>30, <1>31 DEF Next, TurnStep, Iterate, Request,
         Process, Finalize, Over

\* No correction is written twice and no steer delivered twice.
LEMMA TalliesStep ==
  ASSUME IInv, [Next]_vars, SteerInv'
  PROVE  applied' \in [Redirects -> 0..1] /\ delivered' \in [Steers -> 0..1]
<1>0. /\ applied \in [Redirects -> 0..1] /\ delivered \in [Steers -> 0..1]
      /\ \A r \in pendingRedirect : applied[r] = 0
  BY DEF IInv, TypeOK, QueueInv
<1>1. AppliedPending \in [Redirects -> 0..1]
<2>1. ASSUME NEW r \in Redirects PROVE applied[r] + (IF r \in pendingRedirect THEN 1 ELSE 0) \in 0..1
  BY <1>0
<2> QED BY <2>1 DEF AppliedPending
<1>2. applied' = applied \/ applied' = AppliedPending
  BY DEF Next, TurnStep, Iterate, Request, Process, Finalize, Over, vars, loopVars, sharedVars,
         observations,
         StartTurn, SetupTimesOut, LeaveLoop, BeginIteration, DrainSteer, InjectSteer,
         PreflightGate,
         RetriesExhausted, RateLimited, OpenRequest, Answered, RequestInterrupted, RequestFails,
         HandleApiError, CheckApiResponse, ApplyRetryRestarts, RejectResponse, FinishText,
         StageToolCalls,
         ExecuteToolCalls, ResultsUnsaved, GuardrailHalts, RoundEnds, OuterLoopError,
         PersistTurn, BuildResult, ClearInterrupt, Redirect, Steer, Stop
<1>3. delivered' = delivered \/ \E texts : delivered' = DeliveredWith(texts)
  BY DEF Next, TurnStep, Iterate, Request, Process, Finalize, Over, vars, loopVars, sharedVars,
         observations,
         StartTurn, SetupTimesOut, LeaveLoop, BeginIteration, DrainSteer, InjectSteer,
         PreflightGate,
         RetriesExhausted, RateLimited, OpenRequest, Answered, RequestInterrupted, RequestFails,
         HandleApiError, CheckApiResponse, ApplyRetryRestarts, RejectResponse, FinishText,
         StageToolCalls,
         ExecuteToolCalls, ResultsUnsaved, GuardrailHalts, RoundEnds, OuterLoopError,
         PersistTurn, BuildResult, ClearInterrupt, Redirect, Steer, Stop
<1>4. delivered' \in [Steers -> Nat]
<2>1. ASSUME NEW texts PROVE DeliveredWith(texts) \in [Steers -> Nat]
<3>1. ASSUME NEW x \in Steers PROVE delivered[x] + (IF x \in texts THEN 1 ELSE 0) \in Nat
  BY <1>0
<3> QED BY <3>1 DEF DeliveredWith
<2> QED BY <1>0, <1>3, <2>1
<1>5. ASSUME NEW x \in Steers PROVE delivered'[x] \in 0..1
<2>1. CASE x \in accepted'
<3>1. One(x \in pendingSteer') + One(x \in steer') + delivered'[x] + One(x \in handedBack') = 1
  BY <2>1 DEF SteerInv, SteersDeliveredOnce
<3>2. One(x \in pendingSteer') \in {0, 1} /\ One(x \in steer') \in {0, 1} /\ One(x \in handedBack') \in {0, 1}
  BY OneCase
<3> QED BY <1>4, <3>1, <3>2
<2>2. CASE x \notin accepted'
  BY <2>2 DEF SteerInv
<2> QED BY <2>1, <2>2
<1> QED BY <1>0, <1>1, <1>2, <1>4, <1>5

---------------------------------------------------------------------------
(* The theorems.                                                            *)

\* Init establishes it: no turn, empty queues, an empty transcript.
LEMMA InvHolds ==
  ASSUME Init
  PROVE  IInv
<1>1. s \in States /\ s.pc = "idle" /\ s.errors = 0 /\ ~s.interrupted
<2>1. "idle" \in Places
  BY DEF Places
<2>2. s \in States
  BY <2>1, FreshLocals DEF Init, States
<2> QED BY <2>2 DEF Init, FreshState
<1>2. TypeOK
<2>1. messages \in Seq(Rows) /\ Len(messages) = 0
  BY DEF Init
<2>2. budget \in 0..MaxIterations /\ fallbacks \in 0..MaxFallbacks /\ cheap \in 0..MaxIterations
      /\ turn \in 0..MaxTurns /\ stops \in 0..MaxStops /\ base \in 0..Len(messages)
  BY <2>1, Numbers DEF Init
<2>3. applied \in [Redirects -> 0..1] /\ delivered \in [Steers -> 0..1]
  BY DEF Init
<2> QED BY <1>1, <2>1, <2>2, <2>3 DEF Init, TypeOK
<1>3. CountInv /\ PlaceInv /\ FlagInv
  BY <1>1, Numbers DEF Init, CountInv, PlaceInv, FlagInv
<1>4. QueueInv
  BY DEF Init, QueueInv
<1>5. SteerInv
  BY DEF Init, SteerInv, SteersDeliveredOnce
<1>6. RowsInv
  BY <1>1 DEF RowsInv, Goes, Charged
<1> QED BY <1>2, <1>3, <1>4, <1>5, <1>6 DEF IInv

\* Every step keeps it.
LEMMA InvKept ==
  ASSUME IInv, [Next]_vars
  PROVE  IInv'
<1>1. s' \in States
  BY LocalsStep
<1>2. CountInv' /\ PlaceInv' /\ FlagInv' /\ QueueInv' /\ SteerInv'
  BY CountInvStep, PlaceInvStep, FlagInvStep, QueueInvStep, SteerInvStep
<1>3. messages' \in Seq(Rows) /\ base' \in 0..Len(messages') /\ RowsInv'
  BY RowsStep
<1>4. TypeOK'
  BY <1>1, <1>2, <1>3, CountersTyped, LimitsStep, QueuesStep, TalliesStep DEF TypeOK
<1> QED BY <1>2, <1>3, <1>4 DEF IInv

\* The inductive invariant holds in every behaviour.
LEMMA Invariant == Spec => []IInv
<1>1. Init => IInv
  BY InvHolds
<1>2. IInv /\ [Next]_vars => IInv'
  BY InvKept
<1> QED BY <1>1, <1>2, PTL DEF Spec

\* Every variable has its type; in particular no counter of run_conversation passes
\* its limit (run_conversation, _LoopState).
THEOREM TypeCorrect == Spec => []TypeOK
<1>1. IInv => TypeOK
  BY DEF IInv
<1> QED BY <1>1, Invariant, PTL

\* api_call_count and the iteration budget are charged and refunded together
\* (begin_iteration, run_preflight_gate, apply_retry_restarts).
THEOREM BudgetIsCharged == Spec => []BudgetMatchesCount
<1>1. IInv => BudgetMatchesCount
  BY DEF IInv, CountInv, BudgetMatchesCount
<1> QED BY <1>1, Invariant, PTL

\* No response is acted upon while a correction accepted before it waits
\* (perform_api_call closes the bracket and looks at the queue under one lock).
THEOREM StaleResponsesDropped == Spec => []NoStaleResponse
<1>1. IInv => NoStaleResponse
  BY DEF IInv, QueueInv, NoStaleResponse
<1> QED BY <1>1, Invariant, PTL

\* Every steer that was sent is queued, drained, delivered or handed back, and only
\* one of these (prepare_iteration, _execute_tool_calls, finalize_turn).
THEOREM SteersNeitherLostNorDoubled == Spec => []SteersDeliveredOnce
<1>1. IInv => SteersDeliveredOnce
  BY DEF IInv, SteerInv
<1> QED BY <1>1, Invariant, PTL

\* A turn is interrupted only when the user asked it to stop, or an API error crossed
\* a correction (handle_api_interrupt, clear_interrupt).
THEOREM InterruptedByUserOnly == Spec => []InterruptedMeansStopped
<1>1. IInv => InterruptedMeansStopped
  BY DEF IInv, FlagInv, InterruptedMeansStopped
<1> QED BY <1>1, Invariant, PTL

\* While a request is open, every tool call and result of the turn is in the session
\* store (run_tool_round, _commit_tool_result).
THEOREM RoundsSavedBeforeSent == Spec => []OnlySavedRoundsAreSent
<1>1. ASSUME IInv PROVE OnlySavedRoundsAreSent
<2>1. active => RoundsSaved
  BY <1>1 DEF IInv, PlaceInv, RowsInv, Goes, Charged
<2> QED BY <2>1 DEF OnlySavedRoundsAreSent, RoundsSaved
<1> QED BY <1>1, Invariant, PTL

\* One correction, one step.
LEMMA CorrectionsStep ==
  ASSUME IInv, [Next]_vars, NEW r \in Redirects
  PROVE  /\ r \in pendingRedirect /\ r \notin pendingRedirect' =>
              (applied'[r] = 1 /\ applied[r] = 0) \/ stopped \/ crossed
         /\ applied'[r] # applied[r] => r \in pendingRedirect
<1>0. applied \in [Redirects -> 0..1] /\ QueueInv
  BY DEF IInv, TypeOK
<1>1. CASE BeginIteration
<2>1. applied'[r] = applied[r] + (IF r \in pendingRedirect THEN 1 ELSE 0)
  BY <1>1 DEF BeginIteration, AppliedPending
<2> QED BY <1>0, <2>1 DEF QueueInv
<1>2. CASE ClearInterrupt
<2>1. s.pc = "clear" /\ applied' = applied
  BY <1>2 DEF ClearInterrupt, observations
<2> QED BY <1>0, <2>1 DEF QueueInv
<1>3. CASE ~BeginIteration /\ ~ClearInterrupt
<2>1. applied' = applied /\ pendingRedirect \subseteq pendingRedirect'
  BY <1>3 DEF Next, TurnStep, Iterate, Request, Process, Finalize, Over, vars, loopVars,
         sharedVars, observations,
         StartTurn, SetupTimesOut, LeaveLoop, DrainSteer, InjectSteer, PreflightGate,
         RetriesExhausted, RateLimited, OpenRequest, Answered, RequestInterrupted, RequestFails,
         HandleApiError, CheckApiResponse, ApplyRetryRestarts, RejectResponse, FinishText,
         StageToolCalls,
         ExecuteToolCalls, ResultsUnsaved, GuardrailHalts, RoundEnds, OuterLoopError,
         PersistTurn, BuildResult, Redirect, Steer, Stop
<2> QED BY <2>1
<1> QED BY <1>1, <1>2, <1>3

\* A correction leaves the queue only into the transcript, and once
\* (begin_iteration, _apply_active_turn_redirect).
THEOREM CorrectionsKept == Spec => RedirectsKept
<1>1. IInv /\ [Next]_vars =>
        [\A r \in Redirects :
           /\ r \in pendingRedirect /\ r \notin pendingRedirect' =>
                (applied'[r] = 1 /\ applied[r] = 0) \/ stopped \/ crossed
           /\ applied'[r] # applied[r] => r \in pendingRedirect]_vars
  BY CorrectionsStep
<1> QED BY <1>1, Invariant, PTL DEF Spec, RedirectsKept

\* Only begin_iteration raises the count.
LEMMA UnchargedStep ==
  ASSUME IInv, [Next]_vars
  PROVE  BeginIteration \/ s'.count \in {s.count, s.count - 1, 0}
<1>0. s \in States
  BY DEF IInv, TypeOK
<1> USE DEF States
<1>1. CASE StartTurn
  BY <1>0, <1>1 DEF StartTurn, FreshState
<1>2. CASE SetupTimesOut
  BY <1>0, <1>2 DEF SetupTimesOut
<1>3. CASE LeaveLoop
  BY <1>0, <1>3 DEF LeaveLoop, GoTo
<1>4. CASE BeginIteration
  BY <1>4
<1>5. CASE DrainSteer
  BY <1>0, <1>5 DEF DrainSteer, GoTo
<1>6. CASE InjectSteer
  BY <1>0, <1>6 DEF InjectSteer, GoTo
<1>7. CASE PreflightGate
<2>1. CASE s'.count = s.count \/ Return
  BY <2>1, Returned
<2>2. ASSUME NEW back \in 0..1,
             s' = [s EXCEPT !.pc = "loop", !.compressions = @ + 1, !.count = @ - back]
      PROVE  s'.count \in {s.count, s.count - 1, 0}
<3>1. back = 0 \/ back = 1
  OBVIOUS
<3>2. s'.count = s.count - back
  BY <1>0, <2>2
<3> QED BY <1>0, <3>1, <3>2
<2>3. ASSUME s' = [s EXCEPT !.pc = "retry", !.retry = 0, !.restart = "none", !.response = "none"]
      PROVE  s'.count = s.count
  BY <1>0, <2>3
<2>4. ASSUME NEW text, s' = [s EXCEPT !.pc = "finalize", !.exit = "compression", !.final = text]
      PROVE  s'.count = s.count
  BY <1>0, <2>4
<2> QED BY <1>7, <2>1, <2>2, <2>3, <2>4 DEF PreflightGate
<1>8. CASE RetriesExhausted
  BY <1>0, <1>8 DEF RetriesExhausted, GoTo
<1>9. CASE RateLimited
  BY <1>0, <1>9, Returned, FellBack DEF RateLimited
<1>10. CASE OpenRequest
  BY <1>0, <1>10 DEF OpenRequest, GoTo
<1>11. CASE Answered
  BY <1>0, <1>11 DEF Answered, RebuildOrStop, RedirectCrossed, ClearedPreserving
<1>12. CASE RequestInterrupted
  BY <1>0, <1>12 DEF RequestInterrupted, RebuildOrStop, ClearedPreserving
<1>13. CASE RequestFails
  BY <1>0, <1>13 DEF RequestFails, GoTo
<1>14. CASE HandleApiError
  BY <1>0, <1>14, Returned, FellBack DEF HandleApiError, RetryOrGiveUp
<1>15. CASE CheckApiResponse
  BY <1>0, <1>15, Returned, FellBack DEF CheckApiResponse, RetryOrGiveUp
<1>16. CASE ApplyRetryRestarts
  BY <1>0, <1>16 DEF ApplyRetryRestarts, RefundAndContinue, BreakWith, GoTo
<1>17. CASE RejectResponse
  BY <1>0, <1>17, Returned DEF RejectResponse, GoTo
<1>18. CASE FinishText
  BY <1>0, <1>18 DEF FinishText
<1>19. CASE StageToolCalls
  BY <1>0, <1>19 DEF StageToolCalls
<1>20. CASE ExecuteToolCalls
  BY <1>0, <1>20 DEF ExecuteToolCalls
<1>21. CASE ResultsUnsaved
  BY <1>0, <1>21 DEF ResultsUnsaved
<1>22. CASE GuardrailHalts
  BY <1>0, <1>22 DEF GuardrailHalts
<1>23. CASE RoundEnds
  BY <1>0, <1>23 DEF RoundEnds, GoTo
<1>24. CASE OuterLoopError
  BY <1>0, <1>24 DEF OuterLoopError
<1>25. CASE PersistTurn
  BY <1>0, <1>25 DEF PersistTurn
<1>26. CASE BuildResult
  BY <1>0, <1>26 DEF BuildResult
<1>27. CASE ClearInterrupt
  BY <1>0, <1>27, Returned DEF ClearInterrupt
<1>28. CASE Stop
  BY <1>0, <1>28 DEF Stop
<1>29. CASE \E r \in Redirects : Redirect(r)
  BY <1>0, <1>29 DEF Redirect
<1>30. CASE \E x \in Steers : Steer(x)
  BY <1>0, <1>30 DEF Steer
<1>31. CASE UNCHANGED vars
  BY <1>0, <1>31 DEF vars
<1> QED BY <1>1, <1>2, <1>3, <1>4, <1>5, <1>6, <1>7, <1>8, <1>9, <1>10, <1>11, <1>12, <1>13,
         <1>14, <1>15, <1>16, <1>17, <1>18, <1>19, <1>20, <1>21, <1>22, <1>23, <1>24, <1>25,
         <1>26, <1>27, <1>28, <1>29, <1>30, <1>31 DEF Next, TurnStep, Iterate, Request,
         Process, Finalize, Over

\* begin_iteration never charges a stopped turn.
LEMMA StoppedStep ==
  ASSUME IInv, [Next]_vars, stopped
  PROVE  ~(s'.count > s.count)
<1>0. s \in States /\ FlagInv
  BY DEF IInv, TypeOK
<1>1. s.count \in Nat
  BY <1>0 DEF States
<1>2. CASE BeginIteration
<2>1. flag = "stop"
  BY <1>0, <1>2 DEF BeginIteration, FlagInv
<2>2. s'.count = s.count
  BY <1>0, <1>2, <2>1 DEF BeginIteration, States
<2> QED BY <1>1, <2>2
<1>3. CASE s'.count \in {s.count, s.count - 1, 0}
  BY <1>1, <1>3
<1> QED BY <1>2, <1>3, UnchargedStep

\* Once the user has asked to stop, no further iteration begins (begin_iteration).
THEOREM StopIsHeard == Spec => NoIterationAfterStop
<1>1. IInv /\ [Next]_vars => [s'.count > s.count => ~stopped]_vars
  BY StoppedStep
<1> QED BY <1>1, Invariant, PTL DEF Spec, NoIterationAfterStop
=============================================================================
