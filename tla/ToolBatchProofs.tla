-------------------------- MODULE ToolBatchProofs --------------------------
(***************************************************************************)
(* Proofs about ToolBatch, for every number of calls and workers.          *)
(***************************************************************************)
EXTENDS ToolBatch, FiniteSetTheorems, FunctionTheorems, TLAPS

---------------------------------------------------------------------------
(* The submit order of the runnable calls.                                  *)

\* A runnable call's order is below the number of runnable calls (submit_index of
\* submit_all ranges over the runnable list).
LEMMA OrderBound ==
    ASSUME parseErr \in SUBSET Calls, NEW i \in Runnable
    PROVE  /\ Cardinality(Runnable) \in Nat
           /\ Order(i) \in Nat
           /\ Order(i) + 1 <= Cardinality(Runnable)
<1> DEFINE earlier == {j \in Runnable : j < i}
<1>1. N \in Nat
  BY BatchAssumption
<1>2. IsFiniteSet(Calls)
  BY <1>1, FS_Interval DEF Calls
<1>3. Runnable \subseteq Calls
  BY DEF Runnable
<1>4. IsFiniteSet(Runnable)
  BY <1>2, <1>3, FS_Subset
<1>5. IsFiniteSet(Runnable \ {i}) /\ Cardinality(Runnable \ {i}) = Cardinality(Runnable) - 1
  BY <1>4, FS_RemoveElement
<1>6. earlier \subseteq Runnable \ {i}
  BY <1>1, <1>3 DEF Calls
<1>7. IsFiniteSet(earlier) /\ Cardinality(earlier) <= Cardinality(Runnable \ {i})
  BY <1>5, <1>6, FS_Subset
<1>8. Cardinality(Runnable) \in Nat /\ Cardinality(earlier) \in Nat
  BY <1>4, <1>7, FS_CardinalityType
<1> QED
  BY <1>5, <1>7, <1>8 DEF Order

\* Runnable calls keep their order: a later call's order is greater (submit_index counts up).
LEMMA OrderGrows ==
    ASSUME parseErr \in SUBSET Calls, NEW i \in Runnable, NEW j \in Runnable, i < j
    PROVE  Order(i) < Order(j)
<1> DEFINE earlier(k) == {c \in Runnable : c < k}
<1>1. N \in Nat /\ Runnable \subseteq Calls /\ Calls \subseteq Int
  BY BatchAssumption DEF Runnable, Calls
<1>2. IsFiniteSet(Runnable)
  <2>1. IsFiniteSet(Calls)
    BY <1>1, FS_Interval DEF Calls
  <2> QED
    BY <1>1, <2>1, FS_Subset
<1>3. IsFiniteSet(earlier(i)) /\ IsFiniteSet(earlier(j))
  <2>1. earlier(i) \in SUBSET Runnable /\ earlier(j) \in SUBSET Runnable
    OBVIOUS
  <2> QED
    BY <1>2, <2>1, FS_Subset
<1>4. i \notin earlier(i) /\ earlier(i) \cup {i} \in SUBSET earlier(j)
  <2>1. i \in Int /\ j \in Int
    BY <1>1
  <2>2. \A c \in Runnable : c \in Int
    BY <1>1
  <2>3. ~(i < i) /\ \A c \in Runnable : c < i => c < j
    BY <2>1, <2>2
  <2> QED
    BY <2>3
<1>5. Cardinality(earlier(i) \cup {i}) = Cardinality(earlier(i)) + 1
  <2> HIDE DEF earlier
  <2> QED
    BY <1>3, <1>4, FS_AddElement
<1>6. Cardinality(earlier(i) \cup {i}) <= Cardinality(earlier(j))
  <2> HIDE DEF earlier
  <2> QED
    BY <1>3, <1>4, FS_Subset
<1>7. Cardinality(earlier(i)) \in Nat /\ Cardinality(earlier(j)) \in Nat
  <2> HIDE DEF earlier
  <2> QED
    BY <1>3, FS_CardinalityType
<1>8. Order(i) = Cardinality(earlier(i)) /\ Order(j) = Cardinality(earlier(j))
  BY DEF Order
<1> HIDE DEF earlier
<1> QED
  BY <1>5, <1>6, <1>7, <1>8

\* Two runnable calls never share an order.
LEMMA OrderInjective ==
    ASSUME parseErr \in SUBSET Calls, NEW i \in Runnable, NEW j \in Runnable, Order(i) = Order(j)
    PROVE  i = j
<1>1. i \in Int /\ j \in Int
  BY BatchAssumption DEF Runnable, Calls
<1>2. Order(i) \in Nat /\ Order(j) \in Nat
  BY OrderBound
<1>3. ~(i < j)
  <2> SUFFICES ASSUME i < j PROVE FALSE
    OBVIOUS
  <2>1. Order(i) < Order(j)
    BY OrderGrows
  <2> QED
    BY <1>2, <2>1
<1>4. ~(j < i)
  <2> SUFFICES ASSUME j < i PROVE FALSE
    OBVIOUS
  <2>1. Order(j) < Order(i)
    BY OrderGrows
  <2> QED
    BY <1>2, <2>1
<1> QED
  BY <1>1, <1>3, <1>4

\* No order is skipped: below a call's order every number is the order of an earlier call.
LEMMA OrderOnto ==
    ASSUME parseErr \in SUBSET Calls, NEW i \in Runnable, NEW k \in Nat, k < Order(i)
    PROVE  \E j \in Runnable : Order(j) = k
<1> DEFINE earlier == {j \in Runnable : j < i}
<1> DEFINE below == 0 .. Order(i) - 1
<1> DEFINE order == [j \in earlier |-> Order(j)]
<1>1. N \in Nat /\ Runnable \subseteq Calls /\ Calls \subseteq Int /\ Order(i) \in Nat
  BY BatchAssumption, OrderBound DEF Runnable, Calls
<1>2. ASSUME NEW j \in earlier PROVE j \in Runnable /\ Order(j) \in below
  <2>1. j \in Runnable /\ j < i
    OBVIOUS
  <2>2. Order(j) < Order(i)
    BY <2>1, OrderGrows
  <2>3. Order(j) \in Nat
    BY <2>1, OrderBound
  <2> QED
    BY <1>1, <2>1, <2>2, <2>3
<1>3. order \in Injection(earlier, below)
  <2>1. order \in [earlier -> below]
    BY <1>2
  <2>2. ASSUME NEW a \in earlier, NEW b \in earlier, order[a] = order[b] PROVE a = b
    <3>1. a \in Runnable /\ b \in Runnable /\ Order(a) = Order(b)
      BY <1>2, <2>2
    <3> QED
      BY <3>1, OrderInjective
  <2> HIDE DEF earlier, below, order
  <2> QED
    BY <2>1, <2>2, Fun_IsInj
<1>4. IsFiniteSet(below) /\ Cardinality(below) = Order(i)
  <2>1. Order(i) - 1 \in Int /\ (Order(i) - 1) - 0 + 1 = Order(i) /\ (0 > Order(i) - 1 <=> Order(i) = 0)
    BY <1>1
  <2>2. IsFiniteSet(below) /\ Cardinality(below) = IF 0 > Order(i) - 1 THEN 0 ELSE (Order(i) - 1) - 0 + 1
    BY <2>1, FS_Interval
  <2> QED
    BY <2>1, <2>2
<1>5. Cardinality(earlier) = Cardinality(below)
  BY <1>4 DEF Order
<1>6. order \in Surjection(earlier, below)
  <2> HIDE DEF earlier, below, order
  <2> QED
    BY <1>3, <1>4, <1>5, FS_Injection
<1>7. k \in below
  BY <1>1
<1>8. \A t \in below : \E s \in earlier : order[s] = t
  <2> HIDE DEF earlier, below, order
  <2> QED
    BY <1>6, Fun_SurjectionProperties
<1>9. PICK j \in earlier : order[j] = k
  BY <1>7, <1>8
<1> QED
  BY <1>9

---------------------------------------------------------------------------
(* Types.                                                                   *)

\* Only runnable calls get a worker.
WorkersAreRunnable == \A i \in Calls : wpc[i] # "new" => i \in Runnable

TypeInv == TypeOK /\ WorkersAreRunnable

\* The batch starts well typed, with no worker.
LEMMA TypeInit == Init => TypeInv
<1> SUFFICES ASSUME Init PROVE TypeInv
  OBVIOUS
<1>1. Cardinality(Runnable) \in Nat
  <2>1. IsFiniteSet(Calls)
    BY BatchAssumption, FS_Interval DEF Calls
  <2>2. IsFiniteSet(Runnable)
    BY <2>1, FS_Subset DEF Runnable
  <2> QED
    BY <2>2, FS_CardinalityType
<1>2. N \in Nat /\ N >= 1 /\ nextOrder \in 0 .. Cardinality(Runnable)
  BY <1>1, BatchAssumption DEF Init
<1>3. results \in [Calls -> Outcomes] /\ outcome \in [Calls -> Outcomes]
  BY DEF Init, Outcomes
<1>4. wpc \in [Calls -> WorkerPcs] /\ reported \in [Calls -> Reports] /\ posts \in [Calls -> Nat]
  BY DEF Init, WorkerPcs, Reports
<1>5. WorkersAreRunnable
  BY DEF Init, WorkersAreRunnable
<1>6. parseErr \in SUBSET Calls /\ mpc \in MainPcs /\ nextSubmit \in 1 .. N + 1 /\ slot \in 1 .. N + 1
  BY <1>2 DEF Init, MainPcs
<1>7. TypeOK
  BY <1>2, <1>3, <1>4, <1>6 DEF Init, TypeOK
<1> QED
  BY <1>5, <1>7 DEF TypeInv

\* A step that leaves the workers alone leaves them runnable.
LEMMA WorkersKept ==
    ASSUME WorkersAreRunnable, wpc' = wpc, parseErr' = parseErr
    PROVE  WorkersAreRunnable' /\ Runnable' = Runnable
  BY DEF WorkersAreRunnable, Runnable

\* A worker that moves on stays a worker of a runnable call (run_worker).
LEMMA WorkerMoves ==
    ASSUME TypeInv, NEW i \in Calls, wpc[i] # "new", NEW to \in WorkerPcs,
           wpc' = [wpc EXCEPT ![i] = to], parseErr' = parseErr
    PROVE  /\ wpc' \in [Calls -> WorkerPcs]
           /\ WorkersAreRunnable'
           /\ Runnable' = Runnable
           /\ i \in Runnable
<1>1. wpc \in [Calls -> WorkerPcs] /\ WorkersAreRunnable
  BY DEF TypeInv, TypeOK
<1>2. wpc' \in [Calls -> WorkerPcs]
  BY <1>1
<1>3. i \in Runnable /\ Runnable' = Runnable
  BY <1>1 DEF WorkersAreRunnable, Runnable
<1>4. WorkersAreRunnable'
  BY <1>1, <1>3 DEF WorkersAreRunnable
<1> QED
  BY <1>2, <1>3, <1>4

\* The gate advances to the order of a later call at most (begin_in_order).
LEMMA AdvanceBounded ==
    ASSUME TypeOK, NEW i \in Runnable
    PROVE  AdvancedPast(i) \in 0 .. Cardinality(Runnable)
<1>1. Cardinality(Runnable) \in Nat /\ Order(i) \in Nat /\ Order(i) + 1 <= Cardinality(Runnable)
  BY OrderBound DEF TypeOK
<1>2. nextOrder \in 0 .. Cardinality(Runnable)
  BY DEF TypeOK
<1> QED
  BY <1>1, <1>2 DEF AdvancedPast, Larger

\* The steps of the turn's thread keep the types, and only submit_all gives a call a worker.
LEMMA MainTypeStep == ASSUME TypeInv, Main PROVE TypeInv'
<1> USE DEF mainVars, gateVars, authVars, workVars, intrVars
<1>t. TypeOK /\ WorkersAreRunnable /\ N \in Nat
  BY BatchAssumption DEF TypeInv
<1>k. ASSUME wpc' = wpc, parseErr' = parseErr, TypeOK' PROVE TypeInv'
  BY <1>t, <1>k, WorkersKept DEF TypeInv
<1>r. wpc' = wpc /\ parseErr' = parseErr => Runnable' = Runnable
  BY <1>t, WorkersKept
<1>1. CASE Enter
  <2>1. wpc' = wpc /\ parseErr' = parseErr
    BY <1>1 DEF Enter
  <2>2. TypeOK'
    BY <1>1, <1>t, <1>r, <2>1 DEF TypeOK, MainPcs, Enter
  <2> QED
    BY <1>k, <2>1, <2>2
<1>2. CASE SkipCall
  <2>1. wpc' = wpc /\ parseErr' = parseErr
    BY <1>2 DEF SkipCall
  <2>2. CASE slot > N
    <3>1. TypeOK'
      BY <1>2, <1>t, <1>r, <2>1, <2>2 DEF TypeOK, MainPcs, SkipCall
    <3> QED
      BY <1>k, <2>1, <3>1
  <2>3. CASE ~(slot > N)
    <3>1. slot \in Calls /\ slot' \in 1 .. N + 1
      BY <1>2, <1>t, <2>3 DEF TypeOK, Calls, SkipCall
    <3>2. "skipped" \in Reports
      BY DEF Reports
    <3>3. reported' \in [Calls -> Reports] /\ posts' \in [Calls -> Nat]
      BY <1>2, <1>t, <2>3, <3>1, <3>2 DEF TypeOK, SkipCall
    <3>4. TypeOK'
      BY <1>2, <1>t, <1>r, <2>1, <2>3, <3>1, <3>3 DEF TypeOK, SkipCall
    <3> QED
      BY <1>k, <2>1, <3>4
  <2> QED
    BY <2>2, <2>3
<1>3. CASE Submit
  <2>1. CASE nextSubmit > N
    <3>1. wpc' = wpc /\ parseErr' = parseErr
      BY <1>3, <2>1 DEF Submit
    <3>2. TypeOK'
      BY <1>3, <1>t, <1>r, <2>1, <3>1 DEF TypeOK, MainPcs, Submit
    <3> QED
      BY <1>k, <3>1, <3>2
  <2>2. CASE ~(nextSubmit > N)
    <3>1. nextSubmit \in Calls /\ nextSubmit' \in 1 .. N + 1 /\ parseErr' = parseErr
      BY <1>3, <1>t, <2>2 DEF TypeOK, Calls, Submit
    <3>2. "queued" \in WorkerPcs
      BY DEF WorkerPcs
    <3>3. wpc' \in [Calls -> WorkerPcs]
      BY <1>3, <1>t, <2>2, <3>2 DEF TypeOK, Submit
    <3>4. Runnable' = Runnable
      BY <3>1 DEF Runnable
    <3>5. WorkersAreRunnable'
      BY <1>3, <1>t, <2>2, <3>1, <3>4 DEF TypeOK, WorkersAreRunnable, Runnable, Submit
    <3>6. TypeOK'
      BY <1>3, <1>t, <2>2, <3>1, <3>3, <3>4 DEF TypeOK, Submit
    <3> QED
      BY <3>5, <3>6 DEF TypeInv
  <2> QED
    BY <2>1, <2>2
<1>4. CASE SubmitShutdown
  <2>1. wpc' = wpc /\ parseErr' = parseErr
    BY <1>4 DEF SubmitShutdown
  <2>2. "shutdown" \in Outcomes
    BY DEF Outcomes
  <2>3. results' \in [Calls -> Outcomes]
    BY <1>4, <1>t, <2>2 DEF TypeOK, SubmitShutdown
  <2>4. TypeOK'
    BY <1>4, <1>t, <1>r, <2>1, <2>3 DEF TypeOK, MainPcs, SubmitShutdown
  <2> QED
    BY <1>k, <2>1, <2>4
<1>5. CASE SubmitRaises
  <2>1. wpc' = wpc /\ parseErr' = parseErr
    BY <1>5 DEF SubmitRaises
  <2>2. TypeOK'
    BY <1>5, <1>t, <1>r, <2>1 DEF TypeOK, MainPcs, SubmitRaises
  <2> QED
    BY <1>k, <2>1, <2>2
<1>6. CASE JoinAfterRaise
  <2>1. wpc' = wpc /\ parseErr' = parseErr
    BY <1>6 DEF JoinAfterRaise
  <2>2. TypeOK'
    BY <1>6, <1>t, <1>r, <2>1 DEF TypeOK, MainPcs, JoinAfterRaise
  <2> QED
    BY <1>k, <2>1, <2>2
<1>7. CASE Poll
  <2>1. wpc' = wpc /\ parseErr' = parseErr
    BY <1>7 DEF Poll
  <2>2. snapshot' \in SUBSET Calls /\ mpc' \in MainPcs
    BY <1>7 DEF Poll, Submitted, MainPcs
  <2>3. TypeOK'
    BY <1>7, <1>t, <1>r, <2>1, <2>2 DEF TypeOK, Poll
  <2> QED
    BY <1>k, <2>1, <2>3
<1>8. CASE Decide
  <2>1. wpc' = wpc /\ parseErr' = parseErr
    BY <1>8 DEF Decide
  <2>2. TypeOK'
    BY <1>8, <1>t, <1>r, <2>1 DEF TypeOK, MainPcs, Decide
  <2> QED
    BY <1>k, <2>1, <2>2
<1>9. CASE Cancel
  <2>1. parseErr' = parseErr /\ snapshot' \in SUBSET Calls /\ mpc' \in MainPcs
    BY <1>9, <1>t DEF TypeOK, MainPcs, Cancel
  <2>2. "cancelled" \in WorkerPcs
    BY DEF WorkerPcs
  <2>3. wpc' = wpc \/ \E i \in Calls : wpc[i] = "queued" /\ wpc' = [wpc EXCEPT ![i] = "cancelled"]
    BY <1>9, <1>t DEF TypeOK, Cancel
  <2>4. wpc' \in [Calls -> WorkerPcs] /\ WorkersAreRunnable' /\ Runnable' = Runnable
    <3>1. CASE wpc' = wpc
      BY <1>t, <2>1, <3>1, WorkersKept DEF TypeOK
    <3>2. CASE \E i \in Calls : wpc[i] = "queued" /\ wpc' = [wpc EXCEPT ![i] = "cancelled"]
      BY <2>1, <2>2, <3>2, WorkerMoves
    <3> QED
      BY <2>3, <3>1, <3>2
  <2>5. TypeOK'
    BY <1>9, <1>t, <2>1, <2>4 DEF TypeOK, Cancel
  <2> QED
    BY <2>4, <2>5 DEF TypeInv
<1>10. CASE Abandon
  <2>1. wpc' = wpc /\ parseErr' = parseErr
    BY <1>10 DEF Abandon
  <2>2. TypeOK'
    BY <1>10, <1>t, <1>r, <2>1 DEF TypeOK, MainPcs, Abandon
  <2> QED
    BY <1>k, <2>1, <2>2
<1>11. CASE Notify
  <2>1. wpc' = wpc /\ parseErr' = parseErr
    BY <1>11 DEF Notify
  <2>2. TypeOK'
    BY <1>11, <1>t, <1>r, <2>1 DEF TypeOK, MainPcs, Notify
  <2> QED
    BY <1>k, <2>1, <2>2
<1>12. CASE SnapTids
  <2>1. wpc' = wpc /\ parseErr' = parseErr
    BY <1>12 DEF SnapTids
  <2>2. TypeOK'
    BY <1>12, <1>t, <1>r, <2>1 DEF TypeOK, MainPcs, SnapTids, Registered
  <2> QED
    BY <1>k, <2>1, <2>2
<1>13. CASE FanOut
  <2>1. wpc' = wpc /\ parseErr' = parseErr
    BY <1>13 DEF FanOut
  <2>2. TypeOK'
    BY <1>13, <1>t, <1>r, <2>1 DEF TypeOK, MainPcs, FanOut
  <2> QED
    BY <1>k, <2>1, <2>2
<1>14. CASE AppendResult
  <2>1. wpc' = wpc /\ parseErr' = parseErr
    BY <1>14 DEF AppendResult
  <2>2. CASE slot > N
    <3>1. TypeOK'
      BY <1>14, <1>t, <1>r, <2>1, <2>2 DEF TypeOK, MainPcs, AppendResult
    <3> QED
      BY <1>k, <2>1, <3>1
  <2>3. CASE ~(slot > N)
    <3>1. slot \in Calls /\ slot' \in 1 .. N + 1 /\ mpc' \in MainPcs /\ persistFailed' \in BOOLEAN
      <4>1. slot \in Calls /\ slot + 1 \in 1 .. N + 1
        BY <1>t, <2>3 DEF TypeOK, Calls
      <4>2. slot' = slot + 1 /\ (mpc' = mpc \/ mpc' = "done") /\ (persistFailed' = persistFailed \/ persistFailed' = TRUE)
        BY <1>14, <2>3 DEF AppendResult, CommitRow
      <4> QED
        BY <1>t, <4>1, <4>2 DEF TypeOK, MainPcs
    <3>2. Unfinished(slot) \in Reports /\ Outcomes \subseteq Reports
      BY DEF Unfinished, Reports, Outcomes
    <3>3. reported' \in [Calls -> Reports]
      <4>1. PICK what \in Reports : reported' = [reported EXCEPT ![slot] = what]
        <5>1. results[slot] \in Reports
          BY <1>t, <3>1, <3>2 DEF TypeOK
        <5> QED
          BY <1>14, <2>3, <3>2, <5>1 DEF AppendResult, CommitRow
      <4> QED
        BY <1>t, <3>1, <4>1 DEF TypeOK
    <3>4. posts' \in [Calls -> Nat]
      BY <1>14, <1>t, <2>3, <3>1 DEF TypeOK, AppendResult
    <3>5. TypeOK'
      BY <1>14, <1>t, <1>r, <2>1, <2>3, <3>1, <3>3, <3>4 DEF TypeOK, AppendResult
    <3> QED
      BY <1>k, <2>1, <3>5
  <2> QED
    BY <2>2, <2>3
<1> QED
  BY <1>1, <1>2, <1>3, <1>4, <1>5, <1>6, <1>7, <1>8, <1>9, <1>10, <1>11, <1>12, <1>13, <1>14 DEF Main

\* What a worker does on its own keeps the types.
LEMMA WorkerTypeStep == ASSUME TypeInv, NEW i \in Calls, WorkerStep(i) PROVE TypeInv'
<1> USE DEF mainVars, gateVars, authVars, workVars, intrVars
<1>t. TypeOK
  BY DEF TypeInv
<1>1. CASE Start(i)
  <2>1. wpc[i] # "new" /\ "starting" \in WorkerPcs /\ wpc' = [wpc EXCEPT ![i] = "starting"] /\ parseErr' = parseErr
    BY <1>1 DEF WorkerPcs, Start, Go
  <2>2. wpc' \in [Calls -> WorkerPcs] /\ WorkersAreRunnable' /\ Runnable' = Runnable /\ i \in Runnable
    BY <2>1, WorkerMoves
  <2>3. TypeOK'
    BY <1>1, <1>t, <2>1, <2>2 DEF TypeOK, Start
  <2> QED
    BY <2>2, <2>3 DEF TypeInv
<1>2. CASE CheckInterrupt(i)
  <2>1. wpc[i] # "new" /\ "pre" \in WorkerPcs /\ wpc' = [wpc EXCEPT ![i] = "pre"] /\ parseErr' = parseErr
    BY <1>2 DEF WorkerPcs, CheckInterrupt, Go
  <2>2. wpc' \in [Calls -> WorkerPcs] /\ WorkersAreRunnable' /\ Runnable' = Runnable /\ i \in Runnable
    BY <2>1, WorkerMoves
  <2>3. TypeOK'
    BY <1>2, <1>t, <2>1, <2>2 DEF TypeOK, CheckInterrupt
  <2> QED
    BY <2>2, <2>3 DEF TypeInv
<1>3. CASE EndBeforeDispatch(i)
  <2>1. wpc[i] # "new" /\ "writing" \in WorkerPcs /\ wpc' = [wpc EXCEPT ![i] = "writing"] /\ parseErr' = parseErr
    BY <1>3 DEF WorkerPcs, EndBeforeDispatch, Go
  <2>2. wpc' \in [Calls -> WorkerPcs] /\ WorkersAreRunnable' /\ Runnable' = Runnable /\ i \in Runnable
    BY <2>1, WorkerMoves
  <2>3. outcome' \in [Calls -> Outcomes] /\ posts' \in [Calls -> Nat]
    BY <1>3, <1>t DEF TypeOK, EndBeforeDispatch, Outcomes
  <2>4. TypeOK'
    BY <1>3, <1>t, <2>1, <2>2, <2>3 DEF TypeOK, EndBeforeDispatch
  <2> QED
    BY <2>2, <2>4 DEF TypeInv
<1>4. CASE ScopeBlock(i)
  <2>1. wpc[i] # "new" /\ "gateBlock" \in WorkerPcs /\ wpc' = [wpc EXCEPT ![i] = "gateBlock"] /\ parseErr' = parseErr
    BY <1>4 DEF WorkerPcs, ScopeBlock, Go
  <2>2. wpc' \in [Calls -> WorkerPcs] /\ WorkersAreRunnable' /\ Runnable' = Runnable /\ i \in Runnable
    BY <2>1, WorkerMoves
  <2>3. TypeOK'
    BY <1>4, <1>t, <2>1, <2>2 DEF TypeOK, ScopeBlock
  <2> QED
    BY <2>2, <2>3 DEF TypeInv
<1>5. CASE AuthAcquire(i)
  <2>1. wpc[i] # "new" /\ "auth" \in WorkerPcs /\ wpc' = [wpc EXCEPT ![i] = "auth"] /\ parseErr' = parseErr
    BY <1>5 DEF WorkerPcs, AuthAcquire, Go
  <2>2. wpc' \in [Calls -> WorkerPcs] /\ WorkersAreRunnable' /\ Runnable' = Runnable /\ i \in Runnable
    BY <2>1, WorkerMoves
  <2>3. TypeOK'
    BY <1>5, <1>t, <2>1, <2>2 DEF TypeOK, AuthAcquire
  <2> QED
    BY <2>2, <2>3 DEF TypeInv
<1>6. CASE AuthTimesOut(i)
  <2>1. wpc[i] # "new" /\ "auth" \in WorkerPcs /\ wpc' = [wpc EXCEPT ![i] = "auth"] /\ parseErr' = parseErr
    BY <1>6 DEF WorkerPcs, AuthTimesOut, Go
  <2>2. wpc' \in [Calls -> WorkerPcs] /\ WorkersAreRunnable' /\ Runnable' = Runnable /\ i \in Runnable
    BY <2>1, WorkerMoves
  <2>3. TypeOK'
    BY <1>6, <1>t, <2>1, <2>2 DEF TypeOK, AuthTimesOut
  <2> QED
    BY <2>2, <2>3 DEF TypeInv
<1>7. CASE EnterGate(i)
  <2>1. wpc[i] # "new" /\ "callback" \in WorkerPcs /\ wpc' = [wpc EXCEPT ![i] = "callback"] /\ parseErr' = parseErr
    BY <1>7 DEF WorkerPcs, EnterGate, Go
  <2>2. wpc' \in [Calls -> WorkerPcs] /\ WorkersAreRunnable' /\ Runnable' = Runnable /\ i \in Runnable
    BY <2>1, WorkerMoves
  <2>3. TypeOK'
    BY <1>7, <1>t, <2>1, <2>2 DEF TypeOK, EnterGate, PassesWait
  <2> QED
    BY <2>2, <2>3 DEF TypeInv
<1>8. CASE BlockedAtGate(i)
  <2>1. wpc[i] # "new" /\ "blocked" \in WorkerPcs /\ wpc' = [wpc EXCEPT ![i] = "blocked"] /\ parseErr' = parseErr
    BY <1>8 DEF WorkerPcs, BlockedAtGate, Go
  <2>2. wpc' \in [Calls -> WorkerPcs] /\ WorkersAreRunnable' /\ Runnable' = Runnable /\ i \in Runnable
    BY <2>1, WorkerMoves
  <2>3. nextOrder' \in 0 .. Cardinality(Runnable')
    BY <1>8, <1>t, <2>2, AdvanceBounded DEF BlockedAtGate
  <2>4. TypeOK'
    BY <1>8, <1>t, <2>1, <2>2, <2>3 DEF TypeOK, BlockedAtGate, PassesWait
  <2> QED
    BY <2>2, <2>4 DEF TypeInv
<1>9. CASE BlockedResult(i)
  <2>1. wpc[i] # "new" /\ "writing" \in WorkerPcs /\ wpc' = [wpc EXCEPT ![i] = "writing"] /\ parseErr' = parseErr
    BY <1>9 DEF WorkerPcs, BlockedResult, Go
  <2>2. wpc' \in [Calls -> WorkerPcs] /\ WorkersAreRunnable' /\ Runnable' = Runnable /\ i \in Runnable
    BY <2>1, WorkerMoves
  <2>3. outcome' \in [Calls -> Outcomes] /\ posts' \in [Calls -> Nat]
    BY <1>9, <1>t DEF TypeOK, BlockedResult, Outcomes
  <2>4. TypeOK'
    BY <1>9, <1>t, <2>1, <2>2, <2>3 DEF TypeOK, BlockedResult
  <2> QED
    BY <2>2, <2>4 DEF TypeInv
<1>10. CASE LeaveGate(i)
  <2>1. wpc[i] # "new" /\ "exiting" \in WorkerPcs /\ wpc' = [wpc EXCEPT ![i] = "exiting"] /\ parseErr' = parseErr
    BY <1>10 DEF WorkerPcs, LeaveGate, Go
  <2>2. wpc' \in [Calls -> WorkerPcs] /\ WorkersAreRunnable' /\ Runnable' = Runnable /\ i \in Runnable
    BY <2>1, WorkerMoves
  <2>3. TypeOK'
    BY <1>10, <1>t, <2>1, <2>2 DEF TypeOK, LeaveGate
  <2> QED
    BY <2>2, <2>3 DEF TypeInv
<1>11. CASE StoreResult(i)
  <2>1. PICK to \in WorkerPcs : wpc' = [wpc EXCEPT ![i] = to]
    <3>1. "lateAdvance" \in WorkerPcs /\ "exiting" \in WorkerPcs
      BY DEF WorkerPcs
    <3> QED
      BY <1>11, <3>1 DEF StoreResult
  <2>2. wpc[i] # "new" /\ parseErr' = parseErr
    BY <1>11 DEF StoreResult
  <2>3. wpc' \in [Calls -> WorkerPcs] /\ WorkersAreRunnable' /\ Runnable' = Runnable
    BY <2>1, <2>2, WorkerMoves
  <2>4. results' \in [Calls -> Outcomes]
    BY <1>11, <1>t DEF TypeOK, StoreResult
  <2>5. TypeOK'
    BY <1>11, <1>t, <2>2, <2>3, <2>4 DEF TypeOK, StoreResult
  <2> QED
    BY <2>3, <2>5 DEF TypeInv
<1>12. CASE LateAdvance(i)
  <2>1. wpc[i] # "new" /\ "exiting" \in WorkerPcs /\ wpc' = [wpc EXCEPT ![i] = "exiting"] /\ parseErr' = parseErr
    BY <1>12 DEF WorkerPcs, LateAdvance, Go
  <2>2. wpc' \in [Calls -> WorkerPcs] /\ WorkersAreRunnable' /\ Runnable' = Runnable /\ i \in Runnable
    BY <2>1, WorkerMoves
  <2>3. nextOrder' \in 0 .. Cardinality(Runnable')
    BY <1>12, <1>t, <2>2, AdvanceBounded DEF LateAdvance
  <2>4. TypeOK'
    BY <1>12, <1>t, <2>1, <2>2, <2>3 DEF TypeOK, LateAdvance, PassesWait
  <2> QED
    BY <2>2, <2>4 DEF TypeInv
<1>13. CASE Unregister(i)
  <2>1. wpc[i] # "new" /\ "clearing" \in WorkerPcs /\ wpc' = [wpc EXCEPT ![i] = "clearing"] /\ parseErr' = parseErr
    BY <1>13 DEF WorkerPcs, Unregister, Go
  <2>2. wpc' \in [Calls -> WorkerPcs] /\ WorkersAreRunnable' /\ Runnable' = Runnable /\ i \in Runnable
    BY <2>1, WorkerMoves
  <2>3. TypeOK'
    BY <1>13, <1>t, <2>1, <2>2 DEF TypeOK, Unregister
  <2> QED
    BY <2>2, <2>3 DEF TypeInv
<1>14. CASE ClearBit(i)
  <2>1. wpc[i] # "new" /\ "done" \in WorkerPcs /\ wpc' = [wpc EXCEPT ![i] = "done"] /\ parseErr' = parseErr
    BY <1>14 DEF WorkerPcs, ClearBit, Go
  <2>2. wpc' \in [Calls -> WorkerPcs] /\ WorkersAreRunnable' /\ Runnable' = Runnable /\ i \in Runnable
    BY <2>1, WorkerMoves
  <2>3. TypeOK'
    BY <1>14, <1>t, <2>1, <2>2 DEF TypeOK, ClearBit
  <2> QED
    BY <2>2, <2>3 DEF TypeInv
<1> QED
  BY <1>1, <1>2, <1>3, <1>4, <1>5, <1>6, <1>7, <1>8, <1>9, <1>10, <1>11, <1>12, <1>13, <1>14 DEF WorkerStep

\* What a callback, a hook, a human or a tool decides keeps the types.
LEMMA OutsideTypeStep == ASSUME TypeInv, NEW i \in Calls, OutsideStep(i) PROVE TypeInv'
<1> USE DEF mainVars, gateVars, authVars, workVars, intrVars
<1>t. TypeOK
  BY DEF TypeInv
<1>1. CASE BeginExecution(i)
  <2>1. wpc[i] # "new" /\ "exec" \in WorkerPcs /\ wpc' = [wpc EXCEPT ![i] = "exec"] /\ parseErr' = parseErr
    BY <1>1 DEF WorkerPcs, BeginExecution, Go
  <2>2. wpc' \in [Calls -> WorkerPcs] /\ WorkersAreRunnable' /\ Runnable' = Runnable /\ i \in Runnable
    BY <2>1, WorkerMoves
  <2>3. nextOrder' \in 0 .. Cardinality(Runnable')
    BY <1>1, <1>t, <2>2, AdvanceBounded DEF BeginExecution
  <2>4. TypeOK'
    BY <1>1, <1>t, <2>1, <2>2, <2>3 DEF TypeOK, BeginExecution
  <2> QED
    BY <2>2, <2>4 DEF TypeInv
<1>2. CASE AskHuman(i)
  <2>1. wpc[i] # "new" /\ "human" \in WorkerPcs /\ wpc' = [wpc EXCEPT ![i] = "human"] /\ parseErr' = parseErr
    BY <1>2 DEF WorkerPcs, AskHuman, Go
  <2>2. wpc' \in [Calls -> WorkerPcs] /\ WorkersAreRunnable' /\ Runnable' = Runnable /\ i \in Runnable
    BY <2>1, WorkerMoves
  <2>3. TypeOK'
    BY <1>2, <1>t, <2>1, <2>2 DEF TypeOK, AskHuman
  <2> QED
    BY <2>2, <2>3 DEF TypeInv
<1>3. CASE HooksAnswer(i)
  <2>1. PICK to \in WorkerPcs : wpc' = [wpc EXCEPT ![i] = to]
    <3>1. "gateRun" \in WorkerPcs /\ "gateBlock" \in WorkerPcs
      BY DEF WorkerPcs
    <3> QED
      BY <1>3, <3>1 DEF HooksAnswer
  <2>2. wpc[i] # "new" /\ parseErr' = parseErr
    BY <1>3 DEF HooksAnswer
  <2>3. wpc' \in [Calls -> WorkerPcs] /\ WorkersAreRunnable' /\ Runnable' = Runnable
    BY <2>1, <2>2, WorkerMoves
  <2>4. TypeOK'
    BY <1>3, <1>t, <2>2, <2>3 DEF TypeOK, HooksAnswer, AuthRelease
  <2> QED
    BY <2>3, <2>4 DEF TypeInv
<1>4. CASE GuardrailRaises(i)
  <2>1. wpc[i] # "new" /\ "writing" \in WorkerPcs /\ wpc' = [wpc EXCEPT ![i] = "writing"] /\ parseErr' = parseErr
    BY <1>4 DEF WorkerPcs, GuardrailRaises, Go
  <2>2. wpc' \in [Calls -> WorkerPcs] /\ WorkersAreRunnable' /\ Runnable' = Runnable /\ i \in Runnable
    BY <2>1, WorkerMoves
  <2>3. outcome' \in [Calls -> Outcomes] /\ posts' \in [Calls -> Nat]
    BY <1>4, <1>t DEF TypeOK, GuardrailRaises, Outcomes
  <2>4. TypeOK'
    BY <1>4, <1>t, <2>1, <2>2, <2>3 DEF TypeOK, GuardrailRaises, AuthRelease
  <2> QED
    BY <2>2, <2>4 DEF TypeInv
<1>5. CASE DiesBeforeGate(i)
  <2>1. wpc[i] # "new" /\ "lateAdvance" \in WorkerPcs /\ wpc' = [wpc EXCEPT ![i] = "lateAdvance"] /\ parseErr' = parseErr
    BY <1>5 DEF WorkerPcs, DiesBeforeGate, Go
  <2>2. wpc' \in [Calls -> WorkerPcs] /\ WorkersAreRunnable' /\ Runnable' = Runnable /\ i \in Runnable
    BY <2>1, WorkerMoves
  <2>3. TypeOK'
    BY <1>5, <1>t, <2>1, <2>2 DEF TypeOK, DiesBeforeGate, AuthRelease
  <2> QED
    BY <2>2, <2>3 DEF TypeInv
<1>6. CASE ToolEnds(i)
  <2>1. wpc[i] # "new" /\ "writing" \in WorkerPcs /\ wpc' = [wpc EXCEPT ![i] = "writing"] /\ parseErr' = parseErr
    BY <1>6 DEF WorkerPcs, ToolEnds, Go
  <2>2. wpc' \in [Calls -> WorkerPcs] /\ WorkersAreRunnable' /\ Runnable' = Runnable /\ i \in Runnable
    BY <2>1, WorkerMoves
  <2>3. outcome' \in [Calls -> Outcomes] /\ posts' \in [Calls -> Nat]
    BY <1>6, <1>t DEF TypeOK, ToolEnds, Outcomes
  <2>4. TypeOK'
    BY <1>6, <1>t, <2>1, <2>2, <2>3 DEF TypeOK, ToolEnds
  <2> QED
    BY <2>2, <2>4 DEF TypeInv
<1>7. CASE ToolCancelled(i)
  <2>1. wpc[i] # "new" /\ "writing" \in WorkerPcs /\ wpc' = [wpc EXCEPT ![i] = "writing"] /\ parseErr' = parseErr
    BY <1>7 DEF WorkerPcs, ToolCancelled, Go
  <2>2. wpc' \in [Calls -> WorkerPcs] /\ WorkersAreRunnable' /\ Runnable' = Runnable /\ i \in Runnable
    BY <2>1, WorkerMoves
  <2>3. outcome' \in [Calls -> Outcomes] /\ posts' \in [Calls -> Nat]
    BY <1>7, <1>t DEF TypeOK, ToolCancelled, Outcomes
  <2>4. TypeOK'
    BY <1>7, <1>t, <2>1, <2>2, <2>3 DEF TypeOK, ToolCancelled
  <2> QED
    BY <2>2, <2>4 DEF TypeInv
<1>8. CASE ToolDies(i)
  <2>1. wpc[i] # "new" /\ "exiting" \in WorkerPcs /\ wpc' = [wpc EXCEPT ![i] = "exiting"] /\ parseErr' = parseErr
    BY <1>8 DEF WorkerPcs, ToolDies, Go
  <2>2. wpc' \in [Calls -> WorkerPcs] /\ WorkersAreRunnable' /\ Runnable' = Runnable /\ i \in Runnable
    BY <2>1, WorkerMoves
  <2>3. TypeOK'
    BY <1>8, <1>t, <2>1, <2>2 DEF TypeOK, ToolDies
  <2> QED
    BY <2>2, <2>3 DEF TypeInv
<1> QED
  BY <1>1, <1>2, <1>3, <1>4, <1>5, <1>6, <1>7, <1>8 DEF OutsideStep

\* Every step keeps the types.
LEMMA TypeStep == TypeInv /\ [Next]_vars => TypeInv'
<1> SUFFICES ASSUME TypeInv, [Next]_vars PROVE TypeInv'
  OBVIOUS
<1>t. TypeOK /\ WorkersAreRunnable
  BY DEF TypeInv
<1>k. ASSUME wpc' = wpc, parseErr' = parseErr, TypeOK' PROVE TypeInv'
  BY <1>t, <1>k, WorkersKept DEF TypeInv
<1>1. CASE Main
  BY <1>1, MainTypeStep
<1>2. ASSUME NEW i \in Calls, WorkerStep(i) PROVE TypeInv'
  BY <1>2, WorkerTypeStep
<1>3. ASSUME NEW i \in Calls, OutsideStep(i) PROVE TypeInv'
  BY <1>3, OutsideTypeStep
<1>4. CASE DeadlineElapses
  <2>1. wpc' = wpc /\ parseErr' = parseErr /\ nextOrder' = nextOrder
    BY <1>4 DEF DeadlineElapses, workVars, gateVars
  <2>2. Runnable' = Runnable
    BY <1>t, <2>1, WorkersKept
  <2>3. TypeOK'
    BY <1>4, <1>t, <2>1, <2>2 DEF TypeOK, DeadlineElapses, mainVars, workVars, gateVars, authVars, intrVars
  <2> QED
    BY <1>k, <2>1, <2>3
<1>5. CASE Interrupt
  <2>1. wpc' = wpc /\ parseErr' = parseErr /\ nextOrder' = nextOrder
    BY <1>5 DEF Interrupt, workVars, gateVars
  <2>2. Runnable' = Runnable
    BY <1>t, <2>1, WorkersKept
  <2>3. TypeOK'
    BY <1>5, <1>t, <2>1, <2>2 DEF TypeOK, Interrupt, mainVars, workVars, gateVars, authVars, intrVars
  <2> QED
    BY <1>k, <2>1, <2>3
<1>6. CASE InterruptSnapshot
  <2>1. wpc' = wpc /\ parseErr' = parseErr /\ nextOrder' = nextOrder
    BY <1>6 DEF InterruptSnapshot, workVars, gateVars
  <2>2. Runnable' = Runnable
    BY <1>t, <2>1, WorkersKept
  <2>3. TypeOK'
    BY <1>6, <1>t, <2>1, <2>2 DEF TypeOK, InterruptSnapshot, mainVars, workVars, gateVars, authVars, intrVars, Registered
  <2> QED
    BY <1>k, <2>1, <2>3
<1>7. CASE InterruptFanOut
  <2>1. wpc' = wpc /\ parseErr' = parseErr /\ nextOrder' = nextOrder
    BY <1>7 DEF InterruptFanOut, workVars, gateVars
  <2>2. Runnable' = Runnable
    BY <1>t, <2>1, WorkersKept
  <2>3. TypeOK'
    BY <1>7, <1>t, <2>1, <2>2 DEF TypeOK, InterruptFanOut, mainVars, workVars, gateVars, authVars, intrVars
  <2> QED
    BY <1>k, <2>1, <2>3
<1>8. CASE UNCHANGED vars
  <2>1. wpc' = wpc /\ parseErr' = parseErr /\ nextOrder' = nextOrder
    BY <1>8 DEF vars, workVars, gateVars
  <2>2. Runnable' = Runnable
    BY <1>t, <2>1, WorkersKept
  <2>3. TypeOK'
    BY <1>8, <1>t, <2>1, <2>2 DEF TypeOK, vars, mainVars, workVars, gateVars, authVars, intrVars
  <2> QED
    BY <1>k, <2>1, <2>3
<1> QED
  BY <1>1, <1>2, <1>3, <1>4, <1>5, <1>6, <1>7, <1>8 DEF Next, Finished

\* Every variable keeps its type, for any number of calls and workers.
THEOREM TypeCorrect == Spec => []TypeOK
<1>1. TypeInv => TypeOK
  BY DEF TypeInv
<1> QED
  BY TypeInit, TypeStep, <1>1, PTL DEF Spec

---------------------------------------------------------------------------
(* No late begin.                                                           *)

\* Nobody can reach the begin callback any more: the gate is abandoned, or no worker is left.
GateShut == abandoned \/ \A i \in Calls : wpc[i] \in {"new", "done", "cancelled"}

\* What the turn's thread knows of the workers at each of its steps.
TurnInv ==
    /\ mpc \in {"enter", "skip"} => \A i \in Calls : wpc[i] = "new"
    /\ mpc = "submit" => \A i \in Calls : i >= nextSubmit => wpc[i] = "new"
    /\ mpc \in {"notify", "snapTids", "fanOut"} => abandoned
    /\ mpc \in {"snapTids", "fanOut", "append", "done"} => GateLockFree /\ GateShut
    /\ \A i \in Calls : reported[i] # "none" => mpc \in {"skip", "append", "done"}

\* The turn invariant holds before the batch starts.
LEMMA TurnInit == Init => TurnInv
  BY DEF Init, TurnInv

\* Every step keeps the turn invariant: no row before the gate is shut or every worker is over.
LEMMA TurnStep == TypeInv /\ TurnInv /\ [Next]_vars => TurnInv'
<1> SUFFICES ASSUME TypeInv, TurnInv, [Next]_vars PROVE TurnInv'
  OBVIOUS
<1> USE DEF TurnInv, GateShut, GateLockFree, mainVars, gateVars, authVars, workVars, intrVars
<1>0. /\ wpc \in [Calls -> WorkerPcs] /\ reported \in [Calls -> Reports]
      /\ nextSubmit \in 1 .. N + 1 /\ N \in Nat /\ Calls = 1 .. N
      /\ WorkersAreRunnable
  BY BatchAssumption DEF TypeInv, TypeOK, Calls
<1>1. CASE Enter
  BY <1>0, <1>1 DEF Enter
<1>2. CASE SkipCall
  BY <1>0, <1>2 DEF SkipCall
<1>3. CASE Submit
  <2>1. CASE nextSubmit > N /\ Runnable = {}
    BY <1>0, <1>3, <2>1 DEF Submit, WorkersAreRunnable
  <2>2. CASE nextSubmit > N /\ Runnable # {}
    BY <1>0, <1>3, <2>2 DEF Submit
  <2>3. CASE ~(nextSubmit > N)
    BY <1>0, <1>3, <2>3 DEF Submit
  <2> QED
    BY <2>1, <2>2, <2>3
<1>4. CASE SubmitShutdown
  BY <1>0, <1>4 DEF SubmitShutdown, SkippedFrom
<1>5. CASE SubmitRaises
  BY <1>0, <1>5 DEF SubmitRaises
<1>6. CASE JoinAfterRaise
  BY <1>0, <1>6 DEF JoinAfterRaise
<1>7. CASE Poll
  BY <1>0, <1>7 DEF Poll, Submitted, FutureDone
<1>8. CASE Decide
  BY <1>0, <1>8 DEF Decide
<1>9. CASE Cancel
  BY <1>0, <1>9 DEF Cancel, FutureDone
<1>10. CASE Abandon
  BY <1>0, <1>10 DEF Abandon
<1>11. CASE Notify
  BY <1>0, <1>11 DEF Notify
<1>12. CASE SnapTids
  BY <1>0, <1>12 DEF SnapTids, Registered
<1>13. CASE FanOut
  BY <1>0, <1>13 DEF FanOut
<1>14. CASE AppendResult
  BY <1>0, <1>14 DEF AppendResult, CommitRow, Unfinished
<1>15. ASSUME NEW i \in Calls, Start(i) PROVE TurnInv'
  BY <1>0, <1>15 DEF Start, Go
<1>16. ASSUME NEW i \in Calls, CheckInterrupt(i) PROVE TurnInv'
  BY <1>0, <1>16 DEF CheckInterrupt, Go
<1>17. ASSUME NEW i \in Calls, EndBeforeDispatch(i) PROVE TurnInv'
  BY <1>0, <1>17 DEF EndBeforeDispatch, Go
<1>18. ASSUME NEW i \in Calls, ScopeBlock(i) PROVE TurnInv'
  BY <1>0, <1>18 DEF ScopeBlock, Go
<1>19. ASSUME NEW i \in Calls, AuthAcquire(i) PROVE TurnInv'
  BY <1>0, <1>19 DEF AuthAcquire, Go
<1>20. ASSUME NEW i \in Calls, AuthTimesOut(i) PROVE TurnInv'
  BY <1>0, <1>20 DEF AuthTimesOut, Go
<1>21. ASSUME NEW i \in Calls, EnterGate(i) PROVE TurnInv'
  BY <1>0, <1>21 DEF EnterGate, Go, PassesWait
<1>22. ASSUME NEW i \in Calls, BlockedAtGate(i) PROVE TurnInv'
  BY <1>0, <1>22 DEF BlockedAtGate, Go, PassesWait, AdvancedPast, Larger
<1>23. ASSUME NEW i \in Calls, BlockedResult(i) PROVE TurnInv'
  BY <1>0, <1>23 DEF BlockedResult, Go
<1>24. ASSUME NEW i \in Calls, LeaveGate(i) PROVE TurnInv'
  BY <1>0, <1>24 DEF LeaveGate
<1>25. ASSUME NEW i \in Calls, StoreResult(i) PROVE TurnInv'
  BY <1>0, <1>25 DEF StoreResult
<1>26. ASSUME NEW i \in Calls, LateAdvance(i) PROVE TurnInv'
  BY <1>0, <1>26 DEF LateAdvance, Go, PassesWait, AdvancedPast, Larger
<1>27. ASSUME NEW i \in Calls, Unregister(i) PROVE TurnInv'
  BY <1>0, <1>27 DEF Unregister, Go
<1>28. ASSUME NEW i \in Calls, ClearBit(i) PROVE TurnInv'
  BY <1>0, <1>28 DEF ClearBit, Go
<1>29. ASSUME NEW i \in Calls, BeginExecution(i) PROVE TurnInv'
  BY <1>0, <1>29 DEF BeginExecution, Go, AdvancedPast, Larger
<1>30. ASSUME NEW i \in Calls, AskHuman(i) PROVE TurnInv'
  BY <1>0, <1>30 DEF AskHuman, Go
<1>31. ASSUME NEW i \in Calls, HooksAnswer(i) PROVE TurnInv'
  BY <1>0, <1>31 DEF HooksAnswer, AuthRelease
<1>32. ASSUME NEW i \in Calls, DiesBeforeGate(i) PROVE TurnInv'
  BY <1>0, <1>32 DEF DiesBeforeGate, AuthRelease
<1>41. ASSUME NEW i \in Calls, GuardrailRaises(i) PROVE TurnInv'
  BY <1>0, <1>41 DEF GuardrailRaises, AuthRelease
<1>33. ASSUME NEW i \in Calls, ToolEnds(i) PROVE TurnInv'
  BY <1>0, <1>33 DEF ToolEnds, Go
<1>34. ASSUME NEW i \in Calls, ToolCancelled(i) PROVE TurnInv'
  BY <1>0, <1>34 DEF ToolCancelled, Go
<1>35. ASSUME NEW i \in Calls, ToolDies(i) PROVE TurnInv'
  BY <1>0, <1>35 DEF ToolDies, Go
<1>36. CASE DeadlineElapses
  BY <1>0, <1>36 DEF DeadlineElapses
<1>37. CASE Interrupt
  BY <1>0, <1>37 DEF Interrupt
<1>38. CASE InterruptSnapshot
  BY <1>0, <1>38 DEF InterruptSnapshot, Registered
<1>39. CASE InterruptFanOut
  BY <1>0, <1>39 DEF InterruptFanOut
<1>40. CASE UNCHANGED vars
  BY <1>40 DEF vars
<1> QED
  BY <1>1, <1>2, <1>3, <1>4, <1>5, <1>6, <1>7, <1>8, <1>9, <1>10, <1>11, <1>12, <1>13, <1>14, <1>15, <1>16, <1>17, <1>18, <1>19, <1>20,
     <1>21, <1>22, <1>23, <1>24, <1>25, <1>26, <1>27, <1>28, <1>29, <1>30, <1>31, <1>32, <1>33, <1>34, <1>35, <1>36, <1>37, <1>38, <1>39, <1>40, <1>41
     DEF Next, Main, WorkerStep, OutsideStep, Finished

\* Only _begin_tool_execution, inside the gate's callback, begins a tool.
LEMMA OnlyCallbackBegins ==
    ASSUME Next PROVE begun' = begun \/ \E i \in Calls : BeginExecution(i)
<1> USE DEF mainVars, workVars
<1>1. CASE Main
  BY <1>1 DEF Main, Enter, SkipCall, Submit, SubmitShutdown, SubmitRaises, JoinAfterRaise, Poll,
     Decide, Cancel, Abandon, Notify, SnapTids, FanOut, AppendResult
<1>2. ASSUME NEW i \in Calls, WorkerStep(i) PROVE begun' = begun
  BY <1>2 DEF WorkerStep, Start, CheckInterrupt, EndBeforeDispatch, ScopeBlock, AuthAcquire, AuthTimesOut, EnterGate,
     BlockedAtGate, BlockedResult, LeaveGate, StoreResult, LateAdvance, Unregister, ClearBit
<1>3. ASSUME NEW i \in Calls, OutsideStep(i), ~BeginExecution(i) PROVE begun' = begun
  BY <1>3 DEF OutsideStep, AskHuman, HooksAnswer, GuardrailRaises, DiesBeforeGate, ToolEnds, ToolCancelled, ToolDies
<1>4. CASE DeadlineElapses \/ Interrupt \/ InterruptSnapshot \/ InterruptFanOut \/ Finished
  BY <1>4 DEF DeadlineElapses, Interrupt, InterruptSnapshot, InterruptFanOut, Finished, vars
<1> QED
  BY <1>1, <1>2, <1>3, <1>4 DEF Next

\* No tool begins once the transcript has a row for it, for any number of calls and workers.
THEOREM NoLateBeginHolds == Spec => NoLateBegin
<1>1. TypeInv /\ TurnInv /\ [Next]_vars => [\A i \in begun' \ begun : reported[i] = "none"]_vars
  <2> SUFFICES ASSUME TypeInv, TurnInv, Next, NEW i \in begun' \ begun PROVE reported[i] = "none"
    BY DEF vars
  <2>1. PICK j \in Calls : BeginExecution(j)
    BY OnlyCallbackBegins
  <2>2. i = j /\ wpc[j] = "callback"
    BY <2>1 DEF BeginExecution, Go
  <2> QED
    BY <2>1, <2>2 DEF TurnInv, GateShut, GateLockFree
<1> QED
  BY TypeInit, TypeStep, TurnInit, TurnStep, <1>1, PTL DEF Spec, NoLateBegin

---------------------------------------------------------------------------
(* The authorization lock.                                                  *)

\* Who gave up on the lock has reached its hooks.
AuthInv ==
    /\ AuthLockExact
    /\ \A i \in unserialized : wpc[i] \notin {"new", "queued", "starting", "pre"}

\* The authorization lock starts free.
LEMMA AuthInit == Init => AuthInv
  BY BatchAssumption DEF Init, AuthInv, AuthLockExact, Calls

\* Every step keeps the authorization lock exact: acquire, expiry and release are the only ones
\* that move it.
LEMMA AuthStep == TypeInv /\ TurnInv /\ AuthInv /\ [Next]_vars => AuthInv'
<1> SUFFICES ASSUME TypeInv, TurnInv, AuthInv, [Next]_vars PROVE AuthInv'
  OBVIOUS
<1> USE DEF AuthInv, AuthLockExact, TurnInv, mainVars, gateVars, authVars, workVars, intrVars
<1>0. /\ 0 \notin Calls /\ wpc \in [Calls -> WorkerPcs]
      /\ unserialized \in SUBSET Calls /\ authHolder \in Calls \cup {0}
      /\ nextSubmit \in 1 .. N + 1 /\ N \in Nat /\ Calls = 1 .. N
  BY BatchAssumption DEF TypeInv, TypeOK, Calls
<1>1. CASE Enter
  BY <1>0, <1>1 DEF Enter
<1>2. CASE SkipCall
  BY <1>0, <1>2 DEF SkipCall
<1>3. CASE Submit
  BY <1>0, <1>3 DEF Submit
<1>4. CASE SubmitShutdown
  BY <1>0, <1>4 DEF SubmitShutdown, SkippedFrom
<1>5. CASE SubmitRaises
  BY <1>0, <1>5 DEF SubmitRaises
<1>6. CASE JoinAfterRaise
  BY <1>0, <1>6 DEF JoinAfterRaise
<1>7. CASE Poll
  BY <1>0, <1>7 DEF Poll
<1>8. CASE Decide
  BY <1>0, <1>8 DEF Decide
<1>9. CASE Cancel
  BY <1>0, <1>9 DEF Cancel
<1>10. CASE Abandon
  BY <1>0, <1>10 DEF Abandon
<1>11. CASE Notify
  BY <1>0, <1>11 DEF Notify
<1>12. CASE SnapTids
  BY <1>0, <1>12 DEF SnapTids, Registered
<1>13. CASE FanOut
  BY <1>0, <1>13 DEF FanOut
<1>14. CASE AppendResult
  BY <1>0, <1>14 DEF AppendResult, CommitRow, Unfinished
<1>15. ASSUME NEW i \in Calls, Start(i) PROVE AuthInv'
  BY <1>0, <1>15 DEF Start, Go
<1>16. ASSUME NEW i \in Calls, CheckInterrupt(i) PROVE AuthInv'
  BY <1>0, <1>16 DEF CheckInterrupt, Go
<1>17. ASSUME NEW i \in Calls, EndBeforeDispatch(i) PROVE AuthInv'
  BY <1>0, <1>17 DEF EndBeforeDispatch, Go
<1>18. ASSUME NEW i \in Calls, ScopeBlock(i) PROVE AuthInv'
  BY <1>0, <1>18 DEF ScopeBlock, Go
<1>19. ASSUME NEW i \in Calls, AuthAcquire(i) PROVE AuthInv'
  BY <1>0, <1>19 DEF AuthAcquire, Go
<1>20. ASSUME NEW i \in Calls, AuthTimesOut(i) PROVE AuthInv'
  BY <1>0, <1>20 DEF AuthTimesOut, Go
<1>21. ASSUME NEW i \in Calls, EnterGate(i) PROVE AuthInv'
  BY <1>0, <1>21 DEF EnterGate, Go, PassesWait
<1>22. ASSUME NEW i \in Calls, BlockedAtGate(i) PROVE AuthInv'
  BY <1>0, <1>22 DEF BlockedAtGate, Go, PassesWait, AdvancedPast, Larger
<1>23. ASSUME NEW i \in Calls, BlockedResult(i) PROVE AuthInv'
  BY <1>0, <1>23 DEF BlockedResult, Go
<1>24. ASSUME NEW i \in Calls, LeaveGate(i) PROVE AuthInv'
  BY <1>0, <1>24 DEF LeaveGate
<1>25. ASSUME NEW i \in Calls, StoreResult(i) PROVE AuthInv'
  BY <1>0, <1>25 DEF StoreResult
<1>26. ASSUME NEW i \in Calls, LateAdvance(i) PROVE AuthInv'
  BY <1>0, <1>26 DEF LateAdvance, Go, PassesWait, AdvancedPast, Larger
<1>27. ASSUME NEW i \in Calls, Unregister(i) PROVE AuthInv'
  BY <1>0, <1>27 DEF Unregister, Go
<1>28. ASSUME NEW i \in Calls, ClearBit(i) PROVE AuthInv'
  BY <1>0, <1>28 DEF ClearBit, Go
<1>29. ASSUME NEW i \in Calls, BeginExecution(i) PROVE AuthInv'
  BY <1>0, <1>29 DEF BeginExecution, Go, AdvancedPast, Larger
<1>30. ASSUME NEW i \in Calls, AskHuman(i) PROVE AuthInv'
  BY <1>0, <1>30 DEF AskHuman, Go
<1>31. ASSUME NEW i \in Calls, HooksAnswer(i) PROVE AuthInv'
  BY <1>0, <1>31 DEF HooksAnswer, AuthRelease
<1>32. ASSUME NEW i \in Calls, DiesBeforeGate(i) PROVE AuthInv'
  BY <1>0, <1>32 DEF DiesBeforeGate, AuthRelease
<1>41. ASSUME NEW i \in Calls, GuardrailRaises(i) PROVE AuthInv'
  BY <1>0, <1>41 DEF GuardrailRaises, AuthRelease
<1>33. ASSUME NEW i \in Calls, ToolEnds(i) PROVE AuthInv'
  BY <1>0, <1>33 DEF ToolEnds, Go
<1>34. ASSUME NEW i \in Calls, ToolCancelled(i) PROVE AuthInv'
  BY <1>0, <1>34 DEF ToolCancelled, Go
<1>35. ASSUME NEW i \in Calls, ToolDies(i) PROVE AuthInv'
  BY <1>0, <1>35 DEF ToolDies, Go
<1>36. CASE DeadlineElapses
  BY <1>0, <1>36 DEF DeadlineElapses
<1>37. CASE Interrupt
  BY <1>0, <1>37 DEF Interrupt
<1>38. CASE InterruptSnapshot
  BY <1>0, <1>38 DEF InterruptSnapshot, Registered
<1>39. CASE InterruptFanOut
  BY <1>0, <1>39 DEF InterruptFanOut
<1>40. CASE UNCHANGED vars
  BY <1>40 DEF vars
<1> QED
  BY <1>1, <1>2, <1>3, <1>4, <1>5, <1>6, <1>7, <1>8, <1>9, <1>10, <1>11, <1>12, <1>13, <1>14, <1>15, <1>16, <1>17, <1>18, <1>19, <1>20,
     <1>21, <1>22, <1>23, <1>24, <1>25, <1>26, <1>27, <1>28, <1>29, <1>30, <1>31, <1>32, <1>33, <1>34, <1>35, <1>36, <1>37, <1>38, <1>39, <1>40, <1>41
     DEF Next, Main, WorkerStep, OutsideStep, Finished

\* The authorization lock is exact, for any number of calls and workers.
THEOREM AuthLockExactHolds == Spec => []AuthLockExact
<1>1. AuthInv => AuthLockExact
  BY DEF AuthInv
<1> QED
  BY TypeInit, TypeStep, TurnInit, TurnStep, AuthInit, AuthStep, <1>1, PTL DEF Spec

---------------------------------------------------------------------------
(* Rows that deny an effect.                                                *)

\* How outcomes, results and rows follow each worker.
EffectInv ==
    /\ \A i \in Calls : outcome[i] \in {"none", "blocked", "undispatched", "real"}
    /\ \A i \in Calls :
        outcome[i] # "none" => wpc[i] \in {"writing", "lateAdvance", "exiting", "clearing", "done"}
    /\ \A i \in begun :
        /\ wpc[i] \in {"exec", "writing", "exiting", "clearing", "done"}
        /\ outcome[i] \in {"none", "real"}
    /\ \A i \in Calls : results[i] \in {"blocked", "undispatched", "real"} => outcome[i] = results[i]
    /\ \A i \in Calls : results[i] = "invalid" => i \in parseErr
    /\ \A i \in Calls :
        results[i] = "shutdown" => wpc[i] = "new" /\ mpc \notin {"enter", "skip", "submit"}
    /\ \A i \in Calls : reported[i] \in {"blocked", "invalid", "shutdown"} => results[i] = reported[i]
    /\ \A i \in Calls :
        reported[i] = "skipped" => mpc \in {"skip", "done"} /\ \A j \in Calls : wpc[j] = "new"

\* No row and no beginning exists before the batch starts.
LEMMA EffectInit == Init => EffectInv
  BY DEF Init, EffectInv

\* Every step keeps outcome, stored result and row in agreement with what began.
LEMMA EffectStep == TypeInv /\ TurnInv /\ EffectInv /\ [Next]_vars => EffectInv'
<1> SUFFICES ASSUME TypeInv, TurnInv, EffectInv, [Next]_vars PROVE EffectInv'
  OBVIOUS
<1> USE DEF EffectInv, TurnInv, mainVars, gateVars, authVars, workVars, intrVars
<1>0. /\ wpc \in [Calls -> WorkerPcs]
      /\ outcome \in [Calls -> Outcomes] /\ results \in [Calls -> Outcomes]
      /\ reported \in [Calls -> Reports] /\ begun \in SUBSET Calls
      /\ nextSubmit \in 1 .. N + 1 /\ slot \in 1 .. N + 1 /\ N \in Nat /\ Calls = 1 .. N
      /\ WorkersAreRunnable
  BY BatchAssumption DEF TypeInv, TypeOK, Calls
<1>1. CASE Enter
  BY <1>0, <1>1 DEF Enter
<1>2. CASE SkipCall
  BY <1>0, <1>2 DEF SkipCall
<1>3. CASE Submit
  BY <1>0, <1>3 DEF Submit, WorkersAreRunnable, Runnable
<1>4. CASE SubmitShutdown
  BY <1>0, <1>4 DEF SubmitShutdown, SkippedFrom, Runnable
<1>5. CASE SubmitRaises
  BY <1>0, <1>5 DEF SubmitRaises
<1>6. CASE JoinAfterRaise
  BY <1>0, <1>6 DEF JoinAfterRaise
<1>7. CASE Poll
  BY <1>0, <1>7 DEF Poll
<1>8. CASE Decide
  BY <1>0, <1>8 DEF Decide
<1>9. CASE Cancel
  <2>1. UNCHANGED <<nextSubmit, reported, results, outcome, begun, parseErr>> /\ mpc' \in {"cancel", "abandon"}
    BY <1>9 DEF Cancel
  <2>2. CASE wpc' = wpc
    BY <1>0, <1>9, <2>1, <2>2 DEF Cancel
  <2>3. CASE \E i \in Calls : wpc[i] = "queued" /\ wpc' = [wpc EXCEPT ![i] = "cancelled"]
    BY <1>0, <1>9, <2>1, <2>3 DEF Cancel
  <2> QED
    BY <1>9, <2>2, <2>3 DEF Cancel, TypeInv, TypeOK
<1>10. CASE Abandon
  BY <1>0, <1>10 DEF Abandon
<1>11. CASE Notify
  BY <1>0, <1>11 DEF Notify
<1>12. CASE SnapTids
  BY <1>0, <1>12 DEF SnapTids, Registered
<1>13. CASE FanOut
  BY <1>0, <1>13 DEF FanOut
<1>14. CASE AppendResult
  <2>1. CASE slot > N
    BY <1>0, <1>14, <2>1 DEF AppendResult, CommitRow
  <2>2. CASE ~(slot > N)
    <3>1. slot \in Calls
      BY <1>0, <2>2
    <3>2. Unfinished(slot) \in {"timeout", "cancelled", "missing"}
      BY DEF Unfinished
    <3>3. reported' = [reported EXCEPT ![slot] =
                          IF results[slot] = "none" THEN Unfinished(slot) ELSE results[slot]]
      BY <1>14, <2>2 DEF AppendResult, CommitRow
    <3>4. results[slot] # "skipped"
      BY <1>0, <3>1 DEF Outcomes
    <3>5. \A i \in Calls : reported'[i] \in {"blocked", "invalid", "shutdown"} => results[i] = reported'[i]
      BY <1>0, <3>1, <3>2, <3>3
    <3>6. \A i \in Calls : reported[i] # "skipped"
      BY <1>14 DEF AppendResult, CommitRow
    <3>7. \A i \in Calls : reported'[i] # "skipped"
      BY <1>0, <3>1, <3>2, <3>3, <3>4, <3>6
    <3>8. UNCHANGED <<wpc, outcome, begun, results, parseErr>> /\ mpc' \in {"append", "done"}
      BY <1>14, <2>2 DEF AppendResult, CommitRow
    <3>9. mpc = "append"
      BY <1>14 DEF AppendResult, CommitRow
    <3> QED
      BY <1>0, <3>5, <3>7, <3>8, <3>9
  <2> QED
    BY <2>1, <2>2
<1>15. ASSUME NEW i \in Calls, Start(i) PROVE EffectInv'
  BY <1>0, <1>15 DEF Start, Go
<1>16. ASSUME NEW i \in Calls, CheckInterrupt(i) PROVE EffectInv'
  BY <1>0, <1>16 DEF CheckInterrupt, Go
<1>17. ASSUME NEW i \in Calls, EndBeforeDispatch(i) PROVE EffectInv'
  BY <1>0, <1>17 DEF EndBeforeDispatch, Go
<1>18. ASSUME NEW i \in Calls, ScopeBlock(i) PROVE EffectInv'
  BY <1>0, <1>18 DEF ScopeBlock, Go
<1>19. ASSUME NEW i \in Calls, AuthAcquire(i) PROVE EffectInv'
  BY <1>0, <1>19 DEF AuthAcquire, Go
<1>20. ASSUME NEW i \in Calls, AuthTimesOut(i) PROVE EffectInv'
  BY <1>0, <1>20 DEF AuthTimesOut, Go
<1>21. ASSUME NEW i \in Calls, EnterGate(i) PROVE EffectInv'
  BY <1>0, <1>21 DEF EnterGate, Go, PassesWait
<1>22. ASSUME NEW i \in Calls, BlockedAtGate(i) PROVE EffectInv'
  BY <1>0, <1>22 DEF BlockedAtGate, Go, PassesWait, AdvancedPast, Larger
<1>23. ASSUME NEW i \in Calls, BlockedResult(i) PROVE EffectInv'
  <2>1. /\ wpc[i] = "blocked" /\ wpc' = [wpc EXCEPT ![i] = "writing"]
        /\ outcome' = [outcome EXCEPT ![i] = "blocked"]
        /\ UNCHANGED <<mpc, nextSubmit, reported, results, begun, parseErr>>
    BY <1>23 DEF BlockedResult, Go
  <2>2. i \notin begun /\ outcome[i] = "none" /\ results[i] \notin {"blocked", "undispatched", "real", "shutdown"}
    BY <1>0, <2>1
  <2> QED
    BY <1>0, <2>1, <2>2
<1>24. ASSUME NEW i \in Calls, LeaveGate(i) PROVE EffectInv'
  BY <1>0, <1>24 DEF LeaveGate
<1>25. ASSUME NEW i \in Calls, StoreResult(i) PROVE EffectInv'
  <2>1. /\ wpc[i] = "writing"
        /\ wpc' = [wpc EXCEPT ![i] = IF outcome[i] = "undispatched" THEN "lateAdvance" ELSE "exiting"]
        /\ results' = [results EXCEPT ![i] = outcome[i]]
        /\ UNCHANGED <<mpc, nextSubmit, reported, outcome, begun, parseErr>>
    BY <1>25 DEF StoreResult
  <2>2. i \notin begun \/ outcome[i] # "undispatched"
    BY <1>0
  <2>3. \A j \in Calls : wpc'[j] = "new" <=> wpc[j] = "new"
    BY <1>0, <2>1
  <2>4. reported[i] \in {"blocked", "invalid", "shutdown"} => results[i] = outcome[i]
    BY <1>0, <2>1 DEF WorkersAreRunnable, Runnable
  <2> QED
    BY <1>0, <2>1, <2>2, <2>3, <2>4
<1>26. ASSUME NEW i \in Calls, LateAdvance(i) PROVE EffectInv'
  BY <1>0, <1>26 DEF LateAdvance, Go, PassesWait, AdvancedPast, Larger
<1>27. ASSUME NEW i \in Calls, Unregister(i) PROVE EffectInv'
  BY <1>0, <1>27 DEF Unregister, Go
<1>28. ASSUME NEW i \in Calls, ClearBit(i) PROVE EffectInv'
  BY <1>0, <1>28 DEF ClearBit, Go
<1>29. ASSUME NEW i \in Calls, BeginExecution(i) PROVE EffectInv'
  BY <1>0, <1>29 DEF BeginExecution, Go, AdvancedPast, Larger
<1>30. ASSUME NEW i \in Calls, AskHuman(i) PROVE EffectInv'
  BY <1>0, <1>30 DEF AskHuman, Go
<1>31. ASSUME NEW i \in Calls, HooksAnswer(i) PROVE EffectInv'
  <2>1. /\ wpc[i] \in {"auth", "human"}
        /\ \E to \in {"gateRun", "gateBlock"} : wpc' = [wpc EXCEPT ![i] = to]
        /\ UNCHANGED <<mpc, outcome, reported, results, begun, parseErr>>
    BY <1>31 DEF HooksAnswer
  <2>2. outcome[i] = "none" /\ i \notin begun
    BY <1>0, <2>1
  <2> QED
    BY <1>0, <2>1, <2>2
<1>32. ASSUME NEW i \in Calls, DiesBeforeGate(i) PROVE EffectInv'
  <2>1. /\ wpc[i] \in {"pre", "auth", "human"} /\ wpc' = [wpc EXCEPT ![i] = "lateAdvance"]
        /\ UNCHANGED <<mpc, outcome, reported, results, begun, parseErr>>
    BY <1>32 DEF DiesBeforeGate
  <2>2. outcome[i] = "none" /\ i \notin begun
    BY <1>0, <2>1
  <2> QED
    BY <1>0, <2>1, <2>2
<1>41. ASSUME NEW i \in Calls, GuardrailRaises(i) PROVE EffectInv'
  <2>1. /\ wpc[i] \in {"auth", "human"} /\ wpc' = [wpc EXCEPT ![i] = "writing"]
        /\ outcome' = [outcome EXCEPT ![i] = "undispatched"]
        /\ UNCHANGED <<mpc, reported, results, begun, parseErr>>
    BY <1>41 DEF GuardrailRaises
  <2>2. outcome[i] = "none" /\ i \notin begun /\ results[i] \notin {"blocked", "undispatched", "real", "shutdown"}
    BY <1>0, <2>1
  <2> QED
    BY <1>0, <2>1, <2>2
<1>33. ASSUME NEW i \in Calls, ToolEnds(i) PROVE EffectInv'
  <2>1. /\ wpc[i] = "exec" /\ wpc' = [wpc EXCEPT ![i] = "writing"]
        /\ outcome' = [outcome EXCEPT ![i] = "real"]
        /\ UNCHANGED <<mpc, reported, results, begun, parseErr>>
    BY <1>33 DEF ToolEnds, Go
  <2>2. outcome[i] = "none" /\ results[i] \notin {"blocked", "undispatched", "real", "shutdown"}
    BY <1>0, <2>1
  <2> QED
    BY <1>0, <2>1, <2>2
<1>34. ASSUME NEW i \in Calls, ToolCancelled(i) PROVE EffectInv'
  <2>1. /\ wpc[i] = "exec" /\ wpc' = [wpc EXCEPT ![i] = "writing"]
        /\ outcome' = [outcome EXCEPT ![i] = "real"]
        /\ UNCHANGED <<mpc, nextSubmit, reported, results, begun, parseErr>>
    BY <1>34 DEF ToolCancelled, Go
  <2>2. outcome[i] = "none" /\ results[i] \notin {"blocked", "undispatched", "real", "shutdown"}
    BY <1>0, <2>1
  <2> QED
    BY <1>0, <2>1, <2>2
<1>35. ASSUME NEW i \in Calls, ToolDies(i) PROVE EffectInv'
  BY <1>0, <1>35 DEF ToolDies, Go
<1>36. CASE DeadlineElapses
  BY <1>0, <1>36 DEF DeadlineElapses
<1>37. CASE Interrupt
  BY <1>0, <1>37 DEF Interrupt
<1>38. CASE InterruptSnapshot
  BY <1>0, <1>38 DEF InterruptSnapshot, Registered
<1>39. CASE InterruptFanOut
  BY <1>0, <1>39 DEF InterruptFanOut
<1>40. CASE UNCHANGED vars
  BY <1>40 DEF vars
<1> QED
  BY <1>1, <1>2, <1>3, <1>4, <1>5, <1>6, <1>7, <1>8, <1>9, <1>10, <1>11, <1>12, <1>13, <1>14, <1>15, <1>16, <1>17, <1>18, <1>19, <1>20,
     <1>21, <1>22, <1>23, <1>24, <1>25, <1>26, <1>27, <1>28, <1>29, <1>30, <1>31, <1>32, <1>33, <1>34, <1>35, <1>36, <1>37, <1>38, <1>39, <1>40, <1>41
     DEF Next, Main, WorkerStep, OutsideStep, Finished

\* Once the turn has stopped waiting no tool begins that it has not seen begun: abandon() has
\* shut the gate, or every worker is over.
GivenUpInv == mpc \in {"snapTids", "fanOut", "append", "done"} => begun \subseteq givenUp

\* Nobody has begun before the batch starts.
LEMMA GivenUpInit == Init => GivenUpInv
  BY DEF Init, GivenUpInv

\* Every step keeps it: a begin callback needs the gate's lock and an open gate.
LEMMA GivenUpStep == TypeInv /\ TurnInv /\ EffectInv /\ GivenUpInv /\ [Next]_vars => GivenUpInv'
<1> SUFFICES ASSUME TypeInv, TurnInv, EffectInv, GivenUpInv, [Next]_vars PROVE GivenUpInv'
  OBVIOUS
<1> DEFINE Over == {"snapTids", "fanOut", "append", "done"}
<1>k. ASSUME begun' = begun, givenUp' = givenUp, mpc' \in Over => mpc \in Over PROVE GivenUpInv'
  BY <1>k DEF GivenUpInv
<1>e. ASSUME \A i \in Calls : wpc[i] = "new" PROVE begun = {}
  BY <1>e DEF EffectInv, TypeInv, TypeOK
<1>1. CASE Main
  <2>1. begun' = begun
    BY <1>1 DEF Main, Enter, SkipCall, Submit, SubmitShutdown, SubmitRaises, JoinAfterRaise, Poll,
       Decide, Cancel, Abandon, Notify, SnapTids, FanOut, AppendResult, workVars
  <2>2. CASE Poll
    BY <2>1, <2>2 DEF Poll, GivenUpInv
  <2>3. CASE Notify
    BY <2>1, <2>3 DEF Notify, GivenUpInv
  <2>4. CASE SkipCall
    <3>1. begun = {}
      BY <1>e, <2>4 DEF SkipCall, TurnInv
    <3> QED
      BY <2>1, <3>1 DEF GivenUpInv
  <2>5. CASE Submit
    <3>1. CASE nextSubmit > N /\ Runnable = {}
      <4>1. \A i \in Calls : wpc[i] = "new"
        BY <3>1 DEF TypeInv, WorkersAreRunnable
      <4> QED
        BY <1>e, <2>1, <4>1 DEF GivenUpInv
    <3>2. CASE ~(nextSubmit > N /\ Runnable = {})
      BY <2>1, <2>5, <3>2 DEF Submit, GivenUpInv
    <3> QED
      BY <3>1, <3>2
  <2>6. CASE Enter \/ SubmitShutdown \/ SubmitRaises \/ JoinAfterRaise \/ Decide \/ Cancel \/ Abandon
    BY <2>1, <2>6 DEF Enter, SubmitShutdown, SubmitRaises, JoinAfterRaise, Decide, Cancel, Abandon,
       GivenUpInv
  <2>7. CASE SnapTids \/ FanOut \/ AppendResult
    <3>1. givenUp' = givenUp /\ mpc \in Over
      BY <2>7 DEF SnapTids, FanOut, AppendResult, gateVars
    <3> QED
      BY <1>k, <2>1, <3>1
  <2> QED
    BY <1>1, <2>2, <2>3, <2>4, <2>5, <2>6, <2>7 DEF Main
<1>2. ASSUME NEW i \in Calls, BeginExecution(i) PROVE GivenUpInv'
  <2>1. wpc[i] = "callback" /\ mpc' = mpc
    BY <1>2 DEF BeginExecution, Go, mainVars
  <2>2. mpc \notin Over
    BY <2>1 DEF TurnInv, GateLockFree
  <2> QED
    BY <2>1, <2>2 DEF GivenUpInv
<1>3. ASSUME NEW i \in Calls, WorkerStep(i) PROVE GivenUpInv'
  <2>1. begun' = begun /\ givenUp' = givenUp /\ mpc' = mpc
    BY <1>3 DEF WorkerStep, Start, CheckInterrupt, EndBeforeDispatch, ScopeBlock, AuthAcquire,
       AuthTimesOut, EnterGate, BlockedAtGate, BlockedResult, LeaveGate, StoreResult, LateAdvance,
       Unregister, ClearBit, mainVars, workVars, gateVars
  <2> QED
    BY <1>k, <2>1
<1>4. ASSUME NEW i \in Calls, OutsideStep(i), ~BeginExecution(i) PROVE GivenUpInv'
  <2>1. begun' = begun /\ givenUp' = givenUp /\ mpc' = mpc
    BY <1>4 DEF OutsideStep, AskHuman, HooksAnswer, GuardrailRaises, DiesBeforeGate, ToolEnds,
       ToolCancelled, ToolDies, mainVars, workVars, gateVars
  <2> QED
    BY <1>k, <2>1
<1>5. CASE DeadlineElapses \/ Interrupt \/ InterruptSnapshot \/ InterruptFanOut \/ UNCHANGED vars
  <2>1. begun' = begun /\ givenUp' = givenUp /\ mpc' = mpc
    BY <1>5 DEF DeadlineElapses, Interrupt, InterruptSnapshot, InterruptFanOut, vars, mainVars,
       workVars, gateVars
  <2> QED
    BY <1>k, <2>1
<1> QED
  BY <1>1, <1>2, <1>3, <1>4, <1>5 DEF Next, Finished

\* A row that denies an effect is not the row of a tool that began, save the "cancelled" row of a
\* tool the turn had seen begin before it stopped waiting, for any number of calls and workers.
THEOREM NoEffectRowsHold == Spec => []NoEffectRowsAreTrue
<1>1. TypeInv /\ TurnInv /\ EffectInv /\ GivenUpInv => NoEffectRowsAreTrue
  <2> SUFFICES ASSUME TypeInv, TurnInv, EffectInv, GivenUpInv, NEW i \in begun
               PROVE  /\ reported[i] \notin {"blocked", "invalid", "shutdown", "skipped"}
                      /\ reported[i] = "cancelled" => i \in givenUp
    BY DEF NoEffectRowsAreTrue
  <2>1. reported[i] \notin {"blocked", "invalid", "shutdown", "skipped"}
    BY DEF EffectInv, TypeInv, TypeOK, WorkersAreRunnable, Runnable
  <2>2. ASSUME reported[i] = "cancelled" PROVE i \in givenUp
    <3>1. i \in Calls /\ wpc[i] # "new"
      BY DEF EffectInv, TypeInv, TypeOK
    <3>2. mpc \in {"append", "done"}
      BY <2>2, <3>1 DEF TurnInv
    <3> QED
      BY <3>2 DEF GivenUpInv
  <2> QED
    BY <2>1, <2>2
<1> QED
  BY TypeInit, TypeStep, TurnInit, TurnStep, EffectInit, EffectStep, GivenUpInit, GivenUpStep, <1>1,
     PTL DEF Spec

---------------------------------------------------------------------------
(* The interrupt reaches every worker.                                      *)

\* While agent.interrupt() is in its fan-out, a worker past its registration check has its
\* bit or is in the copied list: it registered before the copy, or saw the flag, which is set
\* before the copy, in its check.
InterruptInv ==
    /\ ipc # "idle" => flag
    /\ ipc = "fan" => \A i \in Registered : wpc[i] # "starting" => i \in bits \cup ifan
    /\ InterruptReachesWorkers

\* No interrupt is on its way and no worker is registered before the batch starts.
LEMMA InterruptInit == Init => InterruptInv
  BY DEF Init, InterruptInv, InterruptReachesWorkers

\* Every step keeps it: the fan-out moves workers from the copied list to the bits, and a
\* worker gives up its bit only after it left the registry.
LEMMA InterruptStep == TypeInv /\ InterruptInv /\ [Next]_vars => InterruptInv'
<1> SUFFICES ASSUME TypeInv, InterruptInv, [Next]_vars PROVE InterruptInv'
  OBVIOUS
<1> USE DEF InterruptInv, InterruptReachesWorkers, Registered,
            mainVars, gateVars, authVars, workVars, intrVars
<1>0. /\ wpc \in [Calls -> WorkerPcs] /\ bits \in SUBSET Calls /\ ifan \in SUBSET Calls
      /\ ipc \in {"idle", "snap", "fan", "done"}
      /\ nextSubmit \in 1 .. N + 1 /\ N \in Nat /\ Calls = 1 .. N
  BY BatchAssumption DEF TypeInv, TypeOK, Calls
<1>1. CASE Enter
  BY <1>0, <1>1 DEF Enter
<1>2. CASE SkipCall
  BY <1>0, <1>2 DEF SkipCall
<1>3. CASE Submit
  BY <1>0, <1>3 DEF Submit
<1>4. CASE SubmitShutdown
  BY <1>0, <1>4 DEF SubmitShutdown, SkippedFrom
<1>5. CASE SubmitRaises
  BY <1>0, <1>5 DEF SubmitRaises
<1>6. CASE JoinAfterRaise
  BY <1>0, <1>6 DEF JoinAfterRaise
<1>7. CASE Poll
  BY <1>0, <1>7 DEF Poll
<1>8. CASE Decide
  BY <1>0, <1>8 DEF Decide
<1>9. CASE Cancel
  BY <1>0, <1>9 DEF Cancel
<1>10. CASE Abandon
  BY <1>0, <1>10 DEF Abandon
<1>11. CASE Notify
  BY <1>0, <1>11 DEF Notify
<1>12. CASE SnapTids
  BY <1>0, <1>12 DEF SnapTids
<1>13. CASE FanOut
  BY <1>0, <1>13 DEF FanOut
<1>14. CASE AppendResult
  BY <1>0, <1>14 DEF AppendResult, CommitRow
<1>15. ASSUME NEW i \in Calls, Start(i) PROVE InterruptInv'
  BY <1>0, <1>15 DEF Start, Go
<1>16. ASSUME NEW i \in Calls, CheckInterrupt(i) PROVE InterruptInv'
  BY <1>0, <1>16 DEF CheckInterrupt, Go
<1>17. ASSUME NEW i \in Calls, EndBeforeDispatch(i) PROVE InterruptInv'
  BY <1>0, <1>17 DEF EndBeforeDispatch, Go
<1>18. ASSUME NEW i \in Calls, ScopeBlock(i) PROVE InterruptInv'
  BY <1>0, <1>18 DEF ScopeBlock, Go
<1>19. ASSUME NEW i \in Calls, AuthAcquire(i) PROVE InterruptInv'
  BY <1>0, <1>19 DEF AuthAcquire, Go
<1>20. ASSUME NEW i \in Calls, AuthTimesOut(i) PROVE InterruptInv'
  BY <1>0, <1>20 DEF AuthTimesOut, Go
<1>21. ASSUME NEW i \in Calls, EnterGate(i) PROVE InterruptInv'
  BY <1>0, <1>21 DEF EnterGate, Go, PassesWait
<1>22. ASSUME NEW i \in Calls, BlockedAtGate(i) PROVE InterruptInv'
  BY <1>0, <1>22 DEF BlockedAtGate, Go, PassesWait
<1>23. ASSUME NEW i \in Calls, BlockedResult(i) PROVE InterruptInv'
  BY <1>0, <1>23 DEF BlockedResult, Go
<1>24. ASSUME NEW i \in Calls, LeaveGate(i) PROVE InterruptInv'
  BY <1>0, <1>24 DEF LeaveGate
<1>25. ASSUME NEW i \in Calls, StoreResult(i) PROVE InterruptInv'
  BY <1>0, <1>25 DEF StoreResult
<1>26. ASSUME NEW i \in Calls, LateAdvance(i) PROVE InterruptInv'
  BY <1>0, <1>26 DEF LateAdvance, Go, PassesWait
<1>27. ASSUME NEW i \in Calls, Unregister(i) PROVE InterruptInv'
  BY <1>0, <1>27 DEF Unregister, Go
<1>28. ASSUME NEW i \in Calls, ClearBit(i) PROVE InterruptInv'
  BY <1>0, <1>28 DEF ClearBit, Go
<1>29. ASSUME NEW i \in Calls, BeginExecution(i) PROVE InterruptInv'
  BY <1>0, <1>29 DEF BeginExecution, Go
<1>30. ASSUME NEW i \in Calls, AskHuman(i) PROVE InterruptInv'
  BY <1>0, <1>30 DEF AskHuman, Go
<1>31. ASSUME NEW i \in Calls, HooksAnswer(i) PROVE InterruptInv'
  BY <1>0, <1>31 DEF HooksAnswer
<1>32. ASSUME NEW i \in Calls, DiesBeforeGate(i) PROVE InterruptInv'
  BY <1>0, <1>32 DEF DiesBeforeGate
<1>41. ASSUME NEW i \in Calls, GuardrailRaises(i) PROVE InterruptInv'
  BY <1>0, <1>41 DEF GuardrailRaises
<1>33. ASSUME NEW i \in Calls, ToolEnds(i) PROVE InterruptInv'
  BY <1>0, <1>33 DEF ToolEnds, Go
<1>34. ASSUME NEW i \in Calls, ToolCancelled(i) PROVE InterruptInv'
  BY <1>0, <1>34 DEF ToolCancelled, Go
<1>35. ASSUME NEW i \in Calls, ToolDies(i) PROVE InterruptInv'
  BY <1>0, <1>35 DEF ToolDies, Go
<1>36. CASE DeadlineElapses
  BY <1>0, <1>36 DEF DeadlineElapses
<1>37. CASE Interrupt
  BY <1>0, <1>37 DEF Interrupt
<1>38. CASE InterruptSnapshot
  BY <1>0, <1>38 DEF InterruptSnapshot
<1>39. CASE InterruptFanOut
  BY <1>0, <1>39 DEF InterruptFanOut
<1>40. CASE UNCHANGED vars
  BY <1>40 DEF vars
<1> QED
  BY <1>1, <1>2, <1>3, <1>4, <1>5, <1>6, <1>7, <1>8, <1>9, <1>10, <1>11, <1>12, <1>13, <1>14, <1>15, <1>16, <1>17, <1>18, <1>19, <1>20,
     <1>21, <1>22, <1>23, <1>24, <1>25, <1>26, <1>27, <1>28, <1>29, <1>30, <1>31, <1>32, <1>33, <1>34, <1>35, <1>36, <1>37, <1>38, <1>39, <1>40, <1>41
     DEF Next, Main, WorkerStep, OutsideStep, Finished

\* Once agent.interrupt() has returned, no worker runs on without its interrupt bit, for any
\* number of calls and workers.
THEOREM InterruptReachesWorkersHolds == Spec => []InterruptReachesWorkers
<1>1. InterruptInv => InterruptReachesWorkers
  BY DEF InterruptInv
<1> QED
  BY TypeInit, TypeStep, InterruptInit, InterruptStep, <1>1, PTL DEF Spec

---------------------------------------------------------------------------
(* One hook per row.                                                        *)

\* The rows the turn's thread writes on its own, with the hook it emits for them.
Synthesized == {"skipped", "invalid", "timeout", "cancelled", "missing"}

\* The hooks emitted for a call: its worker's, with its outcome, and the turn's, with its row.
HooksOf(i) ==
    (IF outcome[i] # "none" THEN 1 ELSE 0) + (IF reported[i] \in Synthesized THEN 1 ELSE 0)

\* Worker and turn emit one hook each at most, and in a batch that was not abandoned the turn
\* writes a row of its own only for a call whose worker emitted none: the workers are over
\* when the rows are written, and a worker that is over stored the outcome it has.
PostsInv ==
    /\ \A i \in Calls : posts[i] = HooksOf(i)
    /\ \A i \in Calls : i >= slot => reported[i] = "none"
    /\ \A i \in Calls :
        wpc[i] \in {"lateAdvance", "exiting", "clearing", "done"} /\ outcome[i] # "none"
            => results[i] = outcome[i]
    /\ mpc \in {"append", "done"} /\ ~abandoned =>
        \A i \in Calls : wpc[i] \in {"new", "done", "cancelled"}
    /\ ~abandoned =>
        \A i \in Calls : reported[i] \in {"timeout", "cancelled", "missing"} => outcome[i] = "none"
    /\ \A i \in Calls : reported[i] \in {"undispatched", "real"} => results[i] = reported[i]

\* No hook, row or outcome exists before the batch starts.
LEMMA PostsInit == Init => PostsInv
  BY DEF Init, PostsInv, HooksOf, Synthesized

\* A worker's hook comes with its outcome, and no row of the turn's own is there yet.
LEMMA WorkerHook ==
    ASSUME TypeInv, TurnInv, EffectInv, PostsInv, NEW i \in Calls,
           wpc[i] \in {"pre", "auth", "human", "blocked", "exec"},
           NEW what \in {"blocked", "undispatched", "real"},
           wpc' = [wpc EXCEPT ![i] = "writing"],
           outcome' = [outcome EXCEPT ![i] = what],
           posts' = [posts EXCEPT ![i] = @ + 1],
           UNCHANGED <<mpc, slot, reported, results, abandoned>>
    PROVE  PostsInv'
<1>1. /\ wpc \in [Calls -> WorkerPcs] /\ posts \in [Calls -> Nat]
      /\ outcome \in [Calls -> Outcomes] /\ results \in [Calls -> Outcomes]
  BY DEF TypeInv, TypeOK
<1>2. outcome[i] = "none"
  BY DEF EffectInv
<1>3. ~(mpc \in {"append", "done"} /\ ~abandoned)
  BY DEF PostsInv
<1>4. reported[i] \notin {"undispatched", "real"}
  BY <1>2 DEF PostsInv, EffectInv
<1>5. ~abandoned => reported[i] \notin {"timeout", "cancelled", "missing"}
  <2>1. reported[i] \in {"timeout", "cancelled", "missing"} => mpc \in {"append", "done", "skip"}
    BY DEF TurnInv
  <2>2. mpc = "skip" => FALSE
    BY DEF TurnInv
  <2> QED
    BY <1>3, <2>1, <2>2
<1>6. \A j \in Calls : posts'[j] = HooksOf(j)'
  BY <1>1, <1>2 DEF PostsInv, HooksOf
<1> QED
  BY <1>1, <1>2, <1>3, <1>4, <1>5, <1>6 DEF PostsInv

\* Every step that emits a hook stores an outcome or writes a row of the turn's own.
LEMMA PostsStep == TypeInv /\ TurnInv /\ EffectInv /\ PostsInv /\ [Next]_vars => PostsInv'
<1> SUFFICES ASSUME TypeInv, TurnInv, EffectInv, PostsInv, [Next]_vars PROVE PostsInv'
  OBVIOUS
<1> USE DEF PostsInv, mainVars, gateVars, authVars, workVars, intrVars
<1>0. /\ wpc \in [Calls -> WorkerPcs] /\ posts \in [Calls -> Nat]
      /\ outcome \in [Calls -> Outcomes] /\ results \in [Calls -> Outcomes]
      /\ reported \in [Calls -> Reports]
      /\ nextSubmit \in 1 .. N + 1 /\ slot \in 1 .. N + 1 /\ N \in Nat /\ Calls = 1 .. N
      /\ WorkersAreRunnable
  BY BatchAssumption DEF TypeInv, TypeOK, Calls
<1>e. \A i \in Calls :
         outcome[i] # "none" => wpc[i] \in {"writing", "lateAdvance", "exiting", "clearing", "done"}
  BY DEF EffectInv
<1>m. /\ mpc \in {"enter", "skip"} => \A i \in Calls : wpc[i] = "new"
      /\ mpc \in {"notify", "snapTids", "fanOut"} => abandoned
      /\ \A i \in Calls : reported[i] # "none" => mpc \in {"skip", "append", "done"}
  BY DEF TurnInv
<1>h. UNCHANGED <<outcome, reported, posts>> => \A i \in Calls : posts'[i] = HooksOf(i)'
  BY DEF HooksOf
<1>1. CASE Enter
  BY <1>0, <1>m, <1>h, <1>1 DEF Enter
<1>2. CASE SkipCall
  <2>1. CASE slot > N
    BY <1>0, <1>m, <1>h, <1>2, <2>1 DEF SkipCall
  <2>2. CASE ~(slot > N)
    <3>1. /\ mpc = "skip" /\ reported' = [reported EXCEPT ![slot] = "skipped"]
          /\ posts' = [posts EXCEPT ![slot] = @ + 1]
          /\ UNCHANGED <<mpc, wpc, outcome, results, abandoned>>
      BY <1>2, <2>2 DEF SkipCall
    <3>4. slot' = slot + 1
      BY <1>2, <2>2 DEF SkipCall
    <3>2. slot \in Calls /\ reported[slot] = "none" /\ outcome[slot] = "none"
      <4>1. slot \in Calls
        BY <1>0, <2>2
      <4>2. wpc[slot] = "new"
        BY <1>m, <3>1, <4>1
      <4>3. outcome[slot] = "none"
        BY <1>e, <4>1, <4>2
      <4>4. reported[slot] = "none"
        BY <1>0, <4>1 DEF PostsInv
      <4> QED
        BY <4>1, <4>3, <4>4
    <3>3. \A j \in Calls : posts'[j] = HooksOf(j)'
      BY <1>0, <3>1, <3>2 DEF HooksOf, Synthesized
    <3> QED
      BY <1>0, <3>1, <3>2, <3>3, <3>4
  <2> QED
    BY <2>1, <2>2
<1>3. CASE Submit
  <2>1. CASE nextSubmit > N /\ Runnable = {}
    BY <1>0, <1>m, <1>h, <1>3, <2>1 DEF Submit, WorkersAreRunnable
  <2>2. CASE nextSubmit > N /\ Runnable # {}
    BY <1>0, <1>m, <1>h, <1>3, <2>2 DEF Submit
  <2>3. CASE ~(nextSubmit > N)
    BY <1>0, <1>m, <1>h, <1>3, <2>3 DEF Submit
  <2> QED
    BY <2>1, <2>2, <2>3
<1>4. CASE SubmitShutdown
  BY <1>0, <1>h, <1>4 DEF SubmitShutdown, SkippedFrom
<1>5. CASE SubmitRaises
  BY <1>0, <1>h, <1>5 DEF SubmitRaises
<1>6. CASE JoinAfterRaise
  BY <1>0, <1>h, <1>6 DEF JoinAfterRaise
<1>7. CASE Poll
  BY <1>0, <1>h, <1>7 DEF Poll, Submitted, FutureDone
<1>8. CASE Decide
  BY <1>0, <1>h, <1>8 DEF Decide
<1>9. CASE Cancel
  BY <1>0, <1>m, <1>h, <1>9 DEF Cancel
<1>10. CASE Abandon
  BY <1>0, <1>h, <1>10 DEF Abandon
<1>11. CASE Notify
  BY <1>0, <1>m, <1>h, <1>11 DEF Notify
<1>12. CASE SnapTids
  BY <1>0, <1>h, <1>12 DEF SnapTids
<1>13. CASE FanOut
  BY <1>0, <1>m, <1>h, <1>13 DEF FanOut
<1>14. CASE AppendResult
  <2>1. CASE slot > N
    BY <1>0, <1>h, <1>14, <2>1 DEF AppendResult
  <2>2. CASE ~(slot > N)
    <3>1. /\ mpc = "append" /\ mpc' \in {"append", "done"} /\ slot' = slot + 1
          /\ reported' = [reported EXCEPT ![slot] =
                             IF results[slot] = "none" THEN Unfinished(slot) ELSE results[slot]]
          /\ posts' = IF results[slot] \in {"none", "invalid"}
                      THEN [posts EXCEPT ![slot] = @ + 1] ELSE posts
          /\ UNCHANGED <<wpc, outcome, results, abandoned, parseErr>>
      BY <1>0, <1>h, <1>14, <2>2 DEF AppendResult, CommitRow
    <3>7. slot \in Calls /\ reported[slot] = "none"
      BY <1>0, <2>2
    <3>2. Unfinished(slot) \in {"timeout", "cancelled", "missing"}
      BY DEF Unfinished
    <3>3. results[slot] \in {"none", "invalid", "shutdown", "blocked", "undispatched", "real"}
      BY <1>0, <3>7 DEF Outcomes
    <3>4. CASE results[slot] = "none"
      <4>1. ~abandoned => outcome[slot] = "none"
        BY <1>0, <1>e, <3>1, <3>4, <3>7
      <4>2. reported' = [reported EXCEPT ![slot] = Unfinished(slot)]
        BY <3>1, <3>4
      <4>3. \A j \in Calls : posts'[j] = HooksOf(j)'
        BY <1>0, <3>1, <3>2, <3>4, <3>7, <4>2 DEF HooksOf, Synthesized
      <4> QED
        BY <1>0, <3>1, <3>2, <3>7, <4>1, <4>2, <4>3
    <3>5. CASE results[slot] = "invalid"
      <4>1. \A j \in Calls : posts'[j] = HooksOf(j)'
        BY <1>0, <3>1, <3>5, <3>7 DEF HooksOf, Synthesized
      <4> QED
        BY <1>0, <3>1, <3>5, <3>7, <4>1
    <3>6. CASE results[slot] \notin {"none", "invalid"}
      <4>1. \A j \in Calls : posts'[j] = HooksOf(j)'
        BY <1>0, <3>1, <3>3, <3>6, <3>7 DEF HooksOf, Synthesized
      <4> QED
        BY <1>0, <3>1, <3>3, <3>6, <3>7, <4>1
    <3> QED
      BY <3>4, <3>5, <3>6
  <2> QED
    BY <2>1, <2>2
<1>15. ASSUME NEW i \in Calls, Start(i) PROVE PostsInv'
  BY <1>0, <1>h, <1>15 DEF Start, Go
<1>16. ASSUME NEW i \in Calls, CheckInterrupt(i) PROVE PostsInv'
  BY <1>0, <1>h, <1>16 DEF CheckInterrupt, Go
<1>17. ASSUME NEW i \in Calls, EndBeforeDispatch(i) PROVE PostsInv'
  BY <1>17, WorkerHook DEF EndBeforeDispatch, Go
<1>18. ASSUME NEW i \in Calls, ScopeBlock(i) PROVE PostsInv'
  BY <1>0, <1>h, <1>18 DEF ScopeBlock, Go
<1>19. ASSUME NEW i \in Calls, AuthAcquire(i) PROVE PostsInv'
  BY <1>0, <1>h, <1>19 DEF AuthAcquire, Go
<1>20. ASSUME NEW i \in Calls, AuthTimesOut(i) PROVE PostsInv'
  BY <1>0, <1>h, <1>20 DEF AuthTimesOut, Go
<1>21. ASSUME NEW i \in Calls, EnterGate(i) PROVE PostsInv'
  BY <1>0, <1>h, <1>21 DEF EnterGate, Go, PassesWait
<1>22. ASSUME NEW i \in Calls, BlockedAtGate(i) PROVE PostsInv'
  BY <1>0, <1>h, <1>22 DEF BlockedAtGate, Go, PassesWait
<1>23. ASSUME NEW i \in Calls, BlockedResult(i) PROVE PostsInv'
  BY <1>23, WorkerHook DEF BlockedResult, Go
<1>24. ASSUME NEW i \in Calls, LeaveGate(i) PROVE PostsInv'
  BY <1>0, <1>e, <1>h, <1>24 DEF LeaveGate
<1>25. ASSUME NEW i \in Calls, StoreResult(i) PROVE PostsInv'
  <2>1. /\ wpc[i] = "writing" /\ results' = [results EXCEPT ![i] = outcome[i]]
        /\ wpc' = [wpc EXCEPT ![i] = IF outcome[i] = "undispatched" THEN "lateAdvance" ELSE "exiting"]
        /\ UNCHANGED <<mpc, slot, reported, outcome, posts, abandoned>>
    BY <1>0, <1>e, <1>h, <1>25 DEF StoreResult
  <2>2. reported[i] \in {"undispatched", "real"} => outcome[i] = reported[i]
    BY <1>0 DEF EffectInv
  <2> QED
    BY <1>0, <1>e, <1>m, <1>h, <2>1, <2>2
<1>26. ASSUME NEW i \in Calls, LateAdvance(i) PROVE PostsInv'
  BY <1>0, <1>e, <1>h, <1>26 DEF LateAdvance, Go, PassesWait
<1>27. ASSUME NEW i \in Calls, Unregister(i) PROVE PostsInv'
  BY <1>0, <1>e, <1>h, <1>27 DEF Unregister, Go
<1>28. ASSUME NEW i \in Calls, ClearBit(i) PROVE PostsInv'
  BY <1>0, <1>e, <1>h, <1>28 DEF ClearBit, Go
<1>29. ASSUME NEW i \in Calls, BeginExecution(i) PROVE PostsInv'
  BY <1>0, <1>h, <1>29 DEF BeginExecution, Go
<1>30. ASSUME NEW i \in Calls, AskHuman(i) PROVE PostsInv'
  BY <1>0, <1>h, <1>30 DEF AskHuman, Go
<1>31. ASSUME NEW i \in Calls, HooksAnswer(i) PROVE PostsInv'
  BY <1>0, <1>h, <1>31 DEF HooksAnswer
<1>32. ASSUME NEW i \in Calls, DiesBeforeGate(i) PROVE PostsInv'
  BY <1>0, <1>e, <1>h, <1>32 DEF DiesBeforeGate
<1>41. ASSUME NEW i \in Calls, GuardrailRaises(i) PROVE PostsInv'
  BY <1>41, WorkerHook DEF GuardrailRaises
<1>33. ASSUME NEW i \in Calls, ToolEnds(i) PROVE PostsInv'
  BY <1>33, WorkerHook DEF ToolEnds, Go
<1>34. ASSUME NEW i \in Calls, ToolCancelled(i) PROVE PostsInv'
  BY <1>34, WorkerHook DEF ToolCancelled, Go
<1>35. ASSUME NEW i \in Calls, ToolDies(i) PROVE PostsInv'
  BY <1>0, <1>e, <1>h, <1>35 DEF ToolDies, Go
<1>36. CASE DeadlineElapses
  BY <1>0, <1>h, <1>36 DEF DeadlineElapses
<1>37. CASE Interrupt
  BY <1>0, <1>h, <1>37 DEF Interrupt
<1>38. CASE InterruptSnapshot
  BY <1>0, <1>h, <1>38 DEF InterruptSnapshot
<1>39. CASE InterruptFanOut
  BY <1>0, <1>h, <1>39 DEF InterruptFanOut
<1>40. CASE UNCHANGED vars
  BY <1>h, <1>40 DEF vars
<1> QED
  BY <1>1, <1>2, <1>3, <1>4, <1>5, <1>6, <1>7, <1>8, <1>9, <1>10, <1>11, <1>12, <1>13, <1>14, <1>15, <1>16, <1>17, <1>18, <1>19, <1>20,
     <1>21, <1>22, <1>23, <1>24, <1>25, <1>26, <1>27, <1>28, <1>29, <1>30, <1>31, <1>32, <1>33, <1>34, <1>35, <1>36, <1>37, <1>38, <1>39, <1>40, <1>41
     DEF Next, Main, WorkerStep, OutsideStep, Finished

\* In a batch that was not abandoned every row has its one terminal hook, save the rows of
\* the calls the shutdown left unsubmitted, for any number of calls and workers.
THEOREM PostsMatchRowsHold == Spec => []PostsMatchRows
<1>1. TypeInv /\ EffectInv /\ PostsInv => PostsMatchRows
  <2> SUFFICES ASSUME TypeInv, EffectInv, PostsInv, ~abandoned, NEW i \in Calls, reported[i] # "none"
               PROVE  posts[i] = IF reported[i] = "shutdown" THEN 0 ELSE 1
    BY DEF PostsMatchRows
  <2>1. /\ reported[i] \in {"invalid", "shutdown", "blocked", "undispatched", "real", "skipped",
                            "timeout", "cancelled", "missing"}
        /\ posts[i] = HooksOf(i)
    BY DEF TypeInv, TypeOK, Reports, Outcomes, PostsInv
  <2>2. reported[i] \in {"blocked", "undispatched", "real"} => outcome[i] = reported[i]
    BY DEF EffectInv, PostsInv
  <2>3. reported[i] \in {"shutdown", "skipped"} => outcome[i] = "none"
    BY DEF EffectInv
  <2>4. reported[i] = "invalid" => outcome[i] = "none"
    BY DEF EffectInv, TypeInv, WorkersAreRunnable, Runnable
  <2>5. reported[i] \in {"timeout", "cancelled", "missing"} => outcome[i] = "none"
    BY DEF PostsInv
  <2> QED
    BY <2>1, <2>2, <2>3, <2>4, <2>5 DEF HooksOf, Synthesized
<1> QED
  BY TypeInit, TypeStep, TurnInit, TurnStep, EffectInit, EffectStep, PostsInit, PostsStep, <1>1,
     PTL DEF Spec

---------------------------------------------------------------------------
(* The start order.                                                         *)

\* The call left the gate: it moved it past its order, or its worker is leaving for good.
Passed(i) == Advanced(i) \/ wpc[i] \in {"exiting", "clearing", "done"}

\* The gate stands past every call that moved it; while no wait timed out it stands past no
\* other call than those that left, and whoever is in its begin callback was let in by it.
GateInv ==
    /\ \A i \in Runnable : Advanced(i) => Order(i) < nextOrder
    /\ ~gateExpired => \A i \in Runnable : Order(i) < nextOrder => Passed(i)
    /\ ~gateExpired => \A i \in Runnable : wpc[i] = "callback" => InOrder(i)

\* No order is below the first one.
LEMMA GateInit == Init => GateInv
<1> SUFFICES ASSUME Init PROVE GateInv
  OBVIOUS
<1>1. \A i \in Runnable : i \in Calls /\ Order(i) \in Nat
  BY OrderBound DEF Init, Runnable
<1> QED
  BY <1>1 DEF Init, GateInv, Advanced

\* A step that leaves the gate alone and moves no call into or out of it keeps the invariant.
LEMMA GateKept ==
    ASSUME TypeInv, GateInv, UNCHANGED <<parseErr, nextOrder, gateExpired>>,
           \A i \in Calls : Advanced(i)' <=> Advanced(i),
           \A i \in Calls : Passed(i) => Passed(i)',
           \A i \in Calls : wpc'[i] = "callback" => wpc[i] = "callback"
    PROVE  GateInv'
<1>1. Runnable' = Runnable /\ Runnable \subseteq Calls
  BY DEF Runnable
<1>2. \A i : Order(i)' = Order(i)
  BY <1>1 DEF Order
<1>3. \A i : InOrder(i)' <=> InOrder(i)
  BY <1>2 DEF InOrder
<1> QED
  BY <1>1, <1>2, <1>3 DEF GateInv

\* A call that gets past its wait moves the gate past its order, and leaves it or stays marked.
LEMMA GateMoves ==
    ASSUME TypeInv, GateInv, NEW i \in Runnable,
           ~gateExpired' => ~gateExpired /\ InOrder(i),
           nextOrder' = AdvancedPast(i), parseErr' = parseErr,
           \A j \in Calls \ {i} : Advanced(j)' <=> Advanced(j),
           \A j \in Calls \ {i} : Passed(j) => Passed(j)',
           Passed(i)',
           \A j \in Calls : wpc'[j] = "callback" => wpc[j] = "callback"
    PROVE  GateInv'
<1>1. Runnable' = Runnable /\ Runnable \subseteq Calls /\ parseErr \in SUBSET Calls
  BY DEF Runnable, TypeInv, TypeOK
<1>2. \A j : Order(j)' = Order(j)
  BY <1>1 DEF Order
<1>3. \A j \in Runnable : Order(j) \in Nat
  BY <1>1, OrderBound
<1>4. nextOrder \in Nat
  BY <1>1, OrderBound DEF TypeInv, TypeOK
<1>5. nextOrder' >= nextOrder /\ nextOrder' >= Order(i) + 1 /\ nextOrder' \in Nat
      /\ (nextOrder' = nextOrder \/ nextOrder' = Order(i) + 1)
  BY <1>3, <1>4 DEF AdvancedPast, Larger
<1>6. ASSUME NEW j \in Runnable, Advanced(j)' PROVE Order(j) < nextOrder'
  <2>1. CASE j = i
    BY <1>3, <1>5, <2>1
  <2>2. CASE j # i
    <3>1. Order(j) < nextOrder
      BY <1>1, <1>6, <2>2 DEF GateInv
    <3> QED
      BY <1>3, <1>4, <1>5, <3>1
  <2> QED
    BY <2>1, <2>2
<1>7. ASSUME ~gateExpired', NEW j \in Runnable, Order(j) < nextOrder' PROVE Passed(j)'
  <2>1. ~gateExpired /\ nextOrder >= Order(i)
    BY <1>7 DEF InOrder
  <2>2. CASE Order(j) < nextOrder
    BY <1>1, <2>1, <2>2 DEF GateInv
  <2>3. CASE ~(Order(j) < nextOrder)
    <3>1. Order(j) = Order(i)
      BY <1>3, <1>4, <1>5, <1>7, <2>1, <2>3
    <3>2. j = i
      BY <1>1, <3>1, OrderInjective
    <3> QED
      BY <3>2
  <2> QED
    BY <2>2, <2>3
<1>8. ASSUME ~gateExpired', NEW j \in Runnable, wpc'[j] = "callback" PROVE InOrder(j)'
  <2>1. nextOrder >= Order(j)
    BY <1>1, <1>8 DEF GateInv, InOrder
  <2>2. nextOrder' >= Order(j)
    BY <1>3, <1>4, <1>5, <2>1
  <2> QED
    BY <1>2, <2>2 DEF InOrder
<1> QED
  BY <1>1, <1>2, <1>6, <1>7, <1>8 DEF GateInv

\* Every step keeps the gate in order.
LEMMA GateStep == TypeInv /\ TurnInv /\ EffectInv /\ GateInv /\ [Next]_vars => GateInv'
<1> SUFFICES ASSUME TypeInv, TurnInv, EffectInv, GateInv, [Next]_vars PROVE GateInv'
  OBVIOUS
<1> USE DEF mainVars, gateVars, authVars, workVars, intrVars
<1>0. /\ wpc \in [Calls -> WorkerPcs] /\ outcome \in [Calls -> Outcomes]
      /\ begun \in SUBSET Calls /\ nextSubmit \in 1 .. N + 1 /\ N \in Nat /\ Calls = 1 .. N
      /\ snapshot \in SUBSET Calls
      /\ WorkersAreRunnable
  BY BatchAssumption DEF TypeInv, TypeOK, Calls
<1>e. \A i \in Calls :
         outcome[i] # "none" => wpc[i] \in {"writing", "lateAdvance", "exiting", "clearing", "done"}
  BY DEF EffectInv
<1>b. \A i \in begun : wpc[i] \in {"exec", "writing", "exiting", "clearing", "done"}
  BY DEF EffectInv
<1>n. UNCHANGED <<wpc, outcome, begun, parseErr, nextOrder, gateExpired>> => GateInv'
  <2> SUFFICES ASSUME UNCHANGED <<wpc, outcome, begun, parseErr, nextOrder, gateExpired>> PROVE GateInv'
    OBVIOUS
  <2>1. \A i \in Calls : (Advanced(i)' <=> Advanced(i)) /\ (Passed(i) => Passed(i)')
    BY DEF Advanced, Passed
  <2> QED
    BY <2>1, GateKept
<1>1. CASE Enter
  BY <1>n, <1>1 DEF Enter
<1>2. CASE SkipCall
  BY <1>n, <1>2 DEF SkipCall
<1>3. CASE Submit
  <2>1. mpc = "submit" /\ UNCHANGED <<outcome, begun, parseErr, nextOrder, gateExpired>>
    BY <1>3 DEF Submit
  <2>2. wpc' = wpc \/ (wpc[nextSubmit] = "new" /\ nextSubmit \in Calls /\ wpc' = [wpc EXCEPT ![nextSubmit] = "queued"])
    BY <1>0, <1>3 DEF Submit, TurnInv
  <2>3. \A j \in Calls : /\ (Advanced(j)' <=> Advanced(j)) /\ (Passed(j) => Passed(j)')
                         /\ (wpc'[j] = "callback" => wpc[j] = "callback")
    BY <1>0, <2>1, <2>2 DEF Advanced, Passed
  <2> QED
    BY <2>1, <2>3, GateKept
<1>4. CASE SubmitShutdown
  BY <1>n, <1>4 DEF SubmitShutdown
<1>5. CASE SubmitRaises
  BY <1>n, <1>5 DEF SubmitRaises
<1>6. CASE JoinAfterRaise
  BY <1>n, <1>6 DEF JoinAfterRaise
<1>7. CASE Poll
  BY <1>n, <1>7 DEF Poll
<1>8. CASE Decide
  BY <1>n, <1>8 DEF Decide
<1>9. CASE Cancel
  <2>1. UNCHANGED <<parseErr, nextOrder, gateExpired>>
    BY <1>9 DEF Cancel
  <2>2. \A j \in Calls : /\ (Advanced(j)' <=> Advanced(j)) /\ (Passed(j) => Passed(j)')
                         /\ (wpc'[j] = "callback" => wpc[j] = "callback")
    BY <1>0, <1>e, <1>b, <1>9 DEF Cancel, Advanced, Passed
  <2> QED
    BY <2>1, <2>2, GateKept
<1>10. CASE Abandon
  BY <1>n, <1>10 DEF Abandon
<1>11. CASE Notify
  BY <1>n, <1>11 DEF Notify
<1>12. CASE SnapTids
  BY <1>n, <1>12 DEF SnapTids
<1>13. CASE FanOut
  BY <1>n, <1>13 DEF FanOut
<1>14. CASE AppendResult
  BY <1>n, <1>14 DEF AppendResult, CommitRow
<1>15. ASSUME NEW i \in Calls, Start(i) PROVE GateInv'
  <2>1. UNCHANGED <<parseErr, nextOrder, gateExpired>>
    BY <1>15 DEF Start
  <2>2. \A j \in Calls : /\ (Advanced(j)' <=> Advanced(j)) /\ (Passed(j) => Passed(j)')
                         /\ (wpc'[j] = "callback" => wpc[j] = "callback")
    BY <1>0, <1>e, <1>b, <1>15 DEF Start, Go, Advanced, Passed
  <2> QED
    BY <2>1, <2>2, GateKept
<1>16. ASSUME NEW i \in Calls, CheckInterrupt(i) PROVE GateInv'
  <2>1. UNCHANGED <<parseErr, nextOrder, gateExpired>>
    BY <1>16 DEF CheckInterrupt
  <2>2. \A j \in Calls : /\ (Advanced(j)' <=> Advanced(j)) /\ (Passed(j) => Passed(j)')
                         /\ (wpc'[j] = "callback" => wpc[j] = "callback")
    BY <1>0, <1>e, <1>b, <1>16 DEF CheckInterrupt, Go, Advanced, Passed
  <2> QED
    BY <2>1, <2>2, GateKept
<1>17. ASSUME NEW i \in Calls, EndBeforeDispatch(i) PROVE GateInv'
  <2>1. UNCHANGED <<parseErr, nextOrder, gateExpired>>
    BY <1>17 DEF EndBeforeDispatch
  <2>2. \A j \in Calls : /\ (Advanced(j)' <=> Advanced(j)) /\ (Passed(j) => Passed(j)')
                         /\ (wpc'[j] = "callback" => wpc[j] = "callback")
    BY <1>0, <1>e, <1>b, <1>17 DEF EndBeforeDispatch, Go, Advanced, Passed
  <2> QED
    BY <2>1, <2>2, GateKept
<1>18. ASSUME NEW i \in Calls, ScopeBlock(i) PROVE GateInv'
  <2>1. UNCHANGED <<parseErr, nextOrder, gateExpired>>
    BY <1>18 DEF ScopeBlock
  <2>2. \A j \in Calls : /\ (Advanced(j)' <=> Advanced(j)) /\ (Passed(j) => Passed(j)')
                         /\ (wpc'[j] = "callback" => wpc[j] = "callback")
    BY <1>0, <1>e, <1>b, <1>18 DEF ScopeBlock, Go, Advanced, Passed
  <2> QED
    BY <2>1, <2>2, GateKept
<1>19. ASSUME NEW i \in Calls, AuthAcquire(i) PROVE GateInv'
  <2>1. UNCHANGED <<parseErr, nextOrder, gateExpired>>
    BY <1>19 DEF AuthAcquire
  <2>2. \A j \in Calls : /\ (Advanced(j)' <=> Advanced(j)) /\ (Passed(j) => Passed(j)')
                         /\ (wpc'[j] = "callback" => wpc[j] = "callback")
    BY <1>0, <1>e, <1>b, <1>19 DEF AuthAcquire, Go, Advanced, Passed
  <2> QED
    BY <2>1, <2>2, GateKept
<1>20. ASSUME NEW i \in Calls, AuthTimesOut(i) PROVE GateInv'
  <2>1. UNCHANGED <<parseErr, nextOrder, gateExpired>>
    BY <1>20 DEF AuthTimesOut
  <2>2. \A j \in Calls : /\ (Advanced(j)' <=> Advanced(j)) /\ (Passed(j) => Passed(j)')
                         /\ (wpc'[j] = "callback" => wpc[j] = "callback")
    BY <1>0, <1>e, <1>b, <1>20 DEF AuthTimesOut, Go, Advanced, Passed
  <2> QED
    BY <2>1, <2>2, GateKept
<1>21. ASSUME NEW i \in Calls, EnterGate(i) PROVE GateInv'
  <2>1. /\ wpc[i] = "gateRun" /\ wpc' = [wpc EXCEPT ![i] = "callback"]
        /\ gateExpired' = (gateExpired \/ ~InOrder(i))
        /\ UNCHANGED <<outcome, begun, parseErr, nextOrder>>
    BY <1>21 DEF EnterGate, Go, PassesWait
  <2>2. Runnable' = Runnable /\ Runnable \subseteq Calls
    BY <2>1 DEF Runnable
  <2>3. \A j : Order(j)' = Order(j) /\ (InOrder(j)' <=> InOrder(j))
    BY <2>1, <2>2 DEF Order, InOrder
  <2>4. \A j \in Calls : (Advanced(j)' <=> Advanced(j)) /\ (Passed(j) => Passed(j)')
    BY <1>0, <2>1 DEF Advanced, Passed
  <2>5. \A j \in Calls : wpc'[j] = "callback" => j = i \/ wpc[j] = "callback"
    BY <1>0, <2>1
  <2> QED
    BY <2>1, <2>2, <2>3, <2>4, <2>5 DEF GateInv
<1>22. ASSUME NEW i \in Calls, BlockedAtGate(i) PROVE GateInv'
  <2>1. /\ wpc[i] = "gateBlock" /\ wpc' = [wpc EXCEPT ![i] = "blocked"] /\ begun' = begun
        /\ nextOrder' = AdvancedPast(i) /\ UNCHANGED <<outcome, parseErr>>
    BY <1>22 DEF BlockedAtGate, Go
  <2>2. /\ \A j \in Calls \ {i} : (Advanced(j)' <=> Advanced(j)) /\ (Passed(j) => Passed(j)')
        /\ Passed(i)' /\ \A j \in Calls : wpc'[j] = "callback" => wpc[j] = "callback"
    BY <1>0, <2>1 DEF Advanced, Passed
  <2>3. i \in Runnable
    BY <1>0, <2>1 DEF WorkersAreRunnable
  <2>4. ~gateExpired' => ~gateExpired /\ InOrder(i)
    BY <1>22 DEF BlockedAtGate, PassesWait
  <2> QED
    BY <2>1, <2>2, <2>3, <2>4, GateMoves
<1>23. ASSUME NEW i \in Calls, BlockedResult(i) PROVE GateInv'
  <2>1. UNCHANGED <<parseErr, nextOrder, gateExpired>>
    BY <1>23 DEF BlockedResult
  <2>2. \A j \in Calls : /\ (Advanced(j)' <=> Advanced(j)) /\ (Passed(j) => Passed(j)')
                         /\ (wpc'[j] = "callback" => wpc[j] = "callback")
    BY <1>0, <1>e, <1>b, <1>23 DEF BlockedResult, Go, Advanced, Passed
  <2> QED
    BY <2>1, <2>2, GateKept
<1>24. ASSUME NEW i \in Calls, LeaveGate(i) PROVE GateInv'
  <2>1. UNCHANGED <<parseErr, nextOrder, gateExpired>>
    BY <1>24 DEF LeaveGate
  <2>2. \A j \in Calls : /\ (Advanced(j)' <=> Advanced(j)) /\ (Passed(j) => Passed(j)')
                         /\ (wpc'[j] = "callback" => wpc[j] = "callback")
    BY <1>0, <1>e, <1>b, <1>24 DEF LeaveGate, Advanced, Passed
  <2> QED
    BY <2>1, <2>2, GateKept
<1>25. ASSUME NEW i \in Calls, StoreResult(i) PROVE GateInv'
  <2>1. UNCHANGED <<parseErr, nextOrder, gateExpired>>
    BY <1>25 DEF StoreResult
  <2>2. \A j \in Calls : /\ (Advanced(j)' <=> Advanced(j)) /\ (Passed(j) => Passed(j)')
                         /\ (wpc'[j] = "callback" => wpc[j] = "callback")
    BY <1>0, <1>e, <1>b, <1>25 DEF StoreResult, Advanced, Passed
  <2> QED
    BY <2>1, <2>2, GateKept
<1>26. ASSUME NEW i \in Calls, LateAdvance(i) PROVE GateInv'
  <2>1. /\ wpc[i] = "lateAdvance" /\ wpc' = [wpc EXCEPT ![i] = "exiting"] /\ begun' = begun
        /\ nextOrder' = AdvancedPast(i) /\ UNCHANGED <<outcome, parseErr>>
    BY <1>26 DEF LateAdvance, Go
  <2>2. /\ \A j \in Calls \ {i} : (Advanced(j)' <=> Advanced(j)) /\ (Passed(j) => Passed(j)')
        /\ Passed(i)' /\ \A j \in Calls : wpc'[j] = "callback" => wpc[j] = "callback"
    BY <1>0, <2>1 DEF Advanced, Passed
  <2>3. i \in Runnable
    BY <1>0, <2>1 DEF WorkersAreRunnable
  <2>4. ~gateExpired' => ~gateExpired /\ InOrder(i)
    BY <1>26 DEF LateAdvance, PassesWait
  <2> QED
    BY <2>1, <2>2, <2>3, <2>4, GateMoves
<1>27. ASSUME NEW i \in Calls, Unregister(i) PROVE GateInv'
  <2>1. UNCHANGED <<parseErr, nextOrder, gateExpired>>
    BY <1>27 DEF Unregister
  <2>2. \A j \in Calls : /\ (Advanced(j)' <=> Advanced(j)) /\ (Passed(j) => Passed(j)')
                         /\ (wpc'[j] = "callback" => wpc[j] = "callback")
    BY <1>0, <1>e, <1>b, <1>27 DEF Unregister, Go, Advanced, Passed
  <2> QED
    BY <2>1, <2>2, GateKept
<1>28. ASSUME NEW i \in Calls, ClearBit(i) PROVE GateInv'
  <2>1. UNCHANGED <<parseErr, nextOrder, gateExpired>>
    BY <1>28 DEF ClearBit
  <2>2. \A j \in Calls : /\ (Advanced(j)' <=> Advanced(j)) /\ (Passed(j) => Passed(j)')
                         /\ (wpc'[j] = "callback" => wpc[j] = "callback")
    BY <1>0, <1>e, <1>b, <1>28 DEF ClearBit, Go, Advanced, Passed
  <2> QED
    BY <2>1, <2>2, GateKept
<1>29. ASSUME NEW i \in Calls, BeginExecution(i) PROVE GateInv'
  <2>1. /\ wpc[i] = "callback" /\ wpc' = [wpc EXCEPT ![i] = "exec"] /\ begun' = begun \cup {i}
        /\ nextOrder' = AdvancedPast(i) /\ UNCHANGED <<outcome, parseErr>>
    BY <1>29 DEF BeginExecution, Go
  <2>2. /\ \A j \in Calls \ {i} : (Advanced(j)' <=> Advanced(j)) /\ (Passed(j) => Passed(j)')
        /\ Passed(i)' /\ \A j \in Calls : wpc'[j] = "callback" => wpc[j] = "callback"
    BY <1>0, <2>1 DEF Advanced, Passed
  <2>3. i \in Runnable
    BY <1>0, <2>1 DEF WorkersAreRunnable
  <2>4. ~gateExpired' => ~gateExpired /\ InOrder(i)
    BY <1>29, <2>1, <2>3 DEF BeginExecution, GateInv
  <2> QED
    BY <2>1, <2>2, <2>3, <2>4, GateMoves
<1>30. ASSUME NEW i \in Calls, AskHuman(i) PROVE GateInv'
  <2>1. UNCHANGED <<parseErr, nextOrder, gateExpired>>
    BY <1>30 DEF AskHuman
  <2>2. \A j \in Calls : /\ (Advanced(j)' <=> Advanced(j)) /\ (Passed(j) => Passed(j)')
                         /\ (wpc'[j] = "callback" => wpc[j] = "callback")
    BY <1>0, <1>e, <1>b, <1>30 DEF AskHuman, Go, Advanced, Passed
  <2> QED
    BY <2>1, <2>2, GateKept
<1>31. ASSUME NEW i \in Calls, HooksAnswer(i) PROVE GateInv'
  <2>1. UNCHANGED <<parseErr, nextOrder, gateExpired>>
    BY <1>31 DEF HooksAnswer
  <2>2. \A j \in Calls : /\ (Advanced(j)' <=> Advanced(j)) /\ (Passed(j) => Passed(j)')
                         /\ (wpc'[j] = "callback" => wpc[j] = "callback")
    BY <1>0, <1>e, <1>b, <1>31 DEF HooksAnswer, Advanced, Passed
  <2> QED
    BY <2>1, <2>2, GateKept
<1>32. ASSUME NEW i \in Calls, DiesBeforeGate(i) PROVE GateInv'
  <2>1. UNCHANGED <<parseErr, nextOrder, gateExpired>>
    BY <1>32 DEF DiesBeforeGate
  <2>2. \A j \in Calls : /\ (Advanced(j)' <=> Advanced(j)) /\ (Passed(j) => Passed(j)')
                         /\ (wpc'[j] = "callback" => wpc[j] = "callback")
    BY <1>0, <1>e, <1>b, <1>32 DEF DiesBeforeGate, Advanced, Passed
  <2> QED
    BY <2>1, <2>2, GateKept
<1>41. ASSUME NEW i \in Calls, GuardrailRaises(i) PROVE GateInv'
  <2>1. UNCHANGED <<parseErr, nextOrder, gateExpired>>
    BY <1>41 DEF GuardrailRaises
  <2>2. \A j \in Calls : /\ (Advanced(j)' <=> Advanced(j)) /\ (Passed(j) => Passed(j)')
                         /\ (wpc'[j] = "callback" => wpc[j] = "callback")
    BY <1>0, <1>e, <1>b, <1>41 DEF GuardrailRaises, Advanced, Passed
  <2> QED
    BY <2>1, <2>2, GateKept
<1>33. ASSUME NEW i \in Calls, ToolEnds(i) PROVE GateInv'
  <2>1. UNCHANGED <<parseErr, nextOrder, gateExpired>>
    BY <1>33 DEF ToolEnds
  <2>2. \A j \in Calls : /\ (Advanced(j)' <=> Advanced(j)) /\ (Passed(j) => Passed(j)')
                         /\ (wpc'[j] = "callback" => wpc[j] = "callback")
    BY <1>0, <1>e, <1>b, <1>33 DEF ToolEnds, Go, Advanced, Passed
  <2> QED
    BY <2>1, <2>2, GateKept
<1>34. ASSUME NEW i \in Calls, ToolCancelled(i) PROVE GateInv'
  <2>1. UNCHANGED <<parseErr, nextOrder, gateExpired>>
    BY <1>34 DEF ToolCancelled
  <2>2. \A j \in Calls : /\ (Advanced(j)' <=> Advanced(j)) /\ (Passed(j) => Passed(j)')
                         /\ (wpc'[j] = "callback" => wpc[j] = "callback")
    BY <1>0, <1>e, <1>b, <1>34 DEF ToolCancelled, Go, Advanced, Passed
  <2> QED
    BY <2>1, <2>2, GateKept
<1>35. ASSUME NEW i \in Calls, ToolDies(i) PROVE GateInv'
  <2>1. UNCHANGED <<parseErr, nextOrder, gateExpired>>
    BY <1>35 DEF ToolDies
  <2>2. \A j \in Calls : /\ (Advanced(j)' <=> Advanced(j)) /\ (Passed(j) => Passed(j)')
                         /\ (wpc'[j] = "callback" => wpc[j] = "callback")
    BY <1>0, <1>e, <1>b, <1>35 DEF ToolDies, Go, Advanced, Passed
  <2> QED
    BY <2>1, <2>2, GateKept
<1>36. CASE DeadlineElapses
  BY <1>n, <1>36 DEF DeadlineElapses
<1>37. CASE Interrupt
  BY <1>n, <1>37 DEF Interrupt
<1>38. CASE InterruptSnapshot
  BY <1>n, <1>38 DEF InterruptSnapshot
<1>39. CASE InterruptFanOut
  BY <1>n, <1>39 DEF InterruptFanOut
<1>40. CASE UNCHANGED vars
  BY <1>n, <1>40 DEF vars
<1> QED
  BY <1>1, <1>2, <1>3, <1>4, <1>5, <1>6, <1>7, <1>8, <1>9, <1>10, <1>11, <1>12, <1>13, <1>14, <1>15, <1>16, <1>17, <1>18, <1>19, <1>20,
     <1>21, <1>22, <1>23, <1>24, <1>25, <1>26, <1>27, <1>28, <1>29, <1>30, <1>31, <1>32, <1>33, <1>34, <1>35, <1>36, <1>37, <1>38, <1>39, <1>40, <1>41
     DEF Next, Main, WorkerStep, OutsideStep, Finished

\* Tools begin in the model's order while no gate wait timed out, and a parked worker waits for
\* a call that has yet to pass, for any number of calls and workers.
THEOREM GateKeepsOrderHolds == Spec => []GateKeepsOrder
<1>1. TypeInv /\ EffectInv /\ GateInv => GateKeepsOrder
  <2> SUFFICES ASSUME TypeInv, EffectInv, GateInv PROVE StartsInOrder /\ ParkedWaitsForSomeone
    BY DEF GateKeepsOrder
  <2>1. parseErr \in SUBSET Calls /\ Runnable \subseteq Calls /\ nextOrder \in Nat
        /\ \A i \in Runnable : Order(i) \in Nat
    BY OrderBound DEF TypeInv, TypeOK, Runnable
  <2>2. ASSUME ~gateExpired, NEW j \in begun, NEW i \in Runnable, i < j PROVE Passed(i)
    <3>1. j \in Runnable
      BY DEF EffectInv, TypeInv, TypeOK, WorkersAreRunnable
    <3>2. Order(j) < nextOrder
      BY <3>1 DEF GateInv, Advanced
    <3>3. Order(i) < Order(j)
      BY <2>1, <2>2, <3>1, OrderGrows
    <3>4. Order(i) < nextOrder
      BY <2>1, <3>1, <3>2, <3>3
    <3> QED
      BY <2>2, <3>4 DEF GateInv
  <2>3. StartsInOrder
    BY <2>2 DEF StartsInOrder, Passed
  <2>4. ASSUME NEW i \in Calls, wpc[i] \in {"gateRun", "gateBlock", "lateAdvance"}, ~InOrder(i)
        PROVE  \E j \in Runnable : Order(j) = nextOrder /\ ~Advanced(j)
    <3>1. i \in Runnable
      BY <2>4 DEF TypeInv, WorkersAreRunnable
    <3>2. nextOrder < Order(i)
      BY <2>1, <2>4, <3>1 DEF InOrder
    <3>3. PICK j \in Runnable : Order(j) = nextOrder
      BY <2>1, <3>1, <3>2, OrderOnto
    <3>4. ~Advanced(j)
      BY <2>1, <3>3 DEF GateInv
    <3> QED
      BY <3>3, <3>4
  <2> QED
    BY <2>3, <2>4 DEF ParkedWaitsForSomeone
<1> QED
  BY TypeInit, TypeStep, TurnInit, TurnStep, EffectInit, EffectStep, GateInit, GateStep, <1>1,
     PTL DEF Spec
=============================================================================
