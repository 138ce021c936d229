---------------------- MODULE SubagentLifecycleProofs ----------------------
(***************************************************************************)
(* Proofs about SubagentLifecycle, for any number of launches, correlation *)
(* ids and pool threads, and the refinement of SubagentPromise.            *)
(***************************************************************************)
EXTENDS SubagentLifecycle, TLAPS

-----------------------------------------------------------------------------
(* The inductive invariant. *)

\* A child that launch() has not registered left no trace.
Fresh(l) ==
    /\ l \notin records /\ state[l] = "none" /\ result[l] = "none"
    /\ future[l] = "none" /\ computed[l] = "none" /\ cancel[l] = "never"

\* A record exists from its registration to its cleanup, and has a future from
\* its submission on.
RecordInv ==
    \A l \in Launch :
        /\ lpc[l] \in {"idle", "build"} => Fresh(l)
        /\ lpc[l] = "submit" => l \in records /\ future[l] = "none"
        /\ lpc[l] = "refused" => future[l] = "none"
        /\ lpc[l] = "returned" => l \in records \/ result[l] # "none"
        /\ cancel[l] # "never" => lpc[l] = "returned"

\* The verdict is computed when the child returns, and published once.
VerdictInv ==
    \A l \in Launch :
        /\ future[l] \in {"none", "queued", "running", "died"} => computed[l] = "none"
        /\ future[l] = "publishing" => computed[l] # "none"
        /\ result[l] = IF future[l] = "done" THEN computed[l] ELSE "none"
        /\ future[l] = "done" => computed[l] # "none" /\ state[l] = computed[l]
        /\ answer[l].completed /\ answer[l] # Unknown => result[l] # "none"

\* A cancellation in time stays in the state until the verdict is published.
CancelInv ==
    \A l \in Launch : cancel[l] = "before" =>
        /\ computed[l] # "INTERRUPTED"
        /\ future[l] # "done" => state[l] = "CANCEL_REQUESTED"

\* Whoever is past the check of its correlation id holds a free one, alone.
CorrelationInv ==
    ~overlapped =>
        /\ \A c \in Correlations : \A l \in Launch :
              correlations[c] = l <=> l \in records /\ corr[l] = c
        /\ \A l \in Launch : lpc[l] = "build" /\ Correlated(l) =>
              /\ correlations[corr[l]] = "none"
              /\ \A m \in Launch : lpc[m] = "build" /\ corr[m] = corr[l] => m = l

IInv == TypeOK /\ RecordInv /\ VerdictInv /\ CancelInv /\ CorrelationInv /\ WaitTellsTheVerdict

-----------------------------------------------------------------------------
(* Steps. *)

LEMMA InitIsGood ==
    ASSUME Init
    PROVE  IInv
<1>1. TypeOK
  BY DEF Init, TypeOK, Unsettled
<1>2. RecordInv /\ VerdictInv /\ CancelInv /\ WaitTellsTheVerdict
  BY DEF Init, RecordInv, Fresh, VerdictInv, CancelInv, WaitTellsTheVerdict, Unsettled
<1>3. CorrelationInv
  BY SubagentAssumption DEF Init, CorrelationInv
<1> QED
  BY <1>1, <1>2, <1>3 DEF IInv

\* What a wait() was told stays true while the verdicts stay and no settled child comes back.
LEMMA ToldKept ==
    ASSUME IInv, wpc' = wpc, answer' = answer,
           \A k \in Launch : result[k] # "none" =>
               result'[k] = result[k] /\ (k \notin records => k \notin records')
    PROVE  WaitTellsTheVerdict'
<1> SUFFICES ASSUME NEW k \in Launch, answer[k].completed
             PROVE  \/ answer[k].state = result'[k]
                    \/ answer[k].state = "UNKNOWN" /\ (wpc[k] = "foreign" \/ Phase(k)' = "forgotten")
  BY DEF WaitTellsTheVerdict
<1>1. \/ answer[k].state = result[k]
      \/ answer[k].state = "UNKNOWN" /\ (wpc[k] = "foreign" \/ Phase(k) = "forgotten")
  BY DEF IInv, WaitTellsTheVerdict
<1>2. CASE answer[k].state = result[k]
  <2>1. result[k] \in Terminal \cup {"none"}
    BY DEF IInv, TypeOK
  <2>2. answer[k] # Unknown
    BY <1>2, <2>1 DEF Terminal, Unknown
  <2> QED
    BY <1>2, <2>2 DEF IInv, VerdictInv
<1>3. CASE Phase(k) = "forgotten"
  <2>1. k \notin records /\ result[k] # "none"
    BY <1>3 DEF Phase
  <2> QED
    BY <1>1, <2>1 DEF Phase
<1> QED
  BY <1>1, <1>2, <1>3

\* Cleanup drops settled records only, with the correlation entries that name them.
LEMMA CleanupFacts ==
    ASSUME IInv
    PROVE  /\ CorrelationsAfter(Expired) \in [Correlations -> Launch \cup {"none"}]
           /\ \A c \in Correlations : correlations[c] = "none" => CorrelationsAfter(Expired)[c] = "none"
           /\ ~overlapped => \A c \in Correlations : \A l \in Launch :
                 CorrelationsAfter(Expired)[c] = l <=> l \in records \ Expired /\ corr[l] = c
<1>1. correlations \in [Correlations -> Launch \cup {"none"}] /\ "none" \notin Launch
  BY SubagentAssumption DEF IInv, TypeOK
<1>2. CorrelationsAfter(Expired) \in [Correlations -> Launch \cup {"none"}]
  BY <1>1 DEF CorrelationsAfter
<1>3. \A c \in Correlations : correlations[c] = "none" => CorrelationsAfter(Expired)[c] = "none"
  BY DEF CorrelationsAfter
<1>4. ASSUME ~overlapped, NEW c \in Correlations, NEW l \in Launch
      PROVE  CorrelationsAfter(Expired)[c] = l <=> l \in records \ Expired /\ corr[l] = c
  <2>1. \A m \in Launch : correlations[c] = m <=> m \in records /\ corr[m] = c
    BY <1>4 DEF IInv, CorrelationInv
  <2>2. Expired \subseteq records /\ records \subseteq Launch
    BY DEF IInv, TypeOK, Expired
  <2>3. CASE \E m \in Expired : corr[m] = c
    <3>1. PICK m \in Expired : corr[m] = c
      BY <2>3
    <3>2. CorrelationsAfter(Expired)[c] = "none" /\ correlations[c] = m
      BY <2>1, <2>2, <3>1 DEF CorrelationsAfter
    <3> QED
      BY <1>1, <2>1, <2>2, <3>1, <3>2
  <2>4. CASE ~\E m \in Expired : corr[m] = c
    <3>1. CorrelationsAfter(Expired)[c] = correlations[c]
      BY <2>4 DEF CorrelationsAfter
    <3> QED
      BY <2>1, <2>4, <3>1
  <2> QED
    BY <2>3, <2>4
<1> QED
  BY <1>2, <1>3, <1>4

LEMMA CheckKeeps ==
    ASSUME IInv, NEW l \in Launch, Check(l)
    PROVE  IInv'
<1>0. PICK to \in {"refused", "build"} : lpc' = [lpc EXCEPT ![l] = to]
  BY DEF Check
<1>1. /\ lpc[l] = "idle" /\ records' = records \ Expired /\ correlations' = CorrelationsAfter(Expired)
      /\ lpc'[l] \in {"refused", "build"} /\ \A k \in Launch : k # l => lpc'[k] = lpc[k]
      /\ UNCHANGED <<corr, state, result, future, computed, old, cancel, wpc, answer>>
  BY <1>0 DEF IInv, TypeOK, Check
<1>2. overlapped' \in BOOLEAN /\ (overlapped => overlapped')
  BY DEF IInv, TypeOK, Check
<1>3. TypeOK'
  <2>1. correlations' \in [Correlations -> Launch \cup {"none"}]
    BY <1>1, CleanupFacts
  <2>2. lpc' \in [Launch -> {"idle", "build", "submit", "returned", "refused"}] /\ records' \in SUBSET Launch
    BY <1>0, <1>1 DEF IInv, TypeOK
  <2> QED
    BY <1>1, <1>2, <2>1, <2>2 DEF IInv, TypeOK
<1>4. RecordInv'
  <2>1. \A k \in Launch : k # l => lpc'[k] = lpc[k]
    BY <1>1
  <2>2. /\ records' \subseteq records
        /\ \A k \in Launch : k \in records => k \in records' \/ result[k] # "none"
    BY <1>1 DEF Expired
  <2>3. ASSUME NEW k \in Launch, k # l
        PROVE  /\ lpc'[k] \in {"idle", "build"} => Fresh(k)'
               /\ lpc'[k] = "submit" => k \in records' /\ future'[k] = "none"
               /\ lpc'[k] = "refused" => future'[k] = "none"
               /\ lpc'[k] = "returned" => k \in records' \/ result'[k] # "none"
               /\ cancel'[k] # "never" => lpc'[k] = "returned"
    <3>1. lpc[k] = "submit" => k \in records /\ future[k] = "none" /\ result[k] = "none"
      BY DEF IInv, RecordInv, VerdictInv
    <3> QED
      BY <1>1, <2>1, <2>2, <2>3, <3>1 DEF IInv, RecordInv, Fresh
  <2>4. Fresh(l) /\ Fresh(l)'
    BY <1>1, <2>2 DEF IInv, RecordInv, Fresh
  <2> QED
    BY <1>1, <2>3, <2>4 DEF RecordInv, Fresh
<1>5. VerdictInv' /\ CancelInv' /\ WaitTellsTheVerdict'
  BY <1>1, ToldKept DEF IInv, VerdictInv, CancelInv
<1>6. CorrelationInv'
  <2>1. SUFFICES ASSUME ~overlapped'
                 PROVE  /\ \A c \in Correlations : \A k \in Launch :
                              correlations'[c] = k <=> k \in records' /\ corr'[k] = c
                        /\ \A k \in Launch : lpc'[k] = "build" /\ corr'[k] # NoCorrelation =>
                              /\ correlations'[corr'[k]] = "none"
                              /\ \A m \in Launch : lpc'[m] = "build" /\ corr'[m] = corr'[k] => m = k
    BY DEF CorrelationInv, Correlated
  <2>2. \A c \in Correlations : \A k \in Launch :
          correlations'[c] = k <=> k \in records' /\ corr'[k] = c
    BY <1>1, <1>2, <2>1, CleanupFacts
  <2>3. \A k \in Launch : lpc[k] = "build" /\ corr[k] # NoCorrelation =>
          /\ correlations'[corr[k]] = "none"
          /\ \A m \in Launch : lpc[m] = "build" /\ corr[m] = corr[k] => m = k
    BY <1>1, <1>2, <2>1, CleanupFacts DEF IInv, TypeOK, CorrelationInv, Correlated
  <2>4. lpc'[l] = "build" /\ corr[l] # NoCorrelation =>
          /\ correlations'[corr[l]] = "none"
          /\ \A m \in Launch : lpc[m] = "build" => corr[m] # corr[l]
    <3>1. \/ /\ overlapped' = (overlapped \/ (Correlated(l) /\
                                \E m \in Launch : corr[m] = corr[l] /\ lpc[m] = "build"))
             /\ ~(Correlated(l) /\ correlations'[corr[l]] # "none")
          \/ lpc' = [lpc EXCEPT ![l] = "refused"]
      BY DEF Check
    <3>2. lpc' = [lpc EXCEPT ![l] = "refused"] => lpc'[l] = "refused"
      BY DEF IInv, TypeOK
    <3> QED
      BY <2>1, <3>1, <3>2 DEF Correlated
  <2>5. \A k \in Launch : k # l => lpc'[k] = lpc[k]
    BY <1>1
  <2>6. \A k \in Launch : lpc'[k] = "build" /\ corr[k] # NoCorrelation => correlations'[corr[k]] = "none"
    BY <2>3, <2>4, <2>5
  <2>7. ASSUME NEW k \in Launch, NEW m \in Launch, lpc'[k] = "build", lpc'[m] = "build",
               corr[k] # NoCorrelation, corr[m] = corr[k]
        PROVE  m = k
    BY <2>3, <2>4, <2>5, <2>7
  <2> QED
    BY <1>1, <2>2, <2>6, <2>7
<1> QED
  BY <1>3, <1>4, <1>5, <1>6 DEF IInv

LEMMA RegisterKeeps ==
    ASSUME IInv, NEW l \in Launch, Register(l)
    PROVE  IInv'
<1>1. /\ lpc[l] = "build" /\ lpc' = [lpc EXCEPT ![l] = "submit"] /\ records' = records \cup {l}
      /\ state' = [state EXCEPT ![l] = "PENDING"]
      /\ UNCHANGED <<corr, result, future, computed, old, cancel, wpc, answer, overlapped>>
  BY DEF Register
<1>2. correlations' = IF Correlated(l) THEN [correlations EXCEPT ![corr[l]] = l] ELSE correlations
  BY DEF Register
<1>3. TypeOK'
  BY <1>1, <1>2 DEF IInv, TypeOK, States, Correlated
<1>4. Fresh(l)
  BY <1>1 DEF IInv, RecordInv
<1>5. RecordInv'
  BY <1>1, <1>4 DEF IInv, TypeOK, RecordInv, Fresh
<1>6. VerdictInv' /\ CancelInv' /\ WaitTellsTheVerdict'
  <2>1. VerdictInv' /\ CancelInv'
    BY <1>1, <1>4 DEF IInv, TypeOK, VerdictInv, CancelInv, Fresh
  <2> QED
    BY <1>1, <1>4, <2>1, ToldKept DEF Fresh
<1>7. CorrelationInv'
  <2>1. SUFFICES ASSUME ~overlapped
                 PROVE  /\ \A c \in Correlations : \A k \in Launch :
                              correlations'[c] = k <=> k \in records' /\ corr'[k] = c
                        /\ \A k \in Launch : lpc'[k] = "build" /\ corr'[k] # NoCorrelation =>
                              /\ correlations'[corr'[k]] = "none"
                              /\ \A m \in Launch : lpc'[m] = "build" /\ corr'[m] = corr'[k] => m = k
    BY <1>1 DEF CorrelationInv, Correlated
  <2>2. /\ \A c \in Correlations : \A k \in Launch :
              correlations[c] = k <=> k \in records /\ corr[k] = c
        /\ \A k \in Launch : lpc[k] = "build" /\ corr[k] # NoCorrelation =>
              /\ correlations[corr[k]] = "none"
              /\ \A m \in Launch : lpc[m] = "build" /\ corr[m] = corr[k] => m = k
    BY <2>1 DEF IInv, CorrelationInv, Correlated
  <2>3. /\ correlations \in [Correlations -> Launch \cup {"none"}] /\ "none" \notin Launch
        /\ corr \in [Launch -> Correlations \cup {NoCorrelation}] /\ NoCorrelation \notin Correlations
        /\ lpc'[l] = "submit" /\ \A k \in Launch : k # l => lpc'[k] = lpc[k]
    BY <1>1, SubagentAssumption DEF IInv, TypeOK
  <2>4. \A c \in Correlations : correlations'[c] = IF corr[l] = c THEN l ELSE correlations[c]
    BY <1>2, <2>3 DEF Correlated
  <2>5. \A c \in Correlations : \A k \in Launch :
          correlations'[c] = k <=> k \in records' /\ corr'[k] = c
    <3>1. \A c \in Correlations : corr[l] = c => correlations[c] = "none"
      BY <1>1, <2>2, <2>3
    <3> QED
      BY <1>1, <2>2, <2>3, <2>4, <3>1
  <2>6. \A k \in Launch : lpc'[k] = "build" /\ corr[k] # NoCorrelation =>
          /\ correlations'[corr[k]] = "none"
          /\ \A m \in Launch : lpc'[m] = "build" /\ corr[m] = corr[k] => m = k
    <3>1. \A k \in Launch : lpc'[k] = "build" => k # l /\ lpc[k] = "build"
      BY <2>3
    <3>2. \A k \in Launch : lpc'[k] = "build" /\ corr[k] # NoCorrelation => corr[k] # corr[l]
      BY <1>1, <2>2, <3>1
    <3> QED
      BY <2>2, <2>3, <2>4, <3>1, <3>2
  <2> QED
    BY <1>1, <2>5, <2>6
<1> QED
  BY <1>3, <1>5, <1>6, <1>7 DEF IInv

\* The steps that touch neither a record nor a verdict.
LEMMA LaunchStepKeeps ==
    ASSUME IInv, NEW l \in Launch, BuildFails(l) \/ Submit(l) \/ SubmitFails(l)
    PROVE  IInv'
<1>1. /\ \/ lpc[l] = "build" /\ lpc' = [lpc EXCEPT ![l] = "refused"] /\ future' = future
         \/ /\ lpc[l] = "submit" /\ lpc' = [lpc EXCEPT ![l] = "returned"]
            /\ future' = [future EXCEPT ![l] = "queued"]
         \/ lpc[l] = "submit" /\ lpc' = [lpc EXCEPT ![l] = "refused"] /\ future' = future
      /\ UNCHANGED <<corr, registry, state, result, computed, old, cancel, wpc, answer, overlapped>>
  BY DEF IInv, TypeOK, BuildFails, Submit, SubmitFails
<1>2. TypeOK'
  BY <1>1 DEF IInv, TypeOK, registry
<1>3. RecordInv'
  BY <1>1 DEF IInv, TypeOK, RecordInv, Fresh, registry
<1>4. VerdictInv' /\ CancelInv' /\ WaitTellsTheVerdict'
  <2>1. lpc[l] \in {"build", "submit"} /\ future[l] = "none"
    BY <1>1 DEF IInv, RecordInv, Fresh
  <2> QED
    BY <1>1, <2>1, ToldKept DEF IInv, TypeOK, VerdictInv, CancelInv, registry
<1>5. CorrelationInv'
  BY <1>1 DEF IInv, TypeOK, CorrelationInv, Correlated, registry
<1> QED
  BY <1>2, <1>3, <1>4, <1>5 DEF IInv

LEMMA RunStartKeeps ==
    ASSUME IInv, NEW l \in Launch, RunStart(l)
    PROVE  IInv'
<1>1. TypeOK'
  BY DEF IInv, TypeOK, States, RunStart, registry
<1>2. RecordInv'
  BY DEF IInv, TypeOK, RecordInv, Fresh, RunStart, registry
<1>3. VerdictInv' /\ CancelInv' /\ WaitTellsTheVerdict'
  BY ToldKept DEF IInv, TypeOK, VerdictInv, CancelInv, RunStart, registry
<1>4. CorrelationInv'
  BY DEF IInv, CorrelationInv, Correlated, RunStart, registry
<1> QED
  BY <1>1, <1>2, <1>3, <1>4 DEF IInv

LEMMA ChildReturnsKeeps ==
    ASSUME IInv, NEW l \in Launch, ChildReturns(l)
    PROVE  IInv'
<1>1. PICK v \in Terminal : computed' = [computed EXCEPT ![l] = v]
                            /\ (state[l] = "CANCEL_REQUESTED" => v # "INTERRUPTED")
  BY DEF ChildReturns, VerdictOf, Terminal
<1>2. /\ future[l] = "running" /\ future' = [future EXCEPT ![l] = "publishing"]
      /\ UNCHANGED <<corr, lpc, registry, state, result, old, cancel, wpc, answer, overlapped>>
  BY DEF ChildReturns
<1>3. v # "none"
  BY DEF Terminal
<1>4. TypeOK'
  BY <1>1, <1>2 DEF IInv, TypeOK, registry
<1>5. RecordInv'
  BY <1>1, <1>2 DEF IInv, TypeOK, RecordInv, Fresh, registry
<1>6. VerdictInv' /\ CancelInv' /\ WaitTellsTheVerdict'
  BY <1>1, <1>2, <1>3, ToldKept DEF IInv, TypeOK, VerdictInv, CancelInv, registry
<1>7. CorrelationInv'
  BY <1>2 DEF IInv, CorrelationInv, Correlated, registry
<1> QED
  BY <1>4, <1>5, <1>6, <1>7 DEF IInv

LEMMA ChildDiesKeeps ==
    ASSUME IInv, NEW l \in Launch, ChildDies(l)
    PROVE  IInv'
<1>1. TypeOK'
  BY DEF IInv, TypeOK, ChildDies, registry
<1>2. RecordInv'
  BY DEF IInv, TypeOK, RecordInv, Fresh, ChildDies, registry
<1>3. VerdictInv' /\ CancelInv' /\ WaitTellsTheVerdict'
  BY ToldKept DEF IInv, TypeOK, VerdictInv, CancelInv, ChildDies, registry
<1>4. CorrelationInv'
  BY DEF IInv, CorrelationInv, Correlated, ChildDies, registry
<1> QED
  BY <1>1, <1>2, <1>3, <1>4 DEF IInv

LEMMA PublishKeeps ==
    ASSUME IInv, NEW l \in Launch, Publish(l)
    PROVE  IInv'
<1>1. computed[l] \in Terminal /\ result[l] = "none" /\ "none" \notin Terminal
  BY DEF IInv, TypeOK, VerdictInv, Publish, Terminal
<1>2. TypeOK'
  BY <1>1 DEF IInv, TypeOK, States, Publish, registry
<1>3. RecordInv'
  <2>1. lpc[l] = "returned" /\ lpc' = lpc /\ records' = records /\ cancel' = cancel
    BY DEF IInv, TypeOK, RecordInv, Fresh, Publish, registry
  <2>2. result'[l] # "none"
    BY <1>1 DEF IInv, TypeOK, Publish
  <2>3. \A k \in Launch : k # l => /\ state'[k] = state[k] /\ result'[k] = result[k]
                                 /\ future'[k] = future[k] /\ computed'[k] = computed[k]
    BY DEF IInv, TypeOK, Publish
  <2> QED
    BY <2>1, <2>2, <2>3 DEF IInv, RecordInv, Fresh
<1>4. VerdictInv' /\ CancelInv'
  BY <1>1 DEF IInv, TypeOK, VerdictInv, CancelInv, Publish
<1>5. WaitTellsTheVerdict'
  BY <1>1, ToldKept DEF IInv, TypeOK, Publish, registry
<1>6. CorrelationInv'
  BY DEF IInv, CorrelationInv, Correlated, Publish, registry
<1> QED
  BY <1>2, <1>3, <1>4, <1>5, <1>6 DEF IInv

LEMMA RetentionEndsKeeps ==
    ASSUME IInv, NEW l \in Launch, RetentionEnds(l)
    PROVE  IInv'
BY ToldKept DEF IInv, TypeOK, RecordInv, Fresh, VerdictInv, CancelInv, CorrelationInv, Correlated,
                RetentionEnds, registry

LEMMA CancelKeeps ==
    ASSUME IInv, NEW l \in Launch, Cancel(l)
    PROVE  IInv'
<1>1. TypeOK'
  BY DEF IInv, TypeOK, States, Cancel, registry
<1>2. RecordInv'
  BY DEF IInv, TypeOK, RecordInv, Fresh, Cancel, Known, registry
<1>3. VerdictInv'
  BY DEF IInv, TypeOK, VerdictInv, Cancel
<1>4. CancelInv'
  BY DEF IInv, TypeOK, VerdictInv, CancelInv, Cancel
<1>5. WaitTellsTheVerdict' /\ CorrelationInv'
  BY ToldKept DEF IInv, CorrelationInv, Correlated, Cancel, registry
<1> QED
  BY <1>1, <1>2, <1>3, <1>4, <1>5 DEF IInv

LEMMA WaitKeeps ==
    ASSUME IInv, NEW l \in Launch,
           WaitBegins(l) \/ WaitFindsNothing(l) \/ WaitExpires(l) \/ WaitTimesOut(l) \/ WaitEnds(l)
    PROVE  IInv'
<1> DEFINE Answers == [state : States \cup {"none", "UNKNOWN"}, completed : BOOLEAN]
           Pcs == {"idle", "waiting", "expired", "returned", "raised", "foreign"}
<1>1. /\ UNCHANGED <<corr, lpc, registry, state, result, future, computed, old, cancel, overlapped>>
      /\ wpc[l] # "foreign"
  BY DEF WaitBegins, WaitFindsNothing, WaitExpires, WaitTimesOut, WaitEnds
<1>2. PICK to \in Pcs : wpc' = [wpc EXCEPT ![l] = to]
                        /\ (WaitFindsNothing(l) => to = "foreign" \/ (lpc[l] = "returned" /\ l \notin records))
  BY DEF WaitBegins, WaitFindsNothing, WaitExpires, WaitTimesOut, WaitEnds
<1>3. PICK told \in Answers :
        /\ answer' = [answer EXCEPT ![l] = told]
        /\ \/ told = answer[l]
           \/ ~told.completed
           \/ told = Unknown /\ WaitFindsNothing(l)
           \/ told.completed /\ told.state = result[l] /\ result[l] # "none"
  <2>1. answer \in [Launch -> Answers] /\ state[l] \in States \cup {"none"}
    BY DEF IInv, TypeOK
  <2>2. CASE WaitBegins(l) \/ WaitExpires(l) \/ (WaitEnds(l) /\ answer' = answer)
    <3>1. answer' = answer
      BY <2>2 DEF WaitBegins, WaitExpires
    <3>2. answer' = [answer EXCEPT ![l] = answer[l]] /\ answer[l] \in Answers
      BY <2>1, <3>1
    <3> QED
      BY <3>2
  <2>3. CASE WaitFindsNothing(l)
    <3>1. Unknown \in Answers
      BY DEF Unknown
    <3> QED
      BY <2>3, <3>1 DEF WaitFindsNothing
  <2>4. CASE WaitTimesOut(l)
    <3>1. [state |-> state[l], completed |-> FALSE] \in Answers
      BY <2>1
    <3> QED
      BY <2>4, <3>1 DEF WaitTimesOut
  <2>5. CASE WaitEnds(l) /\ future[l] = "done"
    <3>1. state[l] = result[l] /\ result[l] # "none"
      BY <2>5 DEF IInv, VerdictInv
    <3>2. [state |-> state[l], completed |-> TRUE] \in Answers
      BY <2>1
    <3>3. answer' = [answer EXCEPT ![l] = [state |-> state[l], completed |-> TRUE]]
      BY <2>5, <3>1 DEF WaitEnds
    <3> QED
      BY <3>1, <3>2, <3>3
  <2> QED
    BY <2>2, <2>3, <2>4, <2>5 DEF WaitEnds
<1>4. wpc' \in [Launch -> Pcs] /\ wpc'[l] = to /\ \A k \in Launch : k # l => wpc'[k] = wpc[k]
  BY <1>2 DEF IInv, TypeOK
<1>5. answer' \in [Launch -> Answers] /\ answer'[l] = told /\ \A k \in Launch : k # l => answer'[k] = answer[k]
  BY <1>3 DEF IInv, TypeOK
<1>6. TypeOK'
  BY <1>1, <1>4, <1>5 DEF IInv, TypeOK, registry
<1>7. RecordInv' /\ CancelInv' /\ CorrelationInv'
  BY <1>1 DEF IInv, RecordInv, Fresh, CancelInv, CorrelationInv, Correlated, registry
<1>8. VerdictInv'
  <2>1. told.completed /\ told # Unknown => result[l] # "none"
    BY <1>3 DEF IInv, VerdictInv
  <2> QED
    BY <1>1, <1>5, <2>1 DEF IInv, VerdictInv
<1>9. WaitTellsTheVerdict'
  <2>1. \A k \in Launch : Phase(k)' = Phase(k)
    BY <1>1 DEF Phase, registry
  <2>2. ASSUME told.completed
        PROVE  \/ told.state = result[l]
               \/ told.state = "UNKNOWN" /\ (to = "foreign" \/ Phase(l) = "forgotten")
    <3>1. CASE told = answer[l]
      BY <1>1, <2>2, <3>1 DEF IInv, WaitTellsTheVerdict
    <3>2. CASE told = Unknown /\ WaitFindsNothing(l)
      BY <1>2, <3>2 DEF IInv, RecordInv, Phase, Unknown
    <3> QED
      BY <1>3, <2>2, <3>1, <3>2
  <2> QED
    BY <1>1, <1>4, <1>5, <2>1, <2>2 DEF IInv, WaitTellsTheVerdict
<1> QED
  BY <1>6, <1>7, <1>8, <1>9 DEF IInv

LEMMA StutterKeeps ==
    ASSUME IInv, UNCHANGED vars
    PROVE  IInv'
BY ToldKept DEF IInv, TypeOK, RecordInv, Fresh, VerdictInv, CancelInv, CorrelationInv, Correlated,
                vars, registry

LEMMA NextKeeps ==
    ASSUME IInv, [Next]_vars
    PROVE  IInv'
BY CheckKeeps, RegisterKeeps, LaunchStepKeeps, RunStartKeeps, ChildReturnsKeeps, ChildDiesKeeps,
   PublishKeeps, RetentionEndsKeeps, CancelKeeps, WaitKeeps, StutterKeeps DEF Next, Quiescent

(* In every reachable state all parts of the invariant hold. *)
THEOREM InvariantHolds == Spec => []IInv
<1>1. Init => IInv
  BY InitIsGood
<1>2. IInv /\ [Next]_vars => IInv'
  BY NextKeeps
<1> QED
  BY <1>1, <1>2, PTL DEF Spec

(* A cancellation in time is remembered in the verdict, and every completed *)
(* wait() is told the verdict, or that a settled child is no longer known   *)
(* (cancel, _run, wait).                                                    *)
THEOREM VerdictsHold == Spec => []VerdictsAreTrue
<1>1. IInv => VerdictsAreTrue
  BY DEF IInv, CancelInv, VerdictsAreTrue, CancelIsRemembered
<1> QED
  BY <1>1, InvariantHolds, PTL

(* Each correlation id names the retained record that carries it, unless two *)
(* launches with one id overlapped (launch, _cleanup_locked).                *)
THEOREM CorrelationsHold == Spec => []CorrelationsMatchRecords
<1>1. IInv => CorrelationsMatchRecords
  BY DEF IInv, CorrelationInv, CorrelationsMatchRecords
<1> QED
  BY <1>1, InvariantHolds, PTL

-----------------------------------------------------------------------------
(* The refinement. *)

PhaseOf == [l \in Launch |-> Phase(l)]
VerdictShown == [l \in Launch |-> IF result[l] = "none" THEN "none" ELSE state[l]]

LEMMA InitRefines ==
    ASSUME Init
    PROVE  Promise!Init
BY DEF Init, Promise!Init, Phase

\* Cleanup forgets settled children only.
LEMMA CheckRefines ==
    ASSUME IInv, NEW l \in Launch, Check(l)
    PROVE  Promise!Next
<1>1. records' = records \ Expired /\ state' = state /\ result' = result
  BY DEF Check
<1>2. Expired \subseteq Launch
  BY DEF IInv, TypeOK, Expired
<1>3. Expired \in SUBSET {m \in Launch : PhaseOf[m] = "settled"}
  BY <1>2 DEF Expired, Phase, PhaseOf
<1>4. PhaseOf' = [m \in Launch |-> IF m \in Expired THEN "forgotten" ELSE PhaseOf[m]]
  BY <1>1, <1>2 DEF Expired, Phase, PhaseOf
<1>5. VerdictShown' = VerdictShown
  BY <1>1 DEF VerdictShown
<1> QED
  BY <1>3, <1>4, <1>5 DEF Promise!Next, Promise!Forget, PhaseOf, VerdictShown

LEMMA RegisterRefines ==
    ASSUME IInv, NEW l \in Launch, Register(l)
    PROVE  Promise!Next
<1>1. Fresh(l) /\ records' = records \cup {l} /\ state' = [state EXCEPT ![l] = "PENDING"] /\ result' = result
  BY DEF IInv, RecordInv, Register
<1>2. PhaseOf[l] = "absent"
  BY <1>1 DEF Fresh, Phase, PhaseOf
<1>3. PhaseOf' = [PhaseOf EXCEPT ![l] = "live"]
  BY <1>1 DEF Fresh, Phase, PhaseOf
<1>4. VerdictShown' = VerdictShown
  BY <1>1 DEF IInv, TypeOK, Fresh, VerdictShown
<1> QED
  BY <1>2, <1>3, <1>4 DEF Promise!Next, Promise!Accept, PhaseOf, VerdictShown

LEMMA PublishRefines ==
    ASSUME IInv, NEW l \in Launch, Publish(l)
    PROVE  Promise!Next
<1>1. /\ result[l] = "none" /\ computed[l] \in Terminal /\ "none" \notin Terminal
      /\ lpc[l] = "returned" /\ l \in records
  BY DEF IInv, TypeOK, RecordInv, Fresh, VerdictInv, Publish, Terminal
<1>2. /\ result' = [result EXCEPT ![l] = computed[l]] /\ state' = [state EXCEPT ![l] = computed[l]]
      /\ records' = records
  BY DEF Publish, registry
<1>3. PhaseOf[l] = "live" /\ PhaseOf' = [PhaseOf EXCEPT ![l] = "settled"]
  BY <1>1, <1>2 DEF IInv, TypeOK, Phase, PhaseOf
<1>4. VerdictShown' = [VerdictShown EXCEPT ![l] = computed[l]]
  BY <1>1, <1>2 DEF IInv, TypeOK, VerdictShown
<1> QED
  BY <1>1, <1>3, <1>4 DEF Promise!Next, Promise!Settle, PhaseOf, VerdictShown

\* Only a state without a verdict changes otherwise.
LEMMA OthersStutter ==
    ASSUME IInv, records' = records, result' = result,
           \A m \in Launch : result[m] # "none" => state'[m] = state[m]
    PROVE  UNCHANGED Promise!vars
<1>1. PhaseOf' = PhaseOf
  BY DEF Phase, PhaseOf
<1>2. VerdictShown' = VerdictShown
  BY DEF VerdictShown
<1> QED
  BY <1>1, <1>2 DEF Promise!vars, PhaseOf, VerdictShown

LEMMA StepRefines ==
    ASSUME IInv, [Next]_vars
    PROVE  [Promise!Next]_Promise!vars
<1>1. ASSUME NEW l \in Launch,
             \/ BuildFails(l) \/ Submit(l) \/ SubmitFails(l) \/ ChildReturns(l) \/ ChildDies(l)
             \/ RetentionEnds(l) \/ WaitBegins(l) \/ WaitFindsNothing(l) \/ WaitExpires(l)
             \/ WaitTimesOut(l) \/ WaitEnds(l)
      PROVE  UNCHANGED Promise!vars
  BY <1>1, OthersStutter DEF BuildFails, Submit, SubmitFails, ChildReturns, ChildDies, RetentionEnds,
                             WaitBegins, WaitFindsNothing, WaitExpires, WaitTimesOut, WaitEnds, registry
<1>2. ASSUME NEW l \in Launch, RunStart(l) \/ Cancel(l)
      PROVE  UNCHANGED Promise!vars
  <2>1. result[l] = "none" /\ records' = records /\ result' = result
    BY <1>2 DEF IInv, VerdictInv, RunStart, Cancel, registry
  <2>2. \A m \in Launch : m # l => state'[m] = state[m]
    BY <1>2 DEF IInv, TypeOK, RunStart, Cancel
  <2> QED
    BY <2>1, <2>2, OthersStutter
<1>3. CASE UNCHANGED vars
  BY <1>3, OthersStutter DEF vars, registry
<1> QED
  BY <1>1, <1>2, <1>3, CheckRefines, RegisterRefines, PublishRefines DEF Next, Quiescent

(* The registry implements the promise: a live child is never forgotten, a   *)
(* verdict never changes, and nothing is settled or forgotten twice.         *)
THEOREM RegistryKeepsPromise == Spec => KeepsPromise
<1>1. Init => Promise!Init
  BY InitRefines
<1>2. IInv /\ [Next]_vars => [Promise!Next]_Promise!vars
  BY StepRefines
<1> QED
  BY <1>1, <1>2, InvariantHolds, PTL DEF Spec, KeepsPromise, Promise!Spec

=============================================================================
