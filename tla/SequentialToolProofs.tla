------------------------ MODULE SequentialToolProofs ------------------------
(***************************************************************************)
(* Proofs about SequentialTool, for rounds of any length, with or without  *)
(* a deadline, stops and KeyboardInterrupts.                               *)
(***************************************************************************)
EXTENDS SequentialTool, SequenceTheorems, TLAPS

-----------------------------------------------------------------------------
(* The inductive invariant. *)

Over == pc \in {"done", "raised"}

\* The turn has not come to the call yet.
Untried(i) == i > cur \/ (i = cur /\ pc = "next")

AtCall == {"poll", "grace", "joining", "prompt", "prompting", "publish"}

\* Where the turn is tells which calls may have a worker.
PlaceInv ==
    /\ pc \in AtCall \cup {"skipRest"} => cur \in Calls
    /\ pc \in {"prompt", "prompting"} => kind[cur] = "prompt" /\ outcome[cur] = "none"
    /\ pc \in {"poll", "grace", "joining"} => wpc[cur] # "none"
    /\ pc = "joining" => keyboard = cur
    /\ \A i \in Calls : wpc[i] # "none" => HasWorker(i)
    /\ \A i \in known : Registered(i) \/ wpc[i] = "over"
    /\ \A i \in Calls : Untried(i) =>
          wpc[i] = "none" /\ outcome[i] = "none" /\ i \notin begun /\ i \notin abandoned

\* How many rows there are at each place.
RowsInv ==
    /\ \A j \in 1 .. Len(rows) : rows[j].call = j
    /\ pc \in AtCall \cup {"next"} => Len(rows) = cur - 1
    /\ pc = "skipRest" => Len(rows) = cur
    /\ pc = "done" /\ ~persistFailed => Len(rows) = N

\* A row without an effect is of a call that has no worker and never will.
TruthInv ==
    /\ pc = "publish" /\ HasWorker(cur) /\ cur \notin abandoned => wpc[cur] = "over"
    /\ \A j \in 1 .. Len(rows) :
          /\ rows[j].effect = "none" /\ j # keyboard => wpc[j] = "none" /\ j \notin begun
          /\ rows[j].effect = "result" /\ HasWorker(j) => wpc[j] = "over"
          /\ rows[j].effect = "invalid" => kind[j] = "invalid"

\* The hook of a call that its own hooks blocked.
Own(i) == IF outcome[i] = "blocked" THEN 1 ELSE 0

\* Hooks emitted so far, at each place and for each row.
HookInv ==
    /\ pc \in {"poll", "grace"} => cur \notin abandoned /\ posts[cur] = Own(cur)
    /\ pc \in {"prompt", "prompting"} => cur \notin abandoned /\ posts[cur] = 0
    /\ pc = "publish" => posts[cur] = IF cur \in abandoned THEN 1 + Own(cur) ELSE Own(cur)
    /\ ~Over => \A i \in Calls : Untried(i) => posts[i] = 0
    /\ \A j \in 1 .. Len(rows) : rows[j].effect \in {"result", "unknown", "invalid"} =>
          posts[j] = IF rows[j].effect = "unknown" THEN 1 + Own(j) ELSE 1

IInv == TypeOK /\ PlaceInv /\ RowsInv /\ TruthInv /\ HookInv

-----------------------------------------------------------------------------
(* Rows. *)

Results == [call : Calls, effect : Effects]

\* Rows appended for the calls from .. upto (_append_skipped_tool_results).
LEMMA RowsAdded ==
    ASSUME TypeOK, RowsInv, NEW from \in Calls, NEW upto \in Calls, NEW e \in Effects,
           from <= upto, Len(rows) = from - 1, rows' = rows \o RowsFor(from, upto, e)
    PROVE  /\ rows' \in Seq([call : Calls, effect : Effects])
           /\ Len(rows') = upto
           /\ \A j \in 1 .. from - 1 : rows'[j] = rows[j]
           /\ \A j \in from .. upto : rows'[j].effect = e
           /\ \A j \in 1 .. upto : rows'[j].call = j
<1> DEFINE new == RowsFor(from, upto, e)
<1>n. N \in Nat /\ from \in Nat /\ upto \in Nat /\ upto - from + 1 \in Nat
  BY SequentialAssumption DEF Calls
<1>0. rows \in Seq(Results) /\ \A j \in 1 .. Len(rows) : rows[j].call = j
  BY DEF Results, TypeOK, RowsInv
<1>1. \A j \in 1 .. upto - from + 1 : from + j - 1 \in Calls
  BY <1>n DEF Calls
<1>2. \A i \in Calls : Row(i, e) \in Results /\ Row(i, e).call = i /\ Row(i, e).effect = e
  BY DEF Row, Results
<1>3. new \in [1 .. upto - from + 1 -> Results]
  BY <1>1, <1>2 DEF RowsFor
<1>4. new \in Seq(Results)
  BY <1>n, <1>3, SeqDef
<1>5. Len(new) \in Nat /\ DOMAIN new = 1 .. Len(new)
  BY <1>4, LenProperties
<1>6. 1 .. Len(new) = 1 .. upto - from + 1
  BY <1>3, <1>5
<1>7. Len(new) = upto - from + 1
  BY <1>n, <1>5, <1>6
<1>8. \A j \in 1 .. upto - from + 1 : new[j] = Row(from + j - 1, e)
  BY DEF RowsFor
<1> HIDE DEF new
<1>9. /\ rows \o new \in Seq(Results)
      /\ Len(rows \o new) = Len(rows) + Len(new)
      /\ \A i \in 1 .. Len(rows) + Len(new) :
            (rows \o new)[i] = IF i <= Len(rows) THEN rows[i] ELSE new[i - Len(rows)]
  BY <1>0, <1>4, ConcatProperties
<1>10. rows' = rows \o new
  BY DEF new
<1>11. rows' \in Seq([call : Calls, effect : Effects]) /\ Len(rows') = upto
  <2>1. Len(rows \o new) = upto
    BY <1>n, <1>7, <1>9
  <2> QED
    BY <1>9, <1>10, <2>1 DEF Results
<1>12. \A j \in 1 .. from - 1 : rows'[j] = rows[j] /\ rows[j].call = j
  BY <1>n, <1>0, <1>7, <1>9, <1>10
<1>13. ASSUME NEW j \in from .. upto
       PROVE  rows'[j] = Row(j, e)
  <2>1. j \in 1 .. Len(rows) + Len(new) /\ ~(j <= Len(rows)) /\ j - Len(rows) = j - from + 1
    BY <1>n, <1>7
  <2>2. rows'[j] = new[j - from + 1]
    BY <1>9, <1>10, <2>1
  <2>3. j - from + 1 \in 1 .. upto - from + 1 /\ from + (j - from + 1) - 1 = j
    BY <1>n
  <2> QED
    BY <1>8, <2>2, <2>3
<1>14. ASSUME NEW j \in from .. upto
       PROVE  rows'[j].effect = e /\ rows'[j].call = j
  <2>1. j \in Calls
    BY <1>n DEF Calls
  <2>2. rows'[j] = Row(j, e)
    BY <1>13
  <2> QED
    BY <1>2, <2>1, <2>2
<1>15. \A j \in 1 .. upto : j \in 1 .. from - 1 \/ j \in from .. upto
  BY <1>n
<1>16. \A j \in 1 .. upto : rows'[j].call = j
  BY <1>12, <1>14, <1>15
<1> QED
  BY <1>11, <1>12, <1>14, <1>16

\* The row of one call (_publish_tool_result).
LEMMA AppendFacts ==
    ASSUME NEW r \in Seq(Results), NEW c \in Calls, NEW e \in Effects,
           Len(r) = c - 1, \A j \in 1 .. Len(r) : r[j].call = j
    PROVE  /\ Append(r, Row(c, e)) \in Seq(Results)
           /\ Len(Append(r, Row(c, e))) = c
           /\ \A j \in 1 .. c - 1 : Append(r, Row(c, e))[j] = r[j]
           /\ Append(r, Row(c, e))[c] = Row(c, e)
           /\ \A j \in 1 .. c : Append(r, Row(c, e))[j].call = j
<1> DEFINE new == Append(r, Row(c, e))
<1>n. N \in Nat /\ c \in Nat /\ c >= 1
  BY SequentialAssumption DEF Calls
<1>1. Row(c, e) \in Results /\ Row(c, e).call = c
  BY DEF Row, Results
<1>2. /\ new \in Seq(Results)
      /\ Len(new) = Len(r) + 1
      /\ \A i \in 1 .. Len(r) : new[i] = r[i]
      /\ new[Len(r) + 1] = Row(c, e)
  BY <1>1, AppendProperties
<1> HIDE DEF new
<1>3. Len(new) = c /\ new[c] = Row(c, e)
  BY <1>n, <1>2
<1>4. \A j \in 1 .. c - 1 : new[j] = r[j] /\ r[j].call = j
  BY <1>2
<1>5. \A j \in 1 .. c : j \in 1 .. c - 1 \/ j = c
  BY <1>n
<1>6. \A j \in 1 .. c : new[j].call = j
  BY <1>1, <1>3, <1>4, <1>5
<1> QED
  BY <1>2, <1>3, <1>4, <1>6 DEF new

-----------------------------------------------------------------------------
(* The steps that leave the rows alone. *)

LEMMA Numbers ==
    ASSUME TypeOK
    PROVE  N \in Nat /\ cur \in Nat /\ Len(rows) \in Nat /\ Calls = 1 .. N
BY SequentialAssumption, LenProperties DEF TypeOK, Calls

LEMMA InitIsGood ==
    ASSUME Init
    PROVE  IInv
<1>n. N \in Nat /\ N >= 1 /\ Kinds \subseteq AllKinds
  BY SequentialAssumption
<1>1. rows \in Seq([call : Calls, effect : Effects]) /\ Len(rows) = 0
  BY EmptySeq DEF Init
<1>2. TypeOK
  <2>1. kind \in [Calls -> Kinds] /\ pc \in TurnPcs /\ cur \in 1 .. N + 1 /\ keyboard \in 0 .. N
    BY <1>n DEF Init, TurnPcs
  <2>2. {persistFailed, expired, flag} \subseteq BOOLEAN
    BY DEF Init
  <2>3. /\ {abandoned, begun, known, bits} \subseteq SUBSET Calls /\ bits = {}
        /\ wpc \in [Calls -> WorkerPcs] /\ outcome \in [Calls -> Outcomes]
        /\ posts \in [Calls -> Nat]
    BY DEF Init, WorkerPcs, Outcomes
  <2>4. \A i \in Calls : HasWorker(i) => (outcome[i] # "none" <=> wpc[i] \in {"leaving", "over"})
    BY DEF Init
  <2> QED
    BY <1>1, <2>1, <2>2, <2>3, <2>4 DEF TypeOK
<1>3. PlaceInv
  BY <1>n DEF Init, PlaceInv, AtCall, Untried, Registered
<1>4. RowsInv
  BY <1>n, <1>1 DEF Init, RowsInv, AtCall
<1>5. TruthInv
  BY <1>n, <1>1 DEF Init, TruthInv
<1>6. HookInv
  BY <1>n, <1>1 DEF Init, HookInv
<1> QED
  BY <1>2, <1>3, <1>4, <1>5, <1>6 DEF IInv

LEMMA FinishRoundKeeps ==
    ASSUME IInv, FinishRound
    PROVE  IInv'
<1>n. N \in Nat /\ cur \in Nat /\ Len(rows) \in Nat /\ Calls = 1 .. N
  BY Numbers DEF IInv
<1>1. TypeOK'
  BY DEF IInv, TypeOK, FinishRound, TurnPcs, HasWorker, Registered
<1>2. PlaceInv'
  BY DEF IInv, PlaceInv, FinishRound, AtCall, Untried, HasWorker, Registered
<1>3. RowsInv'
  <2>1. Len(rows) = cur - 1 /\ cur > N /\ cur \in 1 .. N + 1
    BY DEF IInv, TypeOK, RowsInv, FinishRound, AtCall
  <2>2. Len(rows) = N
    BY <1>n, <2>1
  <2> QED
    BY <2>2 DEF IInv, RowsInv, FinishRound, AtCall
<1>4. TruthInv'
  BY DEF IInv, TruthInv, FinishRound, HasWorker
<1>5. HookInv'
  BY DEF IInv, HookInv, FinishRound, Over, Own
<1> QED
  BY <1>1, <1>2, <1>3, <1>4, <1>5 DEF IInv

LEMMA DispatchKeeps ==
    ASSUME IInv, Dispatch
    PROVE  IInv'
<1>n. N \in Nat /\ cur \in Nat /\ Len(rows) \in Nat /\ Calls = 1 .. N
  BY Numbers DEF IInv
<1>1. cur \in Calls /\ Untried(cur)
  BY <1>n DEF Dispatch, Untried, IInv, TypeOK
<1>2. wpc[cur] = "none" /\ outcome[cur] = "none" /\ cur \notin known /\ cur \notin bits
  BY <1>1 DEF IInv, TypeOK, PlaceInv, Registered
<1>3. /\ UNCHANGED <<kind, cur, rows, persistFailed, abandoned, keyboard, outcome, begun, known, bits, posts, flag>>
      /\ pc = "next" /\ pc' \in {"poll", "prompt"} /\ expired' \in BOOLEAN
      /\ pc' = "poll" => HasWorker(cur) /\ wpc' = [wpc EXCEPT ![cur] = "queued"]
      /\ pc' = "prompt" => kind[cur] = "prompt" /\ wpc' = wpc
  BY DEF Dispatch, IInv, TypeOK
<1>4. /\ wpc' \in [Calls -> WorkerPcs] /\ wpc'[cur] \in {"none", "queued"}
      /\ \A k \in Calls : k # cur => wpc'[k] = wpc[k]
      /\ wpc'[cur] # "none" => HasWorker(cur)
      /\ pc' = "poll" => wpc'[cur] = "queued"
  BY <1>1, <1>2, <1>3 DEF IInv, TypeOK, WorkerPcs
<1>5. \A k \in Calls : Untried(k)' => Untried(k) /\ k # cur
  BY <1>n, <1>3 DEF Untried
<1>6. TypeOK'
  <2>1. \A k \in bits : k # cur /\ k \in Calls
    BY <1>2 DEF IInv, TypeOK
  <2>2. \A k \in bits' : Registered(k)' \/ wpc'[k] = "over"
    BY <1>3, <1>4, <2>1 DEF IInv, TypeOK, Registered
  <2>3. \A k \in Calls : HasWorker(k)' => (outcome'[k] # "none" <=> wpc'[k] \in {"leaving", "over"})
    BY <1>2, <1>3, <1>4 DEF IInv, TypeOK, HasWorker
  <2>4. pc' \in TurnPcs
    BY <1>3 DEF TurnPcs
  <2> QED
    BY <1>3, <1>4, <2>2, <2>3, <2>4 DEF IInv, TypeOK
<1>7. PlaceInv'
  <2>1. \A k \in known : k # cur /\ k \in Calls
    BY <1>2 DEF IInv, TypeOK
  <2>2. \A k \in known' : Registered(k)' \/ wpc'[k] = "over"
    BY <1>3, <1>4, <2>1 DEF IInv, PlaceInv, Registered
  <2>3. \A k \in Calls : wpc'[k] # "none" => HasWorker(k)'
    BY <1>3, <1>4 DEF IInv, PlaceInv, HasWorker
  <2>4. \A k \in Calls : Untried(k)' =>
          wpc'[k] = "none" /\ outcome'[k] = "none" /\ k \notin begun' /\ k \notin abandoned'
    BY <1>3, <1>4, <1>5 DEF IInv, PlaceInv
  <2> QED
    BY <1>1, <1>2, <1>3, <1>4, <2>2, <2>3, <2>4 DEF PlaceInv
<1>8. RowsInv'
  BY <1>3 DEF IInv, RowsInv, AtCall
<1>9. TruthInv'
  <2>1. \A j \in 1 .. Len(rows) : j \in Calls /\ j # cur
    BY <1>n, <1>1, <1>3 DEF IInv, RowsInv
  <2> QED
    BY <1>3, <1>4, <2>1 DEF IInv, TruthInv, HasWorker
<1>10. HookInv'
  BY <1>1, <1>3, <1>5 DEF IInv, PlaceInv, HookInv, Over, Own
<1> QED
  BY <1>6, <1>7, <1>8, <1>9, <1>10 DEF IInv

\* One more hook for the calls from .. upto, none for the others.
LEMMA PostedFacts ==
    ASSUME posts \in [Calls -> Nat], NEW from \in Nat, NEW upto \in Nat
    PROVE  /\ Posted(from, upto) \in [Calls -> Nat]
           /\ \A k \in Calls : Posted(from, upto)[k] = IF k \in from .. upto THEN posts[k] + 1 ELSE posts[k]
BY DEF Posted

LEMMA OnePosted ==
    ASSUME posts \in [Calls -> Nat], NEW c \in Calls
    PROVE  /\ Posted(c, c) \in [Calls -> Nat]
           /\ Posted(c, c)[c] = posts[c] + 1
           /\ \A k \in Calls : k # c => Posted(c, c)[k] = posts[k]
<1>1. N \in Nat /\ c \in Nat /\ \A k \in Calls : k \in Nat
  BY SequentialAssumption DEF Calls
<1>2. \A k \in Calls : k \in c .. c <=> k = c
  BY <1>1
<1> QED
  BY <1>1, <1>2, PostedFacts

LEMMA PromptHooksKeeps ==
    ASSUME IInv, PromptHooks
    PROVE  IInv'
<1>n. N \in Nat /\ cur \in Nat /\ Len(rows) \in Nat /\ Calls = 1 .. N
  BY Numbers DEF IInv
<1>1. /\ cur \in Calls /\ kind[cur] = "prompt" /\ ~HasWorker(cur) /\ outcome[cur] = "none"
      /\ wpc[cur] = "none" /\ posts[cur] = 0 /\ cur \notin abandoned /\ Len(rows) = cur - 1
  BY DEF IInv, PlaceInv, RowsInv, HookInv, AtCall, HasWorker, PromptHooks
<1>2. \A c \in Calls : posts' = Posted(c, c) =>
         /\ posts' \in [Calls -> Nat]
         /\ posts'[c] = posts[c] + 1
         /\ \A k \in Calls : k # c => posts'[k] = posts[k]
  BY OnePosted DEF IInv, TypeOK
<1>3. TypeOK'
  BY <1>1, <1>2 DEF IInv, TypeOK, PromptHooks, TurnPcs, Outcomes, HasWorker, Registered
<1>4. PlaceInv'
  BY <1>1 DEF IInv, TypeOK, PlaceInv, Untried, HasWorker, Registered, PromptHooks
<1>5. RowsInv'
  BY <1>1 DEF IInv, RowsInv, AtCall, PromptHooks
<1>6. TruthInv'
  BY <1>n, <1>1 DEF IInv, TruthInv, HasWorker, PromptHooks
<1>7. HookInv'
  <2>1. /\ UNCHANGED <<kind, cur, rows, abandoned>>
        /\ pc' \in {"prompting", "publish", "raised"}
        /\ \A k \in Calls : k # cur => posts'[k] = posts[k] /\ outcome'[k] = outcome[k]
        /\ pc' = "prompting" => posts'[cur] = 0
        /\ pc' = "publish" => posts'[cur] = 1 /\ outcome'[cur] = "blocked"
    BY <1>1, <1>2 DEF PromptHooks, IInv, TypeOK
  <2>2. \A j \in 1 .. Len(rows) : j \in Calls /\ j # cur
    BY <1>n, <1>1
  <2>3. \A k \in Calls : Untried(k)' => Untried(k) /\ k # cur
    BY <1>n, <2>1 DEF Untried, PromptHooks
  <2> QED
    BY <1>1, <2>1, <2>2, <2>3 DEF IInv, HookInv, Own, Over, PromptHooks
<1> QED
  BY <1>3, <1>4, <1>5, <1>6, <1>7 DEF IInv

LEMMA PromptEndsKeeps ==
    ASSUME IInv, PromptEnds
    PROVE  IInv'
<1>n. N \in Nat /\ cur \in Nat /\ Len(rows) \in Nat /\ Calls = 1 .. N
  BY Numbers DEF IInv
<1>1. TypeOK'
  <2>1. cur \in Calls /\ ~HasWorker(cur)
    BY DEF IInv, PlaceInv, AtCall, HasWorker, PromptEnds
  <2>2. /\ outcome' \in [Calls -> Outcomes] /\ \A k \in Calls : k # cur => outcome'[k] = outcome[k]
        /\ pc' \in TurnPcs
        /\ UNCHANGED <<kind, cur, rows, persistFailed, expired, abandoned, keyboard, wpc, begun, known, bits, posts, flag>>
    BY <2>1 DEF IInv, TypeOK, Outcomes, TurnPcs, PromptEnds
  <2> QED
    BY <2>1, <2>2 DEF IInv, TypeOK, HasWorker, Registered
<1>2. PlaceInv'
  BY DEF IInv, TypeOK, PlaceInv, AtCall, Untried, HasWorker, Registered, PromptEnds
<1>3. RowsInv'
  BY <1>n DEF IInv, RowsInv, AtCall, PromptEnds
<1>4. TruthInv'
  BY DEF IInv, PlaceInv, TruthInv, HasWorker, PromptEnds
<1>5. HookInv'
  <2>1. /\ pc = "prompting" /\ cur \in Calls /\ Len(rows) = cur - 1
        /\ cur \notin abandoned /\ posts[cur] = 0
    BY DEF IInv, PlaceInv, RowsInv, HookInv, AtCall, PromptEnds
  <2>2. /\ UNCHANGED <<cur, rows, abandoned, posts>> /\ pc' \in {"publish", "raised"}
        /\ outcome'[cur] # "blocked" /\ \A k \in Calls : k # cur => outcome'[k] = outcome[k]
    BY <2>1 DEF IInv, TypeOK, PromptEnds
  <2>3. \A j \in 1 .. Len(rows) : j \in Calls /\ j # cur
    BY <1>n, <2>1
  <2> QED
    BY <2>1, <2>2, <2>3 DEF IInv, HookInv, Over, Own, Untried
<1> QED
  BY <1>1, <1>2, <1>3, <1>4, <1>5 DEF IInv

LEMMA PollDoneKeeps ==
    ASSUME IInv, PollDone
    PROVE  IInv'
<1>n. N \in Nat /\ cur \in Nat /\ Len(rows) \in Nat /\ Calls = 1 .. N
  BY Numbers DEF IInv
<1>1. TypeOK'
  BY DEF IInv, TypeOK, TurnPcs, HasWorker, Registered, PollDone, Taken
<1>2. PlaceInv'
  BY DEF IInv, PlaceInv, AtCall, Untried, HasWorker, Registered, PollDone, Taken
<1>3. RowsInv'
  BY <1>n DEF IInv, RowsInv, AtCall, PollDone, Taken
<1>4. TruthInv'
  BY DEF IInv, TruthInv, HasWorker, PollDone
<1>5. HookInv'
  BY DEF IInv, HookInv, Over, Own, Untried, PollDone, Taken
<1> QED
  BY <1>1, <1>2, <1>3, <1>4, <1>5 DEF IInv

LEMMA PollInterruptedKeeps ==
    ASSUME IInv, PollInterrupted
    PROVE  IInv'
<1>n. N \in Nat /\ cur \in Nat /\ Len(rows) \in Nat /\ Calls = 1 .. N
  BY Numbers DEF IInv
<1>1. TypeOK'
  BY DEF IInv, TypeOK, PlaceInv, TurnPcs, HasWorker, Registered, PollInterrupted, Told
<1>2. PlaceInv'
  BY DEF IInv, PlaceInv, AtCall, Untried, HasWorker, Registered, PollInterrupted
<1>3. RowsInv'
  BY <1>n DEF IInv, RowsInv, AtCall, PollInterrupted, Told
<1>4. TruthInv'
  BY DEF IInv, TruthInv, HasWorker, PollInterrupted
<1>5. HookInv'
  BY DEF IInv, HookInv, Over, Own, Untried, PollInterrupted
<1> QED
  BY <1>1, <1>2, <1>3, <1>4, <1>5 DEF IInv

LEMMA GraceDoneKeeps ==
    ASSUME IInv, GraceDone
    PROVE  IInv'
<1>n. N \in Nat /\ cur \in Nat /\ Len(rows) \in Nat /\ Calls = 1 .. N
  BY Numbers DEF IInv
<1>1. TypeOK'
  BY DEF IInv, TypeOK, TurnPcs, HasWorker, Registered, GraceDone, Taken
<1>2. PlaceInv'
  BY DEF IInv, PlaceInv, AtCall, Untried, HasWorker, Registered, GraceDone, Taken
<1>3. RowsInv'
  BY <1>n DEF IInv, RowsInv, AtCall, GraceDone, Taken
<1>4. TruthInv'
  BY DEF IInv, TruthInv, HasWorker, GraceDone
<1>5. HookInv'
  BY DEF IInv, HookInv, Over, Own, Untried, GraceDone, Taken
<1> QED
  BY <1>1, <1>2, <1>3, <1>4, <1>5 DEF IInv

\* Both ways to give up on the current call.
LEMMA AbandonKeeps ==
    ASSUME IInv, pc \in {"poll", "grace"}, Abandon, bits' \subseteq Calls,
           \A i \in bits' : Registered(i) \/ wpc[i] = "over"
    PROVE  IInv'
<1>n. N \in Nat /\ cur \in Nat /\ Len(rows) \in Nat /\ Calls = 1 .. N
  BY Numbers DEF IInv
<1>1. /\ cur \in Calls /\ wpc[cur] # "none" /\ HasWorker(cur) /\ cur \notin abandoned
      /\ posts[cur] = Own(cur) /\ Len(rows) = cur - 1 /\ wpc \in [Calls -> WorkerPcs]
  BY DEF IInv, TypeOK, PlaceInv, RowsInv, HookInv, AtCall
<1>2. /\ posts' \in [Calls -> Nat]
      /\ posts'[cur] = posts[cur] + 1
      /\ \A k \in Calls : k # cur => posts'[k] = posts[k]
  BY <1>1, OnePosted DEF IInv, TypeOK, Abandon
<1>3. /\ wpc' \in [Calls -> WorkerPcs]
      /\ wpc'[cur] = IF wpc[cur] = "queued" THEN "cancelled" ELSE wpc[cur]
      /\ \A k \in Calls : k # cur => wpc'[k] = wpc[k]
  BY <1>1 DEF Abandon, WorkerPcs
<1>4. /\ pc' = "publish" /\ abandoned' = abandoned \cup {cur}
      /\ UNCHANGED <<kind, cur, rows, persistFailed, expired, keyboard, outcome, begun, known, flag>>
  BY DEF Abandon
<1>5. TypeOK'
  BY <1>1, <1>2, <1>3, <1>4 DEF IInv, TypeOK, TurnPcs, HasWorker, Registered
<1>6. PlaceInv'
  <2>1. \A k \in known : k \in Calls /\ wpc[k] # "queued"
    BY DEF IInv, TypeOK, PlaceInv, Registered
  <2>2. \A k \in known' : Registered(k)' \/ wpc'[k] = "over"
    BY <1>3, <1>4, <2>1 DEF IInv, PlaceInv, Registered
  <2> QED
    BY <1>1, <1>3, <1>4, <2>2 DEF IInv, PlaceInv, Untried, HasWorker
<1>7. RowsInv'
  BY <1>1, <1>4 DEF IInv, RowsInv, AtCall
<1>8. \A j \in 1 .. Len(rows) : j \in Calls /\ j # cur
  BY <1>n, <1>1
<1>9. TruthInv'
  BY <1>3, <1>4, <1>8 DEF IInv, TruthInv, HasWorker
<1>10. HookInv'
  <2>1. \A k \in Calls : Untried(k)' => Untried(k) /\ k # cur
    BY <1>n, <1>4 DEF Untried
  <2>2. posts[cur] = (IF outcome[cur] = "blocked" THEN 1 ELSE 0)
    BY <1>1 DEF Own
  <2> QED
    BY <1>1, <1>2, <1>4, <1>8, <2>1, <2>2 DEF IInv, HookInv, Own, Over
<1> QED
  BY <1>5, <1>6, <1>7, <1>9, <1>10 DEF IInv

LEMMA PollTimesOutKeeps ==
    ASSUME IInv, PollTimesOut
    PROVE  IInv'
<1>1. bits' \subseteq Calls /\ \A i \in bits' : Registered(i) \/ wpc[i] = "over"
  BY DEF IInv, TypeOK, PlaceInv, PollTimesOut, Told
<1> QED
  BY <1>1, AbandonKeeps DEF PollTimesOut

LEMMA GraceEndsKeeps ==
    ASSUME IInv, GraceEnds
    PROVE  IInv'
<1>1. bits' \subseteq Calls /\ \A i \in bits' : Registered(i) \/ wpc[i] = "over"
  BY DEF IInv, TypeOK, GraceEnds
<1> QED
  BY <1>1, AbandonKeeps DEF GraceEnds

LEMMA KeyboardInterruptKeeps ==
    ASSUME IInv, KeyboardInterrupt
    PROVE  IInv'
<1>n. N \in Nat /\ cur \in Nat /\ Len(rows) \in Nat /\ Calls = 1 .. N
  BY Numbers DEF IInv
<1>1. TypeOK'
  BY <1>n DEF IInv, TypeOK, PlaceInv, AtCall, TurnPcs, HasWorker, Registered, KeyboardInterrupt
<1>2. PlaceInv'
  BY DEF IInv, PlaceInv, AtCall, Untried, HasWorker, Registered, KeyboardInterrupt
<1>3. RowsInv'
  BY <1>n DEF IInv, RowsInv, AtCall, KeyboardInterrupt
<1>4. TruthInv'
  BY DEF IInv, TruthInv, HasWorker, KeyboardInterrupt
<1>5. HookInv'
  BY DEF IInv, HookInv, Over, Own, Untried, KeyboardInterrupt
<1> QED
  BY <1>1, <1>2, <1>3, <1>4, <1>5 DEF IInv

LEMMA DeadlineElapsesKeeps ==
    ASSUME IInv, DeadlineElapses
    PROVE  IInv'
<1>n. N \in Nat /\ cur \in Nat /\ Len(rows) \in Nat /\ Calls = 1 .. N
  BY Numbers DEF IInv
<1>1. TypeOK'
  BY DEF IInv, TypeOK, HasWorker, Registered, DeadlineElapses
<1>2. PlaceInv'
  BY DEF IInv, PlaceInv, Untried, HasWorker, Registered, DeadlineElapses
<1>3. RowsInv'
  BY <1>n DEF IInv, RowsInv, AtCall, DeadlineElapses
<1>4. TruthInv'
  BY DEF IInv, TruthInv, HasWorker, DeadlineElapses
<1>5. HookInv'
  BY DEF IInv, HookInv, Over, Own, Untried, DeadlineElapses
<1> QED
  BY <1>1, <1>2, <1>3, <1>4, <1>5 DEF IInv

LEMMA InterruptKeeps ==
    ASSUME IInv, Interrupt
    PROVE  IInv'
<1>n. N \in Nat /\ cur \in Nat /\ Len(rows) \in Nat /\ Calls = 1 .. N
  BY Numbers DEF IInv
<1>1. TypeOK'
  BY DEF IInv, TypeOK, PlaceInv, HasWorker, Registered, Interrupt, turnVars
<1>2. PlaceInv'
  BY DEF IInv, PlaceInv, Untried, HasWorker, Registered, Interrupt, turnVars
<1>3. RowsInv'
  BY <1>n DEF IInv, RowsInv, AtCall, Interrupt, turnVars
<1>4. TruthInv'
  BY DEF IInv, TruthInv, HasWorker, Interrupt, turnVars
<1>5. HookInv'
  BY DEF IInv, HookInv, Over, Own, Untried, Interrupt, turnVars
<1> QED
  BY <1>1, <1>2, <1>3, <1>4, <1>5 DEF IInv

LEMMA StartKeeps ==
    ASSUME IInv, NEW i \in Calls, Start(i)
    PROVE  IInv'
<1>n. N \in Nat /\ cur \in Nat /\ Len(rows) \in Nat /\ Calls = 1 .. N
  BY Numbers DEF IInv
<1>1. TypeOK'
  BY DEF IInv, TypeOK, WorkerPcs, HasWorker, Registered, Start, Moves, turnVars
<1>2. PlaceInv'
  BY DEF IInv, PlaceInv, Untried, HasWorker, Registered, Start, Moves, turnVars
<1>3. RowsInv'
  BY DEF IInv, RowsInv, Start, turnVars
<1>4. TruthInv'
  BY DEF IInv, TruthInv, HasWorker, Start, Moves, turnVars
<1>5. HookInv'
  BY DEF IInv, HookInv, Over, Own, Untried, Start, turnVars
<1> QED
  BY <1>1, <1>2, <1>3, <1>4, <1>5 DEF IInv

LEMMA RegisterKeeps ==
    ASSUME IInv, NEW i \in Calls, Register(i)
    PROVE  IInv'
<1>n. N \in Nat /\ cur \in Nat /\ Len(rows) \in Nat /\ Calls = 1 .. N
  BY Numbers DEF IInv
<1>1. TypeOK'
  BY DEF IInv, TypeOK, WorkerPcs, HasWorker, Registered, Register, Moves, turnVars
<1>2. PlaceInv'
  BY DEF IInv, PlaceInv, Untried, HasWorker, Registered, Register, Moves, turnVars
<1>3. RowsInv'
  BY DEF IInv, RowsInv, Register, turnVars
<1>4. TruthInv'
  BY DEF IInv, TruthInv, HasWorker, Register, Moves, turnVars
<1>5. HookInv'
  BY DEF IInv, HookInv, Over, Own, Untried, Register, turnVars
<1> QED
  BY <1>1, <1>2, <1>3, <1>4, <1>5 DEF IInv

LEMMA LeaveTidKeeps ==
    ASSUME IInv, NEW i \in Calls, LeaveTid(i)
    PROVE  IInv'
<1>n. N \in Nat /\ cur \in Nat /\ Len(rows) \in Nat /\ Calls = 1 .. N
  BY Numbers DEF IInv
<1>1. TypeOK'
  BY DEF IInv, TypeOK, WorkerPcs, HasWorker, Registered, LeaveTid, Moves, turnVars
<1>2. PlaceInv'
  BY DEF IInv, PlaceInv, Untried, HasWorker, Registered, LeaveTid, Moves, turnVars
<1>3. RowsInv'
  BY DEF IInv, RowsInv, LeaveTid, turnVars
<1>4. TruthInv'
  BY DEF IInv, TruthInv, HasWorker, LeaveTid, Moves, turnVars
<1>5. HookInv'
  BY DEF IInv, HookInv, Over, Own, Untried, LeaveTid, turnVars
<1> QED
  BY <1>1, <1>2, <1>3, <1>4, <1>5 DEF IInv

LEMMA AskHumanKeeps ==
    ASSUME IInv, NEW i \in Calls, AskHuman(i)
    PROVE  IInv'
<1>n. N \in Nat /\ cur \in Nat /\ Len(rows) \in Nat /\ Calls = 1 .. N
  BY Numbers DEF IInv
<1>1. TypeOK'
  BY DEF IInv, TypeOK, WorkerPcs, HasWorker, Registered, AskHuman, Moves, turnVars
<1>2. PlaceInv'
  BY DEF IInv, PlaceInv, Untried, HasWorker, Registered, AskHuman, Moves, turnVars
<1>3. RowsInv'
  BY DEF IInv, RowsInv, AskHuman, turnVars
<1>4. TruthInv'
  BY DEF IInv, TruthInv, HasWorker, AskHuman, Moves, turnVars
<1>5. HookInv'
  BY DEF IInv, HookInv, Over, Own, Untried, AskHuman, turnVars
<1> QED
  BY <1>1, <1>2, <1>3, <1>4, <1>5 DEF IInv

LEMMA HooksPassKeeps ==
    ASSUME IInv, NEW i \in Calls, HooksPass(i)
    PROVE  IInv'
<1>n. N \in Nat /\ cur \in Nat /\ Len(rows) \in Nat /\ Calls = 1 .. N
  BY Numbers DEF IInv
<1>1. TypeOK'
  BY DEF IInv, TypeOK, PlaceInv, TurnPcs, WorkerPcs, Outcomes, HasWorker, Registered, HooksPass, Moves, turnVars
<1>2. PlaceInv'
  BY DEF IInv, PlaceInv, Untried, HasWorker, Registered, HooksPass, Moves, turnVars
<1>3. RowsInv'
  BY DEF IInv, RowsInv, HooksPass, turnVars
<1>4. TruthInv'
  BY DEF IInv, TruthInv, HasWorker, HooksPass, Moves, turnVars
<1>5. HookInv'
  BY DEF IInv, HookInv, Over, Own, Untried, HooksPass, turnVars
<1> QED
  BY <1>1, <1>2, <1>3, <1>4, <1>5 DEF IInv

LEMMA LeaveKeeps ==
    ASSUME IInv, NEW i \in Calls, Leave(i)
    PROVE  IInv'
<1>n. N \in Nat /\ cur \in Nat /\ Len(rows) \in Nat /\ Calls = 1 .. N
  BY Numbers DEF IInv
<1>1. TypeOK'
  BY DEF IInv, TypeOK, WorkerPcs, HasWorker, Registered, Leave, Moves, turnVars
<1>2. PlaceInv'
  BY DEF IInv, PlaceInv, Untried, HasWorker, Registered, Leave, Moves, turnVars
<1>3. RowsInv'
  BY DEF IInv, RowsInv, Leave, turnVars
<1>4. TruthInv'
  BY DEF IInv, TruthInv, HasWorker, Leave, Moves, turnVars
<1>5. HookInv'
  BY DEF IInv, HookInv, Over, Own, Untried, Leave, turnVars
<1> QED
  BY <1>1, <1>2, <1>3, <1>4, <1>5 DEF IInv

LEMMA RowsAreCalls ==
    ASSUME TypeOK, RowsInv
    PROVE  \A j \in 1 .. Len(rows) : j \in Calls
<1>1. \A j \in 1 .. Len(rows) : rows[j] \in [call : Calls, effect : Effects] /\ rows[j].call = j
  BY ElementOfSeq DEF TypeOK, RowsInv
<1> QED
  BY <1>1

\* The end of a worker's hooks or tool, on the call i.
LEMMA OutcomeKeeps ==
    ASSUME IInv, NEW i \in Calls, wpc[i] \in {"hooks", "human", "tool"},
           NEW o \in {"result", "blocked", "error", "timeoutError"},
           wpc' = [wpc EXCEPT ![i] = "leaving"], outcome' = [outcome EXCEPT ![i] = o],
           posts' = IF o = "blocked" THEN Posted(i, i) ELSE posts,
           UNCHANGED <<turnVars, begun, known, bits, flag>>
    PROVE  IInv'
<1>n. N \in Nat /\ cur \in Nat /\ Len(rows) \in Nat /\ Calls = 1 .. N
  BY Numbers DEF IInv
<1>1. /\ HasWorker(i) /\ outcome[i] = "none" /\ ~Untried(i)
      /\ kind[i] # "prompt" /\ kind[i] # "invalid"
  BY DEF IInv, TypeOK, PlaceInv, HasWorker, Registered
<1>2. /\ posts' \in [Calls -> Nat]
      /\ posts'[i] = posts[i] + (IF o = "blocked" THEN 1 ELSE 0)
      /\ \A k \in Calls : k # i => posts'[k] = posts[k]
  BY OnePosted DEF IInv, TypeOK
<1>3. /\ wpc' \in [Calls -> WorkerPcs] /\ wpc'[i] = "leaving"
      /\ \A k \in Calls : k # i => wpc'[k] = wpc[k]
  BY DEF IInv, TypeOK, WorkerPcs
<1>4. /\ outcome' \in [Calls -> Outcomes] /\ outcome'[i] = o
      /\ \A k \in Calls : k # i => outcome'[k] = outcome[k]
  BY DEF IInv, TypeOK, Outcomes
<1>5. UNCHANGED <<kind, pc, cur, rows, persistFailed, expired, abandoned, keyboard, begun, known, bits, flag>>
  BY DEF turnVars
<1>6. TypeOK'
  BY <1>2, <1>3, <1>4, <1>5 DEF IInv, TypeOK, HasWorker, Registered
<1>7. PlaceInv'
  <2>1. pc \in {"prompt", "prompting"} => cur # i
    BY <1>1 DEF IInv, PlaceInv
  <2> QED
    BY <1>1, <1>3, <1>4, <1>5, <2>1 DEF IInv, PlaceInv, Untried, HasWorker, Registered
<1>8. RowsInv'
  BY <1>5 DEF IInv, RowsInv, AtCall
<1>9. \A j \in 1 .. Len(rows) : j = i => rows[j].effect \notin {"none", "result", "invalid"} \/ (rows[j].effect = "none" /\ j = keyboard)
  BY <1>1 DEF IInv, TruthInv
<1>10. \A j \in 1 .. Len(rows) : j \in Calls
  BY RowsAreCalls DEF IInv
<1>11. TruthInv'
  BY <1>3, <1>5 DEF IInv, TruthInv, HasWorker
<1>12. HookInv'
  <2>1. pc \in AtCall => cur \in Calls
    BY DEF IInv, PlaceInv
  <2>2. pc = "publish" /\ cur = i => cur \in abandoned
    BY <1>1 DEF IInv, TruthInv
  <2>3. pc \in {"prompt", "prompting"} => cur # i
    BY <1>1 DEF IInv, PlaceInv
  <2>4. /\ posts[i] \in Nat
        /\ \A k \in Calls : k # i => outcome'[k] = outcome[k] /\ posts'[k] = posts[k]
        /\ posts'[i] = posts[i] + (IF outcome'[i] = "blocked" THEN 1 ELSE 0)
    BY <1>2, <1>4 DEF IInv, TypeOK
  <2>5. \A j \in 1 .. Len(rows) : rows[j].effect \in {"result", "unknown", "invalid"} =>
              posts'[j] = IF rows[j].effect = "unknown"
                          THEN 1 + IF outcome'[j] = "blocked" THEN 1 ELSE 0
                          ELSE 1
    BY <1>1, <1>9, <1>10, <2>4 DEF IInv, HookInv, Own
  <2>6. ~Over => \A k \in Calls : Untried(k) => posts'[k] = 0
    BY <1>1, <1>2 DEF IInv, HookInv
  <2>7. /\ pc \in {"poll", "grace"} =>
              cur \notin abandoned /\ posts'[cur] = IF outcome'[cur] = "blocked" THEN 1 ELSE 0
        /\ pc \in {"prompt", "prompting"} => cur \notin abandoned /\ posts'[cur] = 0
        /\ pc = "publish" =>
              posts'[cur] = IF cur \in abandoned
                            THEN 1 + IF outcome'[cur] = "blocked" THEN 1 ELSE 0
                            ELSE IF outcome'[cur] = "blocked" THEN 1 ELSE 0
    <3>1. CASE cur = i
      <4>1. pc \in {"poll", "grace"} => posts[i] = 0 /\ cur \notin abandoned
        BY <1>1, <3>1 DEF IInv, HookInv, Own
      <4>2. pc = "publish" => posts[i] = 1
        BY <1>1, <2>2, <3>1 DEF IInv, HookInv, Own
      <4> QED
        BY <2>2, <2>3, <2>4, <3>1, <4>1, <4>2
    <3>2. CASE cur # i
      BY <2>1, <2>4, <3>2 DEF IInv, HookInv, AtCall, Own
    <3> QED
      BY <3>1, <3>2
  <2> QED
    BY <1>5, <2>5, <2>6, <2>7 DEF HookInv, Own, Over, Untried
<1> QED
  BY <1>6, <1>7, <1>8, <1>11, <1>12 DEF IInv

LEMMA HooksBlockKeeps ==
    ASSUME IInv, NEW i \in Calls, HooksBlock(i)
    PROVE  IInv'
<1>1. CASE outcome' = [outcome EXCEPT ![i] = "blocked"] /\ posts' = Posted(i, i)
  BY <1>1, OutcomeKeeps DEF HooksBlock, Moves
<1>2. CASE outcome' = [outcome EXCEPT ![i] = "error"] /\ UNCHANGED posts
  BY <1>2, OutcomeKeeps DEF HooksBlock, Moves
<1> QED
  BY <1>1, <1>2 DEF HooksBlock

LEMMA ToolEndsKeeps ==
    ASSUME IInv, NEW i \in Calls, ToolEnds(i)
    PROVE  IInv'
<1>1. PICK o \in {"result", "error", "timeoutError"} : outcome' = [outcome EXCEPT ![i] = o]
  BY DEF ToolEnds
<1> QED
  BY <1>1, OutcomeKeeps DEF ToolEnds, Moves

-----------------------------------------------------------------------------
(* The steps that append rows. *)

\* Rows appended for calls that the turn has not tried.
LEMMA SkippedKeeps ==
    ASSUME IInv, NEW from \in Calls, NEW last \in from .. N, NEW hooked \in BOOLEAN,
           NEW e \in {"none", "batch"}, SkippedFrom(from, last, hooked, e),
           pc \in {"next", "skipRest"}, cur <= from, Len(rows) = from - 1,
           \A k \in from .. N : Untried(k),
           UNCHANGED <<kind, expired, abandoned, keyboard, wpc, outcome, begun, known, bits, flag>>
    PROVE  IInv'
<1>n. N \in Nat /\ cur \in Nat /\ from \in Nat /\ last \in Nat /\ Calls = 1 .. N
  BY Numbers DEF IInv
<1>1. PICK upto \in from .. last, saved \in BOOLEAN :
        /\ upto < last => ~saved
        /\ rows' = rows \o RowsFor(from, upto, e)
        /\ posts' = IF hooked THEN Posted(from, upto) ELSE posts
        /\ persistFailed' = ~saved
        /\ pc' = IF saved THEN "next" ELSE "done"
        /\ cur' = IF saved THEN last + 1 ELSE cur
  BY DEF SkippedFrom
<1>2. upto \in Calls /\ upto \in Nat /\ from <= upto /\ e \in Effects /\ (saved => upto = last)
  BY <1>n, <1>1 DEF Effects
<1>3. /\ rows' \in Seq([call : Calls, effect : Effects])
      /\ Len(rows') = upto
      /\ \A j \in 1 .. from - 1 : rows'[j] = rows[j]
      /\ \A j \in from .. upto : rows'[j].effect = e
      /\ \A j \in 1 .. upto : rows'[j].call = j
  BY <1>1, <1>2, RowsAdded DEF IInv
<1>4. /\ posts' \in [Calls -> Nat]
      /\ \A k \in Calls : k \notin from .. upto => posts'[k] = posts[k]
  <2>1. posts \in [Calls -> Nat]
    BY DEF IInv, TypeOK
  <2>3. from \in Nat /\ upto \in Nat
    BY <1>n, <1>2
  <2>2. /\ Posted(from, upto) \in [Calls -> Nat]
        /\ \A k \in Calls :
              Posted(from, upto)[k] = IF k \in from .. upto THEN posts[k] + 1 ELSE posts[k]
    BY <2>1, <2>3, PostedFacts
  <2> QED
    BY <1>1, <2>1, <2>2
<1>5. \A j \in 1 .. upto : j \in Calls /\ (j \in 1 .. from - 1 \/ (j \in from .. upto /\ Untried(j)))
  BY <1>n, <1>1
<1>7. TypeOK'
  <2>1. cur' \in 1 .. N + 1 /\ pc' \in TurnPcs
    BY <1>n, <1>1 DEF TurnPcs, IInv, TypeOK
  <2>2. {persistFailed', expired', flag'} \subseteq BOOLEAN
    BY <1>1 DEF IInv, TypeOK
  <2> QED
    BY <1>3, <1>4, <2>1, <2>2 DEF IInv, TypeOK, HasWorker, Registered
<1>8. \A k \in Calls : Untried(k)' => (Untried(k) /\ k > upto) \/ pc' = "done"
  BY <1>n, <1>1, <1>2 DEF Untried
<1>9. \A k \in Calls : Untried(k)' => Untried(k)
  BY <1>n, <1>1, <1>2 DEF Untried
<1>10. PlaceInv'
  BY <1>1, <1>9 DEF IInv, PlaceInv, AtCall, HasWorker, Registered
<1>11. RowsInv'
  <2>1. \A j \in 1 .. Len(rows') : rows'[j].call = j
    BY <1>3
  <2>2. pc' \in AtCall \cup {"next"} => Len(rows') = cur' - 1
    BY <1>n, <1>1, <1>2, <1>3 DEF AtCall
  <2>3. pc' # "skipRest" /\ ~(pc' = "done" /\ ~persistFailed')
    BY <1>1
  <2> QED
    BY <2>1, <2>2, <2>3 DEF RowsInv, AtCall
<1>12. TruthInv'
  <2>1. \A k \in Calls : Untried(k) => wpc[k] = "none" /\ k \notin begun
    BY DEF IInv, PlaceInv
  <2>2. \A j \in 1 .. from - 1 : j \in 1 .. Len(rows)
    OBVIOUS
  <2> QED
    BY <1>1, <1>3, <1>5, <2>1, <2>2 DEF IInv, TruthInv, HasWorker
<1>13. HookInv'
  <2>1. \A j \in 1 .. upto : rows'[j].effect \in {"result", "unknown", "invalid"} =>
          j \in 1 .. Len(rows) /\ rows'[j] = rows[j] /\ posts'[j] = posts[j]
    BY <1>n, <1>2, <1>3, <1>4, <1>5
  <2>2. ~Over' => \A k \in Calls : Untried(k)' => posts'[k] = 0
    BY <1>n, <1>1, <1>2, <1>4, <1>8 DEF IInv, HookInv, Over
  <2>3. outcome' = outcome /\ pc' \notin {"poll", "grace", "prompt", "prompting", "publish"}
    BY <1>1
  <2>4. \A j \in 1 .. upto : rows'[j].effect \in {"result", "unknown", "invalid"} =>
          posts'[j] = IF rows'[j].effect = "unknown" THEN 1 + Own(j)' ELSE 1
    BY <2>1, <2>3 DEF IInv, HookInv, Own
  <2> QED
    BY <1>3, <2>2, <2>3, <2>4 DEF HookInv
<1> QED
  BY <1>7, <1>10, <1>11, <1>12, <1>13 DEF IInv

LEMMA SkipSegmentKeeps ==
    ASSUME IInv, SkipSegment
    PROVE  IInv'
<1>n. N \in Nat /\ cur \in Nat /\ Calls = 1 .. N
  BY Numbers DEF IInv
<1>1. cur \in Calls /\ Len(rows) = cur - 1 /\ \A k \in cur .. N : Untried(k)
  BY <1>n DEF IInv, TypeOK, RowsInv, Untried, SkipSegment
<1>2. PICK last \in cur .. N : SkippedFrom(cur, last, TRUE, "none")
  BY DEF SkipSegment
<1>3. /\ pc = "next" /\ cur <= cur
      /\ UNCHANGED <<kind, expired, abandoned, keyboard, wpc, outcome, begun, known, bits, flag>>
  BY <1>n DEF SkipSegment
<1> QED
  BY <1>1, <1>2, <1>3, SkippedKeeps

LEMMA SkipRestKeeps ==
    ASSUME IInv, SkipRest
    PROVE  IInv'
<1>n. N \in Nat /\ cur \in Nat /\ Calls = 1 .. N
  BY Numbers DEF IInv
<1>1. PICK last \in cur + 1 .. N : SkippedFrom(cur + 1, last, FALSE, "none")
  BY DEF SkipRest
<1>2. /\ cur + 1 \in Calls /\ cur <= cur + 1 /\ Len(rows) = (cur + 1) - 1
      /\ \A k \in cur + 1 .. N : Untried(k)
  BY <1>n, <1>1 DEF IInv, PlaceInv, RowsInv, Untried, SkipRest
<1> QED
  BY <1>1, <1>2, SkippedKeeps DEF SkipRest

LEMMA RunParallelSegmentKeeps ==
    ASSUME IInv, RunParallelSegment
    PROVE  IInv'
<1>n. N \in Nat /\ cur \in Nat /\ Calls = 1 .. N
  BY Numbers DEF IInv
<1>1. cur \in Calls /\ Len(rows) = cur - 1 /\ \A k \in cur .. N : Untried(k)
  BY <1>n DEF IInv, TypeOK, RowsInv, Untried, RunParallelSegment
<1>4. /\ pc = "next" /\ cur <= cur
      /\ UNCHANGED <<kind, expired, abandoned, keyboard, wpc, outcome, begun, known, bits, flag>>
  BY <1>n DEF RunParallelSegment
<1>2. CASE \E last \in cur .. N : SkippedFrom(cur, last, FALSE, "batch")
  <2>1. PICK last \in cur .. N : SkippedFrom(cur, last, FALSE, "batch")
    BY <1>2
  <2> QED
    BY <1>1, <1>4, <2>1, SkippedKeeps
<1>3. CASE pc' = "raised" /\ UNCHANGED <<cur, rows, posts, persistFailed>>
  <2>0. UNCHANGED <<kind, expired, abandoned, keyboard, wpc, outcome, begun, known, bits, flag>>
    BY DEF RunParallelSegment
  <2>1. TypeOK'
    BY <1>3, <2>0 DEF IInv, TypeOK, TurnPcs, HasWorker, Registered
  <2>2. PlaceInv' /\ RowsInv'
    BY <1>3, <2>0 DEF IInv, PlaceInv, RowsInv, AtCall, Untried, HasWorker, Registered
  <2>3. TruthInv' /\ HookInv'
    BY <1>3, <2>0 DEF IInv, TruthInv, HookInv, Over, Own, HasWorker
  <2> QED
    BY <2>1, <2>2, <2>3 DEF IInv
<1> QED
  BY <1>2, <1>3 DEF RunParallelSegment

\* The row of the current call.
LEMMA CommitKeeps ==
    ASSUME IInv, cur \in Calls, pc \in {"next", "publish"}, Len(rows) = cur - 1,
           NEW e \in {"result", "unknown", "invalid"}, NEW goesOn \in {"next", "skipRest"},
           Commit(e, goesOn),
           posts' \in [Calls -> Nat], \A k \in Calls : k # cur => posts'[k] = posts[k],
           posts'[cur] = IF e = "unknown" THEN 1 + Own(cur) ELSE 1,
           e = "result" /\ HasWorker(cur) => wpc[cur] = "over",
           e = "invalid" => kind[cur] = "invalid",
           UNCHANGED <<kind, expired, abandoned, keyboard, wpc, outcome, begun, known, bits, flag>>
    PROVE  IInv'
<1>n. N \in Nat /\ cur \in Nat /\ cur >= 1 /\ Calls = 1 .. N
  BY Numbers DEF IInv
<1>1. PICK saved \in BOOLEAN :
        /\ rows' = Append(rows, Row(cur, e))
        /\ persistFailed' = ~saved
        /\ pc' = IF saved THEN goesOn ELSE "done"
        /\ cur' = IF saved /\ goesOn = "next" THEN cur + 1 ELSE cur
  BY DEF Commit
<1>2. /\ rows' \in Seq([call : Calls, effect : Effects])
      /\ Len(rows') = cur
      /\ \A j \in 1 .. cur - 1 : rows'[j] = rows[j]
      /\ rows'[cur] = Row(cur, e)
      /\ \A j \in 1 .. cur : rows'[j].call = j
  <2> DEFINE new == Append(rows, Row(cur, e))
  <2>1. e \in Effects /\ rows \in Seq(Results) /\ \A j \in 1 .. Len(rows) : rows[j].call = j
    BY DEF Effects, Results, IInv, TypeOK, RowsInv
  <2>2. /\ new \in Seq(Results)
        /\ Len(new) = cur
        /\ \A j \in 1 .. cur - 1 : new[j] = rows[j]
        /\ new[cur] = Row(cur, e)
        /\ \A j \in 1 .. cur : new[j].call = j
    BY <2>1, AppendFacts
  <2> HIDE DEF new
  <2>3. rows' = new
    BY <1>1 DEF new
  <2> QED
    BY <2>2, <2>3 DEF Results
<1>3. rows'[cur].effect = e
  BY <1>2 DEF Row
<1>4. \A j \in 1 .. cur : j = cur \/ (j \in 1 .. cur - 1 /\ j \in 1 .. Len(rows) /\ j \in Calls /\ j # cur)
  BY <1>n
<1>5. TypeOK'
  <2>1. cur' \in 1 .. N + 1 /\ pc' \in TurnPcs
    BY <1>n, <1>1 DEF TurnPcs
  <2>2. {persistFailed', expired', flag'} \subseteq BOOLEAN
    BY <1>1 DEF IInv, TypeOK
  <2> QED
    BY <1>2, <2>1, <2>2 DEF IInv, TypeOK, HasWorker, Registered
<1>6. \A k \in Calls : Untried(k)' => Untried(k) /\ k # cur
  BY <1>n, <1>1 DEF Untried
<1>7. PlaceInv'
  BY <1>1, <1>6 DEF IInv, PlaceInv, AtCall, HasWorker, Registered
<1>8. RowsInv'
  <2>1. \A j \in 1 .. Len(rows') : rows'[j].call = j
    BY <1>2
  <2>2. /\ pc' \in AtCall \cup {"next"} => Len(rows') = cur' - 1
        /\ pc' = "skipRest" => Len(rows') = cur'
        /\ ~(pc' = "done" /\ ~persistFailed')
    <3>1. CASE saved
      BY <1>n, <1>1, <1>2, <3>1 DEF AtCall
    <3>2. CASE ~saved
      BY <1>1, <3>2 DEF AtCall
    <3> QED
      BY <3>1, <3>2
  <2> QED
    BY <2>1, <2>2 DEF RowsInv
<1>9. TruthInv'
  <2>1. \A j \in 1 .. cur :
          \/ j \in 1 .. Len(rows) /\ rows'[j] = rows[j]
          \/ j = cur /\ rows'[j].effect = e
    BY <1>2, <1>3, <1>4
  <2>2. pc' # "publish"
    BY <1>1
  <2> QED
    BY <1>2, <2>1, <2>2 DEF IInv, TruthInv, HasWorker
<1>10. HookInv'
  <2>1. \A j \in 1 .. cur : rows'[j].effect \in {"result", "unknown", "invalid"} =>
          posts'[j] = IF rows'[j].effect = "unknown"
                      THEN 1 + IF outcome'[j] = "blocked" THEN 1 ELSE 0
                      ELSE 1
    <3>1. ASSUME NEW j \in 1 .. cur, j = cur, rows'[j].effect \in {"result", "unknown", "invalid"}
          PROVE  posts'[j] = IF rows'[j].effect = "unknown"
                             THEN 1 + IF outcome'[j] = "blocked" THEN 1 ELSE 0
                             ELSE 1
      BY <1>2, <1>3, <3>1 DEF Own
    <3>2. ASSUME NEW j \in 1 .. cur, j \in 1 .. Len(rows), j \in Calls, j # cur,
                 rows'[j].effect \in {"result", "unknown", "invalid"}
          PROVE  posts'[j] = IF rows'[j].effect = "unknown"
                             THEN 1 + IF outcome'[j] = "blocked" THEN 1 ELSE 0
                             ELSE 1
      BY <1>2, <3>2 DEF IInv, HookInv, Own
    <3> QED
      BY <1>4, <3>1, <3>2
  <2>2. ~Over' => \A k \in Calls : Untried(k)' => posts'[k] = 0
    BY <1>6 DEF IInv, HookInv, Over
  <2> QED
    BY <1>1, <1>2, <2>1, <2>2 DEF HookInv, Own
<1> QED
  BY <1>5, <1>7, <1>8, <1>9, <1>10 DEF IInv

LEMMA InvalidArgumentsKeeps ==
    ASSUME IInv, InvalidArguments
    PROVE  IInv'
<1>n. N \in Nat /\ cur \in Nat /\ Calls = 1 .. N
  BY Numbers DEF IInv
<1>1. cur \in Calls /\ Untried(cur) /\ Len(rows) = cur - 1 /\ pc = "next" /\ posts[cur] = 0
  BY <1>n DEF IInv, RowsInv, HookInv, Untried, Over, InvalidArguments
<1>2. /\ posts' \in [Calls -> Nat] /\ posts'[cur] = 1
      /\ \A k \in Calls : k # cur => posts'[k] = posts[k]
  BY <1>1, OnePosted DEF IInv, TypeOK, InvalidArguments
<1> QED
  BY <1>1, <1>2, CommitKeeps DEF InvalidArguments

LEMMA PublishKeeps ==
    ASSUME IInv, Publish
    PROVE  IInv'
<1>1. cur \in Calls /\ Len(rows) = cur - 1 /\ pc = "publish"
  BY DEF IInv, PlaceInv, RowsInv, AtCall, Publish
<1>2. HasWorker(cur) /\ cur \notin abandoned => wpc[cur] = "over"
  BY <1>1 DEF IInv, TruthInv
<1>3. posts[cur] = IF cur \in abandoned THEN 1 + Own(cur) ELSE Own(cur)
  BY <1>1 DEF IInv, HookInv
<1>4. /\ Posted(cur, cur) \in [Calls -> Nat] /\ Posted(cur, cur)[cur] = posts[cur] + 1
      /\ \A k \in Calls : k # cur => Posted(cur, cur)[k] = posts[k]
  BY <1>1, OnePosted DEF IInv, TypeOK
<1>5. /\ posts' \in [Calls -> Nat]
      /\ \A k \in Calls : k # cur => posts'[k] = posts[k]
      /\ posts'[cur] = IF cur \in abandoned THEN 1 + Own(cur) ELSE 1
  BY <1>1, <1>3, <1>4 DEF IInv, TypeOK, Publish, Own
<1>6. CASE cur \in abandoned
  BY <1>1, <1>5, <1>6, CommitKeeps DEF Publish
<1>7. CASE cur \notin abandoned
  BY <1>1, <1>2, <1>5, <1>7, CommitKeeps DEF Publish
<1> QED
  BY <1>6, <1>7

\* A KeyboardInterrupt: rows for the call it hit and for the rest of the segment.
LEMMA KeyboardHandledKeeps ==
    ASSUME IInv, KeyboardHandled
    PROVE  IInv'
<1>n. N \in Nat /\ cur \in Nat /\ Calls = 1 .. N
  BY Numbers DEF IInv
<1>1. cur \in Calls /\ Len(rows) = cur - 1 /\ keyboard = cur
  BY DEF IInv, PlaceInv, RowsInv, AtCall, KeyboardHandled
<1>2. /\ pc' = "raised"
      /\ UNCHANGED <<kind, cur, persistFailed, expired, abandoned, keyboard, wpc, outcome, begun, known>>
  BY DEF KeyboardHandled
<1>3. CASE kind[cur] = "registry"
  <2>1. PICK last \in cur .. N : rows' = rows \o RowsFor(cur, last, "none")
    BY <1>3 DEF KeyboardHandled
  <2>2. last \in Calls /\ cur <= last /\ last \in Nat
    BY <1>n, <1>1
  <2>3. /\ rows' \in Seq([call : Calls, effect : Effects])
        /\ Len(rows') = last
        /\ \A j \in 1 .. cur - 1 : rows'[j] = rows[j]
        /\ \A j \in cur .. last : rows'[j].effect = "none"
        /\ \A j \in 1 .. last : rows'[j].call = j
    <3>1. TypeOK /\ RowsInv /\ "none" \in Effects
      BY DEF IInv, Effects
    <3>2. cur \in Calls /\ last \in Calls /\ cur <= last /\ Len(rows) = cur - 1
      BY <1>1, <2>2
    <3> QED
      BY <2>1, <3>1, <3>2, RowsAdded, Zenon
  <2>4. /\ posts' \in [Calls -> Nat]
        /\ \A k \in Calls : k # cur => posts'[k] = posts[k]
    BY <1>1, <1>3, OnePosted DEF IInv, TypeOK, KeyboardHandled
  <2>5. flag' = TRUE /\ bits' \subseteq Calls /\ \A i \in bits' : Registered(i) \/ wpc[i] = "over"
    BY <1>3 DEF KeyboardHandled, IInv, TypeOK
  <2>7. \A j \in 1 .. last :
          \/ j \in 1 .. Len(rows) /\ j \in Calls /\ j # cur /\ rows'[j] = rows[j]
          \/ j \in Calls /\ rows'[j].effect = "none" /\ (j = keyboard \/ Untried(j))
    BY <1>n, <1>1, <2>2, <2>3 DEF Untried
  <2>8. TypeOK'
    BY <1>2, <2>3, <2>4, <2>5 DEF IInv, TypeOK, TurnPcs, HasWorker, Registered
  <2>9. PlaceInv'
    BY <1>2 DEF IInv, PlaceInv, AtCall, Untried, HasWorker, Registered
  <2>10. RowsInv'
    BY <1>2, <2>3 DEF RowsInv, AtCall
  <2>11. TruthInv'
    <3>1. \A k \in Calls : Untried(k) => wpc[k] = "none" /\ k \notin begun
      BY DEF IInv, PlaceInv
    <3> QED
      BY <1>2, <2>3, <2>7, <3>1 DEF IInv, TruthInv, HasWorker
  <2>12. HookInv'
    BY <1>2, <2>3, <2>4, <2>7 DEF IInv, HookInv, Over, Own
  <2> QED
    BY <2>8, <2>9, <2>10, <2>11, <2>12 DEF IInv
<1>4. CASE kind[cur] # "registry"
  <2>1. UNCHANGED <<rows, posts, flag, bits>>
    BY <1>4 DEF KeyboardHandled
  <2>2. TypeOK'
    BY <1>2, <2>1 DEF IInv, TypeOK, TurnPcs, HasWorker, Registered
  <2>3. PlaceInv' /\ RowsInv'
    BY <1>2, <2>1 DEF IInv, PlaceInv, RowsInv, AtCall, Untried, HasWorker, Registered
  <2>4. TruthInv' /\ HookInv'
    BY <1>2, <2>1 DEF IInv, TruthInv, HookInv, Over, Own, HasWorker
  <2> QED
    BY <2>2, <2>3, <2>4 DEF IInv
<1> QED
  BY <1>3, <1>4

-----------------------------------------------------------------------------
(* The theorems. *)

LEMMA StutterKeeps ==
    ASSUME IInv, UNCHANGED vars
    PROVE  IInv'
<1>1. TypeOK' /\ PlaceInv'
  BY DEF IInv, TypeOK, PlaceInv, Untried, HasWorker, Registered, vars, turnVars
<1>2. RowsInv' /\ TruthInv' /\ HookInv'
  BY DEF IInv, RowsInv, TruthInv, HookInv, Over, Own, Untried, HasWorker, vars, turnVars
<1> QED
  BY <1>1, <1>2 DEF IInv

LEMMA NextKeeps ==
    ASSUME IInv, [Next]_vars
    PROVE  IInv'
<1>1. CASE Turn
  BY <1>1, FinishRoundKeeps, SkipSegmentKeeps, RunParallelSegmentKeeps, InvalidArgumentsKeeps,
     DispatchKeeps, PollDoneKeeps, PollInterruptedKeeps, PollTimesOutKeeps, GraceDoneKeeps,
     GraceEndsKeeps, KeyboardHandledKeeps, PublishKeeps, SkipRestKeeps DEF Turn, Polling
<1>2. CASE PromptHooks \/ PromptEnds
  BY <1>2, PromptHooksKeeps, PromptEndsKeeps
<1>3. ASSUME NEW i \in Calls, WorkerStep(i)
      PROVE  IInv'
  BY <1>3, StartKeeps, RegisterKeeps, LeaveTidKeeps, AskHumanKeeps, HooksPassKeeps, HooksBlockKeeps,
     ToolEndsKeeps, LeaveKeeps DEF WorkerStep
<1>4. CASE KeyboardInterrupt \/ Interrupt \/ DeadlineElapses
  BY <1>4, KeyboardInterruptKeeps, InterruptKeeps, DeadlineElapsesKeeps
<1>5. CASE RoundOver \/ UNCHANGED vars
  BY <1>5, StutterKeeps DEF RoundOver
<1> QED
  BY <1>1, <1>2, <1>3, <1>4, <1>5 DEF Next

\* The inductive invariant holds at every step of a round, of any length.
THEOREM InvariantHolds == Spec => []IInv
<1>1. Init => IInv
  BY InitIsGood
<1>2. IInv /\ [Next]_vars => IInv'
  BY NextKeeps
<1> QED
  BY <1>1, <1>2, PTL DEF Spec

\* Type correctness: what TypeOK says of outcomes, futures and interrupt bits
\* included, for rounds of any length and every mixture of calls.
THEOREM TypeCorrect == Spec => []TypeOK
<1>1. IInv => TypeOK
  BY DEF IInv
<1> QED
  BY <1>1, InvariantHolds, PTL

\* RowsInOrder: execute_tool_calls_segmented and execute_tool_calls_sequential
\* answer every call once and in the model's order, whatever ends each call.
THEOREM RowsInOrderHolds == Spec => []RowsInOrder
<1>1. IInv => RowsInOrder
  BY DEF IInv, RowsInv, RowsInOrder
<1> QED
  BY <1>1, InvariantHolds, PTL

\* RowsAreTrue: a row that denies an effect is of a call that was not and will
\* not be dispatched, a plain result is of a worker that is over.
THEOREM RowsAreTrueHolds == Spec => []RowsAreTrue
<1>1. ASSUME IInv
      PROVE  RowsAreTrue
  <2>1. \A j \in 1 .. Len(rows) : rows[j].call = j
    BY <1>1 DEF IInv, RowsInv
  <2> QED
    BY <1>1, <2>1 DEF IInv, TruthInv, RowsAreTrue
<1> QED
  BY <1>1, InvariantHolds, PTL

\* HooksAccounted: a call that was tried has its terminal post_tool_call hook from one side,
\* and from both just when it was abandoned and its own hooks block it, which the comments at
\* 443-445 and 1618-1620 rule out and the code does not.
THEOREM HooksAccountedHolds == Spec => []HooksAccounted
<1>1. ASSUME IInv
      PROVE  HooksAccounted
  <2>1. \A j \in 1 .. Len(rows) : rows[j].call = j
    BY <1>1 DEF IInv, RowsInv
  <2> QED
    BY <1>1, <2>1 DEF IInv, HookInv, Own, HooksAccounted, LateBlock
<1> QED
  BY <1>1, InvariantHolds, PTL

=============================================================================
