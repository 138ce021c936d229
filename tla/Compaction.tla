----------------------------- MODULE Compaction -----------------------------
(***************************************************************************)
(* Rolling compaction of a conversation (context_compressor.py, compress):  *)
(* the window is replaced by a handoff summary that folds the previous one, *)
(* the summary is placed so that visible roles alternate, tool pairs are    *)
(* repaired, and the request still owed an answer is restated after the     *)
(* handoff.  The conversation around it appends rows and restarts; the      *)
(* summary in memory (previousSummary) does not survive a restart, the      *)
(* handoff row in the transcript does.                                      *)
(***************************************************************************)
EXTENDS CompactionWindow, SequencesExt

CONSTANTS
    Outcomes,   \* what the summary attempt may do: subset of AllOutcomes
    MaxRows,    \* rows ever appended (bound of the model)
    MaxUpsets   \* echoes, nudges, retries and restarts together (bound of the model)

AllOutcomes == {"ok", "fallback", "abort"}

ASSUME CompactionAssumption ==
    /\ Outcomes \subseteq AllOutcomes
    /\ MaxRows \in Nat \ {0} /\ MaxUpsets \in Nat

VARIABLES
    transcript,       \* the messages of the conversation
    previousSummary,  \* what _previous_summary covers, or NoSummary
    compressed,       \* compression_count >= 1
    rows,             \* ids handed out (ghost)
    owed,             \* the request the agent works on, 0 for none (ghost)
    said,             \* ids of the requests and replies (ghost)
    unfolded,         \* a fallback's summary was not remembered (ghost)
    upsets            \* echoes, nudges, retries and restarts so far (bound)

vars == <<transcript, previousSummary, compressed, rows, owed, said, unfolded, upsets>>

NoSummary == {0}

Contents(s) == IF s = NoSummary THEN {} ELSE s
Live(m) == UNION {m[i].live : i \in DOMAIN m}
Summaries(m) == UNION {m[i].sum : i \in DOMAIN m}
Restated(m) == UNION {m[i].after : i \in DOMAIN m}
StripAll(m) == FlattenSeq([i \in DOMAIN m |-> StripHandoff(m[i])])
Handoffs(m) == {i \in Positions(m, 0) : IsContextSummary(At(m, i))}
Slice(m, from, to) == SubSeq(m, from + 1, to)

-----------------------------------------------------------------------------
(* Assembling a compacted transcript. *)

\* Mutant: handoffs are looked for in the window only.
ScanWindowHandoffsNarrow(m, w) ==
    LET hits == {i \in Handoffs(m) : i < w.end}
    IN  IF hits = {}
        THEN [previous |-> NoSummary, turns |-> Slice(m, w.start, w.end), tail |-> w.end]
        ELSE [previous |-> IF previousSummary = NoSummary THEN Summaries(m) ELSE previousSummary,
              turns |-> StripAll(Slice(m, w.start, w.end)), tail |-> w.end]

\* What the summarizer reads and where the tail begins.  A summary in memory is
\* dropped when no handoff is left anywhere: it was another session's.
ScanWindowHandoffs(m, w) ==
    LET hits == Handoffs(m)
        newest == Max(hits)
    IN  IF hits = {}
        THEN [previous |-> NoSummary, turns |-> Slice(m, w.start, w.end), tail |-> w.end]
        ELSE [previous |-> IF previousSummary = NoSummary THEN Summaries(m) ELSE previousSummary,
              turns |-> StripAll(Slice(m, w.start, newest + 1)) \o Slice(m, newest + 1, w.end),
              tail |-> Larger(w.end, newest + 1)]

AssembleHead(m, start) == StripAll(Slice(m, 0, start))

AssembleTail(m, from) == StripAll(Slice(m, from, Len(m)))

FirstVisible(tail) ==
    LET seen == {i \in Positions(tail, 0) : VisibleRole(At(tail, i)) # "none"}
    IN  IF seen = {} THEN -1 ELSE Min(seen)

Flipped(role) == IF role = "user" THEN "assistant" ELSE "user"

\* Mutant: the role alternates with the head alone.
SummaryPlacementUnflipped(head, tail, start) ==
    [role |-> IF start = 0 \/ LastVisibleRole(head) # "user" THEN "user" ELSE "assistant",
     merge |-> FALSE, force |-> start = 0]

\* The summary's role, whether it goes into a tail row, and whether it must lead.
SummaryPlacement(head, tail, start) ==
    LET lastHead == IF head = <<>> THEN "user" ELSE LastVisibleRole(head)
        force == \/ start = 0 \/ lastHead = "system"
                 \/ ~ \E i \in DOMAIN (head \o tail) :
                        (head \o tail)[i].role = "user" /\ (head \o tail)[i].text
        role == IF force \/ lastHead \in {"none", "assistant", "tool"} THEN "user" ELSE "assistant"
        collides == FirstVisible(tail) >= 0 /\ VisibleRole(At(tail, FirstVisible(tail))) = role
        flips == collides /\ ~force /\ lastHead \notin {"none", Flipped(role)}
    IN  [role |-> IF flips THEN Flipped(role) ELSE role,
         merge |-> collides /\ ~flips, force |-> force]

SummaryRow(role, body) ==
    [PlainRow(role, 0) EXCEPT !.live = {}, !.handoff = "standalone", !.sum = body]

\* A forced merge leads the row and leaves its text after the end marker;
\* otherwise the row's text becomes reference before the summary.
MergeSummaryIntoTailRow(r, body, force) ==
    IF force THEN [r EXCEPT !.handoff = "standalone", !.sum = body, !.live = {},
                            !.after = r.live, !.text = TRUE,
                            !.kind = IF @ = "blank" THEN "plain" ELSE @]
    ELSE [r EXCEPT !.handoff = "merged", !.sum = body]

AssembleCompressed(m, w, scan, body) ==
    LET head == AssembleHead(m, w.start)
        tail == AssembleTail(m, scan.tail)
        place == SummaryPlacement(head, tail, w.start)
        target == IF place.force THEN FirstVisible(tail) + 1 ELSE 1
    IN  IF place.merge
        THEN head \o [tail EXCEPT ![target] = MergeSummaryIntoTailRow(@, body, place.force)]
        ELSE head \o <<SummaryRow(place.role, body)>> \o tail

OrphanedResult(m, i) ==
    m[i].role = "tool" /\ ~ \E j \in 1 .. i - 1 : m[i].ans \in m[j].calls

Answered(m) == {m[i].ans : i \in {j \in DOMAIN m : m[j].role = "tool"}}

\* Mutant: orphans are left in.
SanitizeToolPairsTrusting(m) == m

\* Results without their call go; calls without a result go too, except those
\* of the newest group, which may still be running.
SanitizeToolPairs(m) ==
    LET paired == FlattenSeq([i \in DOMAIN m |-> IF OrphanedResult(m, i) THEN <<>> ELSE <<m[i]>>])
        inflight == LastOf({i \in Positions(paired, 0) : At(paired, i).role # "tool"}) + 1
        kept(r) == r.calls \cap Answered(paired)
    IN  [i \in DOMAIN paired |->
            IF paired[i].role # "assistant" \/ i = inflight \/ kept(paired[i]) = paired[i].calls
            THEN paired[i]
            ELSE [paired[i] EXCEPT !.calls = kept(paired[i]),
                                   !.text = @ \/ kept(paired[i]) = {}]]

-----------------------------------------------------------------------------
(* The request still owed an answer. *)

IsTask(r) == (IsActionableUserTurn(r) /\ ~IsSyntheticUserTurn(r)) \/ r.flag

TaskText(r) == IF r.flag /\ IsContextSummary(r) THEN r.after ELSE r.live

\* Mutant: the newest request is open although a reply closed it.
FindInflightUserTaskAlways(m) ==
    LET task == LastOf({i \in Positions(m, 0) : IsTask(At(m, i))})
    IN  IF task < 0 THEN {} ELSE TaskText(At(m, task))

\* The newest request, unless a reply with text and no calls closes it.
FindInflightUserTask(m) ==
    LET task == LastOf({i \in Positions(m, 0) : IsTask(At(m, i))})
        after == Positions(m, task + 1)
        closes(i) == At(m, i).role = "assistant" /\ At(m, i).calls = {} /\ At(m, i).text
        silent(i) == At(m, i).role = "assistant" /\ At(m, i).calls = {} /\ ~At(m, i).text
    IN  IF task < 0 THEN {}
        ELSE IF \E i \in after : closes(i) /\ \A j \in after : j > i => silent(j)
             THEN {} ELSE TaskText(At(m, task))

ReappendInflightUserTask(m, task) ==
    LET carrier == LastOf(Handoffs(m))
        answeredByTail == \E i \in Positions(m, carrier + 1) :
            IsActionableUserTurn(At(m, i)) /\ ~IsSyntheticUserTurn(At(m, i))
    IN  IF task = {} \/ carrier < 0 \/ answeredByTail THEN m
        ELSE IF At(m, carrier).after # {} THEN m
        ELSE IF LastVisibleRole(m) = "user"
             THEN [m EXCEPT ![carrier + 1].after = task, ![carrier + 1].flag = TRUE]
             ELSE Append(m, [PlainRow("user", 0) EXCEPT !.live = task])

\* Only a handoff would drive the next call: none of its rows carries a request
\* of its own, and nothing that a model would go on with follows.
ReferenceHandoffDrives(m) ==
    LET carriesAsk(r) == StripHandoff(r) # <<>>
        answered(r) == r.role = "assistant" /\ r.handoff = "merged" /\ r.stop /\ r.calls = {}
        driving == {i \in Handoffs(m) : carriesAsk(At(m, i)) => answered(At(m, i))}
    IN  /\ driving # {}
        /\ \A i \in Positions(m, Max(driving) + 1) :
              LET r == At(m, i)
              IN  /\ r.role # "tool" /\ r.calls = {}
                  /\ ~(IsActionableUserTurn(r) /\ ~IsSyntheticUserTurn(r))
                  /\ ~(IsContextSummary(r) /\ carriesAsk(r))

\* Before a retry with compacted rows the loop puts this turn's request back.
RestoreUserAfterHandoff(m) ==
    IF ReferenceHandoffDrives(m) THEN Append(m, PlainRow("user", owed)) ELSE m

-----------------------------------------------------------------------------
(* One call of compress(). *)

Finalized(before, m) ==
    ReappendInflightUserTask(SanitizeToolPairs(m), FindInflightUserTask(before))

Decayed == compressed \/ previousSummary # NoSummary

\* No window between head and tail: only the blank echoes are gone.
NothingToCompress(m, w) ==
    /\ w.start >= w.end
    /\ transcript' = m
    /\ UNCHANGED <<previousSummary, compressed, rows, owed, said, unfolded, upsets>>

\* Only handoff rows in the window: the rehydrated summary is kept.
OnlyHandoffs(m, scan) ==
    /\ scan.turns = <<>>
    /\ transcript' = m
    /\ previousSummary' = scan.previous
    /\ UNCHANGED <<compressed, rows, owed, said, unfolded, upsets>>

LastRow == transcript[Len(transcript)]

\* The summary the fallback writes is not remembered: previousSummary keeps
\* what the scan found.
RememberedAfter(outcome, previous, body) == IF outcome = "ok" THEN body ELSE previous

\* restarting: the call that overflowed is made again with the compacted rows.
Compact(m, w, scan, outcome, restarting) ==
    /\ scan.turns # <<>>
    /\ restarting => owed # 0 /\ LastRow.role # "assistant"
    /\ LET body == Contents(scan.previous) \cup (Live(scan.turns) \ {0})
           result == Finalized(m, AssembleCompressed(m, w, scan, body))
       IN  /\ transcript' = IF restarting THEN RestoreUserAfterHandoff(result) ELSE result
           /\ previousSummary' = RememberedAfter(outcome, scan.previous, body)
    /\ unfolded' = (unfolded \/ (outcome = "fallback" /\ scan.previous # NoSummary))
    /\ compressed' = TRUE
    /\ UNCHANGED <<rows, owed, said, upsets>>

\* A terminal failure, or a cancellation: the scan's rehydration is undone.
SummaryAborted(m, scan) ==
    /\ scan.turns # <<>>
    /\ transcript' = m
    /\ UNCHANGED <<previousSummary, compressed, rows, owed, said, unfolded, upsets>>

\* With too few rows the call returns before it touches anything.
Compress ==
    /\ Len(transcript) > ProtectHeadSize(transcript, Decayed) + 4
    /\ LET m == DropBlankEchoes(transcript)
           w == CompressWindow(m, Decayed)
           scan == ScanWindowHandoffs(m, w)
       IN  \/ NothingToCompress(m, w)
           \/ /\ w.start < w.end
              /\ \/ OnlyHandoffs(m, scan)
                 \/ \E outcome \in Outcomes \cap {"ok", "fallback"}, restarting \in BOOLEAN :
                       Compact(m, w, scan, outcome, restarting)
                 \/ "abort" \in Outcomes /\ SummaryAborted(m, scan)

-----------------------------------------------------------------------------
(* The conversation, and the process. *)

Say(row) ==
    /\ rows < MaxRows
    /\ rows' = rows + 1
    /\ transcript' = Append(transcript, row)
    /\ said' = IF row.role = "tool" THEN said ELSE said \cup row.live
    /\ UNCHANGED <<previousSummary, compressed, unfolded>>

Ask ==
    /\ LastRow.role = "assistant" /\ LastRow.calls = {}
    /\ Say(PlainRow("user", rows + 1))
    /\ owed' = rows + 1
    /\ UNCHANGED upsets

BlankEcho ==
    /\ LastRow.role = "user" /\ upsets < MaxUpsets
    /\ transcript' = Append(transcript, [PlainRow("user", 0) EXCEPT
                                            !.live = {}, !.kind = "blank", !.text = FALSE])
    /\ upsets' = upsets + 1
    /\ UNCHANGED <<previousSummary, compressed, rows, owed, said, unfolded>>

\* A partial reply and the host's request to go on: a user row no user wrote.
Nudge ==
    /\ owed # 0 /\ LastRow.role # "assistant" /\ rows < MaxRows /\ upsets < MaxUpsets
    /\ rows' = rows + 1
    /\ upsets' = upsets + 1
    /\ said' = said \cup {rows + 1}
    /\ transcript' = transcript \o <<[PlainRow("assistant", rows + 1) EXCEPT !.stop = FALSE],
           [PlainRow("user", 0) EXCEPT !.kind = "scaffold"]>>
    /\ UNCHANGED <<previousSummary, compressed, owed, unfolded>>

CallTool(speaks) ==
    /\ owed # 0
    /\ LastRow.role # "assistant"
    /\ Say([PlainRow("assistant", rows + 1) EXCEPT !.calls = {rows + 1}, !.text = speaks,
                !.stop = FALSE,
                !.live = IF speaks THEN {rows + 1} ELSE {}])
    /\ UNCHANGED <<owed, upsets>>

ToolResult ==
    /\ LastRow.role = "assistant" /\ LastRow.calls # {}
    /\ \E call \in LastRow.calls :
          Say([PlainRow("tool", rows + 1) EXCEPT !.ans = call])
    /\ UNCHANGED <<owed, upsets>>

FinalAnswer ==
    /\ owed # 0
    /\ LastRow.role # "assistant"
    /\ Say(PlainRow("assistant", rows + 1))
    /\ owed' = 0
    /\ UNCHANGED upsets

\* What is left of a summary's carrier when its request is taken out.
HandoffOnly(r) ==
    [r EXCEPT !.handoff = "standalone", !.kind = "plain", !.live = {}, !.after = {}, !.flag = FALSE]

\* The request in a user row, without the handoff it may carry.
UserTurn(r) ==
    {v \in ToSet(StripHandoff(r)) : IsActionableUserTurn(v) /\ ~IsSyntheticUserTurn(v)}

\* The rows before a request that is taken back; a summary in its row stays.
HistoryBefore(m, i) ==
    SubSeq(m, 1, i - 1) \o IF IsContextSummary(m[i]) THEN <<HandoffOnly(m[i])>> ELSE <<>>

\* The user takes the conversation back to the newest request and sends it again.
RetryTurn(i) ==
    /\ upsets < MaxUpsets
    /\ \A j \in i + 1 .. Len(transcript) : UserTurn(transcript[j]) = {}
    /\ \E ask \in UserTurn(transcript[i]) :
          /\ transcript' = Append(HistoryBefore(transcript, i),
                                  [PlainRow("user", 0) EXCEPT !.live = ask.live])
          /\ owed' \in ask.live
          /\ LET taken == SubSeq(transcript, i + 1, Len(transcript))
                 back == Live(taken) \cup Summaries(taken) \cup Restated(taken)
             IN  said' = (said \ back) \cup (ask.live \ {0})
    /\ upsets' = upsets + 1
    /\ UNCHANGED <<previousSummary, compressed, rows, unfolded>>

\* The session store keeps what the rows say, not the underscored flags.
Restart ==
    /\ upsets < MaxUpsets
    /\ upsets' = upsets + 1
    /\ transcript' = [i \in DOMAIN transcript |-> [transcript[i] EXCEPT !.flag = FALSE]]
    /\ previousSummary' = NoSummary
    /\ compressed' = FALSE
    /\ UNCHANGED <<rows, owed, said, unfolded>>

Init ==
    /\ transcript = <<[PlainRow("system", 0) EXCEPT !.live = {}], PlainRow("user", 1)>>
    /\ previousSummary = NoSummary
    /\ compressed = FALSE
    /\ rows = 1
    /\ owed = 1
    /\ said = {1}
    /\ unfolded = FALSE
    /\ upsets = 0

Next ==
    \/ Ask \/ BlankEcho \/ Nudge \/ ToolResult \/ FinalAnswer
    \/ \E speaks \in BOOLEAN : CallTool(speaks)
    \/ Compress
    \/ \E i \in DOMAIN transcript : RetryTurn(i)
    \/ Restart

Spec == Init /\ [][Next]_vars

-----------------------------------------------------------------------------
(* Properties. *)

\* Type correctness: rows say only what was appended, only a handoff carries a
\* summary or text after one, and the remembered summary covers known rows.
TypeOK ==
    /\ \A i \in DOMAIN transcript :
          /\ DOMAIN transcript[i] = DOMAIN PlainRow("user", 1)
          /\ transcript[i].live \cup transcript[i].sum \cup transcript[i].after \subseteq 0 .. rows
          /\ IsContextSummary(transcript[i]) \/ transcript[i].sum \cup transcript[i].after = {}
    /\ previousSummary = NoSummary \/ previousSummary \subseteq 1 .. rows
    /\ rows <= MaxRows /\ owed \in 0 .. rows

Reachable == Live(transcript) \cup Summaries(transcript) \cup Restated(transcript)

\* Everything a user or the model said is in the transcript, as a row or in a
\* summary, however often it was compacted, the process restarted or a summary
\* failed - as long as no fallback followed a summary held in memory.
NothingLost == unfolded \/ said \subseteq Reachable

\* The transcript stays well-formed: a tool result follows the call it answers,
\* and only a handoff carries a summary.
PairsKept == TypeOK /\ \A i \in DOMAIN transcript : ~OrphanedResult(transcript, i)

\* The request the agent works on stands after the newest handoff, where the
\* handoff's prefix tells the model to look for it.
OwedAskFollowsHandoff ==
    LET carrier == LastOf(Handoffs(transcript))
    IN  owed # 0 /\ carrier >= 0 =>
          \/ owed \in At(transcript, carrier).after
          \/ \E i \in Positions(transcript, carrier + 1) :
                At(transcript, i).role = "user" /\ owed \in At(transcript, i).live

IsCompaction == UNCHANGED <<rows, upsets>>

\* A compaction of a transcript in which that request is recognizable (a row of
\* its own, or a carrier marked in memory) and no nudge stands leaves it there.
AskRestated ==
    [][/\ IsCompaction /\ owed # 0
       /\ \E i \in DOMAIN transcript : IsTask(transcript[i]) /\ owed \in TaskText(transcript[i])
       /\ \A i \in DOMAIN transcript : transcript[i].kind # "scaffold"
       => OwedAskFollowsHandoff']_vars

Alternates(m) ==
    LET roles == SelectSeq([i \in DOMAIN m |-> VisibleRole(m[i])], LAMBDA r : r # "none")
    IN  \A i \in 1 .. Len(roles) - 1 : roles[i] # roles[i + 1]

PutBack(m) == Front(m) # <<>> /\ m = Append(Front(m), PlainRow("user", owed)) /\ ReferenceHandoffDrives(Front(m))

\* A compaction never breaks the alternation of visible roles: the summary, a
\* merge, a repair or a restated request would make the provider refuse it.  A
\* request the loop puts back after a handoff is joined with it by the repair
\* before the next call.
AlternationKept ==
    [][IsCompaction /\ Alternates(transcript)
         => Alternates(transcript') \/ (PutBack(transcript') /\ Alternates(Front(transcript')))]_vars

Copies(m, id) == Cardinality({i \in DOMAIN m : m[i].role = "user" /\ id \in m[i].live \cup m[i].after})

\* Once a request was answered, no compaction states it again as an open one.
FinishedNotRevived ==
    [][IsCompaction /\ owed = 0 =>
          \A id \in said : Copies(transcript', id) <= Copies(transcript, id)]_vars

\* Over any number of compactions the open request stays open, and no other does.
OnlyOpenAskRestated == AskRestated /\ FinishedNotRevived
=============================================================================
