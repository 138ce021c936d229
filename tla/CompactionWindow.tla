-------------------------- MODULE CompactionWindow --------------------------
(***************************************************************************)
(* Rows of a transcript as the context compressor reads them, and the      *)
(* window of rows it may summarize (context_compressor.py): the protected   *)
(* head, the token-budget tail, and the anchors that keep a tool group, the *)
(* latest request and the latest reply on one side of a cut.                *)
(*                                                                         *)
(* Text is abstracted to the set of things it says: every appended row      *)
(* carries an id (0 for a nudge of the host), a summary is the set of ids    *)
(* it stands for.  Positions are the program's: zero-based, a cut is the    *)
(* number of rows before it.                                               *)
(***************************************************************************)
EXTENDS Integers, Sequences, FiniteSets, FiniteSetsExt

CONSTANTS
    ProtectFirst,   \* protect_first_n
    ProtectLast,    \* protect_last_n
    TailBudget,     \* tail_token_budget
    MinTailUsers,   \* min_tail_user_messages
    MaxTailFloor,   \* _MAX_TAIL_MESSAGE_FLOOR
    ProbeExtra      \* _RESTART_HANDOFF_PROBE_EXTRA_MESSAGES

ASSUME WindowAssumption ==
    /\ {ProtectFirst, ProtectLast, TailBudget, MinTailUsers, ProbeExtra} \subseteq Nat
    /\ MaxTailFloor \in Nat \ {0}

\* A row: what its own text says (live), the calls it makes or answers, and,
\* when it carries a handoff, the ids the summary stands for (sum) and the text
\* after the summary's end marker (after).  A "merged" carrier keeps its own
\* text before the summary, a "standalone" one has none there.  flag is
\* _inflight_replay_merged, which only the process's memory holds.
Row == [role : {"system", "user", "assistant", "tool"},
        kind : {"plain", "blank", "scaffold"}, live : SUBSET Nat,
        text : BOOLEAN, stop : BOOLEAN, calls : SUBSET Nat, ans : Nat, size : Nat,
        handoff : {"none", "standalone", "merged"},
        sum : SUBSET Nat, after : SUBSET Nat, flag : BOOLEAN]

PlainRow(role, id) ==
    [role |-> role, kind |-> "plain", live |-> {id}, text |-> TRUE, stop |-> TRUE,
     calls |-> {}, ans |-> 0, size |-> 1, handoff |-> "none",
     sum |-> {}, after |-> {}, flag |-> FALSE]

At(m, i) == m[i + 1]
Positions(m, from) == from .. Len(m) - 1
Larger(a, b) == IF a >= b THEN a ELSE b
Lesser(a, b) == IF a <= b THEN a ELSE b
LastOf(S) == IF S = {} THEN -1 ELSE Max(S)

-----------------------------------------------------------------------------
(* What a row is taken for. *)

IsContextSummary(r) == r.handoff # "none"

IsBlankUserTurn(r) == r.role = "user" /\ ~IsContextSummary(r) /\ r.kind = "blank"

IsActionableUserTurn(r) ==
    r.role = "user" /\ ~IsContextSummary(r) /\ r.kind # "blank"

IsSyntheticUserTurn(r) ==
    r.role = "user" /\ (IsContextSummary(r) \/ r.kind = "scaffold")

\* The role a strict chat template counts: it skips tool rows and calls.
VisibleRole(r) ==
    IF r.role = "tool" \/ (r.role = "assistant" /\ r.calls # {}) THEN "none" ELSE r.role

LastVisibleRole(m) ==
    LET seen == {i \in Positions(m, 0) : VisibleRole(At(m, i)) # "none"}
    IN  IF seen = {} THEN "none" ELSE VisibleRole(At(m, Max(seen)))

\* The row without the handoff it carries: a merged carrier gives back its own
\* text, a standalone one what follows the end marker, and a row with nothing
\* of its own is gone, its calls with it.
StripHandoff(r) ==
    LET unwrapped == [r EXCEPT !.handoff = "none", !.sum = {}, !.after = {}]
    IN  IF ~IsContextSummary(r) THEN <<r>>
        ELSE IF r.handoff = "merged"
             THEN IF r.text THEN <<unwrapped>> ELSE <<>>
             ELSE IF r.after = {} THEN <<>>
                  ELSE <<[unwrapped EXCEPT !.live = r.after, !.text = TRUE]>>

-----------------------------------------------------------------------------
(* Boundaries. *)

AlignBoundaryForward(m, idx) ==
    IF idx >= Len(m) THEN idx
    ELSE Min({i \in idx .. Len(m) : i = Len(m) \/ At(m, i).role # "tool"})

AlignBoundaryBackward(m, idx) ==
    LET parent == LastOf({i \in 0 .. idx - 1 : At(m, i).role # "tool"})
    IN  IF idx > 0 /\ idx < Len(m) /\ parent >= 0
             /\ At(m, parent).role = "assistant" /\ At(m, parent).calls # {}
        THEN parent ELSE idx

\* Handoffs near the resumed head tell a session that was compacted before.
RestartHandoffProbe(m) ==
    LET first == IF m # <<>> /\ At(m, 0).role = "system" THEN 1 ELSE 0
        stop == Lesser(Len(m), first + ProtectFirst + ProbeExtra)
    IN  ProtectFirst > 0 /\ \E i \in first .. stop - 1 : IsContextSummary(At(m, i))

\* decayed: compression_count >= 1 or a previous summary is in memory.
ProtectHeadSize(m, decayed) ==
    (IF m # <<>> /\ At(m, 0).role = "system" THEN 1 ELSE 0)
      + (IF decayed \/ RestartHandoffProbe(m) THEN 0 ELSE ProtectFirst)

RealUserPositions(m, head) ==
    {i \in Positions(m, head) : IsActionableUserTurn(At(m, i)) /\ ~IsSyntheticUserTurn(At(m, i))}

LastUserMessage(m, head) == LastOf(RealUserPositions(m, head))

\* The newest reply with text; without one, the newest assistant row.
LastAssistantMessage(m, head) ==
    LET replies == {i \in Positions(m, head) :
                       At(m, i).role = "assistant" /\ ~IsContextSummary(At(m, i))}
        spoken == {i \in replies : At(m, i).text}
    IN  LastOf(IF spoken # {} THEN spoken ELSE replies)

TurnPairEnd(m, user) ==
    IF user + 1 >= Len(m) \/ At(m, user + 1).role # "assistant" THEN user + 1
    ELSE AlignBoundaryForward(m, user + 2)

\* A request the head's clamp would leave without its answer goes, with it,
\* into the summary instead.
EnsureLastUserInTail(m, cut, head) ==
    LET user == LastUserMessage(m, head)
    IN  IF user < 0 \/ user >= cut THEN cut
        ELSE IF user > head THEN user
        ELSE Larger(TurnPairEnd(m, user), head + 1)

EnsureLastAssistantInTail(m, cut, head) ==
    LET asst == LastAssistantMessage(m, head)
    IN  IF asst < 0 \/ asst >= cut THEN cut
        ELSE Larger(AlignBoundaryBackward(m, asst), head + 1)

EnsureLastNUsersInTail(m, cut, head) ==
    LET users == RealUserPositions(m, head)
        kept == {i \in users : Cardinality({j \in users : j >= i}) <= MinTailUsers}
    IN  IF MinTailUsers <= 1 \/ users = {} \/ Min(kept) >= cut THEN cut
        ELSE Larger(Min(kept), head + 1)

\* Tokens from position i to the end.
SuffixTokens(m) ==
    LET from[i \in 0 .. Len(m)] == IF i = Len(m) THEN 0 ELSE At(m, i).size + from[i + 1]
    IN  from

\* The newest-first walk stops at the first row that would pass the ceiling
\* once minTail rows are in; atBreak keeps that row too.
WalkTailBudget(m, head, ceiling, minTail, atBreak) ==
    LET tokens == SuffixTokens(m)
        breaks == {i \in Positions(m, head) : tokens[i] > ceiling /\ Len(m) - i >= minTail}
    IN  IF breaks = {}
        THEN [cut |-> Lesser(head, Len(m)), acc |-> tokens[Lesser(head, Len(m))]]
        ELSE [cut |-> IF atBreak THEN Max(breaks) ELSE Max(breaks) + 1,
              acc |-> tokens[Max(breaks) + 1]]

FindTailCut(m, head) ==
    LET n == Len(m)
        available == Larger(0, n - head - 1)
        minTail == IF available <= 1 THEN 0
                   ELSE Min({Larger(3, Lesser(ProtectLast, MaxTailFloor)),
                             Larger(3, available - 2), available})
        soft == (TailBudget * 3) \div 2
        wide == WalkTailBudget(m, head, soft, minTail, FALSE)
        walked == IF wide.cut <= head /\ 0 < wide.acc /\ wide.acc <= soft
                  THEN WalkTailBudget(m, head, TailBudget, minTail, TRUE).cut ELSE wide.cut
        floored == Lesser(walked, n - minTail)
        forced == IF floored <= head THEN Larger(n - minTail, head + 1) ELSE floored
        aligned == AlignBoundaryBackward(m, forced)
        withUser == EnsureLastUserInTail(m, aligned, head)
        withReply == EnsureLastAssistantInTail(m, withUser, head)
        withUsers == EnsureLastNUsersInTail(m, withReply, head)
    IN  Lesser(n, AlignBoundaryForward(m, Larger(withUsers, head + 1)))

\* A cut that would make the latest request the first tail row goes back over
\* the assistant or tool rows before it, so that no summary is merged into it.
CompressWindow(m, decayed) ==
    LET start == AlignBoundaryForward(m, ProtectHeadSize(m, decayed))
        end == FindTailCut(m, start)
        latest == LastUserMessage(m, 0)
        before == latest - 1
        bridge == IF before < 0 THEN -1
                  ELSE IF At(m, before).role = "tool" THEN AlignBoundaryBackward(m, latest)
                  ELSE IF At(m, before).role = "assistant" THEN before ELSE -1
    IN  [start |-> start, end |-> IF end = latest /\ bridge > start THEN bridge ELSE end]

\* Blank echoes right after the latest request, when an assistant row follows.
DropBlankEchoes(m) ==
    LET user == LastUserMessage(m, 0)
        stop == Min({i \in user + 1 .. Len(m) : i = Len(m) \/ ~IsBlankUserTurn(At(m, i))})
    IN  IF user < 0 \/ stop >= Len(m) THEN m
        ELSE IF At(m, stop).role # "assistant" THEN m
        ELSE SubSeq(m, 1, user + 1) \o SubSeq(m, stop + 1, Len(m))
=============================================================================
