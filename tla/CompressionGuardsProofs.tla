----------------------- MODULE CompressionGuardsProofs -----------------------
(***************************************************************************)
(* Proofs about CompressionGuards, for any lengths of the window, the      *)
(* backoff and the cooldowns and any number of failing writes, clock jumps *)
(* and other writers of the row.                                           *)
(***************************************************************************)
EXTENDS CompressionGuards, TLAPS

-----------------------------------------------------------------------------
(* The inductive invariant. *)

\* Memory and row together.
States == [mem : Memory, row : SessionRow]

\* Strikes, clock and cooldown are on the row as they are in memory.
Level(st) ==
    /\ st.row.strikes = st.mem.strikes
    /\ st.row.deadline = st.mem.deadline
    /\ st.row.cooldown = st.mem.cooldown
    /\ ~st.row.hygiene

\* A streak that the row has not got was carried over by a rotation; the clock
\* does not run meanwhile.
StreakKept ==
    \/ row.streak = c.streak
    \/ row.streak = 0 /\ c.deadline = Unarmed /\ (unkept \/ pc = "bookkeep")

AloneInv == Alone => Level(Now) /\ StreakKept

\* The clock is stopped during an attempt.  When the row is tripped, what has
\* passed and what remains make a window; when it is not, a clock that still
\* runs judges no response.
ProbeInv ==
    Alone /\ ~stale =>
        /\ pc # "idle" => c.deadline = Unarmed
        /\ Tripped(row) /\ c.deadline \in 0 .. Window => since + c.deadline >= Window
        /\ ~Tripped(row) /\ c.deadline # Unarmed => ~c.verify

IInv == TypeOK /\ AloneInv /\ ProbeInv

-----------------------------------------------------------------------------
(* Operators. *)

LEMMA Numbers ==
    /\ Window \in Nat /\ Window >= 1 /\ Backoff \in Nat
    /\ LadderTop \in Nat /\ LadderTop >= 1 /\ ShortPause \in Nat /\ MaxUpsets \in Nat
BY GuardsAssumption

Cooldowns == 0 .. Longer(LadderTop, ShortPause)

\* A step that leaves the breaker alone.
SameBreaker(st, r) ==
    /\ r.mem.strikes = st.mem.strikes /\ r.mem.streak = st.mem.streak
    /\ r.mem.deadline = st.mem.deadline /\ r.mem.verify = st.mem.verify
    /\ r.row.strikes = st.row.strikes /\ r.row.streak = st.row.streak
    /\ r.row.deadline = st.row.deadline

\* A step that leaves all but the breaker alone.
SameCooldown(st, r) ==
    /\ r.mem.cooldown = st.mem.cooldown /\ r.mem.unsaved = st.mem.unsaved
    /\ r.mem.backoff = st.mem.backoff /\ r.mem.verify = st.mem.verify
    /\ r.row.cooldown = st.row.cooldown /\ r.row.hygiene = st.row.hygiene

LEMMA CooldownFacts ==
    ASSUME NEW st \in States, NEW ticks \in Cooldowns, NEW up \in BOOLEAN
    PROVE  LET r == RecordCooldown(st, ticks, up) IN
           /\ r \in States /\ SameBreaker(st, r)
           /\ up /\ Level(st) => Level(r)
<1> DEFINE until == Longer(st.mem.cooldown, ticks)
           flag == ~up
           mem == [st.mem EXCEPT !.cooldown = until, !.unsaved = flag]
           written == [st.row EXCEPT !.cooldown = until, !.hygiene = FALSE]
<1>1. st.mem.cooldown \in Cooldowns
  BY DEF States, Memory, Cooldowns
<1>2. until \in Cooldowns
  BY <1>1, Numbers DEF Longer, Cooldowns
<1>3. RecordCooldown(st, ticks, up) =
        [mem |-> mem,
         row |-> IF up THEN written ELSE st.row]
  BY DEF RecordCooldown
<1>4. flag \in BOOLEAN
  OBVIOUS
<1> HIDE DEF until, flag
<1>5. written \in SessionRow /\ written.cooldown = until /\ ~written.hygiene
      /\ written.strikes = st.row.strikes /\ written.streak = st.row.streak /\ written.deadline = st.row.deadline
  BY <1>2 DEF States, SessionRow, Cooldowns
<1>6. /\ mem \in Memory /\ mem.cooldown = until
      /\ mem.strikes = st.mem.strikes /\ mem.streak = st.mem.streak
      /\ mem.deadline = st.mem.deadline /\ mem.verify = st.mem.verify
  BY <1>2, <1>4 DEF States, Memory, Cooldowns
<1> HIDE DEF written, mem
<1> QED
  BY <1>2, <1>3, <1>5, <1>6 DEF States, SameBreaker, Level

LEMMA TimeoutFacts ==
    ASSUME NEW st \in States, NEW up \in BOOLEAN
    PROVE  LET r == RecordTimeout(st, up) IN
           /\ r \in States /\ SameBreaker(st, r)
           /\ up /\ Level(st) => Level(r)
<1> DEFINE n == Shorter(st.mem.timeouts + 1, LadderTop)
           counted == [st EXCEPT !.mem.timeouts = n]
<1>1. n \in 0 .. LadderTop /\ Rung(n) \in Cooldowns
  BY Numbers DEF States, Memory, Shorter, Rung, Cooldowns, Longer
<1>2. /\ counted \in States /\ SameBreaker(st, counted) /\ (Level(st) => Level(counted))
  BY <1>1 DEF States, Memory, SameBreaker, Level
<1>3. RecordTimeout(st, up) = RecordCooldown(counted, Rung(n), up)
  BY DEF RecordTimeout
<1> HIDE DEF n, counted
<1>4. LET r == RecordCooldown(counted, Rung(n), up) IN
      /\ r \in States /\ SameBreaker(counted, r)
      /\ up /\ Level(counted) => Level(r)
  BY <1>1, <1>2, CooldownFacts
<1> QED
  BY <1>2, <1>3, <1>4 DEF SameBreaker

LEMMA ClearFacts ==
    ASSUME NEW st \in States, NEW up \in BOOLEAN
    PROVE  LET r == ClearCooldown(st, up) IN
           /\ r \in States /\ SameBreaker(st, r)
           /\ up /\ Level(st) => Level(r)
<1>1. 0 \in Cooldowns /\ 0 \in 0 .. LadderTop
  BY Numbers DEF Cooldowns, Longer
<1> QED
  BY <1>1 DEF ClearCooldown, States, Memory, SessionRow, Cooldowns, SameBreaker, Level

LEMMA FailedFacts ==
    ASSUME NEW st \in States, NEW kind \in Failures, NEW up \in BOOLEAN
    PROVE  LET r == Failed(st, kind, up) IN
           /\ r \in States /\ SameBreaker(st, r)
           /\ up /\ Level(st) => Level(r)
<1> DEFINE marked == [st EXCEPT !.mem.terminal = @ \/ IsTerminal(kind)]
<1>1. /\ marked \in States /\ SameBreaker(st, marked) /\ (Level(st) => Level(marked))
  BY DEF States, Memory, SameBreaker, Level, IsTerminal
<1>2. LongPause \in Cooldowns /\ ShortPause \in Cooldowns
  BY Numbers DEF LongPause, Cooldowns, Longer
<1>3. Failed(st, kind, up) = CASE kind = "timeout" -> RecordTimeout(marked, up)
                               [] kind = "no_provider" -> RecordCooldown(marked, LongPause, up)
                               [] OTHER -> RecordCooldown(marked, ShortPause, up)
  BY DEF Failed
<1> HIDE DEF marked
<1>4. \/ Failed(st, kind, up) = RecordTimeout(marked, up)
      \/ Failed(st, kind, up) = RecordCooldown(marked, LongPause, up)
      \/ Failed(st, kind, up) = RecordCooldown(marked, ShortPause, up)
  BY <1>3
<1>5. \A r \in {RecordTimeout(marked, up), RecordCooldown(marked, LongPause, up), RecordCooldown(marked, ShortPause, up)} :
      /\ r \in States /\ SameBreaker(marked, r)
      /\ up /\ Level(marked) => Level(r)
  BY <1>1, <1>2, CooldownFacts, TimeoutFacts
<1> QED
  BY <1>1, <1>4, <1>5 DEF SameBreaker

LEMMA ClockFacts ==
    ASSUME NEW st \in States, NEW d \in Unarmed .. Window + 1, NEW up \in BOOLEAN
    PROVE  LET r == SetRecoveryDeadline(st, d, up) IN
           /\ r \in States /\ SameCooldown(st, r) /\ r.mem.deadline = d
           /\ r.mem.strikes = st.mem.strikes /\ r.mem.streak = st.mem.streak
           /\ r.row.strikes = st.row.strikes /\ r.row.streak = st.row.streak
           /\ up /\ Level(st) => Level(r)
BY DEF SetRecoveryDeadline, States, Memory, SessionRow, SameCooldown, Level

LEMMA StrikesFacts ==
    ASSUME NEW st \in States, NEW n \in 0 .. 2, NEW up \in BOOLEAN
    PROVE  LET r == RecordVerdict(st, n, up)
               q == PersistStrikes(st, n, up) IN
           \A x \in {r, q} :
             /\ x \in States /\ SameCooldown(st, x) /\ x.mem.strikes = n
             /\ x.mem.deadline = st.mem.deadline /\ x.mem.streak = st.mem.streak
             /\ x.row.deadline = st.row.deadline /\ x.row.streak = st.row.streak
             /\ up /\ Level(st) => Level(x)
BY DEF RecordVerdict, PersistStrikes, States, Memory, SessionRow, SameCooldown, Level

LEMMA StrikeFacts ==
    ASSUME NEW st \in States, NEW up \in BOOLEAN
    PROVE  LET r == Strike(st, up) IN
           /\ r \in States /\ SameCooldown(st, r)
           /\ r.mem.deadline = st.mem.deadline /\ r.mem.streak = st.mem.streak
           /\ r.row.deadline = st.row.deadline /\ r.row.streak = st.row.streak
           /\ up /\ Level(st) => Level(r)
           /\ r.mem.strikes >= st.mem.strikes
<1>1. OneMore(st.mem.strikes) \in 0 .. 2 /\ OneMore(st.mem.strikes) >= st.mem.strikes
  BY DEF OneMore, Shorter, States, Memory
<1> QED
  BY <1>1, StrikesFacts DEF Strike

LEMMA StreakFacts ==
    ASSUME NEW st \in States, NEW n \in 0 .. 2, NEW up \in BOOLEAN
    PROVE  LET r == PersistStreak(st, n, up) IN
           /\ r \in States /\ SameCooldown(st, r) /\ r.mem.streak = n
           /\ up => r.row.streak = n
           /\ r.mem.deadline = st.mem.deadline /\ r.mem.strikes = st.mem.strikes
           /\ r.row.deadline = st.row.deadline /\ r.row.strikes = st.row.strikes
           /\ up /\ Level(st) => Level(r)
BY DEF PersistStreak, States, Memory, SessionRow, SameCooldown, Level

-----------------------------------------------------------------------------
(* Binding to a row. *)

LEMMA ZeroedFacts ==
    ASSUME NEW st \in States
    PROVE  LET r == Zeroed(st) IN
           /\ r \in States /\ r.row = st.row
           /\ r.mem.strikes = 0 /\ r.mem.streak = 0 /\ r.mem.deadline = Unarmed
           /\ r.mem.cooldown = 0 /\ r.mem.verify = st.mem.verify
<1> DEFINE fresh == [FreshMemory EXCEPT !.verify = st.mem.verify, !.terminal = st.mem.terminal]
<1>1. 0 \in Cooldowns /\ 0 \in 0 .. LadderTop /\ 0 \in 0 .. Backoff /\ Unarmed \in Unarmed .. Window + 1
  BY Numbers DEF Cooldowns, Longer, Unarmed
<1>2. /\ fresh \in Memory
      /\ fresh.strikes = 0 /\ fresh.streak = 0 /\ fresh.deadline = Unarmed
      /\ fresh.cooldown = 0 /\ fresh.verify = st.mem.verify
  <2>1. FreshMemory \in Memory /\ st.mem \in Memory
    BY <1>1 DEF FreshMemory, States, Memory, Cooldowns
  <2>2. st.mem.verify \in BOOLEAN /\ st.mem.terminal \in BOOLEAN
    BY <2>1 DEF Memory
  <2>3. fresh \in Memory
    BY <2>1, <2>2 DEF Memory
  <2> QED
    BY <2>3 DEF FreshMemory, Memory
<1>3. Zeroed(st) = [st EXCEPT !.mem = fresh]
  BY DEF Zeroed
<1> HIDE DEF fresh
<1> QED
  BY <1>2, <1>3 DEF States

LEMMA LoadCooldownFacts ==
    ASSUME NEW st \in States, NEW refresh \in BOOLEAN
    PROVE  LET r == LoadCooldown(st, refresh) IN
           /\ r \in States /\ SameBreaker(st, r) /\ r.row = st.row /\ r.mem.backoff = st.mem.backoff
           /\ Level(st) => Level(r)
           /\ st.row.cooldown = 0 /\ st.mem.unsaved => r.mem.cooldown = st.mem.cooldown
           /\ st.mem.cooldown = 0 /\ ~st.row.hygiene => r.mem.cooldown = st.row.cooldown
<1>1. /\ 0 \in Cooldowns /\ st.mem.cooldown \in Cooldowns /\ st.row.cooldown \in Cooldowns
      /\ Cooldowns \subseteq Nat
  BY Numbers DEF Cooldowns, Longer, States, Memory, SessionRow
<1>2. [st EXCEPT !.mem.cooldown = 0] \in States /\ [st EXCEPT !.mem.cooldown = st.row.cooldown, !.mem.unsaved = FALSE] \in States
  BY <1>1 DEF States, Memory, Cooldowns
<1>3. CASE LoadCooldown(st, refresh) = st /\ (st.row.cooldown # 0 => st.mem.cooldown > 0)
  BY <1>1, <1>3 DEF SameBreaker
<1>4. CASE /\ LoadCooldown(st, refresh) = [st EXCEPT !.mem.cooldown = 0]
           /\ IF st.row.cooldown = 0 THEN ~(st.mem.cooldown > 0 /\ st.mem.unsaved) ELSE st.row.hygiene
  BY <1>1, <1>2, <1>4 DEF States, Memory, Cooldowns, SameBreaker, Level
<1>5. CASE /\ LoadCooldown(st, refresh) = [st EXCEPT !.mem.cooldown = st.row.cooldown, !.mem.unsaved = FALSE]
           /\ st.row.cooldown # 0
  <2> DEFINE mem == [[st.mem EXCEPT !.cooldown = st.row.cooldown] EXCEPT !.unsaved = FALSE]
  <2>1. LoadCooldown(st, refresh) = [st EXCEPT !.mem = mem]
    BY <1>5 DEF States
  <2>2. /\ mem \in Memory /\ mem.cooldown = st.row.cooldown
        /\ mem.strikes = st.mem.strikes /\ mem.streak = st.mem.streak /\ mem.deadline = st.mem.deadline
        /\ mem.verify = st.mem.verify /\ mem.backoff = st.mem.backoff
    BY <1>1 DEF States, Memory, Cooldowns
  <2> HIDE DEF mem
  <2> QED
    BY <1>1, <1>5, <2>1, <2>2 DEF States, SameBreaker, Level
<1> QED
  BY <1>1, <1>3, <1>4, <1>5 DEF LoadCooldown

LEMMA LoadBreakerFacts ==
    ASSUME NEW st \in States
    PROVE  LET r == LoadBreaker(st) IN
           /\ r \in States /\ r.row = st.row
           /\ r.mem.strikes = st.row.strikes /\ r.mem.streak = st.row.streak
           /\ r.mem.deadline = st.mem.deadline
           /\ SameCooldown(st, r)
BY DEF LoadBreaker, States, Memory, SessionRow, SameCooldown

LEMMA RefreshFacts ==
    ASSUME NEW st \in States, NEW up \in BOOLEAN
    PROVE  LET r == RefreshDurableGuards(st, up) IN
           /\ r \in States /\ r.row = st.row
           /\ r.mem.deadline = st.mem.deadline /\ r.mem.verify = st.mem.verify
           /\ r.mem.backoff = st.mem.backoff
           /\ up => r.mem.strikes = st.row.strikes /\ r.mem.streak = st.row.streak
           /\ ~up => r = st
           /\ Level(st) => Level(r)
           /\ st.row.cooldown = 0 /\ st.mem.unsaved => r.mem.cooldown = st.mem.cooldown
<1> DEFINE loaded == LoadCooldown(st, TRUE)
<1>1. /\ loaded \in States /\ SameBreaker(st, loaded) /\ loaded.row = st.row
      /\ loaded.mem.backoff = st.mem.backoff
      /\ Level(st) => Level(loaded)
      /\ st.row.cooldown = 0 /\ st.mem.unsaved => loaded.mem.cooldown = st.mem.cooldown
  BY LoadCooldownFacts
<1> HIDE DEF loaded
<1>2. LET r == LoadBreaker(loaded) IN
      /\ r \in States /\ r.row = loaded.row
      /\ r.mem.strikes = loaded.row.strikes /\ r.mem.streak = loaded.row.streak
      /\ r.mem.deadline = loaded.mem.deadline
      /\ SameCooldown(loaded, r)
  BY <1>1, LoadBreakerFacts
<1>3. RefreshDurableGuards(st, up) = IF up THEN LoadBreaker(loaded) ELSE st
  BY DEF RefreshDurableGuards, loaded
<1> QED
  BY <1>1, <1>2, <1>3 DEF SameBreaker, SameCooldown, Level

LEMMA BindFacts ==
    ASSUME NEW st \in States, NEW up \in BOOLEAN
    PROVE  LET r == BindSessionState(st, up) IN
           /\ r \in States /\ r.row = st.row /\ r.mem.verify = st.mem.verify
           /\ up /\ ~st.row.hygiene => Level(r) /\ r.mem.streak = st.row.streak
<1> DEFINE zeroed == Zeroed(st)
           bound == LoadCooldown(zeroed, FALSE)
           loaded == LoadBreaker(bound)
<1>1. /\ zeroed \in States /\ zeroed.row = st.row
      /\ zeroed.mem.cooldown = 0 /\ zeroed.mem.verify = st.mem.verify
  BY ZeroedFacts
<1> HIDE DEF zeroed
<1>2. /\ bound \in States /\ SameBreaker(zeroed, bound) /\ bound.row = zeroed.row
      /\ zeroed.mem.cooldown = 0 /\ ~zeroed.row.hygiene => bound.mem.cooldown = zeroed.row.cooldown
  BY <1>1, LoadCooldownFacts
<1> HIDE DEF bound
<1>3. /\ loaded \in States /\ loaded.row = bound.row
      /\ loaded.mem.strikes = bound.row.strikes /\ loaded.mem.streak = bound.row.streak
      /\ SameCooldown(bound, loaded)
  BY <1>2, LoadBreakerFacts
<1>4. BindSessionState(st, up) = IF up THEN [loaded EXCEPT !.mem.deadline = st.row.deadline] ELSE zeroed
  BY DEF BindSessionState, loaded, bound, zeroed
<1> HIDE DEF loaded
<1>5. LET r == [loaded EXCEPT !.mem.deadline = st.row.deadline] IN
      /\ r \in States /\ r.row = loaded.row /\ r.mem.deadline = st.row.deadline
      /\ r.mem.strikes = loaded.mem.strikes /\ r.mem.streak = loaded.mem.streak
      /\ r.mem.cooldown = loaded.mem.cooldown /\ r.mem.verify = loaded.mem.verify
  BY <1>3 DEF States, Memory, SessionRow
<1> QED
  BY <1>1, <1>2, <1>3, <1>4, <1>5 DEF SameBreaker, SameCooldown, Level

-----------------------------------------------------------------------------
(* The gate. *)

LEMMA ProbeFacts ==
    ASSUME NEW st \in States, NEW up \in BOOLEAN
    PROVE  LET r == AllowProbe(st, up) IN
           /\ r \in States /\ SameCooldown(st, r)
           /\ r.mem.deadline = Unarmed /\ ~Tripped(r.mem)
           /\ up /\ Level(st) => Level(r)
           /\ up => \/ r.mem.streak = r.row.streak
                    \/ r.mem.streak = st.mem.streak /\ r.row.streak = st.row.streak
<1> DEFINE disarmed == SetRecoveryDeadline(st, Unarmed, up)
           struck == IF disarmed.mem.strikes >= 2 THEN RecordVerdict(disarmed, 1, up) ELSE disarmed
<1>1. /\ disarmed \in States /\ SameCooldown(st, disarmed) /\ disarmed.mem.deadline = Unarmed
      /\ disarmed.mem.strikes = st.mem.strikes /\ disarmed.mem.streak = st.mem.streak
      /\ disarmed.row.strikes = st.row.strikes /\ disarmed.row.streak = st.row.streak
      /\ up /\ Level(st) => Level(disarmed)
  BY Numbers, ClockFacts DEF Unarmed
<1> HIDE DEF disarmed
<1>2. /\ struck \in States /\ SameCooldown(disarmed, struck) /\ struck.mem.strikes \in 0 .. 1
      /\ struck.mem.deadline = disarmed.mem.deadline /\ struck.mem.streak = disarmed.mem.streak
      /\ struck.row.streak = disarmed.row.streak
      /\ up /\ Level(disarmed) => Level(struck)
  <2>1. CASE disarmed.mem.strikes >= 2
    <3>1. 1 \in 0 .. 2 /\ 1 \in 0 .. 1
      OBVIOUS
    <3>2. struck = RecordVerdict(disarmed, 1, up)
      BY <2>1
    <3> HIDE DEF struck
    <3>3. /\ struck \in States /\ SameCooldown(disarmed, struck) /\ struck.mem.strikes = 1
          /\ struck.mem.deadline = disarmed.mem.deadline /\ struck.mem.streak = disarmed.mem.streak
          /\ struck.row.streak = disarmed.row.streak
          /\ up /\ Level(disarmed) => Level(struck)
      BY <1>1, <3>1, <3>2, StrikesFacts
    <3> QED
      BY <3>1, <3>3
  <2>2. CASE ~(disarmed.mem.strikes >= 2)
    BY <1>1, <2>2 DEF SameCooldown, States, Memory
  <2> QED
    BY <2>1, <2>2
<1>3. AllowProbe(st, up) = IF struck.mem.streak >= 2 THEN PersistStreak(struck, 1, up) ELSE struck
  BY DEF AllowProbe, struck, disarmed
<1> HIDE DEF struck
<1>4. CASE struck.mem.streak >= 2
  <2> DEFINE r == PersistStreak(struck, 1, up)
  <2>1. 1 \in 0 .. 2
    OBVIOUS
  <2>2. /\ r \in States /\ SameCooldown(struck, r) /\ r.mem.streak = 1
        /\ up => r.row.streak = 1
        /\ r.mem.deadline = struck.mem.deadline /\ r.mem.strikes = struck.mem.strikes
        /\ up /\ Level(struck) => Level(r)
    BY <1>2, <2>1, StreakFacts
  <2>3. AllowProbe(st, up) = r
    BY <1>3, <1>4
  <2> HIDE DEF r
  <2> QED
    BY <1>1, <1>2, <2>2, <2>3 DEF SameCooldown, Tripped
<1>5. CASE ~(struck.mem.streak >= 2)
  BY <1>1, <1>2, <1>3, <1>5 DEF SameCooldown, Tripped
<1> QED
  BY <1>4, <1>5

\* What one look at the guards, as memory has them, makes of st.
Looked(st, ignoreCooldown, up, b) ==
    LET r == b.st IN
    /\ b.blocked \in BOOLEAN /\ r \in States /\ SameCooldown(st, r)
    /\ up /\ Level(st) => Level(r)
    /\ ~b.blocked => /\ r.mem.deadline = Unarmed /\ ~Tripped(r.mem)
                     /\ Tripped(st.mem) => st.mem.deadline = 0
    /\ b.blocked => /\ r.mem.strikes = st.mem.strikes /\ r.mem.streak = st.mem.streak
                    /\ r.row.strikes = st.row.strikes /\ r.row.streak = st.row.streak
                    /\ \/ r.mem.deadline = st.mem.deadline
                       \/ /\ Tripped(st.mem) /\ r.mem.deadline = Window
                          /\ st.mem.deadline \notin 0 .. Window
                          /\ st.mem.backoff = 0 /\ (ignoreCooldown \/ st.mem.cooldown = 0)
                    /\ st.mem.backoff = 0 /\ (ignoreCooldown \/ st.mem.cooldown = 0) => Tripped(st.mem)
    /\ up => \/ r.mem.streak = r.row.streak
             \/ r.mem.streak = st.mem.streak /\ r.row.streak = st.row.streak

LEMMA BlockedFacts ==
    ASSUME NEW st \in States, NEW ignoreCooldown \in BOOLEAN, NEW up \in BOOLEAN
    PROVE  Looked(st, ignoreCooldown, up, BlockedLocally(st, ignoreCooldown, up))
<1> DEFINE b == BlockedLocally(st, ignoreCooldown, up)
<1>1. /\ st.mem.backoff \in Nat /\ st.mem.cooldown \in Nat /\ st.mem.deadline \in Unarmed .. Window + 1
      /\ Window \in Unarmed .. Window + 1 /\ Unarmed \in Unarmed .. Window + 1 /\ Unarmed = -1
  BY Numbers DEF States, Memory, Longer, Unarmed
<1>2. CASE (st.mem.cooldown > 0 /\ ~ignoreCooldown) \/ st.mem.backoff > 0
  <2>1. b = [blocked |-> TRUE, st |-> st]
    BY <1>2 DEF BlockedLocally
  <2> QED
    BY <1>1, <1>2, <2>1 DEF Looked, SameCooldown
<1>3. CASE ~((st.mem.cooldown > 0 /\ ~ignoreCooldown) \/ st.mem.backoff > 0) /\ ~Tripped(st.mem)
  <2>1. b = [blocked |-> FALSE, st |-> SetRecoveryDeadline(st, Unarmed, up)]
    BY <1>3 DEF BlockedLocally
  <2> DEFINE r == SetRecoveryDeadline(st, Unarmed, up)
  <2>2. /\ r \in States /\ SameCooldown(st, r) /\ r.mem.deadline = Unarmed
        /\ r.mem.strikes = st.mem.strikes /\ r.mem.streak = st.mem.streak
        /\ r.row.strikes = st.row.strikes /\ r.row.streak = st.row.streak
        /\ up /\ Level(st) => Level(r)
    <3>1. Unarmed \in Unarmed .. Window + 1
      BY <1>1
    <3> QED
      BY <3>1, ClockFacts
  <2> HIDE DEF r
  <2>3. b.blocked = FALSE /\ b.st = r
    BY <2>1 DEF r
  <2> HIDE DEF b
  <2>4. Looked(st, ignoreCooldown, up, b)
    BY <1>3, <2>2, <2>3 DEF Looked, Tripped
  <2> QED
    BY <2>4 DEF b
<1>4. CASE /\ ~((st.mem.cooldown > 0 /\ ~ignoreCooldown) \/ st.mem.backoff > 0) /\ Tripped(st.mem)
           /\ st.mem.deadline = Unarmed \/ st.mem.deadline > Window
  <2>1. b = [blocked |-> TRUE, st |-> SetRecoveryDeadline(st, Window, up)]
    BY <1>4 DEF BlockedLocally
  <2>2. st.mem.deadline \notin 0 .. Window
    BY <1>1, <1>4, Numbers
  <2> DEFINE r == SetRecoveryDeadline(st, Window, up)
  <2>3. /\ r \in States /\ SameCooldown(st, r) /\ r.mem.deadline = Window
        /\ r.mem.strikes = st.mem.strikes /\ r.mem.streak = st.mem.streak
        /\ r.row.strikes = st.row.strikes /\ r.row.streak = st.row.streak
        /\ up /\ Level(st) => Level(r)
    BY <1>1, ClockFacts
  <2> HIDE DEF r
  <2>4. b.blocked = TRUE /\ b.st = r
    BY <2>1 DEF r
  <2> HIDE DEF b
  <2>5. st.mem.backoff = 0 /\ (ignoreCooldown \/ st.mem.cooldown = 0)
    BY <1>1, <1>4
  <2>6. Looked(st, ignoreCooldown, up, b)
    BY <1>4, <2>2, <2>3, <2>4, <2>5 DEF Looked
  <2> QED
    BY <2>6 DEF b
<1>5. CASE /\ ~((st.mem.cooldown > 0 /\ ~ignoreCooldown) \/ st.mem.backoff > 0) /\ Tripped(st.mem)
           /\ ~(st.mem.deadline = Unarmed \/ st.mem.deadline > Window)
           /\ st.mem.deadline = 0
  <2>1. b = [blocked |-> FALSE, st |-> AllowProbe(st, up)]
    BY <1>5 DEF BlockedLocally
  <2> DEFINE r == AllowProbe(st, up)
  <2>2. /\ r \in States /\ SameCooldown(st, r)
        /\ r.mem.deadline = Unarmed /\ ~Tripped(r.mem)
        /\ up /\ Level(st) => Level(r)
        /\ up => \/ r.mem.streak = r.row.streak
                 \/ r.mem.streak = st.mem.streak /\ r.row.streak = st.row.streak
    BY ProbeFacts
  <2> HIDE DEF r
  <2>3. b.blocked = FALSE /\ b.st = r
    BY <2>1 DEF r
  <2> HIDE DEF b
  <2>4. Looked(st, ignoreCooldown, up, b)
    BY <1>5, <2>2, <2>3 DEF Looked
  <2> QED
    BY <2>4 DEF b
<1>6. CASE /\ ~((st.mem.cooldown > 0 /\ ~ignoreCooldown) \/ st.mem.backoff > 0) /\ Tripped(st.mem)
           /\ ~(st.mem.deadline = Unarmed \/ st.mem.deadline > Window)
           /\ st.mem.deadline # 0
  <2>1. b = [blocked |-> TRUE, st |-> st]
    BY <1>6 DEF BlockedLocally
  <2> QED
    BY <1>6, <2>1 DEF Looked, SameCooldown
<1> QED
  BY <1>2, <1>3, <1>4, <1>5, <1>6

\* What both looks, the second after the row was read again, make of st.
Decided(st, ignoreCooldown, up, v) ==
    LET r == v.st IN
    /\ v.blocked \in BOOLEAN /\ r \in States /\ r.mem.verify = st.mem.verify
    /\ up /\ Level(st) => Level(r)
    /\ up /\ st.row.streak = 0 => \/ r.mem.streak = r.row.streak
                                  \/ r.row.streak = 0 /\ r.mem.deadline = Unarmed /\ ~v.blocked
    /\ up /\ st.row.streak = st.mem.streak => r.mem.streak = r.row.streak
    /\ ~v.blocked => /\ r.mem.deadline = Unarmed /\ ~Tripped(r.mem)
                     /\ Tripped(st.mem) /\ (up => Tripped(st.row)) => st.mem.deadline = 0
    /\ v.blocked => /\ r.row.strikes = st.row.strikes /\ r.row.streak = st.row.streak
                    /\ up => r.mem.strikes = r.row.strikes /\ r.mem.streak = r.row.streak
                    /\ ~up => r.mem.strikes = st.mem.strikes /\ r.mem.streak = st.mem.streak
                    /\ \/ r.mem.deadline = st.mem.deadline
                       \/ /\ Tripped(st.mem) \/ Tripped(st.row)
                          /\ r.mem.deadline = Window /\ st.mem.deadline \notin 0 .. Window
                    /\ up /\ Level(st) /\ r.mem.deadline # st.mem.deadline => Tripped(st.row)
                    /\ r.mem.backoff = 0 /\ (ignoreCooldown \/ r.mem.cooldown = 0) => Tripped(r.mem)
    /\ st.row.cooldown = 0 /\ st.mem.unsaved => r.mem.cooldown = st.mem.cooldown

LEMMA GateFacts ==
    ASSUME NEW st \in States, NEW ignoreCooldown \in BOOLEAN, NEW up \in BOOLEAN
    PROVE  Decided(st, ignoreCooldown, up, GateVerdict(st, ignoreCooldown, up))
<1> DEFINE first == BlockedLocally(st, ignoreCooldown, up)
           fresh == RefreshDurableGuards(first.st, up)
           second == BlockedLocally(fresh, ignoreCooldown, up)
<1>1. Looked(st, ignoreCooldown, up, first)
  BY BlockedFacts
<1>2. GateVerdict(st, ignoreCooldown, up) = IF ~first.blocked THEN first ELSE second
  BY DEF GateVerdict
<1> HIDE DEF first
<1>3. /\ fresh \in States /\ fresh.row = first.st.row
      /\ fresh.mem.deadline = first.st.mem.deadline /\ fresh.mem.verify = first.st.mem.verify
      /\ fresh.mem.backoff = first.st.mem.backoff
      /\ up => fresh.mem.strikes = first.st.row.strikes /\ fresh.mem.streak = first.st.row.streak
      /\ ~up => fresh = first.st
      /\ Level(first.st) => Level(fresh)
      /\ first.st.row.cooldown = 0 /\ first.st.mem.unsaved => fresh.mem.cooldown = first.st.mem.cooldown
  <2>1. first.st \in States
    BY <1>1 DEF Looked
  <2> QED
    BY <2>1, RefreshFacts
<1> HIDE DEF fresh
<1>4. Looked(fresh, ignoreCooldown, up, second)
  BY <1>3, BlockedFacts
<1> HIDE DEF second
<1> DEFINE v == GateVerdict(st, ignoreCooldown, up)
<1>5. CASE ~first.blocked
  <2>1. v = first
    BY <1>2, <1>5
  <2> HIDE DEF v
  <2>2. Decided(st, ignoreCooldown, up, v)
    BY <1>1, <1>5, <2>1 DEF Looked, Decided, SameCooldown
  <2> QED
    BY <2>2 DEF v
<1>6. CASE first.blocked
  <2>1. 0 # Window /\ Window \in 0 .. Window
    BY Numbers
  <2>2. v = second
    BY <1>2, <1>6
  <2> HIDE DEF v
  <2>3. Tripped(fresh.mem) <=> IF up THEN Tripped(st.row) ELSE Tripped(st.mem)
    BY <1>1, <1>3, <1>6 DEF Looked, Tripped
  <2>4. ASSUME up, Level(st), second.blocked, second.st.mem.deadline # st.mem.deadline
        PROVE  Tripped(st.row)
    <3>1. Level(first.st) /\ Level(fresh) /\ fresh.mem.cooldown = first.st.mem.cooldown
      BY <1>1, <1>3, <2>4 DEF Looked, Level
    <3>2. CASE first.st.mem.deadline # st.mem.deadline
      <4>1. st.mem.backoff = 0 /\ (ignoreCooldown \/ st.mem.cooldown = 0)
        BY <1>1, <1>6, <3>2 DEF Looked
      <4>2. fresh.mem.backoff = 0 /\ (ignoreCooldown \/ fresh.mem.cooldown = 0)
        BY <1>1, <1>3, <3>1, <4>1 DEF Looked, SameCooldown
      <4> QED
        BY <1>4, <2>3, <2>4, <4>2 DEF Looked
    <3>3. CASE second.st.mem.deadline # fresh.mem.deadline
      BY <1>4, <2>3, <2>4, <3>3 DEF Looked
    <3> QED
      BY <1>3, <2>4, <3>2, <3>3
  <2>5. Decided(st, ignoreCooldown, up, v)
    BY <1>1, <1>3, <1>4, <1>6, <2>1, <2>2, <2>3, <2>4 DEF Looked, Decided, SameCooldown, Tripped
  <2> QED
    BY <2>5 DEF v
<1> QED
  BY <1>1, <1>5, <1>6 DEF Looked

-----------------------------------------------------------------------------
(* The host's commit, and responses. *)

LEMMA RotatedFacts ==
    ASSUME NEW st \in States, NEW up \in BOOLEAN
    PROVE  LET r == RotatedOnto(st, up) IN
           /\ r \in States
           /\ up => Level(r) /\ r.mem.deadline = Unarmed /\ r.row.streak = 0
<1> DEFINE strikes == IF up THEN st.row.strikes ELSE st.mem.strikes
           streak == IF up THEN st.row.streak ELSE st.mem.streak
           fresh == [st EXCEPT !.row = FreshRow]
           bound == BindSessionState(fresh, up)
           carried == [bound EXCEPT !.mem.streak = streak]
<1>1. strikes \in 0 .. 2 /\ streak \in 0 .. 2
  BY DEF States, Memory, SessionRow
<1>2. fresh \in States /\ fresh.row = FreshRow
  <2>1. 0 \in Cooldowns /\ Unarmed \in Unarmed .. Window + 1
    BY Numbers DEF Cooldowns, Longer, Unarmed
  <2>2. FreshRow \in SessionRow
    BY <2>1 DEF FreshRow, SessionRow, Cooldowns
  <2> QED
    BY <2>2 DEF States
<1> HIDE DEF fresh
<1>3. /\ bound \in States /\ bound.row = FreshRow
      /\ up => Level(bound) /\ bound.row.streak = 0 /\ bound.mem.deadline = Unarmed
  <2>1. ~FreshRow.hygiene /\ FreshRow.streak = 0 /\ FreshRow.deadline = Unarmed
    BY DEF FreshRow
  <2>2. /\ bound \in States /\ bound.row = fresh.row
        /\ up /\ ~fresh.row.hygiene => Level(bound)
    BY <1>2, BindFacts
  <2> QED
    BY <1>2, <2>1, <2>2 DEF Level
<1> HIDE DEF bound
<1>4. /\ carried \in States /\ carried.row = bound.row /\ carried.mem.deadline = bound.mem.deadline
      /\ Level(bound) => Level(carried)
  BY <1>1, <1>3 DEF States, Memory, Level
<1>5. RotatedOnto(st, up) = IF strikes = carried.mem.strikes THEN carried ELSE PersistStrikes(carried, strikes, up)
  BY DEF RotatedOnto, strikes, streak, carried, bound, fresh
<1> HIDE DEF carried, strikes
<1>6. LET r == PersistStrikes(carried, strikes, up) IN
      /\ r \in States /\ r.mem.deadline = carried.mem.deadline /\ r.row.streak = carried.row.streak
      /\ up /\ Level(carried) => Level(r)
  BY <1>1, <1>4, StrikesFacts
<1> QED
  BY <1>3, <1>4, <1>5, <1>6

LEMMA BookkeptFacts ==
    ASSUME NEW st \in States, NEW up \in BOOLEAN
    PROVE  LET r == Bookkept(st, up) IN
           /\ r \in States /\ r.mem.deadline = st.mem.deadline
           /\ up /\ Level(st) => Level(r)
           /\ up /\ done # "skip" => r.row.streak = r.mem.streak
           /\ done = "skip" => r.row.streak = st.row.streak /\ r.mem.streak = st.mem.streak
<1> DEFINE armed == [st EXCEPT !.mem.backoff = 0, !.mem.verify = TRUE]
           n == IF done = "fallback" THEN OneMore(st.mem.streak) ELSE 0
<1>1. n \in 0 .. 2
  BY DEF States, Memory, OneMore, Shorter
<1>2. /\ armed \in States /\ armed.row = st.row /\ armed.mem.deadline = st.mem.deadline
      /\ armed.mem.streak = st.mem.streak /\ (Level(st) => Level(armed))
  <2> DEFINE mem == [st.mem EXCEPT !.backoff = 0, !.verify = TRUE]
  <2>1. 0 \in 0 .. Backoff
    BY Numbers
  <2>2. /\ mem \in Memory /\ mem.deadline = st.mem.deadline /\ mem.streak = st.mem.streak
        /\ mem.strikes = st.mem.strikes /\ mem.cooldown = st.mem.cooldown
    BY <2>1 DEF States, Memory
  <2>3. armed = [st EXCEPT !.mem = mem]
    BY DEF States
  <2> HIDE DEF mem, armed
  <2> QED
    BY <2>2, <2>3 DEF States, Level
<1>3. Bookkept(st, up) = IF done = "skip" THEN armed ELSE PersistStreak(armed, n, up)
  BY DEF Bookkept
<1> HIDE DEF armed, n
<1>4. LET r == PersistStreak(armed, n, up) IN
      /\ r \in States /\ r.mem.streak = n /\ r.mem.deadline = armed.mem.deadline
      /\ up => r.row.streak = n
      /\ up /\ Level(armed) => Level(r)
  BY <1>1, <1>2, StreakFacts
<1> QED
  BY <1>2, <1>3, <1>4

LEMMA VerdictFacts ==
    ASSUME NEW st \in States, NEW reading \in Readings, NEW up \in BOOLEAN
    PROVE  LET r == VerdictOnResponse(st, reading, up) IN
           /\ r \in States /\ r.mem.deadline = st.mem.deadline
           /\ r.mem.streak = st.mem.streak /\ r.row.streak = st.row.streak
           /\ up /\ Level(st) => Level(r)
           /\ st.mem.verify \/ r.mem.strikes = st.mem.strikes \/ r.mem.strikes = 0
<1>1. CASE reading = "fits"
  <2>1. 0 \in 0 .. 2
    OBVIOUS
  <2> QED
    BY <1>1, <2>1, StrikesFacts DEF VerdictOnResponse
<1>2. CASE reading = "exceeds" /\ st.mem.verify
  BY <1>2, StrikeFacts DEF VerdictOnResponse
<1>3. CASE reading # "fits" /\ ~(reading = "exceeds" /\ st.mem.verify)
  BY <1>3 DEF VerdictOnResponse
<1> QED
  BY <1>1, <1>2, <1>3

\* What a model switch leaves of the breaker.
LEMMA SwitchFacts ==
    ASSUME NEW st \in States, NEW up \in BOOLEAN
    PROVE  LET unstruck == RecordVerdict(st, 0, up)
               unstreaked == PersistStreak(unstruck, 0, up)
               cleared == ClearCooldown(unstreaked, up) IN
           \A r \in {unstruck, unstreaked, cleared} :
             /\ r \in States /\ r.mem.deadline = st.mem.deadline /\ r.mem.strikes = 0
             /\ up => \/ r.mem.streak = r.row.streak /\ r.row.streak = 0
                      \/ r.mem.streak = st.mem.streak /\ r.row.streak = st.row.streak
             /\ up /\ Level(st) => Level(r)
<1> DEFINE unstruck == RecordVerdict(st, 0, up)
           unstreaked == PersistStreak(unstruck, 0, up)
           cleared == ClearCooldown(unstreaked, up)
<1>0. 0 \in 0 .. 2
  OBVIOUS
<1>1. /\ unstruck \in States /\ unstruck.mem.deadline = st.mem.deadline /\ unstruck.mem.strikes = 0
      /\ unstruck.mem.streak = st.mem.streak /\ unstruck.row.streak = st.row.streak
      /\ up /\ Level(st) => Level(unstruck)
  BY <1>0, StrikesFacts
<1> HIDE DEF unstruck
<1>2. /\ unstreaked \in States /\ unstreaked.mem.deadline = unstruck.mem.deadline
      /\ unstreaked.mem.strikes = unstruck.mem.strikes /\ unstreaked.mem.streak = 0
      /\ up => unstreaked.row.streak = 0
      /\ up /\ Level(unstruck) => Level(unstreaked)
  BY <1>0, <1>1, StreakFacts
<1> HIDE DEF unstreaked
<1>3. /\ cleared \in States /\ SameBreaker(unstreaked, cleared)
      /\ up /\ Level(unstreaked) => Level(cleared)
  BY <1>2, ClearFacts
<1> HIDE DEF cleared
<1>4. \A r \in {unstruck, unstreaked, cleared} :
        /\ r \in States /\ r.mem.deadline = st.mem.deadline /\ r.mem.strikes = 0
        /\ up => \/ r.mem.streak = r.row.streak /\ r.row.streak = 0
                 \/ r.mem.streak = st.mem.streak /\ r.row.streak = st.row.streak
        /\ up /\ Level(st) => Level(r)
  BY <1>1, <1>2, <1>3 DEF SameBreaker
<1> QED
  BY <1>4 DEF unstruck, unstreaked, cleared

-----------------------------------------------------------------------------
(* Steps. *)

LEMMA InitIsGood ==
    ASSUME Init
    PROVE  IInv
<1>1. 0 \in Cooldowns /\ Unarmed \in Unarmed .. Window + 1 /\ 0 \in 0 .. Backoff /\ 0 \in 0 .. LadderTop
  BY Numbers DEF Cooldowns, Longer, Unarmed
<1>2. c \in Memory /\ row \in SessionRow
  BY <1>1 DEF Init, FreshMemory, FreshRow, Memory, SessionRow, Cooldowns
<1>3. TypeOK
  <2>1. since = 0 /\ 0 \in 0 .. Window /\ unkept = FALSE /\ stale = FALSE
        /\ failures = 0 /\ jumps = 0 /\ reliefs = 0 /\ 0 <= MaxUpsets
    BY Numbers DEF Init
  <2>2. {unkept, stale} \subseteq BOOLEAN
    BY <2>1
  <2>4. {failures, jumps, reliefs} \subseteq Nat
    BY <2>1
  <2>5. failures + jumps + reliefs <= MaxUpsets
    BY <2>1, Numbers
  <2>3. pc = "idle" /\ done = "ok" /\ late = "none"
    BY DEF Init
  <2> QED
    BY <1>2, <2>1, <2>2, <2>3, <2>4, <2>5 DEF TypeOK
<1>4. AloneInv /\ ProbeInv
  BY DEF Init, AloneInv, ProbeInv, Level, Now, StreakKept, FreshMemory, FreshRow, Tripped
<1> QED
  BY <1>3, <1>4 DEF IInv

LEMMA NowFacts ==
    ASSUME TypeOK
    PROVE  Now \in States /\ Now.mem = c /\ Now.row = row
BY DEF TypeOK, Now, States

LEMMA TakeFacts ==
    ASSUME IInv, NEW st \in States, NEW up \in BOOLEAN, Take(st, up), UNCHANGED <<jumps, reliefs>>
    PROVE  /\ c' = st.mem /\ row' = st.row /\ c' \in Memory /\ row' \in SessionRow
           /\ Level(Now)' <=> Level(st)
           /\ since' \in 0 .. Window
           /\ Tripped(row) /\ Tripped(row') => since' = since
           /\ Alone' => up /\ Alone
           /\ failures' = failures => up
           /\ {failures, jumps, reliefs}' \subseteq Nat /\ failures' + jumps' + reliefs' <= MaxUpsets
<1>1. c' = st.mem /\ row' = st.row /\ st.mem \in Memory /\ st.row \in SessionRow
  BY DEF Take, States
<1>2. Level(Now)' <=> Level(st)
  BY <1>1 DEF Level, Now
<1>3. since \in 0 .. Window /\ failures \in Nat /\ jumps \in Nat /\ reliefs \in Nat
      /\ failures + jumps + reliefs <= MaxUpsets
  BY DEF IInv, TypeOK
<1>4. since' \in 0 .. Window /\ (Tripped(row) /\ Tripped(row') => since' = since)
  BY <1>1, <1>3, Numbers DEF Take, RowTripped
<1>5. failures' = (IF up THEN failures ELSE failures + 1) /\ (up \/ failures + jumps + reliefs < MaxUpsets)
  BY DEF Take, MayUpset
<1>6. /\ failures' \in Nat /\ failures' + jumps' + reliefs' <= MaxUpsets /\ jumps' \in Nat /\ reliefs' \in Nat
      /\ (failures' = failures => up) /\ (failures' = 0 => up /\ failures = 0) /\ reliefs' = reliefs
  BY <1>3, <1>5, Numbers
<1> QED
  BY <1>1, <1>2, <1>4, <1>6 DEF Alone

\* A step that leaves the breaker alone.
LEMMA QuietKeeps ==
    ASSUME IInv, TypeOK', SameBreaker(Now, Now'),
           Alone' => Alone /\ (Level(Now) => Level(Now)'),
           Tripped(row) /\ Tripped(row') => since' = since,
           unkept' = unkept, stale => stale', pc = "bookkeep" => pc' = "bookkeep",
           pc' = "idle" \/ pc # "idle" \/ c.deadline = Unarmed \/ stale'
    PROVE  IInv'
<1>1. /\ c'.strikes = c.strikes /\ c'.streak = c.streak /\ c'.deadline = c.deadline /\ c'.verify = c.verify
      /\ row'.strikes = row.strikes /\ row'.streak = row.streak /\ row'.deadline = row.deadline
  BY DEF SameBreaker, Now
<1>2. AloneInv'
  BY <1>1 DEF IInv, AloneInv, StreakKept
<1>3. stale \in BOOLEAN /\ stale' \in BOOLEAN
  BY DEF IInv, TypeOK
<1>4. Tripped(row)' <=> Tripped(row)
  BY <1>1 DEF Tripped
<1>5. ProbeInv'
  BY <1>1, <1>3, <1>4 DEF IInv, ProbeInv
<1> QED
  BY <1>2, <1>5 DEF IInv

\* The same, when it puts back what an operator made of memory and row.
LEMMA QuietTakeKeeps ==
    ASSUME IInv, NEW st \in States, NEW up \in BOOLEAN, Take(st, up), UNCHANGED <<jumps, reliefs>>,
           SameBreaker(Now, st), up /\ Level(Now) => Level(st),
           pc' \in {"idle", "gated", "overflow", "forced", "commit", "bookkeep"},
           done' \in {"ok", "fallback", "skip"}, late' \in {"none", "working", "clearing"},
           unkept' = unkept, stale' \in BOOLEAN, stale => stale', pc = "bookkeep" => pc' = "bookkeep",
           pc' = "idle" \/ pc # "idle" \/ c.deadline = Unarmed \/ stale'
    PROVE  IInv' /\ c'.deadline = c.deadline
<1>1. /\ c' = st.mem /\ row' = st.row /\ c' \in Memory /\ row' \in SessionRow
      /\ Level(Now)' <=> Level(st)
      /\ since' \in 0 .. Window
      /\ Tripped(row) /\ Tripped(row') => since' = since
      /\ Alone' => up /\ Alone
      /\ {failures, jumps, reliefs}' \subseteq Nat /\ failures' + jumps' + reliefs' <= MaxUpsets
  BY TakeFacts
<1>2. TypeOK'
  BY <1>1 DEF IInv, TypeOK
<1>3. SameBreaker(Now, Now')
  BY <1>1 DEF SameBreaker, Now
<1> QED
  BY <1>1, <1>2, <1>3, QuietKeeps DEF SameBreaker, Now

LEMMA GateKeeps ==
    ASSUME IInv, NEW overflow \in BOOLEAN, Gate(overflow)
    PROVE  IInv'
<1>1. PICK up \in BOOLEAN : \E verdict \in {GateVerdict(Now, overflow, up)} :
          /\ Take(verdict.st, up)
          /\ pc' = IF verdict.blocked THEN "idle" ELSE IF overflow THEN "overflow" ELSE "gated"
  BY DEF Gate
<1> DEFINE v == GateVerdict(Now, overflow, up)
<1>2. /\ Take(v.st, up)
      /\ pc' = IF v.blocked THEN "idle" ELSE IF overflow THEN "overflow" ELSE "gated"
      /\ pc = "idle" /\ UNCHANGED <<done, late, unkept, stale, jumps, reliefs>>
  BY <1>1 DEF Gate
<1>3. Now \in States /\ Now.mem = c /\ Now.row = row
  BY NowFacts DEF IInv
<1>4. Decided(Now, overflow, up, v)
  BY <1>3, GateFacts
<1> HIDE DEF v
<1>5. v.st \in States /\ v.blocked \in BOOLEAN
  BY <1>4 DEF Decided
<1>6. /\ c' = v.st.mem /\ row' = v.st.row /\ c' \in Memory /\ row' \in SessionRow
      /\ Level(Now)' <=> Level(v.st)
      /\ since' \in 0 .. Window
      /\ Tripped(row) /\ Tripped(row') => since' = since
      /\ Alone' => up /\ Alone
      /\ {failures, jumps, reliefs}' \subseteq Nat /\ failures' + jumps' + reliefs' <= MaxUpsets
  BY <1>2, <1>5, TakeFacts
<1>7. TypeOK'
  BY <1>2, <1>5, <1>6 DEF IInv, TypeOK
<1>8. AloneInv'
  <2> SUFFICES ASSUME Alone'
               PROVE  Level(Now)' /\ StreakKept'
    BY DEF AloneInv
  <2>1. up /\ Level(Now) /\ StreakKept
    BY <1>6 DEF IInv, AloneInv
  <2>2. Level(v.st)
    BY <1>4, <2>1 DEF Decided
  <2>3. StreakKept'
    <3>1. CASE row.streak = c.streak
      BY <1>3, <1>4, <1>6, <2>1, <3>1 DEF Decided, StreakKept
    <3>2. CASE row.streak = 0 /\ c.deadline = Unarmed /\ unkept
      BY <1>2, <1>3, <1>4, <1>6, <2>1, <3>2 DEF Decided, StreakKept
    <3> QED
      BY <1>2, <2>1, <3>1, <3>2 DEF StreakKept
  <2> QED
    BY <1>6, <2>2, <2>3
<1>9. ProbeInv'
  <2> SUFFICES ASSUME Alone', ~stale'
               PROVE  /\ pc' # "idle" => c'.deadline = Unarmed
                      /\ Tripped(row)' /\ c'.deadline \in 0 .. Window => since' + c'.deadline >= Window
                      /\ ~Tripped(row)' /\ c'.deadline # Unarmed => ~c'.verify
    BY DEF ProbeInv
  <2>1. up /\ Level(Now) /\ StreakKept /\ Alone /\ ~stale
    BY <1>2, <1>6 DEF IInv, AloneInv
  <2>2. /\ Tripped(row) /\ c.deadline \in 0 .. Window => since + c.deadline >= Window
        /\ ~Tripped(row) /\ c.deadline # Unarmed => ~c.verify
    BY <2>1 DEF IInv, ProbeInv
  <2>3. CASE ~v.blocked
    <3>1. c'.deadline = Unarmed /\ Unarmed \notin 0 .. Window
      BY <1>4, <1>6, <2>3 DEF Decided, Unarmed
    <3> QED
      BY <3>1
  <2>4. CASE v.blocked
    <3>1. pc' = "idle" /\ row'.strikes = row.strikes /\ row'.streak = row.streak /\ c'.verify = c.verify
      BY <1>2, <1>3, <1>4, <1>6, <2>4 DEF Decided
    <3>2. Tripped(row)' <=> Tripped(row)
      BY <3>1 DEF Tripped
    <3>3. CASE c'.deadline = c.deadline
      BY <1>6, <2>2, <3>1, <3>2, <3>3
    <3>4. CASE c'.deadline = Window /\ (Tripped(c) \/ Tripped(row)) /\ c.deadline \notin 0 .. Window
      <4> DEFINE ticks == since'
      <4>0. ticks \in 0 .. Window /\ c'.deadline = Window
        BY <1>6, <3>4
      <4> HIDE DEF ticks
      <4>1. ticks + c'.deadline >= Window
        BY <4>0, Numbers
      <4>2. c'.deadline # c.deadline
        BY <3>4, Numbers
      <4>3. Tripped(row)
        BY <1>3, <1>4, <1>6, <2>1, <2>4, <4>2 DEF Decided
      <4> QED
        BY <3>1, <3>2, <4>1, <4>3 DEF ticks
    <3> QED
      BY <1>3, <1>4, <1>6, <2>4, <3>3, <3>4 DEF Decided
  <2> QED
    BY <1>5, <2>3, <2>4
<1> QED
  BY <1>7, <1>8, <1>9 DEF IInv


\* The caller, or a late worker, clears the cooldown unless the fence stops it.
LEMMA ClearedFacts ==
    ASSUME TypeOK, NEW up \in BOOLEAN, NEW stopped \in BOOLEAN
    PROVE  LET cleared == IF stopped THEN Now ELSE ClearCooldown(Now, up) IN
           \A r \in {[cleared EXCEPT !.mem.backoff = 0], [cleared EXCEPT !.mem.terminal = FALSE]} :
             /\ r \in States /\ SameBreaker(Now, r)
             /\ up /\ Level(Now) => Level(r)
<1> DEFINE cleared == IF stopped THEN Now ELSE ClearCooldown(Now, up)
           rested == [cleared EXCEPT !.mem.backoff = 0]
           mended == [cleared EXCEPT !.mem.terminal = FALSE]
<1>1. Now \in States /\ Now.mem = c /\ Now.row = row
  BY NowFacts
<1>2. /\ cleared \in States /\ SameBreaker(Now, cleared) /\ (up /\ Level(Now) => Level(cleared))
  BY <1>1, ClearFacts DEF SameBreaker
<1> HIDE DEF cleared
<1>3. 0 \in 0 .. Backoff
  BY Numbers
<1>4. \A r \in {rested, mended} :
        /\ r \in States /\ SameBreaker(cleared, r) /\ (Level(cleared) => Level(r))
  <2> DEFINE idle == [cleared.mem EXCEPT !.backoff = 0]
             well == [cleared.mem EXCEPT !.terminal = FALSE]
  <2>1. rested = [cleared EXCEPT !.mem = idle]
    BY <1>2 DEF States
  <2>2. mended = [cleared EXCEPT !.mem = well]
    BY <1>2 DEF States
  <2>3. /\ idle \in Memory /\ idle.strikes = cleared.mem.strikes /\ idle.streak = cleared.mem.streak
        /\ idle.deadline = cleared.mem.deadline /\ idle.verify = cleared.mem.verify
        /\ idle.cooldown = cleared.mem.cooldown
    BY <1>2, <1>3 DEF States, Memory
  <2>4. /\ well \in Memory /\ well.strikes = cleared.mem.strikes /\ well.streak = cleared.mem.streak
        /\ well.deadline = cleared.mem.deadline /\ well.verify = cleared.mem.verify
        /\ well.cooldown = cleared.mem.cooldown
    BY <1>2 DEF States, Memory
  <2> HIDE DEF idle, well, rested, mended
  <2>5. /\ rested \in States /\ SameBreaker(cleared, rested) /\ (Level(cleared) => Level(rested))
    BY <1>2, <2>1, <2>3 DEF States, SameBreaker, Level
  <2>6. /\ mended \in States /\ SameBreaker(cleared, mended) /\ (Level(cleared) => Level(mended))
    BY <1>2, <2>2, <2>4 DEF States, SameBreaker, Level
  <2> QED
    BY <2>5, <2>6
<1> HIDE DEF rested, mended
<1>5. \A r \in {rested, mended} :
        /\ r \in States /\ SameBreaker(Now, r)
        /\ up /\ Level(Now) => Level(r)
  BY <1>2, <1>4 DEF SameBreaker
<1> QED
  BY <1>5 DEF rested, mended, cleared

LEMMA ForceKeeps ==
    ASSUME IInv, ForceCompress
    PROVE  IInv' /\ c'.deadline = c.deadline
<1>1. PICK up \in BOOLEAN, fenced \in FenceAnswers :
        Take([(IF fenced THEN Now ELSE ClearCooldown(Now, up)) EXCEPT !.mem.backoff = 0], up)
  BY DEF ForceCompress
<1> DEFINE st == [(IF fenced THEN Now ELSE ClearCooldown(Now, up)) EXCEPT !.mem.backoff = 0]
<1>2. TypeOK /\ fenced \in BOOLEAN
  BY DEF IInv, FenceAnswers
<1>3. st \in States /\ SameBreaker(Now, st) /\ (up /\ Level(Now) => Level(st))
  BY <1>2, ClearedFacts
<1>4. Take(st, up)
  BY <1>1
<1> HIDE DEF st
<1>5. /\ UNCHANGED <<jumps, reliefs, unkept>> /\ pc = "idle" /\ pc' = "forced"
      /\ stale' = (stale \/ c.deadline # Unarmed) /\ done' = done /\ late' = late
  BY DEF ForceCompress
<1>6. /\ done' \in {"ok", "fallback", "skip"} /\ late' \in {"none", "working", "clearing"}
      /\ stale' \in BOOLEAN /\ (stale => stale') /\ (c.deadline # Unarmed => stale')
  BY <1>2, <1>5 DEF TypeOK
<1> QED
  BY <1>3, <1>4, <1>5, <1>6, QuietTakeKeeps

LEMMA SummaryArrivesKeeps ==
    ASSUME IInv, SummaryArrives
    PROVE  IInv' /\ c'.deadline = c.deadline
<1>1. PICK up \in BOOLEAN :
        Take([ClearCooldown(Now, up) EXCEPT !.mem.terminal = FALSE], up)
  BY DEF SummaryArrives
<1> DEFINE st == [ClearCooldown(Now, up) EXCEPT !.mem.terminal = FALSE]
<1>2. TypeOK /\ FALSE \in BOOLEAN
  BY DEF IInv
<1>3. st \in States /\ SameBreaker(Now, st) /\ (up /\ Level(Now) => Level(st))
  BY <1>2, ClearedFacts
<1>4. Take(st, up)
  BY <1>1
<1> HIDE DEF st
<1>5. /\ UNCHANGED <<jumps, reliefs, unkept>> /\ pc # "idle" /\ pc # "bookkeep" /\ pc' = "commit"
      /\ done' = "ok" /\ late' = late /\ stale' = stale /\ stale \in BOOLEAN
      /\ late' \in {"none", "working", "clearing"}
  BY <1>2 DEF SummaryArrives, MayCall, InCompress, TypeOK
<1> QED
  BY <1>3, <1>4, <1>5, QuietTakeKeeps

LEMMA SummaryFailsKeeps ==
    ASSUME IInv, NEW kind \in Failures, SummaryFails(kind)
    PROVE  IInv' /\ c'.deadline = c.deadline
<1>1. PICK up \in BOOLEAN :
        Take(Failed(Now, kind, up), up) /\ WithoutSummary(Failed(Now, kind, up).mem.terminal)
  BY DEF SummaryFails
<1> DEFINE st == Failed(Now, kind, up)
<1>2. Now \in States
  BY NowFacts DEF IInv
<1>3. st \in States /\ SameBreaker(Now, st) /\ (up /\ Level(Now) => Level(st))
  BY <1>2, FailedFacts
<1>4. Take(st, up) /\ WithoutSummary(st.mem.terminal)
  BY <1>1
<1> HIDE DEF st
<1>5. /\ UNCHANGED <<jumps, reliefs, unkept, stale, late>> /\ pc # "idle" /\ pc # "bookkeep"
      /\ pc' \in {"idle", "commit"} /\ done' \in {done, "fallback"}
  BY <1>4 DEF SummaryFails, MayCall, InCompress, WithoutSummary
<1>6. done' \in {"ok", "fallback", "skip"} /\ late' \in {"none", "working", "clearing"} /\ stale' \in BOOLEAN
  BY <1>5 DEF IInv, TypeOK
<1> QED
  BY <1>3, <1>4, <1>5, <1>6, QuietTakeKeeps

LEMMA HostTimesOutKeeps ==
    ASSUME IInv, HostTimesOut
    PROVE  IInv' /\ c'.deadline = c.deadline
<1>1. PICK up \in BOOLEAN : Take(RecordTimeout(Now, up), up)
  BY DEF HostTimesOut
<1> DEFINE st == RecordTimeout(Now, up)
<1>2. Now \in States
  BY NowFacts DEF IInv
<1>3. st \in States /\ SameBreaker(Now, st) /\ (up /\ Level(Now) => Level(st))
  BY <1>2, TimeoutFacts
<1>4. Take(st, up)
  BY <1>1
<1> HIDE DEF st
<1>5. /\ UNCHANGED <<jumps, reliefs, unkept, stale, done>> /\ pc # "idle" /\ pc # "bookkeep" /\ pc' = "idle"
      /\ late' \in {"working", "clearing"}
  BY DEF HostTimesOut, MayCall, InCompress
<1>6. done' \in {"ok", "fallback", "skip"} /\ late' \in {"none", "working", "clearing"} /\ stale' \in BOOLEAN
  BY <1>5 DEF IInv, TypeOK
<1> QED
  BY <1>3, <1>4, <1>5, <1>6, QuietTakeKeeps

LEMMA LateSuccessKeeps ==
    ASSUME IInv, LateSuccess
    PROVE  IInv' /\ c'.deadline = c.deadline
<1>1. PICK up \in BOOLEAN :
        Take([(IF late = "working" THEN Now ELSE ClearCooldown(Now, up)) EXCEPT !.mem.terminal = FALSE], up)
  BY DEF LateSuccess
<1> DEFINE st == [(IF late = "working" THEN Now ELSE ClearCooldown(Now, up)) EXCEPT !.mem.terminal = FALSE]
<1>2. TypeOK /\ (late = "working") \in BOOLEAN
  BY DEF IInv
<1>3. st \in States /\ SameBreaker(Now, st) /\ (up /\ Level(Now) => Level(st))
  BY <1>2, ClearedFacts
<1>4. Take(st, up)
  BY <1>1
<1> HIDE DEF st
<1>5. /\ UNCHANGED <<jumps, reliefs, unkept, stale, done, pc>> /\ late' = "none"
      /\ done' \in {"ok", "fallback", "skip"} /\ stale' \in BOOLEAN
      /\ pc' \in {"idle", "gated", "overflow", "forced", "commit", "bookkeep"}
  BY <1>2 DEF LateSuccess, TypeOK
<1>6. pc' = "idle" \/ pc # "idle"
  BY <1>5
<1> QED
  BY <1>3, <1>4, <1>5, <1>6, QuietTakeKeeps

LEMMA LateFailureKeeps ==
    ASSUME IInv, NEW kind \in Failures, LateFailure(kind)
    PROVE  IInv' /\ c'.deadline = c.deadline
<1>1. PICK up \in BOOLEAN : Take(Failed(Now, kind, up), up)
  BY DEF LateFailure
<1> DEFINE st == Failed(Now, kind, up)
<1>2. Now \in States /\ Now.mem = c
  BY NowFacts DEF IInv
<1>3. st \in States /\ SameBreaker(Now, st) /\ (up /\ Level(Now) => Level(st))
  BY <1>2, FailedFacts
<1>4. Take(st, up)
  BY <1>1
<1> HIDE DEF st
<1>5. /\ UNCHANGED <<jumps, reliefs, unkept, stale, done, pc>> /\ late' = "none"
      /\ done' \in {"ok", "fallback", "skip"} /\ stale' \in BOOLEAN
      /\ pc' \in {"idle", "gated", "overflow", "forced", "commit", "bookkeep"}
  BY DEF LateFailure, IInv, TypeOK
<1>6. pc' = "idle" \/ pc # "idle"
  BY <1>5
<1> QED
  BY <1>3, <1>4, <1>5, <1>6, QuietTakeKeeps

LEMMA LateCancelledKeeps ==
    ASSUME IInv, LateCancelled
    PROVE  IInv' /\ c'.deadline = c.deadline
<1>1. late' = "none" /\ UNCHANGED <<c, row, pc, done, since, unkept, stale, failures, jumps, reliefs>>
  BY DEF LateCancelled
<1>2. TypeOK'
  BY <1>1 DEF IInv, TypeOK
<1>3. SameBreaker(Now, Now') /\ (Level(Now) => Level(Now)') /\ (Alone' => Alone)
  BY <1>1 DEF SameBreaker, Now, Level, Alone
<1>4. pc' = "idle" \/ pc # "idle"
  BY <1>1
<1> QED
  BY <1>1, <1>2, <1>3, <1>4, QuietKeeps

\* Steps in the attempt that touch no counter.
LEMMA AttemptKeeps ==
    ASSUME IInv, StructuralNoOp \/ FeasibilitySkip \/ CooldownSkips \/ CallCancelled \/ CommitInPlace
    PROVE  IInv' /\ c'.deadline = c.deadline
<1>1. /\ UNCHANGED <<row, late, since, unkept, stale, failures, jumps, reliefs>>
      /\ pc # "idle" /\ pc # "bookkeep" /\ pc' \in {"idle", "commit", "bookkeep"}
      /\ done' \in {done, "skip", "fallback"}
      /\ c' = c \/ c' = [c EXCEPT !.backoff = Backoff]
  BY DEF StructuralNoOp, FeasibilitySkip, CooldownSkips, CallCancelled, CommitInPlace, InCompress, WithoutSummary
<1>2. Backoff \in 0 .. Backoff
  BY Numbers
<1>3. /\ c' \in Memory /\ c'.strikes = c.strikes /\ c'.streak = c.streak /\ c'.deadline = c.deadline
      /\ c'.verify = c.verify /\ c'.cooldown = c.cooldown
  BY <1>1, <1>2 DEF IInv, TypeOK, Memory
<1>4. TypeOK'
  BY <1>1, <1>3 DEF IInv, TypeOK
<1>5. SameBreaker(Now, Now') /\ (Level(Now) => Level(Now)') /\ (Alone' => Alone)
  BY <1>1, <1>3 DEF SameBreaker, Now, Level, Alone
<1> QED
  BY <1>1, <1>3, <1>4, <1>5, QuietKeeps

LEMMA OthersKeep ==
    ASSUME IInv, SiblingRelieves \/ HygieneDefers
    PROVE  IInv'
<1>1. /\ reliefs' = reliefs + 1 /\ failures + jumps + reliefs < MaxUpsets
      /\ UNCHANGED <<c, pc, done, late, unkept, stale, failures, jumps>>
      /\ since' \in {since, 0}
      /\ row' \in {FreshRow, [row EXCEPT !.cooldown = ShortPause, !.hygiene = TRUE]}
  BY DEF SiblingRelieves, HygieneDefers, MayUpset
<1>2. 0 \in Cooldowns /\ ShortPause \in Cooldowns /\ Unarmed \in Unarmed .. Window + 1 /\ 0 \in 0 .. Window
  BY Numbers DEF Cooldowns, Longer, Unarmed
<1>3. row' \in SessionRow
  <2>1. FreshRow \in SessionRow
    BY <1>2 DEF FreshRow, SessionRow, Cooldowns
  <2>2. [row EXCEPT !.cooldown = ShortPause, !.hygiene = TRUE] \in SessionRow
    BY <1>2 DEF IInv, TypeOK, SessionRow, Cooldowns
  <2> QED
    BY <1>1, <2>1, <2>2
<1>4. failures \in Nat /\ jumps \in Nat /\ reliefs \in Nat
  BY DEF IInv, TypeOK
<1>5. reliefs' \in Nat /\ reliefs' # 0 /\ failures' + jumps' + reliefs' <= MaxUpsets
      /\ failures' \in Nat /\ jumps' \in Nat
  BY <1>1, <1>4, Numbers
<1>6. TypeOK'
  BY <1>1, <1>2, <1>3, <1>5 DEF IInv, TypeOK
<1> QED
  BY <1>5, <1>6 DEF IInv, AloneInv, ProbeInv, Alone

LEMMA TakeIsTyped ==
    ASSUME IInv, NEW st \in States, NEW up \in BOOLEAN, Take(st, up), UNCHANGED <<jumps, reliefs>>,
           pc' \in {"idle", "gated", "overflow", "forced", "commit", "bookkeep"},
           done' \in {"ok", "fallback", "skip"}, late' \in {"none", "working", "clearing"},
           unkept' \in BOOLEAN, stale' \in BOOLEAN
    PROVE  TypeOK'
<1>1. /\ c' \in Memory /\ row' \in SessionRow /\ since' \in 0 .. Window
      /\ {failures, jumps, reliefs}' \subseteq Nat /\ failures' + jumps' + reliefs' <= MaxUpsets
  BY TakeFacts
<1> QED
  BY <1>1 DEF TypeOK

\* Stopping the clock is always sound.
LEMMA StoppedKeeps ==
    ASSUME Alone' => c'.deadline = Unarmed
    PROVE  ProbeInv'
<1>1. Unarmed \notin 0 .. Window
  BY DEF Unarmed
<1> QED
  BY <1>1 DEF ProbeInv

LEMMA RejectKeeps ==
    ASSUME IInv, RejectCompaction
    PROVE  IInv'
<1>1. PICK up \in BOOLEAN : Take(Strike(Now, up), up)
  BY DEF RejectCompaction
<1> DEFINE st == Strike(Now, up)
<1>2. Now \in States /\ Now.mem = c /\ Now.row = row
  BY NowFacts DEF IInv
<1>3. /\ st \in States /\ st.mem.deadline = c.deadline /\ st.mem.streak = c.streak
      /\ st.row.deadline = row.deadline /\ st.row.streak = row.streak
      /\ up /\ Level(Now) => Level(st)
  BY <1>2, StrikeFacts
<1>4. Take(st, up)
  BY <1>1
<1> HIDE DEF st
<1>5. /\ pc = "commit" /\ pc' = "idle" /\ done' = "ok" /\ UNCHANGED <<late, unkept, stale, jumps, reliefs>>
      /\ late' \in {"none", "working", "clearing"} /\ unkept' \in BOOLEAN /\ stale' \in BOOLEAN
  BY DEF RejectCompaction, IInv, TypeOK
<1>6. c' = st.mem /\ row' = st.row /\ (Level(Now)' <=> Level(st)) /\ (Alone' => up /\ Alone)
  BY <1>3, <1>4, <1>5, TakeFacts
<1>7. TypeOK'
  BY <1>3, <1>4, <1>5, TakeIsTyped
<1>8. AloneInv'
  BY <1>3, <1>5, <1>6 DEF IInv, AloneInv, StreakKept
<1>9. CASE ~stale
  <2>1. Alone' => c'.deadline = Unarmed
    BY <1>3, <1>5, <1>6, <1>9 DEF IInv, ProbeInv
  <2> QED
    BY <1>7, <1>8, <2>1, StoppedKeeps DEF IInv
<1>10. CASE stale
  BY <1>5, <1>7, <1>8, <1>10 DEF IInv, ProbeInv
<1> QED
  BY <1>9, <1>10

LEMMA RotateKeeps ==
    ASSUME IInv, Rotate
    PROVE  IInv'
<1>1. PICK up \in BOOLEAN : Take(RotatedOnto(Now, up), up)
  BY DEF Rotate
<1> DEFINE st == RotatedOnto(Now, up)
<1>2. Now \in States
  BY NowFacts DEF IInv
<1>3. st \in States /\ (up => Level(st) /\ st.mem.deadline = Unarmed /\ st.row.streak = 0)
  BY <1>2, RotatedFacts
<1>4. Take(st, up)
  BY <1>1
<1> HIDE DEF st
<1>5. /\ pc' = "bookkeep" /\ UNCHANGED <<done, late, unkept, stale, jumps, reliefs>>
      /\ done' \in {"ok", "fallback", "skip"} /\ late' \in {"none", "working", "clearing"}
      /\ unkept' \in BOOLEAN /\ stale' \in BOOLEAN
  BY DEF Rotate, IInv, TypeOK
<1>6. c' = st.mem /\ row' = st.row /\ (Level(Now)' <=> Level(st)) /\ (Alone' => up /\ Alone)
  BY <1>3, <1>4, <1>5, TakeFacts
<1>7. TypeOK'
  BY <1>3, <1>4, <1>5, TakeIsTyped
<1>8. AloneInv'
  BY <1>3, <1>5, <1>6 DEF AloneInv, StreakKept
<1>9. Alone' => c'.deadline = Unarmed
  BY <1>3, <1>6
<1> QED
  BY <1>7, <1>8, <1>9, StoppedKeeps DEF IInv

LEMMA BookkeepKeeps ==
    ASSUME IInv, RecordCompletedCompaction
    PROVE  IInv' /\ c'.deadline = c.deadline
<1>1. PICK up \in BOOLEAN : Take(Bookkept(Now, up), up)
  BY DEF RecordCompletedCompaction
<1> DEFINE st == Bookkept(Now, up)
<1>2. Now \in States /\ Now.mem = c /\ Now.row = row
  BY NowFacts DEF IInv
<1>3. /\ st \in States /\ st.mem.deadline = c.deadline
      /\ up /\ Level(Now) => Level(st)
      /\ up /\ done # "skip" => st.row.streak = st.mem.streak
      /\ done = "skip" => st.row.streak = row.streak /\ st.mem.streak = c.streak
  BY <1>2, BookkeptFacts
<1>4. Take(st, up)
  BY <1>1
<1> HIDE DEF st
<1>5. /\ pc = "bookkeep" /\ pc' = "idle" /\ done' = "ok" /\ UNCHANGED <<late, stale, jumps, reliefs>>
      /\ unkept' = (unkept \/ (done = "skip" /\ c.streak # row.streak))
  BY DEF RecordCompletedCompaction
<1>6. late' \in {"none", "working", "clearing"} /\ unkept' \in BOOLEAN /\ stale' \in BOOLEAN
  BY <1>5 DEF IInv, TypeOK
<1>7. c' = st.mem /\ row' = st.row /\ (Level(Now)' <=> Level(st)) /\ (Alone' => up /\ Alone)
  BY <1>3, <1>4, <1>5, TakeFacts
<1>8. TypeOK'
  BY <1>3, <1>4, <1>5, <1>6, TakeIsTyped
<1>9. AloneInv'
  BY <1>3, <1>5, <1>7 DEF IInv, AloneInv, StreakKept
<1>10. CASE ~stale
  <2>1. Alone' => c'.deadline = Unarmed
    BY <1>3, <1>5, <1>7, <1>10 DEF IInv, ProbeInv
  <2> QED
    BY <1>3, <1>7, <1>8, <1>9, <2>1, StoppedKeeps DEF IInv
<1>11. CASE stale
  BY <1>3, <1>5, <1>7, <1>8, <1>9, <1>11 DEF IInv, ProbeInv
<1> QED
  BY <1>10, <1>11

\* What a response or a model switch has judged, put back.
LEMMA JudgedKeeps ==
    ASSUME IInv, NEW judged \in States, NEW up \in BOOLEAN,
           Take([judged EXCEPT !.mem.verify = FALSE], up),
           UNCHANGED <<pc, done, late, unkept, stale, jumps, reliefs>>,
           judged.mem.deadline = c.deadline,
           up => \/ judged.mem.streak = judged.row.streak /\ judged.row.streak = 0
                 \/ judged.mem.streak = c.streak /\ judged.row.streak = row.streak,
           up /\ Level(Now) => Level(judged),
           c.verify \/ judged.mem.strikes = c.strikes \/ judged.mem.strikes = 0,
           judged.mem.strikes = 0 \/ judged.row.streak = row.streak,
           pc = "idle"
    PROVE  IInv' /\ c'.deadline = c.deadline
<1> DEFINE st == [judged EXCEPT !.mem.verify = FALSE]
<1>1. /\ st \in States /\ st.row = judged.row /\ st.mem.deadline = c.deadline
      /\ st.mem.strikes = judged.mem.strikes /\ st.mem.streak = judged.mem.streak
      /\ ~st.mem.verify /\ (up /\ Level(Now) => Level(st))
  BY DEF States, Memory, Level
<1>2. Take(st, up)
  OBVIOUS
<1> HIDE DEF st
<1>3. /\ pc' = "idle" /\ done' \in {"ok", "fallback", "skip"} /\ late' \in {"none", "working", "clearing"}
      /\ unkept' \in BOOLEAN /\ stale' \in BOOLEAN /\ stale' = stale /\ unkept' = unkept
  BY DEF IInv, TypeOK
<1>4. /\ c' = st.mem /\ row' = st.row /\ (Level(Now)' <=> Level(st)) /\ (Alone' => up /\ Alone)
      /\ Tripped(row) /\ Tripped(row') => since' = since
  BY <1>1, <1>2, TakeFacts
<1>5. TypeOK'
  BY <1>1, <1>2, <1>3, TakeIsTyped
<1>6. AloneInv'
  BY <1>1, <1>3, <1>4 DEF IInv, AloneInv, StreakKept
<1>7. ASSUME Alone', ~stale, c.deadline \in 0 .. Window, Tripped(row)'
      PROVE  Tripped(row)
  <2>1. up /\ Alone /\ Level(Now) /\ Level(st)
    BY <1>1, <1>4, <1>7 DEF IInv, AloneInv
  <2>2. row.strikes = c.strikes /\ row'.strikes = judged.mem.strikes /\ row'.streak = judged.row.streak
    BY <1>1, <1>4, <2>1, NowFacts DEF Level, IInv
  <2>3. c.deadline # Unarmed
    BY <1>7 DEF Unarmed
  <2>4. c.verify => Tripped(row)
    BY <1>7, <2>1, <2>3 DEF IInv, ProbeInv
  <2>5. row'.streak \in {0, row.streak}
    BY <2>1, <2>2
  <2> QED
    BY <1>4, <1>7, <2>1, <2>2, <2>4, <2>5 DEF Tripped
<1>8. ProbeInv'
  BY <1>1, <1>3, <1>4, <1>7 DEF IInv, ProbeInv
<1> QED
  BY <1>1, <1>4, <1>5, <1>6, <1>8 DEF IInv

LEMMA ResponseKeeps ==
    ASSUME IInv, NEW reading \in Readings, UpdateFromResponse(reading)
    PROVE  IInv' /\ c'.deadline = c.deadline
<1>1. PICK up \in BOOLEAN : Take([VerdictOnResponse(Now, reading, up) EXCEPT !.mem.verify = FALSE], up)
  BY DEF UpdateFromResponse
<1> DEFINE judged == VerdictOnResponse(Now, reading, up)
<1>2. Now \in States /\ Now.mem = c /\ Now.row = row
  BY NowFacts DEF IInv
<1>3. /\ judged \in States /\ judged.mem.deadline = c.deadline
      /\ judged.mem.streak = c.streak /\ judged.row.streak = row.streak
      /\ up /\ Level(Now) => Level(judged)
      /\ c.verify \/ judged.mem.strikes = c.strikes \/ judged.mem.strikes = 0
  BY <1>2, VerdictFacts
<1>4. Take([judged EXCEPT !.mem.verify = FALSE], up)
  BY <1>1
<1> HIDE DEF judged
<1>5. pc = "idle" /\ UNCHANGED <<pc, done, late, unkept, stale, jumps, reliefs>>
  BY DEF UpdateFromResponse
<1> QED
  BY <1>3, <1>4, <1>5, JudgedKeeps

LEMMA SwitchKeeps ==
    ASSUME IInv, NEW changed \in BOOLEAN, UpdateModel(changed)
    PROVE  IInv' /\ c'.deadline = c.deadline
<1>1. Now \in States /\ Now.mem = c /\ Now.row = row
  BY NowFacts DEF IInv
<1>2. PICK up \in BOOLEAN, fenced \in FenceAnswers :
        LET unstruck == RecordVerdict(Now, 0, up)
            unstreaked == PersistStreak(unstruck, 0, up)
            switched == IF ~changed THEN unstruck
                        ELSE IF fenced THEN unstreaked ELSE ClearCooldown(unstreaked, up)
        IN  Take([switched EXCEPT !.mem.verify = FALSE], up)
  BY DEF UpdateModel
<1> DEFINE unstruck == RecordVerdict(Now, 0, up)
           unstreaked == PersistStreak(unstruck, 0, up)
           switched == IF ~changed THEN unstruck
                       ELSE IF fenced THEN unstreaked ELSE ClearCooldown(unstreaked, up)
<1>3. /\ switched \in States /\ switched.mem.deadline = c.deadline /\ switched.mem.strikes = 0
      /\ up => \/ switched.mem.streak = switched.row.streak /\ switched.row.streak = 0
               \/ switched.mem.streak = c.streak /\ switched.row.streak = row.streak
      /\ up /\ Level(Now) => Level(switched)
  <2>1. switched \in {unstruck, unstreaked, ClearCooldown(unstreaked, up)}
    OBVIOUS
  <2>2. \A r \in {unstruck, unstreaked, ClearCooldown(unstreaked, up)} :
          /\ r \in States /\ r.mem.deadline = Now.mem.deadline /\ r.mem.strikes = 0
          /\ up => \/ r.mem.streak = r.row.streak /\ r.row.streak = 0
                   \/ r.mem.streak = Now.mem.streak /\ r.row.streak = Now.row.streak
          /\ up /\ Level(Now) => Level(r)
    BY <1>1, SwitchFacts
  <2> HIDE DEF unstruck, unstreaked, switched
  <2> QED
    BY <1>1, <2>1, <2>2
<1>4. Take([switched EXCEPT !.mem.verify = FALSE], up)
  BY <1>2
<1> HIDE DEF switched
<1>5. pc = "idle" /\ UNCHANGED <<pc, done, late, unkept, stale, jumps, reliefs>>
  BY DEF UpdateModel
<1> QED
  BY <1>3, <1>4, <1>5, JudgedKeeps

LEMMA RebuildKeeps ==
    ASSUME IInv, Rebuild
    PROVE  IInv' /\ (Alone' => c'.deadline = c.deadline)
<1>1. PICK up \in BOOLEAN : Take(BindSessionState([Now EXCEPT !.mem = FreshMemory], up), up)
  BY DEF Rebuild
<1> DEFINE fresh == [Now EXCEPT !.mem = FreshMemory]
           st == BindSessionState(fresh, up)
<1>2. fresh \in States /\ fresh.row = row /\ ~fresh.mem.verify
  <2>1. 0 \in Cooldowns /\ 0 \in 0 .. Backoff /\ 0 \in 0 .. LadderTop /\ Unarmed \in Unarmed .. Window + 1
    BY Numbers DEF Cooldowns, Longer, Unarmed
  <2>2. FreshMemory \in Memory /\ ~FreshMemory.verify
    BY <2>1 DEF FreshMemory, Memory, Cooldowns
  <2>3. Now \in States /\ Now.row = row
    BY NowFacts DEF IInv
  <2> QED
    BY <2>2, <2>3 DEF States
<1> HIDE DEF fresh
<1>3. /\ st \in States /\ st.row = row /\ ~st.mem.verify
      /\ up /\ ~row.hygiene => Level(st) /\ st.mem.streak = row.streak
  BY <1>2, BindFacts
<1>4. Take(st, up)
  BY <1>1 DEF fresh
<1> HIDE DEF st
<1>5. /\ pc' = "idle" /\ done' = "ok" /\ late' = "none" /\ UNCHANGED <<unkept, stale, jumps, reliefs>>
      /\ unkept' \in BOOLEAN /\ stale' \in BOOLEAN
  BY DEF Rebuild, IInv, TypeOK
<1>6. /\ c' = st.mem /\ row' = row /\ (Level(Now)' <=> Level(st)) /\ (Alone' => up /\ Alone)
      /\ Tripped(row) => since' = since
  BY <1>3, <1>4, <1>5, TakeFacts
<1>7. TypeOK'
  BY <1>3, <1>4, <1>5, TakeIsTyped
<1>8. Alone' => /\ Level(Now)' /\ row'.streak = c'.streak
                /\ c'.deadline = c.deadline
  <2>1. Now.mem = c /\ Now.row = row
    BY NowFacts DEF IInv
  <2> QED
    BY <1>3, <1>6, <2>1 DEF IInv, AloneInv, Level
<1>9. AloneInv' /\ ProbeInv'
  BY <1>3, <1>5, <1>6, <1>8 DEF IInv, AloneInv, StreakKept, ProbeInv
<1> QED
  BY <1>7, <1>8, <1>9 DEF IInv

LEMMA LessFacts ==
    ASSUME NEW d \in Int, d >= -1
    PROVE  /\ Less(d) \in Int /\ Less(d) >= -1 /\ Less(d) <= d
           /\ d <= 0 => Less(d) = d
           /\ d > 0 => Less(d) = d - 1
BY DEF Less

LEMMA TickKeeps ==
    ASSUME IInv, Tick
    PROVE  IInv'
<1>1. /\ c' = [c EXCEPT !.deadline = Less(c.deadline), !.cooldown = Less(c.cooldown), !.backoff = Less(c.backoff)]
      /\ row' = [row EXCEPT !.deadline = Less(row.deadline), !.cooldown = Less(row.cooldown)]
      /\ since' = IF Tripped(row) THEN Shorter(since + 1, Window) ELSE 0
      /\ UNCHANGED <<pc, done, late, unkept, stale, failures, jumps, reliefs>>
  BY DEF Tick, RowTripped
<1>2. TypeOK
  BY DEF IInv
<1>3. /\ Less(c.deadline) \in Unarmed .. Window + 1 /\ Less(row.deadline) \in Unarmed .. Window + 1
      /\ Less(c.cooldown) \in Cooldowns /\ Less(row.cooldown) \in Cooldowns
      /\ Less(c.backoff) \in 0 .. Backoff
  BY <1>2, Numbers DEF TypeOK, Memory, SessionRow, Less, Unarmed, Cooldowns, Longer
<1>4. /\ c' \in Memory /\ c'.deadline = Less(c.deadline) /\ c'.cooldown = Less(c.cooldown)
      /\ c'.strikes = c.strikes /\ c'.streak = c.streak /\ c'.verify = c.verify
  BY <1>1, <1>2, <1>3 DEF TypeOK, Memory, Cooldowns
<1>5. /\ row' \in SessionRow /\ row'.deadline = Less(row.deadline) /\ row'.cooldown = Less(row.cooldown)
      /\ row'.strikes = row.strikes /\ row'.streak = row.streak /\ row'.hygiene = row.hygiene
  BY <1>1, <1>2, <1>3 DEF TypeOK, SessionRow, Cooldowns
<1>6. since \in 0 .. Window /\ c.deadline \in Unarmed .. Window + 1
  BY <1>2 DEF TypeOK, Memory
<1>7. since' \in 0 .. Window
  BY <1>1, <1>6, Numbers DEF Shorter
<1>8. TypeOK'
  BY <1>1, <1>2, <1>4, <1>5, <1>7 DEF TypeOK
<1>9. Tripped(row)' <=> Tripped(row)
  BY <1>5 DEF Tripped
<1>10. /\ c.deadline = Unarmed => c'.deadline = Unarmed
       /\ c'.deadline # Unarmed => c.deadline # Unarmed
  BY <1>4, <1>6 DEF Less, Unarmed
<1>11. AloneInv'
  BY <1>1, <1>4, <1>5, <1>10 DEF IInv, AloneInv, Alone, Level, Now, StreakKept
<1>12. ASSUME Tripped(row), c'.deadline \in 0 .. Window,
              c.deadline \in 0 .. Window => since + c.deadline >= Window
       PROVE  since' + c'.deadline >= Window
  <2>1. since' = Shorter(since + 1, Window)
    BY <1>1, <1>12
  <2>2. CASE c.deadline \in 0 .. Window
    BY <1>4, <1>6, <1>12, <2>1, <2>2, Numbers DEF Shorter, Less
  <2>3. CASE c.deadline \notin 0 .. Window
    <3>1. c'.deadline = Window
      BY <1>4, <1>6, <1>12, <2>3, Numbers DEF Less, Unarmed
    <3> DEFINE ticks == since'
    <3>2. ticks \in 0 .. Window
      BY <1>7
    <3> HIDE DEF ticks
    <3>3. ticks + c'.deadline >= Window
      BY <3>1, <3>2, Numbers
    <3> QED
      BY <3>3 DEF ticks
  <2> QED
    BY <2>2, <2>3
<1>13. ProbeInv'
  BY <1>1, <1>4, <1>9, <1>10, <1>12 DEF IInv, ProbeInv, Alone
<1> QED
  BY <1>8, <1>11, <1>13 DEF IInv

LEMMA JumpKeeps ==
    ASSUME IInv, ClockJumpsBack
    PROVE  IInv'
<1>1. /\ c' = [c EXCEPT !.deadline = Later(c.deadline)]
      /\ row' = [row EXCEPT !.deadline = Later(row.deadline)]
      /\ jumps' = jumps + 1 /\ failures + jumps + reliefs < MaxUpsets
      /\ UNCHANGED <<pc, done, late, since, unkept, stale, failures, reliefs>>
  BY DEF ClockJumpsBack, MayUpset
<1>2. TypeOK
  BY DEF IInv
<1>3. Later(c.deadline) \in Unarmed .. Window + 1 /\ Later(row.deadline) \in Unarmed .. Window + 1
  BY <1>2, Numbers DEF TypeOK, Memory, SessionRow, Later, Unarmed, Shorter
<1>4. /\ c' \in Memory /\ c'.deadline = Later(c.deadline) /\ c'.cooldown = c.cooldown
      /\ c'.strikes = c.strikes /\ c'.streak = c.streak /\ c'.verify = c.verify
  BY <1>1, <1>2, <1>3 DEF TypeOK, Memory
<1>5. /\ row' \in SessionRow /\ row'.deadline = Later(row.deadline) /\ row'.cooldown = row.cooldown
      /\ row'.strikes = row.strikes /\ row'.streak = row.streak /\ row'.hygiene = row.hygiene
  BY <1>1, <1>2, <1>3 DEF TypeOK, SessionRow
<1>6. since \in 0 .. Window /\ c.deadline \in Unarmed .. Window + 1
      /\ failures \in Nat /\ jumps \in Nat /\ reliefs \in Nat
  BY <1>2 DEF TypeOK, Memory
<1>7. /\ jumps' \in Nat /\ failures' + jumps' + reliefs' <= MaxUpsets
      /\ {failures, jumps, reliefs}' \subseteq Nat
  BY <1>1, <1>6, Numbers
<1>8. TypeOK'
  BY <1>1, <1>2, <1>4, <1>5, <1>7 DEF TypeOK
<1>9. Tripped(row)' <=> Tripped(row)
  BY <1>5 DEF Tripped
<1>10. /\ c.deadline = Unarmed <=> c'.deadline = Unarmed
       /\ c'.deadline # Unarmed => c'.deadline >= Window
  BY <1>4, <1>6, Numbers DEF Later, Unarmed, Shorter
<1>11. AloneInv'
  BY <1>1, <1>4, <1>5, <1>10 DEF IInv, AloneInv, Alone, Level, Now, StreakKept
<1>12. ASSUME c'.deadline \in 0 .. Window
       PROVE  since' + c'.deadline >= Window
  <2>1. c'.deadline = Window /\ since' = since
    BY <1>1, <1>10, <1>12, Numbers DEF Unarmed
  <2> QED
    BY <1>6, <2>1, Numbers
<1>13. ProbeInv'
  BY <1>1, <1>4, <1>9, <1>10, <1>12 DEF IInv, ProbeInv, Alone
<1> QED
  BY <1>8, <1>11, <1>13 DEF IInv

LEMMA StutterKeeps ==
    ASSUME IInv, UNCHANGED vars
    PROVE  IInv'
BY DEF vars, IInv, TypeOK, AloneInv, ProbeInv, Alone, Level, Now, StreakKept, Tripped

LEMMA NextKeeps ==
    ASSUME IInv, [Next]_vars
    PROVE  IInv'
BY GateKeeps, ForceKeeps, AttemptKeeps, SummaryArrivesKeeps, SummaryFailsKeeps, LateFailureKeeps,
   HostTimesOutKeeps, LateSuccessKeeps, LateCancelledKeeps, RejectKeeps, RotateKeeps, BookkeepKeeps, ResponseKeeps,
   SwitchKeeps, RebuildKeeps, OthersKeep, TickKeeps, JumpKeeps, StutterKeeps DEF Next

-----------------------------------------------------------------------------
(* What a step may do. *)

\* With no other hand in it, a tripped row means a tripped compressor.
LEMMA TrippedFacts ==
    ASSUME IInv, Alone, Tripped(row)
    PROVE  Tripped(c)
BY DEF IInv, AloneInv, StreakKept, Level, Now, Tripped

LEMMA GateDecides ==
    ASSUME IInv, NEW overflow \in BOOLEAN, Gate(overflow)
    PROVE  \E up \in BOOLEAN, v \in [blocked : BOOLEAN, st : States] :
             /\ Decided(Now, overflow, up, v) /\ c' = v.st.mem /\ row' = v.st.row
             /\ pc' = IF v.blocked THEN "idle" ELSE IF overflow THEN "overflow" ELSE "gated"
             /\ failures' = failures => up
             /\ Alone' => up
<1>1. PICK up \in BOOLEAN : \E verdict \in {GateVerdict(Now, overflow, up)} :
          /\ Take(verdict.st, up)
          /\ pc' = IF verdict.blocked THEN "idle" ELSE IF overflow THEN "overflow" ELSE "gated"
  BY DEF Gate
<1> DEFINE v == GateVerdict(Now, overflow, up)
           w == [blocked |-> v.blocked, st |-> v.st]
<1>2. /\ Take(v.st, up)
      /\ pc' = IF v.blocked THEN "idle" ELSE IF overflow THEN "overflow" ELSE "gated"
      /\ UNCHANGED <<jumps, reliefs>>
  BY <1>1 DEF Gate
<1>3. Now \in States
  BY NowFacts DEF IInv
<1>4. Decided(Now, overflow, up, v)
  BY <1>3, GateFacts
<1> HIDE DEF v
<1>5. v.st \in States /\ v.blocked \in BOOLEAN
  BY <1>4 DEF Decided
<1>6. c' = v.st.mem /\ row' = v.st.row /\ (failures' = failures => up) /\ (Alone' => up)
  BY <1>2, <1>5, TakeFacts
<1>7. w \in [blocked : BOOLEAN, st : States] /\ w.blocked = v.blocked /\ w.st = v.st
  BY <1>5
<1> HIDE DEF w
<1>8. Decided(Now, overflow, up, w)
  BY <1>4, <1>7 DEF Decided
<1> QED
  BY <1>2, <1>6, <1>7, <1>8

\* An automatic attempt while the row is tripped: the window is over.
LEMMA ProbeStep ==
    ASSUME IInv, NEW overflow \in BOOLEAN, Gate(overflow), Alone, ~stale,
           pc' \in {"gated", "overflow"}, Tripped(row)
    PROVE  since >= Window
<1>1. PICK up \in BOOLEAN, v \in [blocked : BOOLEAN, st : States] :
        /\ Decided(Now, overflow, up, v)
        /\ pc' = IF v.blocked THEN "idle" ELSE IF overflow THEN "overflow" ELSE "gated"
  BY GateDecides
<1>2. ~v.blocked
  BY <1>1
<1>3. Now.mem = c /\ Now.row = row
  BY NowFacts DEF IInv
<1>4. c.deadline = 0
  BY <1>1, <1>2, <1>3, TrippedFacts DEF Decided
<1>5. since + 0 >= Window /\ since \in Nat
  BY <1>4, Numbers DEF IInv, ProbeInv, TypeOK
<1> QED
  BY <1>5

\* A gate that leaves the breaker tripped leaves a running clock alone.
LEMMA ShrinkGate ==
    ASSUME IInv, NEW overflow \in BOOLEAN, Gate(overflow), Tripped(c'), c.deadline \in 0 .. Window
    PROVE  c'.deadline = c.deadline
<1>1. PICK up \in BOOLEAN, v \in [blocked : BOOLEAN, st : States] :
        Decided(Now, overflow, up, v) /\ c' = v.st.mem
  BY GateDecides
<1>2. Now.mem = c
  BY NowFacts DEF IInv
<1> QED
  BY <1>1, <1>2 DEF Decided

LEMMA ShrinkTick ==
    ASSUME IInv, Tick, c.deadline \in 0 .. Window
    PROVE  c'.deadline \in 0 .. c.deadline
<1>1. c' = [c EXCEPT !.deadline = Less(c.deadline), !.cooldown = Less(c.cooldown), !.backoff = Less(c.backoff)]
  BY DEF Tick
<1>2. c'.deadline = Less(c.deadline)
  BY <1>1 DEF IInv, TypeOK, Memory
<1> QED
  BY <1>2, Numbers DEF Less

LEMMA ShrinkStep ==
    ASSUME IInv, [Next]_vars, Alone, Alone', jumps' = jumps, pc # "commit",
           Tripped(c'), c.deadline \in 0 .. Window
    PROVE  c'.deadline \in 0 .. c.deadline
<1>1. c.deadline \in 0 .. c.deadline
  BY Numbers
<1>2. CASE c'.deadline = c.deadline
  BY <1>1, <1>2
<1>3. CASE Tick
  BY <1>3, ShrinkTick
<1>4. ASSUME NEW overflow \in BOOLEAN, Gate(overflow)
      PROVE  c'.deadline = c.deadline
  BY <1>4, ShrinkGate
<1>5. ~ClockJumpsBack
  <2>1. jumps \in Nat
    BY DEF IInv, TypeOK
  <2> QED
    BY <2>1 DEF ClockJumpsBack
<1>6. ~RejectCompaction /\ ~Rotate
  BY DEF RejectCompaction, Rotate
<1>7. CASE UNCHANGED vars \/ SiblingRelieves \/ HygieneDefers
  BY <1>1, <1>7 DEF vars, SiblingRelieves, HygieneDefers
<1> QED
  BY <1>2, <1>3, <1>4, <1>5, <1>6, <1>7, ForceKeeps, AttemptKeeps, SummaryArrivesKeeps, SummaryFailsKeeps,
     LateFailureKeeps, HostTimesOutKeeps, LateSuccessKeeps, LateCancelledKeeps, BookkeepKeeps, ResponseKeeps, SwitchKeeps,
     RebuildKeeps DEF Next

-----------------------------------------------------------------------------
(* The theorems. *)

\* In every reachable state all parts of the invariant hold.
THEOREM InvariantHolds == Spec => []IInv
<1>1. Init => IInv
  BY InitIsGood
<1>2. IInv /\ [Next]_vars => IInv'
  BY NextKeeps
<1> QED
  BY <1>1, <1>2, PTL DEF Spec

\* DurableBreaker: at any moment what bind_session_state would load is what the
\* compressor goes by, but for a streak that only memory holds: one that a rotation
\* carried and record_completed_compaction has still to save, or a feasibility skip
\* left unsaved.
THEOREM DurableBreakerHolds == Spec => []DurableBreaker
<1>1. IInv => DurableBreaker
  BY NowFacts DEF IInv, AloneInv, StreakKept, Level, DurableBreaker, StreakAtRisk
<1> QED
  BY <1>1, InvariantHolds, PTL

\* RecoveryWindow: one automatic attempt for each window of a tripped breaker
\* (_automatic_compression_blocked_locally), and a window that comes to its end.
THEOREM RecoveryWindowHolds == Spec => RecoveryWindow
<1>1. IInv /\ [Next]_vars =>
        (Alone /\ ~stale /\ pc = "idle" /\ pc' \in {"gated", "overflow"} /\ RowTripped => since >= Window)
  <2> SUFFICES ASSUME IInv, [Next]_vars, Alone, ~stale, pc = "idle", pc' \in {"gated", "overflow"}, Tripped(row)
               PROVE  since >= Window
    BY DEF RowTripped
  <2>1. \E overflow \in BOOLEAN : Gate(overflow)
    BY DEF Next, vars, ForceCompress, StructuralNoOp, FeasibilitySkip, CooldownSkips, SummaryArrives,
           SummaryFails, CallCancelled, LateFailure, HostTimesOut, LateSuccess, LateCancelled, RejectCompaction, CommitInPlace, Rotate,
           RecordCompletedCompaction, UpdateFromResponse, UpdateModel, Rebuild, SiblingRelieves,
           HygieneDefers, Tick, ClockJumpsBack, InCompress, MayCall, WithoutSummary
  <2> QED
    BY <2>1, ProbeStep
<1>2. IInv /\ [Next]_vars =>
        (Alone /\ Alone' /\ jumps' = jumps /\ ~unkept /\ pc # "commit"
         /\ Tripped(c) /\ Tripped(c') /\ c.deadline \in 0 .. Window
           => c'.deadline \in 0 .. c.deadline)
  BY ShrinkStep
<1>3. Spec => OneProbePerWindow
  BY <1>1, InvariantHolds, PTL DEF Spec, OneProbePerWindow
<1>4. Spec => WindowOnlyShrinks
  BY <1>2, InvariantHolds, PTL DEF Spec, WindowOnlyShrinks
<1> QED
  BY <1>3, <1>4 DEF RecoveryWindow

\* NoCallInCooldown: no attempt asks the summary model while the row of the session
\* holds a failure cooldown (the second look of _generate_summary), overflows excepted.
THEOREM NoCallInCooldownHolds == Spec => NoCallInCooldown
<1>1. IInv => (Alone /\ pc \in {"gated", "forced"} /\ CallsModel => row.cooldown = 0)
  <2> SUFFICES ASSUME IInv, Alone, pc \in {"gated", "forced"}, CallsModel
               PROVE  row.cooldown = 0
    OBVIOUS
  <2>1. MayCall
    BY DEF CallsModel, SummaryArrives, HostTimesOut, SummaryFails
  <2>2. c.cooldown = 0
    BY <2>1 DEF MayCall
  <2>3. row.cooldown = c.cooldown
    BY NowFacts DEF IInv, AloneInv, Level
  <2> QED
    BY <2>2, <2>3
<1> QED
  BY <1>1, InvariantHolds, PTL DEF NoCallInCooldown

\* RowHeeded: the gate believes the row (_refresh_durable_guards), except over a
\* cooldown that the row never got.
THEOREM RowIsHeeded == Spec => RowHeeded
<1>1. IInv /\ [Next]_vars =>
        (Gate(FALSE) /\ c.unsaved /\ row.cooldown = 0 => c'.cooldown = c.cooldown)
  <2> SUFFICES ASSUME IInv, Gate(FALSE), c.unsaved, row.cooldown = 0
               PROVE  c'.cooldown = c.cooldown
    OBVIOUS
  <2>1. PICK up \in BOOLEAN, v \in [blocked : BOOLEAN, st : States] :
          Decided(Now, FALSE, up, v) /\ c' = v.st.mem
    BY GateDecides
  <2> QED
    BY <2>1, NowFacts DEF Decided, IInv
<1>2. IInv /\ [Next]_vars =>
        (Gate(FALSE) /\ failures' = failures /\ pc' = "idle" /\ c'.cooldown = 0 /\ c'.backoff = 0
           => Tripped(row'))
  <2> SUFFICES ASSUME IInv, Gate(FALSE), failures' = failures, pc' = "idle", c'.cooldown = 0, c'.backoff = 0
               PROVE  Tripped(row')
    OBVIOUS
  <2>1. PICK up \in BOOLEAN, v \in [blocked : BOOLEAN, st : States] :
          /\ Decided(Now, FALSE, up, v) /\ c' = v.st.mem /\ row' = v.st.row
          /\ pc' = IF v.blocked THEN "idle" ELSE IF FALSE THEN "overflow" ELSE "gated"
          /\ failures' = failures => up
    BY GateDecides
  <2>2. v.blocked /\ up
    BY <2>1
  <2> QED
    BY <2>1, <2>2 DEF Decided, Tripped
<1>3. Spec => UnsavedCooldownKept
  BY <1>1, InvariantHolds, PTL DEF Spec, UnsavedCooldownKept
<1>4. Spec => RowRelieves
  BY <1>2, InvariantHolds, PTL DEF Spec, RowRelieves
<1> QED
  BY <1>3, <1>4 DEF RowHeeded
=============================================================================
