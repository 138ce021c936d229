--------------------------- MODULE CuratorProofs ---------------------------
(***************************************************************************)
(* Proofs about Curator, for any number of reviewers, skills, faults and   *)
(* reviews, and any intervals.                                             *)
(***************************************************************************)
EXTENDS Curator, FiniteSetTheorems, SequenceTheorems, WellFoundedInduction, TLAPS

-----------------------------------------------------------------------------
(* The inductive invariant. *)

States == [last : Time \cup {Never}, paused : BOOLEAN]

\* A pause to count on is in every copy of the state file that is to be written.
PauseInv ==
    wish = "paused" /\ StateFileWorks =>
        st.paused /\ \A r \in Reviewers : pc[r] = "closing" => copy[r].paused

\* The state file knows of the latest review that was recorded.
SpacedInv == StateFileWorks /\ ~tangled /\ reviewed # Never => reviewed <= st.last

\* What the clock may archive.
Earned(s) ==
    /\ lib[s].persisted /\ ~lib[s].pinned
    /\ clock - lib[s].touched >= ArchiveAfter
    /\ ~lib[s].used => clock - lib[s].touched >= StaleAfter
    /\ "cronRead" \notin faults => s \notin job

\* A survey stays true of the skills that nobody touched since.
PlanInv ==
    \A r \in Reviewers :
        /\ pc[r] # "transitions" => DOMAIN plan[r] = {}
        /\ \A s \in DOMAIN plan[r] :
              plan[r][s] = "archive" /\ s \in Listed /\ s \notin touchedUp[r] => Earned(s)

IsDelete(r, i) == calls[r][i].verb = "delete"

\* A fork lists what is there before it calls, and deletes a skill once.
ForkInv ==
    /\ deleted \cap Listed = {}
    /\ \A r \in Reviewers :
          /\ pc[r] # "fork" => calls[r] = <<>>
          /\ pc[r] = "fork" /\ "listing" \notin faults => Listed \subseteq before[r]
          /\ \A i \in DOMAIN calls[r] : IsDelete(r, i) =>
                /\ calls[r][i].on \in deleted
                /\ "listing" \notin faults => calls[r][i].on \in before[r]
          /\ \A i, j \in DOMAIN calls[r] :
                IsDelete(r, i) /\ IsDelete(r, j) /\ calls[r][i].on = calls[r][j].on => i = j

\* A job's deleted skill is one that a fork under way will repair.
JobsInv ==
    \A s \in job \ Listed :
        s \in deleted /\ ReportWorks /\ "crash" \notin faults =>
            \E r \in Reviewers : pc[r] = "fork" /\ s \in before[r]

IInv == TypeOK /\ PauseInv /\ SpacedInv /\ PlanInv /\ ForkInv /\ JobsInv

-----------------------------------------------------------------------------
(* Faults and bounds. *)

LEMMA PairIsFinite ==
    ASSUME NEW x, NEW y
    PROVE  IsFiniteSet({x, y})
<1>1. {x, y} = {x} \cup {y}
  OBVIOUS
<1>2. IsFiniteSet({x}) /\ IsFiniteSet({y})
  BY FS_Singleton
<1>3. IsFiniteSet({x} \cup {y})
  BY <1>2, FS_Union
<1> QED
  BY <1>1, <1>3

LEMMA FaultsAreFinite ==
    ASSUME TypeOK
    PROVE  Cardinality(faults) \in Nat
<1> DEFINE files == {"stateRead", "stateSave"} \cup {"cronRead", "cronWrite"}
           stores == {"listing", "raise"} \cup {"archive", "fork"}
           ends == {"reportDir", "crash"}
<1>1. IsFiniteSet(files) /\ IsFiniteSet(stores) /\ IsFiniteSet(ends)
  BY PairIsFinite, FS_Union
<1>2. faults \subseteq (files \cup stores) \cup ends
  BY CuratorAssumption DEF TypeOK, FaultKinds
<1> HIDE DEF files, stores, ends
<1>3. IsFiniteSet((files \cup stores) \cup ends)
  BY <1>1, FS_Union
<1> QED
  BY <1>2, <1>3, FS_Subset, FS_CardinalityType

LEMMA UserMovesFacts ==
    ASSUME TypeOK, UserMoves
    PROVE  moves' \in 0 .. MaxUpsets
BY FaultsAreFinite, CuratorAssumption DEF TypeOK, UserMoves

LEMMA BreaksFacts ==
    ASSUME TypeOK, NEW kinds, Breaks(kinds)
    PROVE  faults' = faults \cup kinds /\ faults' \subseteq Breakable
BY DEF TypeOK, Breaks

\* save_state leaves the old file or the new one.
LEMMA SaveFacts ==
    ASSUME TypeOK, NEW data, NEW unread, Save(data, unread)
    PROVE  /\ faults \subseteq faults' /\ unread \subseteq faults' /\ faults' \subseteq Breakable
           /\ st' = data \/ (st' = st /\ "stateSave" \in faults')
<1>1. PICK saved \in BOOLEAN : /\ Breaks(unread \cup Unless(saved, "stateSave"))
                              /\ st' = IF saved THEN data ELSE st
  BY DEF Save
<1>2. /\ faults' = faults \cup (unread \cup Unless(saved, "stateSave"))
      /\ faults' \subseteq Breakable
  BY <1>1, BreaksFacts
<1>3. ~saved => "stateSave" \in Unless(saved, "stateSave")
  BY DEF Unless
<1> QED
  BY <1>1, <1>2, <1>3

\* load_state: the file, or a blank one and the fault.
LEMMA ReadingFacts ==
    ASSUME TypeOK, NEW readable \in BOOLEAN
    PROVE  /\ Reading(readable) \in States
           /\ Reading(readable) = st \/ "stateRead" \in Unless(readable, "stateRead")
BY DEF TypeOK, Reading, Blank, Unless, States

-----------------------------------------------------------------------------
(* Steps. *)

LEMMA Constants ==
    /\ Interval \in Nat /\ StaleAfter \in Nat /\ ArchiveAfter \in Nat
    /\ MaxTime \in Nat /\ MaxReviews \in Nat /\ MaxUpsets \in Nat
    /\ Time \subseteq Nat
BY CuratorAssumption DEF Time

LEMMA InitIsGood ==
    ASSUME Init
    PROVE  IInv
<1>c. Epoch \in Time /\ MaxReviews \in Nat /\ MaxUpsets \in Nat
  BY CuratorAssumption
<1>1. TypeOK
  <2>1. <<>> \in Seq(WriteCalls \cup DeleteCalls) /\ DOMAIN <<>> = {}
    BY EmptySeq
  <2>2. clock \in Time /\ st \in States /\ reviewed = Never /\ start \in [Reviewers -> Time]
    BY <1>c, CuratorAssumption DEF Init, Blank, States, Time
  <2>3. lib \in [Skills -> Records] /\ job \in SUBSET Skills
    BY CuratorAssumption DEF Init
  <2>4. mode \in [Reviewers -> Modes] /\ copy \in [Reviewers -> States] /\ pc \in [Reviewers -> Pcs]
    BY DEF Init, Preview, Modes, Blank, States, Pcs
  <2>5. /\ DOMAIN plan = Reviewers /\ \A r \in Reviewers : DOMAIN plan[r] = {}
        /\ calls \in [Reviewers -> Seq(WriteCalls \cup DeleteCalls)]
    BY <2>1 DEF Init
  <2>6. /\ reviews \in 0 .. MaxReviews /\ moves \in 0 .. MaxUpsets /\ faults \subseteq Breakable
    BY <1>c DEF Init
  <2>8. wish \in {"free", "unsure", "paused"} /\ tangled \in BOOLEAN /\ deleted \subseteq Skills
    BY DEF Init
  <2>7. before \in [Reviewers -> SUBSET Skills] /\ touchedUp \in [Reviewers -> SUBSET Skills]
    BY DEF Init
  <2> QED
    BY <2>2, <2>3, <2>4, <2>5, <2>6, <2>7, <2>8 DEF TypeOK, States
<1>2. PauseInv /\ SpacedInv
  BY DEF Init, PauseInv, SpacedInv
<1>3. PlanInv
  BY EmptySeq DEF Init, PlanInv
<1>4. ForkInv
  BY EmptySeq DEF Init, ForkInv
<1>5. JobsInv
  BY DEF Init, JobsInv
<1> QED
  BY <1>1, <1>2, <1>3, <1>4, <1>5 DEF IInv

LEMMA WaitKeeps ==
    ASSUME IInv, Wait
    PROVE  IInv'
<1>1. clock' \in Time /\ clock' = clock + 1 /\ clock \in Nat
  BY Constants DEF IInv, TypeOK, Wait, Time
<1>2. TypeOK'
  BY <1>1 DEF IInv, TypeOK, Wait, reviewVars, bounds, ghosts
<1>3. PauseInv' /\ SpacedInv'
  BY DEF IInv, PauseInv, SpacedInv, StateFileWorks, Wait, reviewVars, bounds, ghosts
<1>4. PlanInv'
  <2>1. \A s \in Skills : lib[s].touched \in Nat
    BY Constants DEF IInv, TypeOK, Records
  <2>2. \A s \in Skills : Earned(s) => Earned(s)'
    BY <1>1, <2>1, Constants DEF Earned, Wait, bounds
  <2> QED
    BY <2>2 DEF IInv, TypeOK, PlanInv, Listed, Wait, reviewVars, bounds, ghosts
<1>5. ForkInv' /\ JobsInv'
  BY DEF IInv, ForkInv, JobsInv, IsDelete, Listed, ReportWorks, Wait, reviewVars, bounds, ghosts
<1> QED
  BY <1>2, <1>3, <1>4, <1>5 DEF IInv

LEMMA SetPausedKeeps ==
    ASSUME IInv, NEW paused \in BOOLEAN, SetPaused(paused)
    PROVE  IInv'
<1>1. PICK readable \in BOOLEAN :
        Save([Reading(readable) EXCEPT !.paused = paused], Unless(readable, "stateRead"))
  BY DEF SetPaused
<1>2. /\ faults \subseteq faults' /\ faults' \subseteq Breakable
      /\ \/ st' = st /\ "stateSave" \in faults'
         \/ "stateRead" \in faults' /\ st' \in States
         \/ st' = [st EXCEPT !.paused = paused]
  BY <1>1, SaveFacts, ReadingFacts DEF IInv, States
<1>3. st' \in States
  BY <1>2 DEF IInv, TypeOK, States
<1>4. moves' \in 0 .. MaxUpsets /\ UNCHANGED <<world, pc, reviewVars, reviews, reviewed, tangled, touchedUp, deleted>>
  BY UserMovesFacts DEF IInv, SetPaused
<1>5. TypeOK'
  BY <1>2, <1>3, <1>4 DEF IInv, TypeOK, States, SetPaused, world, reviewVars
<1>6. PauseInv'
  <2>1. CASE paused
    BY <1>2, <1>4, <2>1 DEF IInv, TypeOK, PauseInv, StateFileWorks, SetPaused, reviewVars
  <2>2. CASE ~paused
    BY <2>2 DEF SetPaused, PauseInv
  <2> QED
    BY <2>1, <2>2
<1>7. SpacedInv'
  BY <1>2, <1>4 DEF IInv, TypeOK, SpacedInv, StateFileWorks
<1>8. PlanInv'
  BY <1>2, <1>4 DEF IInv, TypeOK, PlanInv, Earned, Listed, world, reviewVars
<1>9. ForkInv'
  BY <1>2, <1>4 DEF IInv, ForkInv, IsDelete, Listed, world, reviewVars
<1>10. JobsInv'
  BY <1>2, <1>4 DEF IInv, JobsInv, ReportWorks, Listed, world, reviewVars
<1> QED
  BY <1>5, <1>6, <1>7, <1>8, <1>9, <1>10 DEF IInv

\* The user changes the record of one skill, and every survey knows it.
LEMMA UserTouchKeeps ==
    ASSUME IInv, NEW s \in Listed, Moved(s), lib' \in [Skills -> Records],
           lib'[s].state = lib[s].state, \A t \in Skills : t # s => lib'[t] = lib[t],
           UNCHANGED <<clock, job, st, pc, reviewVars, reviews, faults, reviewed, wish, tangled, deleted>>
    PROVE  IInv'
<1>1. moves' \in 0 .. MaxUpsets /\ s \in Skills
  BY UserMovesFacts DEF IInv, Moved, Listed
<1>2. /\ touchedUp' \in [Reviewers -> SUBSET Skills]
      /\ \A r \in Reviewers : touchedUp[r] \subseteq touchedUp'[r]
      /\ \A r \in Reviewers : pc[r] = "transitions" => s \in touchedUp'[r]
  BY <1>1 DEF IInv, TypeOK, Moved, Meddled
<1>3. Listed' = Listed
  BY DEF Listed
<1>4. TypeOK'
  BY <1>1, <1>2 DEF IInv, TypeOK, reviewVars
<1>5. PauseInv' /\ SpacedInv'
  BY DEF IInv, PauseInv, SpacedInv, StateFileWorks, reviewVars
<1>6. PlanInv'
  <2>1. \A t \in Skills : t # s => (Earned(t) => Earned(t)')
    BY DEF Earned
  <2> QED
    BY <1>2, <1>3, <2>1 DEF IInv, TypeOK, PlanInv, reviewVars
<1>7. ForkInv'
  BY <1>3 DEF IInv, ForkInv, IsDelete, reviewVars
<1>8. JobsInv'
  BY <1>3 DEF IInv, JobsInv, ReportWorks, reviewVars
<1> QED
  BY <1>4, <1>5, <1>6, <1>7, <1>8 DEF IInv

LEMMA UseSkillKeeps ==
    ASSUME IInv, NEW s \in Skills, UseSkill(s)
    PROVE  IInv'
<1>1. /\ lib' \in [Skills -> Records] /\ lib'[s].state = lib[s].state
      /\ \A t \in Skills : t # s => lib'[t] = lib[t]
  <2>1. lib \in [Skills -> Records] /\ lib[s] \in Records /\ clock \in Time
    BY DEF IInv, TypeOK
  <2>2. lib' = [lib EXCEPT ![s] = [[[lib[s] EXCEPT !.touched = clock] EXCEPT !.used = TRUE] EXCEPT !.persisted = TRUE]]
    BY <2>1 DEF UseSkill
  <2>3. [[[lib[s] EXCEPT !.touched = clock] EXCEPT !.used = TRUE] EXCEPT !.persisted = TRUE] \in Records
    BY <2>1 DEF Records
  <2>4. [[[lib[s] EXCEPT !.touched = clock] EXCEPT !.used = TRUE] EXCEPT !.persisted = TRUE].state = lib[s].state
    BY <2>1 DEF Records
  <2> QED
    BY <2>1, <2>2, <2>3, <2>4
<1> QED
  BY <1>1, UserTouchKeeps DEF UseSkill

LEMMA PinSkillKeeps ==
    ASSUME IInv, NEW s \in Skills, PinSkill(s)
    PROVE  IInv'
<1>1. /\ lib' \in [Skills -> Records] /\ lib'[s].state = lib[s].state
      /\ \A t \in Skills : t # s => lib'[t] = lib[t]
  <2>1. lib \in [Skills -> Records] /\ lib[s] \in Records /\ clock \in Time
    BY DEF IInv, TypeOK
  <2>2. lib' = [lib EXCEPT ![s] = [[lib[s] EXCEPT !.pinned = TRUE] EXCEPT !.persisted = TRUE]]
    BY <2>1 DEF PinSkill
  <2>3. [[lib[s] EXCEPT !.pinned = TRUE] EXCEPT !.persisted = TRUE] \in Records
    BY <2>1 DEF Records
  <2>4. [[lib[s] EXCEPT !.pinned = TRUE] EXCEPT !.persisted = TRUE].state = lib[s].state
    BY <2>1 DEF Records
  <2> QED
    BY <2>1, <2>2, <2>3, <2>4
<1> QED
  BY <1>1, UserTouchKeeps DEF PinSkill

LEMMA ListInJobKeeps ==
    ASSUME IInv, NEW s \in Skills, ListInJob(s)
    PROVE  IInv'
<1>1. moves' \in 0 .. MaxUpsets /\ s \in Listed
  BY UserMovesFacts DEF IInv, Moved, ListInJob
<1>2. /\ touchedUp' \in [Reviewers -> SUBSET Skills]
      /\ \A r \in Reviewers : touchedUp[r] \subseteq touchedUp'[r]
      /\ \A r \in Reviewers : pc[r] = "transitions" => s \in touchedUp'[r]
  BY DEF IInv, TypeOK, Moved, Meddled, ListInJob
<1>3. UNCHANGED <<clock, lib, st, pc, reviewVars, reviews, faults, reviewed, wish, tangled, deleted>>
  BY DEF ListInJob
<1>4. TypeOK'
  BY <1>1, <1>2 DEF IInv, TypeOK, reviewVars, ListInJob
<1>5. PauseInv' /\ SpacedInv'
  BY <1>3 DEF IInv, PauseInv, SpacedInv, StateFileWorks, reviewVars
<1>6. PlanInv'
  <2>1. \A t \in Skills : t # s => (Earned(t) => Earned(t)')
    BY <1>3 DEF Earned, ListInJob
  <2> QED
    BY <1>2, <1>3, <2>1 DEF IInv, TypeOK, PlanInv, Listed, reviewVars
<1>7. ForkInv'
  BY <1>3 DEF IInv, ForkInv, IsDelete, Listed, reviewVars
<1>8. JobsInv'
  BY <1>1, <1>3 DEF IInv, JobsInv, Listed, ReportWorks, reviewVars, ListInJob
<1> QED
  BY <1>4, <1>5, <1>6, <1>7, <1>8 DEF IInv

\* The reviewer is free: nothing of its review is left.
LEMMA RestFacts ==
    ASSUME TypeOK, NEW r \in Reviewers, Rest(r)
    PROVE  /\ pc' \in [Reviewers -> Pcs] /\ mode' \in [Reviewers -> Modes]
           /\ start' \in [Reviewers -> Time] /\ copy' \in [Reviewers -> States]
           /\ before' \in [Reviewers -> SUBSET Skills] /\ touchedUp' \in [Reviewers -> SUBSET Skills]
           /\ calls' \in [Reviewers -> Seq(WriteCalls \cup DeleteCalls)] /\ DOMAIN plan' = Reviewers
           /\ pc'[r] = "idle" /\ DOMAIN plan'[r] = {} /\ calls'[r] = <<>>
           /\ \A q \in Reviewers : q # r =>
                 /\ pc'[q] = pc[q] /\ plan'[q] = plan[q] /\ copy'[q] = copy[q]
                 /\ before'[q] = before[q] /\ calls'[q] = calls[q] /\ touchedUp'[q] = touchedUp[q]
<1>1. <<>> \in Seq(WriteCalls \cup DeleteCalls) /\ DOMAIN <<>> = {} /\ 0 \in Time
  BY EmptySeq, CuratorAssumption DEF Time
<1>2. Preview \in Modes /\ Blank \in States /\ "idle" \in Pcs
  BY DEF Preview, Modes, Blank, States, Pcs
<1>3. /\ pc' \in [Reviewers -> Pcs] /\ mode' \in [Reviewers -> Modes]
      /\ start' \in [Reviewers -> Time] /\ copy' \in [Reviewers -> States]
      /\ before' \in [Reviewers -> SUBSET Skills] /\ touchedUp' \in [Reviewers -> SUBSET Skills]
      /\ calls' \in [Reviewers -> Seq(WriteCalls \cup DeleteCalls)] /\ DOMAIN plan' = Reviewers
  BY <1>1, <1>2 DEF TypeOK, Rest, Goes, States
<1>4. plan'[r] = <<>> /\ pc'[r] = "idle" /\ calls'[r] = <<>>
  BY DEF TypeOK, Rest, Goes
<1>5. \A q \in Reviewers : q # r =>
         /\ pc'[q] = pc[q] /\ plan'[q] = plan[q] /\ copy'[q] = copy[q]
         /\ before'[q] = before[q] /\ calls'[q] = calls[q] /\ touchedUp'[q] = touchedUp[q]
  BY DEF TypeOK, Rest, Goes
<1> QED
  BY <1>1, <1>3, <1>4, <1>5

\* The end of a review: a fork under way is left by a crash only.
LEMMA RestKeeps ==
    ASSUME IInv, NEW r \in Reviewers, Rest(r),
           faults \subseteq faults', faults' \subseteq Breakable,
           pc[r] # "fork" \/ "crash" \in faults',
           st' \in States, tangled' \in BOOLEAN, tangled => tangled',
           wish = "paused" /\ StateFileWorks' => st'.paused,
           StateFileWorks' /\ ~tangled' /\ reviewed # Never => reviewed <= st'.last,
           UNCHANGED <<world, reviews, moves, reviewed, wish, deleted>>
    PROVE  IInv'
<1>1. /\ pc' \in [Reviewers -> Pcs] /\ mode' \in [Reviewers -> Modes]
      /\ start' \in [Reviewers -> Time] /\ copy' \in [Reviewers -> States]
      /\ before' \in [Reviewers -> SUBSET Skills] /\ touchedUp' \in [Reviewers -> SUBSET Skills]
      /\ calls' \in [Reviewers -> Seq(WriteCalls \cup DeleteCalls)] /\ DOMAIN plan' = Reviewers
  BY RestFacts DEF IInv
<1>2. pc'[r] = "idle" /\ DOMAIN plan'[r] = {} /\ calls'[r] = <<>>
  BY RestFacts DEF IInv
<1>3. \A q \in Reviewers : q # r =>
         /\ pc'[q] = pc[q] /\ plan'[q] = plan[q] /\ copy'[q] = copy[q]
         /\ before'[q] = before[q] /\ calls'[q] = calls[q] /\ touchedUp'[q] = touchedUp[q]
  BY RestFacts DEF IInv
<1>4. TypeOK'
  <2>1. \A q \in Reviewers : /\ DOMAIN plan'[q] \subseteq Skills
                             /\ \A s \in DOMAIN plan'[q] : plan'[q][s] \in Treatments
    BY <1>2, <1>3 DEF IInv, TypeOK
  <2> QED
    BY <1>1, <2>1 DEF IInv, TypeOK, States, world
<1>5. PauseInv'
  <2>1. StateFileWorks' => StateFileWorks
    BY DEF StateFileWorks
  <2> QED
    BY <1>2, <1>3, <2>1 DEF IInv, PauseInv
<1>6. SpacedInv'
  BY DEF SpacedInv
<1>7. PlanInv'
  BY <1>2, <1>3 DEF IInv, PlanInv, Earned, Listed, world
<1>8. ForkInv'
  <2>1. DOMAIN calls'[r] = {}
    BY <1>2, EmptySeq
  <2> QED
    BY <1>2, <1>3, <2>1 DEF IInv, ForkInv, IsDelete, Listed, world
<1>9. JobsInv'
  BY <1>2, <1>3 DEF IInv, JobsInv, ReportWorks, Listed, world
<1> QED
  BY <1>4, <1>5, <1>6, <1>7, <1>8, <1>9 DEF IInv

LEMMA TransitionsRaiseKeeps ==
    ASSUME IInv, NEW r \in Reviewers, TransitionsRaise(r)
    PROVE  IInv'
<1>1. faults \subseteq faults' /\ faults' \subseteq Breakable
  BY BreaksFacts DEF IInv, TransitionsRaise, Fault
<1>2. /\ st' \in States /\ tangled' \in BOOLEAN /\ tangled' = tangled /\ st' = st
      /\ UNCHANGED <<world, reviews, moves, reviewed, wish, deleted>>
  BY DEF IInv, TypeOK, States, TransitionsRaise
<1>3. StateFileWorks' => StateFileWorks
  BY <1>1 DEF StateFileWorks
<1>4. /\ wish = "paused" /\ StateFileWorks' => st'.paused
      /\ StateFileWorks' /\ ~tangled' /\ reviewed # Never => reviewed <= st'.last
  BY <1>2, <1>3 DEF IInv, PauseInv, SpacedInv
<1> QED
  BY <1>1, <1>2, <1>4, RestKeeps DEF TransitionsRaise

LEMMA CrashKeeps ==
    ASSUME IInv, NEW r \in Reviewers, Crash(r)
    PROVE  IInv'
<1>1. faults \subseteq faults' /\ faults' \subseteq Breakable /\ "crash" \in faults'
  BY BreaksFacts DEF IInv, Crash, Fault
<1>2. /\ st' \in States /\ tangled' \in BOOLEAN /\ tangled' = tangled /\ st' = st
      /\ UNCHANGED <<world, reviews, moves, reviewed, wish, deleted>>
  BY DEF IInv, TypeOK, States, Crash
<1>3. StateFileWorks' => StateFileWorks
  BY <1>1 DEF StateFileWorks
<1>4. /\ wish = "paused" /\ StateFileWorks' => st'.paused
      /\ StateFileWorks' /\ ~tangled' /\ reviewed # Never => reviewed <= st'.last
  BY <1>2, <1>3 DEF IInv, PauseInv, SpacedInv
<1> QED
  BY <1>1, <1>2, <1>4, RestKeeps DEF Crash

LEMMA FinishSaveKeeps ==
    ASSUME IInv, NEW r \in Reviewers, FinishSave(r)
    PROVE  IInv'
<1>1. /\ faults \subseteq faults' /\ faults' \subseteq Breakable
      /\ st' = copy[r] \/ (st' = st /\ "stateSave" \in faults')
  BY SaveFacts DEF IInv, FinishSave
<1>2. /\ st' \in States /\ tangled' \in BOOLEAN /\ (tangled => tangled') /\ (st # copy[r] => tangled')
      /\ pc[r] = "closing"
      /\ UNCHANGED <<world, reviews, moves, reviewed, wish, deleted>>
  BY <1>1 DEF IInv, TypeOK, States, FinishSave
<1>3. StateFileWorks' => StateFileWorks /\ st' = copy[r]
  BY <1>1 DEF StateFileWorks
<1>4. /\ wish = "paused" /\ StateFileWorks' => st'.paused
      /\ StateFileWorks' /\ ~tangled' /\ reviewed # Never => reviewed <= st'.last
  BY <1>2, <1>3 DEF IInv, PauseInv, SpacedInv
<1> QED
  BY <1>1, <1>2, <1>4, RestKeeps DEF FinishSave

\* What a transition leaves of the record: all of it, but for a skill without one.
LEMMA TreatedFacts ==
    ASSUME TypeOK, NEW s \in Skills, NEW k \in Treatments
    PROVE  /\ Treated(s, k) \in Records
           /\ k = "archive" => Treated(s, k).state = "archived"
           /\ k # "archive" /\ lib[s].state # "archived" => Treated(s, k).state # "archived"
           /\ lib[s].persisted =>
                 /\ Treated(s, k).persisted = lib[s].persisted /\ Treated(s, k).pinned = lib[s].pinned
                 /\ Treated(s, k).touched = lib[s].touched /\ Treated(s, k).used = lib[s].used
<1>1. lib[s] \in Records /\ clock \in Time
  BY DEF TypeOK
<1>2. CASE k = "seed"
  BY <1>1, <1>2 DEF Treated, Records
<1>3. CASE k = "archive"
  BY <1>1, <1>3 DEF Treated, Records
<1>4. CASE k = "stale"
  BY <1>1, <1>4 DEF Treated, Records
<1>5. CASE k = "reactivate"
  BY <1>1, <1>5 DEF Treated, Records
<1> QED
  BY <1>2, <1>3, <1>4, <1>5 DEF Treatments

LEMMA TransitionKeeps ==
    ASSUME IInv, NEW r \in Reviewers, Transition(r)
    PROVE  IInv'
<1>1. PICK s \in DOMAIN plan[r] :
        /\ \/ /\ lib' = IF s \in Listed THEN [lib EXCEPT ![s] = Treated(s, plan[r][s])] ELSE lib
              /\ UNCHANGED faults
           \/ plan[r][s] = "archive" /\ Fault("archive") /\ UNCHANGED lib
        /\ plan' = [plan EXCEPT ![r] = [o \in DOMAIN @ \ {s} |-> @[o]]]
  BY DEF Transition
<1>2. s \in Skills /\ plan[r][s] \in Treatments
  BY <1>1 DEF IInv, TypeOK
<1>3. /\ pc[r] = "transitions"
      /\ UNCHANGED <<clock, job, st, pc, mode, start, copy, before, calls, reviews, moves, ghosts>>
  BY DEF Transition
<1>4. faults \subseteq faults' /\ faults' \subseteq Breakable
  BY <1>1, BreaksFacts DEF IInv, TypeOK, Fault
<1>5. /\ lib' \in [Skills -> Records]
      /\ \A t \in Skills : t # s => lib'[t] = lib[t]
      /\ s \notin Listed => lib'[s] = lib[s]
      /\ lib[s].persisted =>
            /\ lib'[s].persisted = lib[s].persisted /\ lib'[s].pinned = lib[s].pinned
            /\ lib'[s].touched = lib[s].touched /\ lib'[s].used = lib[s].used
  <2>1. PICK k \in Treatments : k = plan[r][s]
    BY <1>2
  <2> DEFINE new == Treated(s, k)
  <2>2. /\ new \in Records
        /\ lib[s].persisted =>
              /\ new.persisted = lib[s].persisted /\ new.pinned = lib[s].pinned
              /\ new.touched = lib[s].touched /\ new.used = lib[s].used
    BY <1>2, TreatedFacts DEF IInv
  <2>3. lib' = lib \/ (s \in Listed /\ lib' = [lib EXCEPT ![s] = new])
    BY <1>1, <2>1
  <2> HIDE DEF new
  <2>4. lib \in [Skills -> Records]
    BY DEF IInv, TypeOK
  <2> QED
    BY <1>2, <2>2, <2>3, <2>4
<1>6. Listed' \subseteq Listed
  BY <1>2, <1>5 DEF Listed
<1>7. /\ DOMAIN plan' = Reviewers
      /\ \A q \in Reviewers : q # r => plan'[q] = plan[q]
      /\ DOMAIN plan'[r] = DOMAIN plan[r] \ {s}
      /\ \A t \in DOMAIN plan'[r] : plan'[r][t] = plan[r][t]
  BY <1>1 DEF IInv, TypeOK
<1>8. TypeOK'
  <2>1. \A q \in Reviewers : /\ DOMAIN plan'[q] \subseteq Skills
                             /\ \A t \in DOMAIN plan'[q] : plan'[q][t] \in Treatments
    BY <1>7 DEF IInv, TypeOK
  <2> QED
    BY <1>3, <1>4, <1>5, <1>7, <2>1 DEF IInv, TypeOK, ghosts
<1>9. PauseInv' /\ SpacedInv'
  BY <1>3, <1>4 DEF IInv, PauseInv, SpacedInv, StateFileWorks, ghosts
<1>10. PlanInv'
  <2>1. \A t \in Skills : Earned(t) => Earned(t)'
    BY <1>2, <1>3, <1>4, <1>5 DEF Earned
  <2>2. \A q \in Reviewers : \A t \in DOMAIN plan'[q] :
          t \in DOMAIN plan[q] /\ t \in Skills /\ plan'[q][t] = plan[q][t]
    BY <1>7 DEF IInv, TypeOK
  <2>3. \A q \in Reviewers : pc[q] # "transitions" => DOMAIN plan'[q] = {}
    BY <1>3, <1>7 DEF IInv, PlanInv
  <2> QED
    BY <1>3, <1>6, <2>1, <2>2, <2>3 DEF IInv, PlanInv, ghosts
<1>11. ForkInv'
  BY <1>3, <1>4, <1>6 DEF IInv, ForkInv, IsDelete, ghosts
<1>12. JobsInv'
  BY <1>3, <1>4, <1>6 DEF IInv, TypeOK, ForkInv, JobsInv, ReportWorks, ghosts
<1> QED
  BY <1>8, <1>9, <1>10, <1>11, <1>12 DEF IInv

\* run_curator_review up to its first change: what it surveys is earned now.
LEMMA BeginKeeps ==
    ASSUME IInv, NEW r \in Reviewers, NEW m \in Modes, NEW unread, Begin(r, m, unread), pc[r] = "idle",
           UNCHANGED <<world, st, copy, before, calls, moves, ghosts>>
    PROVE  IInv'
<1>1. PICK protected \in IF m.dry THEN {job} ELSE {job, {}} :
        /\ Breaks(unread \cup Unless(protected = job, "cronRead"))
        /\ plan' = [plan EXCEPT ![r] = IF m.dry THEN <<>> ELSE Survey(protected)]
  BY DEF Begin
<1>2. /\ faults \subseteq faults' /\ faults' \subseteq Breakable
      /\ protected = job \/ "cronRead" \in faults'
  BY <1>1, BreaksFacts DEF IInv, Unless
<1>3. /\ reviews' \in 0 .. MaxReviews /\ mode' \in [Reviewers -> Modes]
      /\ start' \in [Reviewers -> Time] /\ pc' \in [Reviewers -> Pcs]
      /\ pc' = [pc EXCEPT ![r] = "transitions"]
  BY Constants DEF IInv, TypeOK, Begin, Goes, Pcs
<1>4. pc'[r] = "transitions" /\ \A q \in Reviewers : q # r => pc'[q] = pc[q]
  BY <1>3 DEF IInv, TypeOK
<1>5. \A s \in DOMAIN Survey(protected) :
        /\ s \in Skills /\ s \in Listed \ protected /\ ~lib[s].pinned
        /\ Survey(protected)[s] = Verdict(lib[s], clock) /\ Verdict(lib[s], clock) # "keep"
  BY DEF Survey, Listed
<1>6. \A s \in DOMAIN plan'[r] :
        /\ s \in Skills /\ s \in Listed \ protected /\ ~lib[s].pinned
        /\ plan'[r][s] = Verdict(lib[s], clock) /\ Verdict(lib[s], clock) # "keep"
  <2>1. plan'[r] = <<>> \/ plan'[r] = Survey(protected)
    BY <1>1 DEF IInv, TypeOK
  <2>2. DOMAIN <<>> = {}
    BY EmptySeq
  <2> QED
    BY <1>5, <2>1, <2>2
<1>7. DOMAIN plan' = Reviewers /\ \A q \in Reviewers : q # r => plan'[q] = plan[q]
  BY <1>1 DEF IInv, TypeOK
<1>8. TypeOK'
  <2>1. \A s \in Skills : Verdict(lib[s], clock) \in Treatments \cup {"keep"}
    BY DEF Verdict, Treatments
  <2>2. \A q \in Reviewers : /\ DOMAIN plan'[q] \subseteq Skills
                             /\ \A t \in DOMAIN plan'[q] : plan'[q][t] \in Treatments
    <3>1. \A t \in DOMAIN plan'[r] : t \in Skills /\ plan'[r][t] \in Treatments
      BY <1>6, <2>1
    <3> QED
      BY <1>7, <3>1 DEF IInv, TypeOK
  <2> QED
    BY <1>2, <1>3, <1>7, <2>2 DEF IInv, TypeOK, world, ghosts
<1>9. PauseInv' /\ SpacedInv'
  BY <1>2, <1>4 DEF IInv, PauseInv, SpacedInv, StateFileWorks, ghosts
<1>10. PlanInv'
  <2>1. \A s \in Skills : Earned(s) => Earned(s)'
    BY <1>2 DEF Earned, world
  <2>2. ASSUME NEW s \in DOMAIN plan'[r], plan'[r][s] = "archive"
        PROVE  Earned(s)'
    <3>1. /\ s \in Skills /\ s \notin protected /\ ~lib[s].pinned
          /\ Verdict(lib[s], clock) = "archive"
      BY <1>6, <2>2
    <3>2. lib[s].touched \in Int /\ clock \in Int /\ ArchiveAfter \in Int /\ StaleAfter \in Int
      <4>1. lib[s].touched \in Time /\ clock \in Time
        BY <3>1 DEF IInv, TypeOK, Records
      <4> QED
        BY <4>1, Constants
    <3>3. /\ lib[s].persisted /\ lib[s].touched <= clock - ArchiveAfter
          /\ lib[s].used \/ lib[s].touched <= clock - StaleAfter
      BY <3>1 DEF Verdict
    <3> QED
      BY <1>2, <3>1, <3>2, <3>3 DEF Earned, world
  <2> QED
    BY <1>4, <1>7, <2>1, <2>2 DEF IInv, TypeOK, PlanInv, Listed, world, ghosts
<1>11. ForkInv'
  BY <1>2, <1>4 DEF IInv, ForkInv, IsDelete, Listed, world, ghosts
<1>12. JobsInv'
  BY <1>2, <1>4 DEF IInv, JobsInv, Listed, ReportWorks, world, ghosts
<1> QED
  BY <1>8, <1>9, <1>10, <1>11, <1>12 DEF IInv

LEMMA AskReviewKeeps ==
    ASSUME IInv, NEW r \in Reviewers, AskReview(r)
    PROVE  IInv'
<1>1. PICK m \in Modes : Begin(r, m, {})
  BY DEF AskReview, ModesOf
<1> QED
  BY <1>1, BeginKeeps DEF AskReview

LEMMA TickKeeps ==
    ASSUME IInv, NEW r \in Reviewers, Tick(r)
    PROVE  IInv'
<1>1. PICK first \in BOOLEAN, second \in BOOLEAN :
        LET data == Reading(second)
            unread == Unless(first /\ second, "stateRead")
        IN  \/ /\ data.last = Never
               /\ Save([data EXCEPT !.last = clock], unread)
               /\ UNCHANGED <<reviews, mode, start, plan, pc>>
            \/ /\ \E m \in Modes : Begin(r, m, unread)
               /\ UNCHANGED st
  BY DEF Tick, ModesOf
<1>2. pc[r] = "idle" /\ UNCHANGED <<world, copy, before, calls, moves, ghosts>>
  BY DEF Tick
<1> DEFINE unread == Unless(first /\ second, "stateRead")
<1>3. CASE (\E m \in Modes : Begin(r, m, unread)) /\ UNCHANGED st
  BY <1>2, <1>3, BeginKeeps
<1>4. CASE /\ Reading(second).last = Never
           /\ Save([Reading(second) EXCEPT !.last = clock], unread)
           /\ UNCHANGED <<reviews, mode, start, plan, pc>>
  <2>1. /\ faults \subseteq faults' /\ faults' \subseteq Breakable /\ unread \subseteq faults'
        /\ st' = [Reading(second) EXCEPT !.last = clock] \/ (st' = st /\ "stateSave" \in faults')
    BY <1>4, SaveFacts DEF IInv
  <2>2. Reading(second) \in States /\ (Reading(second) = st \/ "stateRead" \in faults')
    BY <2>1, ReadingFacts DEF IInv, Unless
  <2>3. st' \in States
    BY <2>1, <2>2 DEF IInv, TypeOK, States
  <2>4. StateFileWorks' => StateFileWorks /\ st.last = Never /\ st'.paused = st.paused
    BY <1>4, <2>1, <2>2 DEF StateFileWorks, States
  <2>5. TypeOK'
    BY <1>2, <1>4, <2>1, <2>3 DEF IInv, TypeOK, States, world, ghosts
  <2>6. PauseInv'
    BY <1>2, <1>4, <2>4 DEF IInv, PauseInv, ghosts
  <2>7. SpacedInv'
    <3>1. reviewed # Never => reviewed \in Nat /\ ~(reviewed <= Never)
      BY Constants DEF IInv, TypeOK, Never
    <3> QED
      BY <1>2, <2>4, <3>1 DEF IInv, SpacedInv, ghosts
  <2>8. PlanInv'
    BY <1>2, <1>4, <2>1 DEF IInv, PlanInv, Earned, Listed, world, ghosts
  <2>9. ForkInv'
    BY <1>2, <1>4, <2>1 DEF IInv, ForkInv, IsDelete, Listed, world, ghosts
  <2>10. JobsInv'
    BY <1>2, <1>4, <2>1 DEF IInv, JobsInv, Listed, ReportWorks, world, ghosts
  <2> QED
    BY <2>5, <2>6, <2>7, <2>8, <2>9, <2>10 DEF IInv
<1> QED
  BY <1>1, <1>3, <1>4

\* The record before the fork.
LEMMA RecordRunKeeps ==
    ASSUME IInv, NEW r \in Reviewers, RecordRun(r)
    PROVE  IInv'
<1>1. PICK readable \in BOOLEAN, listed \in BOOLEAN :
        LET state == Recorded(r, Reading(readable))
        IN  /\ Save(state, Unless(readable, "stateRead") \cup Unless(listed, "listing"))
            /\ copy' = [copy EXCEPT ![r] = state]
            /\ before' = [before EXCEPT ![r] = IF listed THEN Listed ELSE {}]
  BY DEF RecordRun
<1>2. /\ pc[r] = "transitions" /\ DOMAIN plan[r] = {}
      /\ pc' = [pc EXCEPT ![r] = "fork"]
      /\ reviewed' = IF mode[r].dry \/ reviewed > start[r] THEN reviewed ELSE start[r]
      /\ tangled' = (tangled \/ (~mode[r].dry /\ reviewed > start[r]))
      /\ UNCHANGED <<world, mode, start, plan, calls, reviews, moves, wish, touchedUp, deleted>>
  BY DEF RecordRun, Goes
<1> DEFINE state == Recorded(r, Reading(readable))
<1>3. /\ faults \subseteq faults' /\ faults' \subseteq Breakable
      /\ Unless(readable, "stateRead") \subseteq faults' /\ Unless(listed, "listing") \subseteq faults'
      /\ st' = state \/ (st' = st /\ "stateSave" \in faults')
  BY <1>1, SaveFacts DEF IInv
<1>4. Reading(readable) \in States /\ (Reading(readable) = st \/ "stateRead" \in faults')
  BY <1>3, ReadingFacts DEF IInv
<1>5. /\ state \in States /\ state.paused = Reading(readable).paused
      /\ state.last = IF mode[r].dry THEN Reading(readable).last ELSE start[r]
  BY <1>4 DEF IInv, TypeOK, States, Recorded
<1> HIDE DEF state
<1>6. StateFileWorks' =>
        /\ StateFileWorks /\ st' = state /\ state.paused = st.paused
        /\ state.last = IF mode[r].dry THEN st.last ELSE start[r]
  BY <1>3, <1>4, <1>5 DEF StateFileWorks
<1>7. /\ pc'[r] = "fork" /\ \A q \in Reviewers : q # r => pc'[q] = pc[q] /\ before'[q] = before[q]
      /\ "listing" \notin faults' => before'[r] = Listed
  BY <1>1, <1>2, <1>3 DEF IInv, TypeOK, Unless
<1>8. copy' \in [Reviewers -> States] /\ \A q \in Reviewers : q # r => copy'[q] = copy[q]
  BY <1>1, <1>5 DEF IInv, TypeOK, States, state
<1>9. /\ start[r] \in Time /\ reviewed \in Time \cup {Never} /\ reviewed' \in Time \cup {Never}
      /\ tangled' \in BOOLEAN /\ (tangled => tangled')
  BY <1>2 DEF IInv, TypeOK
<1>10. TypeOK'
  <2>1. st' \in States /\ pc' \in [Reviewers -> Pcs] /\ before' \in [Reviewers -> SUBSET Skills]
    BY <1>1, <1>2, <1>3, <1>5 DEF IInv, TypeOK, States, Pcs, Listed
  <2> QED
    BY <1>2, <1>3, <1>8, <1>9, <2>1 DEF IInv, TypeOK, States, world
<1>11. PauseInv'
  BY <1>2, <1>6, <1>7, <1>8 DEF IInv, PauseInv
<1>12. SpacedInv'
  <2>1. SUFFICES ASSUME StateFileWorks', ~tangled', reviewed' # Never
                 PROVE  reviewed' <= st'.last
    BY DEF SpacedInv
  <2>2. StateFileWorks /\ ~tangled /\ st'.last = (IF mode[r].dry THEN st.last ELSE start[r])
    BY <1>6, <1>9, <2>1
  <2>3. CASE mode[r].dry
    BY <1>2, <2>1, <2>2, <2>3 DEF IInv, SpacedInv
  <2>4. CASE ~mode[r].dry
    <3>1. reviewed' = start[r] /\ start[r] \in Nat
      BY <1>2, <1>9, <2>1, <2>4, Constants
    <3> QED
      BY <2>2, <2>4, <3>1
  <2> QED
    BY <2>3, <2>4
<1>13. PlanInv'
  BY <1>2, <1>3, <1>7 DEF IInv, PlanInv, Earned, Listed, world
<1>14. ForkInv'
  <2>1. DOMAIN calls[r] = {}
    BY <1>2, EmptySeq DEF IInv, ForkInv
  <2> QED
    BY <1>2, <1>3, <1>7, <2>1 DEF IInv, ForkInv, IsDelete, Listed, world
<1>15. JobsInv'
  BY <1>2, <1>3, <1>7 DEF IInv, JobsInv, Listed, ReportWorks, world
<1> QED
  BY <1>10, <1>11, <1>12, <1>13, <1>14, <1>15 DEF IInv

-----------------------------------------------------------------------------
(* The fork and the report. *)

LEMMA MinIsIn ==
    ASSUME NEW S, S \subseteq Nat, S # {}
    PROVE  Min(S) \in S
<1>1. PICK x \in S : \A y \in S : ~(<<y, x>> \in OpToRel(<, Nat))
  BY WFMin, NatLessThanWellFounded
<1>2. \A y \in S : x <= y
  <2> TAKE y \in S
  <2>1. x \in Nat /\ y \in Nat
    OBVIOUS
  <2>2. ~(y < x)
    <3>1. <<y, x>> \in Nat \X Nat /\ <<y, x>>[1] = y /\ <<y, x>>[2] = x
      BY <2>1
    <3>2. y < x => <<y, x>> \in {ss \in Nat \X Nat : ss[1] < ss[2]}
      BY <3>1
    <3> QED
      BY <1>1, <3>2 DEF OpToRel
  <2> QED
    BY <2>1, <2>2
<1> QED
  BY <1>2 DEF Min

\* The audit of the calls names a skill that is there, or none.
LEMMA HeuristicFacts ==
    ASSUME NEW s, NEW c \in Seq(WriteCalls \cup DeleteCalls), NEW after
    PROVE  Heuristic(s, c, after) \in after \cup {Silent}
<1> DEFINE found == {i \in DOMAIN c : Evidence(c[i], s, after)}
<1>1. found \subseteq Nat
  BY LenProperties
<1>2. CASE found = {}
  BY <1>2 DEF Heuristic
<1>3. CASE found # {}
  <2>1. Min(found) \in found
    BY <1>1, <1>3, MinIsIn
  <2>2. c[Min(found)].on \in after
    BY <2>1 DEF Evidence
  <2> QED
    BY <1>3, <2>2 DEF Heuristic
<1> QED
  BY <1>2, <1>3

LEMMA ReconcileFacts ==
    ASSUME NEW s, NEW c \in Seq(WriteCalls \cup DeleteCalls), NEW claim, NEW after
    PROVE  Reconcile(s, c, claim, after) \in after \cup {Dropped}
BY HeuristicFacts DEF Reconcile

\* A repaired job loses what is gone, and gains only what is there.
LEMMA RewriteFacts ==
    ASSUME NEW j, NEW b \in SUBSET Skills, NEW after \in SUBSET Skills,
           NEW c \in Seq(WriteCalls \cup DeleteCalls), NEW claims
    PROVE  LET new == RewriteCronRefs(j, DiffAndClassify(b, after, c, claims))
           IN  /\ new \subseteq j \cup after
               /\ (b \ after) \cap new = {}
               /\ j \ (b \ after) \subseteq new
<1> DEFINE went == DiffAndClassify(b, after, c, claims)
<1>1. /\ DOMAIN went = b \ after
      /\ \A s \in b \ after : went[s] = Reconcile(s, c, claims[s], after)
  BY DEF DiffAndClassify
<1> HIDE DEF went
<1>2. \A s \in b \ after : went[s] \in after \cup {Dropped}
  BY <1>1, ReconcileFacts
<1>3. Dropped \notin Skills
  BY SkillAssumption
<1>4. RewriteCronRefs(j, went) = (j \ (b \ after)) \cup ({went[s] : s \in j \cap (b \ after)} \ {Dropped})
  BY <1>1 DEF RewriteCronRefs
<1>5. {went[s] : s \in j \cap (b \ after)} \ {Dropped} \subseteq after
  BY <1>2
<1> QED
  BY <1>3, <1>4, <1>5 DEF went

LEMMA ForkCallKeeps ==
    ASSUME IInv, NEW r \in Reviewers, ForkCall(r)
    PROVE  IInv'
<1>1. /\ pc[r] = "fork" /\ calls[r] \in Seq(WriteCalls \cup DeleteCalls)
      /\ UNCHANGED <<clock, job, st, pc, mode, start, plan, copy, before, bounds,
                     reviewed, wish, tangled, touchedUp>>
  BY DEF ForkCall, IInv, TypeOK
<1>2. PICK call \in WriteCalls \cup DeleteCalls :
        /\ calls' = [calls EXCEPT ![r] = Append(@, call)]
        /\ \/ call.verb = "write" /\ UNCHANGED <<lib, deleted>>
           \/ /\ call.verb = "delete" /\ call.on \in Listed
              /\ lib' = [lib EXCEPT ![call.on].state = "archived"]
              /\ deleted' = deleted \cup {call.on}
  <2>1. CASE \E s \in Listed, about \in Skills, clipped \in BOOLEAN :
               /\ calls' = [calls EXCEPT ![r] = Append(@, Write(s, about, clipped))]
               /\ UNCHANGED <<lib, deleted>>
    <3>1. PICK s \in Listed, about \in Skills, clipped \in BOOLEAN :
            /\ calls' = [calls EXCEPT ![r] = Append(@, Write(s, about, clipped))]
            /\ UNCHANGED <<lib, deleted>>
      BY <2>1
    <3>2. Write(s, about, clipped) \in WriteCalls
      BY DEF WriteCalls, Listed
    <3>3. Write(s, about, clipped).verb = "write"
      BY DEF Write
    <3> QED
      BY <3>1, <3>2, <3>3
  <2>2. CASE \E s \in Listed, into \in Targets :
               /\ lib' = [lib EXCEPT ![s].state = "archived"]
               /\ calls' = [calls EXCEPT ![r] = Append(@, Delete(s, into))]
               /\ deleted' = deleted \cup {s}
    <3>1. PICK s \in Listed, into \in Targets :
            /\ lib' = [lib EXCEPT ![s].state = "archived"]
            /\ calls' = [calls EXCEPT ![r] = Append(@, Delete(s, into))]
            /\ deleted' = deleted \cup {s}
      BY <2>2
    <3>2. Delete(s, into) \in DeleteCalls
      BY DEF DeleteCalls, Listed
    <3>3. Delete(s, into).verb = "delete" /\ Delete(s, into).on = s
      BY DEF Delete
    <3> QED
      BY <3>1, <3>2, <3>3
  <2> QED
    BY <2>1, <2>2 DEF ForkCall
<1>3. /\ lib' \in [Skills -> Records] /\ Listed' \subseteq Listed
      /\ deleted \subseteq deleted' /\ deleted' \subseteq Skills /\ deleted' \cap Listed' = {}
      /\ deleted' \subseteq deleted \cup Listed
  <2>1. lib \in [Skills -> Records] /\ deleted \subseteq Skills /\ deleted \cap Listed = {}
    BY DEF IInv, TypeOK, ForkInv
  <2>2. CASE UNCHANGED <<lib, deleted>>
    BY <2>1, <2>2 DEF Listed
  <2>3. CASE /\ call.on \in Listed /\ lib' = [lib EXCEPT ![call.on].state = "archived"]
             /\ deleted' = deleted \cup {call.on}
    BY <2>1, <2>3 DEF Listed, Records
  <2> QED
    BY <1>2, <2>2, <2>3
<1>4. /\ calls' \in [Reviewers -> Seq(WriteCalls \cup DeleteCalls)]
      /\ \A q \in Reviewers : q # r => calls'[q] = calls[q]
      /\ calls'[r] = Append(calls[r], call)
  BY <1>1, <1>2, AppendProperties DEF IInv, TypeOK
<1>5. /\ DOMAIN calls[r] = 1 .. Len(calls[r]) /\ Len(calls[r]) \in Nat
      /\ DOMAIN calls'[r] = 1 .. Len(calls[r]) + 1
      /\ \A i \in 1 .. Len(calls[r]) : calls'[r][i] = calls[r][i]
      /\ calls'[r][Len(calls[r]) + 1] = call
  BY <1>1, <1>4, AppendProperties, LenProperties
<1>6. TypeOK'
  BY <1>1, <1>3, <1>4 DEF IInv, TypeOK, bounds
<1>7. PauseInv' /\ SpacedInv'
  BY <1>1 DEF IInv, PauseInv, SpacedInv, StateFileWorks, bounds
<1>8. PlanInv'
  <2>1. \A s \in Listed' : lib'[s] = lib[s]
    BY <1>2 DEF IInv, TypeOK, Listed, Records
  <2>2. \A s \in Listed' : Earned(s) => Earned(s)'
    BY <1>1, <2>1 DEF Earned, bounds
  <2> QED
    BY <1>1, <1>3, <2>2 DEF IInv, PlanInv
<1>9. ForkInv'
  <2>1. ASSUME NEW i \in DOMAIN calls'[r], calls'[r][i].verb = "delete"
        PROVE  /\ calls'[r][i].on \in deleted'
               /\ "listing" \notin faults => calls'[r][i].on \in before[r]
    <3>1. CASE i \in DOMAIN calls[r]
      BY <1>3, <1>5, <2>1, <3>1 DEF IInv, ForkInv, IsDelete
    <3>2. CASE i = Len(calls[r]) + 1
      BY <1>1, <1>2, <1>5, <2>1, <3>2 DEF IInv, ForkInv
    <3> QED
      BY <1>5, <3>1, <3>2
  <2>2. ASSUME NEW i \in DOMAIN calls'[r], NEW j \in DOMAIN calls'[r],
               calls'[r][i].verb = "delete", calls'[r][j].verb = "delete",
               calls'[r][i].on = calls'[r][j].on
        PROVE  i = j
    <3>1. \A k \in DOMAIN calls[r] : calls[r][k].verb = "delete" => calls[r][k].on \notin Listed
      BY DEF IInv, ForkInv, IsDelete
    <3>2. \A k \in DOMAIN calls'[r] : k \in DOMAIN calls[r] \/ k = Len(calls[r]) + 1
      BY <1>5
    <3>3. call.verb = "delete" => call.on \in Listed
      BY <1>2
    <3>4. CASE i \in DOMAIN calls[r] /\ j \in DOMAIN calls[r]
      BY <1>5, <2>2, <3>4 DEF IInv, ForkInv, IsDelete
    <3>5. CASE i \in DOMAIN calls[r] /\ j = Len(calls[r]) + 1
      BY <1>5, <2>2, <3>1, <3>3, <3>5
    <3>6. CASE i = Len(calls[r]) + 1 /\ j \in DOMAIN calls[r]
      BY <1>5, <2>2, <3>1, <3>3, <3>6
    <3> QED
      BY <3>2, <3>4, <3>5, <3>6
  <2>3. \A q \in Reviewers : pc'[q] # "fork" => calls'[q] = <<>>
    BY <1>1, <1>4 DEF IInv, ForkInv
  <2>4. ASSUME NEW q \in Reviewers, q # r
        PROVE  /\ \A i \in DOMAIN calls'[q] : calls'[q][i].verb = "delete" =>
                     /\ calls'[q][i].on \in deleted'
                     /\ "listing" \notin faults => calls'[q][i].on \in before[q]
               /\ \A i, j \in DOMAIN calls'[q] :
                     calls'[q][i].verb = "delete" /\ calls'[q][j].verb = "delete"
                     /\ calls'[q][i].on = calls'[q][j].on => i = j
    <3>1. calls'[q] = calls[q]
      BY <1>4, <2>4
    <3> QED
      BY <1>3, <3>1 DEF IInv, ForkInv, IsDelete
  <2>5. \A q \in Reviewers : pc[q] = "fork" /\ "listing" \notin faults => Listed' \subseteq before[q]
    BY <1>3 DEF IInv, ForkInv
  <2> QED
    BY <1>1, <1>3, <2>1, <2>2, <2>3, <2>4, <2>5 DEF ForkInv, IsDelete, bounds
<1>10. JobsInv'
  <2>1. \A s \in job \ Listed' : s \in deleted' => s \in Listed \/ (s \notin Listed /\ s \in deleted)
    BY <1>3
  <2>2. ReportWorks => "listing" \notin faults
    BY DEF ReportWorks
  <2> QED
    BY <1>1, <2>1, <2>2 DEF IInv, ForkInv, JobsInv, ReportWorks, bounds
<1> QED
  BY <1>6, <1>7, <1>8, <1>9, <1>10 DEF IInv

\* What a report does to the job, whatever fails.
LEMMA ReportFacts ==
    ASSUME IInv, NEW r \in Reviewers, WriteRunReport(r)
    PROVE  /\ faults \subseteq faults' /\ faults' \subseteq Breakable
           /\ job' \subseteq job \cup Listed
           /\ ReportWorks' => (before[r] \ Listed) \cap job' = {} /\ job \cap Listed \subseteq job'
           /\ copy' \in [Reviewers -> States] /\ \A q \in Reviewers : q # r => copy'[q] = copy[q]
           /\ StateFileWorks' => copy'[r] = st
           /\ ReportWorks' /\ "fork" \notin faults' =>
                 \E claims : job' = RewriteCronRefs(job, DiffAndClassify(before[r], Listed, calls[r], claims))
<1>1. PICK readable \in BOOLEAN, listed \in BOOLEAN, returned \in {TRUE, ~mode[r].consolidate},
           repair \in {"done", "reportDir", "cronWrite"} :
        LET after == IF listed THEN Listed ELSE {}
        IN  /\ Breaks(Unless(readable, "stateRead") \cup Unless(returned, "fork")
                      \cup Unless(listed, "listing") \cup Unless(repair = "done", repair))
            /\ copy' = [copy EXCEPT ![r] = IF readable THEN StateAtEnd(r) ELSE Blank]
            /\ \E claims \in Claims(r, returned, before[r] \ after) :
                 job' = IF repair = "done"
                        THEN RewriteCronRefs(job, DiffAndClassify(before[r], after, Heard(r, returned), claims))
                        ELSE job
  BY DEF WriteRunReport
<1>2. /\ faults \subseteq faults' /\ faults' \subseteq Breakable
      /\ Unless(readable, "stateRead") \subseteq faults' /\ Unless(listed, "listing") \subseteq faults'
      /\ Unless(repair = "done", repair) \subseteq faults' /\ Unless(returned, "fork") \subseteq faults'
  BY <1>1, BreaksFacts DEF IInv
<1> DEFINE after == IF listed THEN Listed ELSE {}
<1>3. ReportWorks' => listed /\ repair = "done"
  <2>1. ~listed => "listing" \in Unless(listed, "listing")
    BY DEF Unless
  <2>2. repair # "done" => repair \in Unless(repair = "done", repair)
    BY DEF Unless
  <2> QED
    BY <1>2, <2>1, <2>2 DEF ReportWorks
<1>4. /\ before[r] \in SUBSET Skills /\ after \in SUBSET Skills
      /\ Heard(r, returned) \in Seq(WriteCalls \cup DeleteCalls)
  <2>1. <<>> \in Seq(WriteCalls \cup DeleteCalls)
    BY EmptySeq
  <2> QED
    BY <2>1 DEF IInv, TypeOK, Listed, Heard
<1>5. PICK claims \in Claims(r, returned, before[r] \ after) :
        job' = IF repair = "done"
               THEN RewriteCronRefs(job, DiffAndClassify(before[r], after, Heard(r, returned), claims))
               ELSE job
  BY <1>1
<1> HIDE DEF after
<1>6. \/ job' = job /\ repair # "done"
      \/ /\ job' \subseteq job \cup after
         /\ (before[r] \ after) \cap job' = {}
         /\ job \ (before[r] \ after) \subseteq job'
  BY <1>4, <1>5, RewriteFacts
<1>7. after \subseteq Listed /\ (listed => after = Listed)
  BY DEF after
<1>8. /\ job' \subseteq job \cup Listed
      /\ ReportWorks' => (before[r] \ Listed) \cap job' = {} /\ job \cap Listed \subseteq job'
  BY <1>3, <1>6, <1>7
<1>9. /\ copy' \in [Reviewers -> States] /\ \A q \in Reviewers : q # r => copy'[q] = copy[q]
      /\ copy'[r] = IF readable THEN st ELSE Blank
  BY <1>1 DEF IInv, TypeOK, States, StateAtEnd, Blank
<1>10. StateFileWorks' => copy'[r] = st
  BY <1>2, <1>9 DEF StateFileWorks, Unless
<1>11. "fork" \notin faults' => Heard(r, returned) = calls[r]
  BY <1>2 DEF Unless, Heard
<1>12. ReportWorks' /\ "fork" \notin faults' =>
         \E cs : job' = RewriteCronRefs(job, DiffAndClassify(before[r], Listed, calls[r], cs))
  BY <1>3, <1>5, <1>7, <1>11
<1> QED
  BY <1>2, <1>8, <1>9, <1>10, <1>12

LEMMA WriteRunReportKeeps ==
    ASSUME IInv, NEW r \in Reviewers, WriteRunReport(r)
    PROVE  IInv'
<1>1. /\ faults \subseteq faults' /\ faults' \subseteq Breakable
      /\ job' \subseteq job \cup Listed
      /\ ReportWorks' => (before[r] \ Listed) \cap job' = {} /\ job \cap Listed \subseteq job'
      /\ copy' \in [Reviewers -> States] /\ \A q \in Reviewers : q # r => copy'[q] = copy[q]
      /\ StateFileWorks' => copy'[r] = st
  BY ReportFacts
<1>2. /\ pc[r] = "fork" /\ pc' = [pc EXCEPT ![r] = "closing"]
      /\ before' = [before EXCEPT ![r] = {}] /\ calls' = [calls EXCEPT ![r] = <<>>]
      /\ touchedUp' = Meddled(job' \ job)
      /\ UNCHANGED <<clock, lib, st, mode, start, plan, reviews, moves, reviewed, wish, tangled, deleted>>
  BY DEF WriteRunReport, Goes
<1>3. /\ pc' \in [Reviewers -> Pcs] /\ pc'[r] = "closing" /\ calls'[r] = <<>>
      /\ \A q \in Reviewers : q # r => pc'[q] = pc[q] /\ before'[q] = before[q] /\ calls'[q] = calls[q]
  BY <1>2 DEF IInv, TypeOK, Pcs
<1>4. /\ touchedUp' \in [Reviewers -> SUBSET Skills]
      /\ \A q \in Reviewers : touchedUp[q] \subseteq touchedUp'[q]
      /\ \A q \in Reviewers : pc[q] = "transitions" => job' \ job \subseteq touchedUp'[q]
  BY <1>1, <1>2 DEF IInv, TypeOK, Meddled, Listed
<1>5. Listed' = Listed
  BY <1>2 DEF Listed
<1>6. TypeOK'
  <2>1. <<>> \in Seq(WriteCalls \cup DeleteCalls)
    BY EmptySeq
  <2>2. /\ before' \in [Reviewers -> SUBSET Skills] /\ job' \in SUBSET Skills
        /\ calls' \in [Reviewers -> Seq(WriteCalls \cup DeleteCalls)]
    BY <1>1, <1>2, <2>1 DEF IInv, TypeOK, Listed
  <2> QED
    BY <1>1, <1>2, <1>3, <1>4, <2>2 DEF IInv, TypeOK, States
<1>7. PauseInv'
  <2>1. StateFileWorks' => StateFileWorks
    BY <1>1 DEF StateFileWorks
  <2> QED
    BY <1>1, <1>2, <1>3, <2>1 DEF IInv, PauseInv
<1>8. SpacedInv'
  BY <1>1, <1>2 DEF IInv, SpacedInv, StateFileWorks
<1>9. PlanInv'
  <2>1. \A s \in Skills : Earned(s) /\ s \notin job' \ job => Earned(s)'
    BY <1>1, <1>2 DEF Earned
  <2>2. \A q \in Reviewers : pc'[q] # "transitions" => DOMAIN plan'[q] = {}
    BY <1>2, <1>3 DEF IInv, PlanInv
  <2>3. ASSUME NEW q \in Reviewers, NEW s \in DOMAIN plan[q],
               plan[q][s] = "archive", s \in Listed, s \notin touchedUp'[q]
        PROVE  Earned(s)'
    <3>1. pc[q] = "transitions" /\ s \in Skills
      BY DEF IInv, PlanInv, TypeOK
    <3> QED
      BY <1>4, <2>1, <2>3, <3>1 DEF IInv, PlanInv
  <2> QED
    BY <1>2, <1>5, <2>2, <2>3 DEF PlanInv
<1>10. ForkInv'
  <2>1. DOMAIN calls'[r] = {}
    BY <1>3, EmptySeq
  <2> QED
    BY <1>1, <1>2, <1>3, <1>5, <2>1 DEF IInv, ForkInv, IsDelete
<1>11. JobsInv'
  <2>1. SUFFICES ASSUME NEW s \in job' \ Listed', s \in deleted', ReportWorks', "crash" \notin faults'
                 PROVE  \E q \in Reviewers : pc'[q] = "fork" /\ s \in before'[q]
    BY DEF JobsInv
  <2>2. s \in job \ Listed /\ s \in deleted /\ ReportWorks /\ "crash" \notin faults
    BY <1>1, <1>2, <1>5, <2>1 DEF ReportWorks
  <2>3. PICK q \in Reviewers : pc[q] = "fork" /\ s \in before[q]
    BY <2>2 DEF IInv, JobsInv
  <2>4. q # r
    BY <1>1, <2>1, <2>2, <2>3
  <2> QED
    BY <1>3, <2>3, <2>4
<1> QED
  BY <1>6, <1>7, <1>8, <1>9, <1>10, <1>11 DEF IInv

-----------------------------------------------------------------------------
(* Every step. *)

LEMMA StutterKeeps ==
    ASSUME IInv, UNCHANGED vars
    PROVE  IInv'
<1>1. TypeOK'
  BY DEF IInv, TypeOK, vars, reviewVars, bounds, ghosts
<1>2. PauseInv' /\ SpacedInv'
  BY DEF IInv, PauseInv, SpacedInv, StateFileWorks, vars, reviewVars, bounds, ghosts
<1>3. PlanInv'
  BY DEF IInv, PlanInv, Earned, Listed, vars, reviewVars, bounds, ghosts
<1>4. ForkInv' /\ JobsInv'
  BY DEF IInv, ForkInv, JobsInv, IsDelete, Listed, ReportWorks, vars, reviewVars, bounds, ghosts
<1> QED
  BY <1>1, <1>2, <1>3, <1>4 DEF IInv

LEMMA NextKeeps ==
    ASSUME IInv, [Next]_vars
    PROVE  IInv'
<1>1. ASSUME NEW r \in Reviewers, Review(r)
      PROVE  IInv'
  BY <1>1, TickKeeps, AskReviewKeeps, TransitionKeeps, TransitionsRaiseKeeps, RecordRunKeeps,
     ForkCallKeeps, WriteRunReportKeeps, FinishSaveKeeps, CrashKeeps DEF Review
<1>2. CASE User
  BY <1>2, UseSkillKeeps, PinSkillKeeps, ListInJobKeeps, SetPausedKeeps DEF User
<1> QED
  BY <1>1, <1>2, WaitKeeps, StutterKeeps DEF Next

(* In every reachable state all parts of the invariant hold. *)
THEOREM InvariantHolds == Spec => []IInv
<1>1. Init => IInv
  BY InitIsGood
<1>2. IInv /\ [Next]_vars => IInv'
  BY NextKeeps
<1> QED
  BY <1>1, <1>2, PTL DEF Spec

(* Every variable keeps its type, whatever fails. *)
THEOREM TypeCorrect == Spec => []TypeOK
<1>1. IInv => TypeOK
  BY DEF IInv
<1> QED
  BY <1>1, InvariantHolds, PTL

(* A pause that the user can count on stays in the state file, through every   *)
(* review that read the file before or after (set_paused, run_curator_review). *)
THEOREM PauseHoldsAlways == Spec => []PauseHolds
<1>1. IInv => PauseHolds
  BY DEF IInv, PauseInv, PauseHolds
<1> QED
  BY <1>1, InvariantHolds, PTL

(* When all reviews are over, no job lists a skill that a fork deleted *)
(* (_rewrite_cron_refs).                                               *)
THEOREM JobsLoadableHolds == Spec => []JobsLoadable
<1>1. IInv => JobsLoadable
  BY DEF IInv, JobsInv, JobsLoadable
<1> QED
  BY <1>1, InvariantHolds, PTL

(* An automatic review begins no sooner than one interval after the latest one *)
(* that was recorded (should_run_now).                                         *)
THEOREM ReviewsSpacedHolds == Spec => ReviewsSpaced
<1>1. ASSUME IInv, NEW r \in Reviewers, Tick(r), pc'[r] = "transitions",
             StateFileWorks, ~tangled, reviewed # Never
      PROVE  clock - reviewed >= Interval
  <2>1. pc[r] = "idle"
    BY <1>1 DEF Tick
  <2>2. PICK second \in BOOLEAN : Reading(second).last # Never /\ Due(Reading(second).last)
    BY <1>1, <2>1 DEF Tick
  <2>3. Due(st.last) /\ st.last # Never
    BY <2>2 DEF Reading, Blank
  <2>4. reviewed \in Time /\ st.last \in Time /\ clock \in Time /\ reviewed <= st.last
    BY <1>1, <2>3 DEF IInv, TypeOK, SpacedInv
  <2>5. reviewed \in Nat /\ st.last \in Nat /\ clock \in Nat /\ Interval \in Nat
    BY <2>4, Constants
  <2>6. clock - st.last >= Interval
    BY <2>3 DEF Due
  <2> QED
    BY <2>4, <2>5, <2>6
<1>2. IInv /\ [Next]_vars => [
        \A r \in Reviewers :
          Tick(r) /\ pc'[r] = "transitions" /\ StateFileWorks /\ ~tangled /\ reviewed # Never
            => clock - reviewed >= Interval]_vars
  BY <1>1
<1> QED
  BY <1>2, InvariantHolds, PTL DEF Spec, ReviewsSpaced

\* A step that changes a plan and a record is a transition.
LEMMA ArchivingStep ==
    ASSUME IInv, Next
    PROVE  lib' = lib \/ plan' = plan \/ \E q \in Reviewers : Transition(q)
<1>1. ASSUME NEW r \in Reviewers, Review(r), ~Transition(r)
      PROVE  lib' = lib \/ plan' = plan
  BY <1>1 DEF Review, Tick, AskReview, TransitionsRaise, RecordRun, ForkCall, WriteRunReport,
              FinishSave, Crash, world
<1>2. CASE User
  BY <1>2 DEF User, UseSkill, PinSkill, ListInJob, SetPaused, reviewVars
<1>3. CASE Wait
  BY <1>3 DEF Wait
<1>4. CASE \E r \in Reviewers : Review(r)
  BY <1>1, <1>4
<1> QED
  BY <1>2, <1>3, <1>4 DEF Next

(* The clock archives only what it may: unpinned, in no job and out of use for *)
(* the whole period, unless the user touched it after the survey               *)
(* (apply_automatic_transitions).                                              *)
THEOREM ArchiveEarnedHolds == Spec => ArchiveEarned
<1>1. ASSUME IInv, Next, NEW r \in Reviewers, NEW s \in Listed,
             plan'[r] # plan[r], lib'[s].state = "archived", s \notin touchedUp[r]
      PROVE  Earned(s)
  <2>1. s \in Skills /\ lib[s].state # "archived"
    BY DEF Listed
  <2>2. PICK q \in Reviewers : Transition(q)
    BY <1>1, <2>1, ArchivingStep
  <2>3. PICK t \in DOMAIN plan[q] :
          /\ lib' = lib \/ (t \in Listed /\ lib' = [lib EXCEPT ![t] = Treated(t, plan[q][t])])
          /\ plan' = [plan EXCEPT ![q] = [o \in DOMAIN @ \ {t} |-> @[o]]]
    BY <2>2 DEF Transition
  <2>4. q = r
    BY <1>1, <2>3 DEF IInv, TypeOK
  <2>5. PICK k \in Treatments : k = plan[r][t]
    BY <1>1, <2>3, <2>4 DEF IInv, TypeOK
  <2>6. t = s /\ lib'[s] = Treated(s, k)
    BY <1>1, <2>1, <2>3, <2>4, <2>5 DEF IInv, TypeOK
  <2>7. k = "archive"
    BY <1>1, <2>1, <2>6, TreatedFacts DEF IInv
  <2> QED
    BY <1>1, <2>3, <2>4, <2>5, <2>6, <2>7 DEF IInv, PlanInv
<1>2. IInv /\ [Next]_vars => [
        \A r \in Reviewers, s \in Listed :
          plan'[r] # plan[r] /\ lib'[s].state = "archived" /\ s \notin touchedUp[r]
            => /\ lib[s].persisted /\ ~lib[s].pinned
               /\ clock - lib[s].touched >= ArchiveAfter
               /\ ~lib[s].used => clock - lib[s].touched >= StaleAfter
               /\ "cronRead" \notin faults => s \notin job]_vars
  BY <1>1 DEF Earned
<1> QED
  BY <1>2, InvariantHolds, PTL DEF Spec, ArchiveEarned

\* A fork ends in a report, or in a crash.
LEMMA ClosingStep ==
    ASSUME IInv, Next, NEW r \in Reviewers, pc[r] = "fork", pc'[r] = "closing"
    PROVE  WriteRunReport(r)
<1>1. ASSUME NEW q \in Reviewers, Review(q), q # r
      PROVE  pc'[r] = pc[r]
  <2>1. pc' = pc \/ \E to \in Pcs : pc' = [pc EXCEPT ![q] = to]
    BY <1>1 DEF Review, Tick, Begin, AskReview, Transition, TransitionsRaise, RecordRun, ForkCall,
                WriteRunReport, FinishSave, Crash, Rest, Goes, Pcs
  <2> QED
    BY <1>1, <2>1 DEF IInv, TypeOK
<1>2. ASSUME Review(r)
      PROVE  WriteRunReport(r)
  BY <1>2 DEF Review, Tick, AskReview, Transition, TransitionsRaise, RecordRun, ForkCall,
              FinishSave, Crash, Rest, Goes, IInv, TypeOK
<1>3. CASE User
  BY <1>3 DEF User, UseSkill, PinSkill, ListInJob, SetPaused
<1>4. CASE Wait
  BY <1>4 DEF Wait
<1>5. CASE \E q \in Reviewers : Review(q)
  BY <1>1, <1>2, <1>5
<1> QED
  BY <1>3, <1>4, <1>5 DEF Next

LEMMA MaxOfOne ==
    ASSUME NEW i \in Nat
    PROVE  Max({i}) = i
<1>1. i >= i
  OBVIOUS
<1> QED
  BY <1>1 DEF Max

\* The target that the only delete of a skill declares takes its place.
LEMMA DeclaredFacts ==
    ASSUME NEW j, NEW b \in SUBSET Skills, NEW after \in SUBSET Skills,
           NEW c \in Seq(WriteCalls \cup DeleteCalls), NEW claims,
           NEW i \in DOMAIN c, c[i].verb = "delete",
           c[i].on \in j, c[i].on \in b \ after, c[i].into \in after,
           \A k \in DOMAIN c : c[k].verb = "delete" /\ c[k].on = c[i].on => k = i
    PROVE  c[i].into \in RewriteCronRefs(j, DiffAndClassify(b, after, c, claims))
<1> DEFINE s == c[i].on
           found == {k \in DOMAIN c : c[k].verb = "delete" /\ c[k].on = s /\ c[k].into # Silent}
           went == DiffAndClassify(b, after, c, claims)
<1>1. c[i].into # Silent /\ c[i].into # Dropped
  BY SkillAssumption
<1>2. found = {i} /\ i \in Nat
  BY <1>1, LenProperties
<1>3. Max(found) = i
  BY <1>2, MaxOfOne
<1>4. Declared(s, c) = c[i].into
  BY <1>2, <1>3 DEF Declared
<1>5. Reconcile(s, c, claims[s], after) = c[i].into
  BY <1>4 DEF Reconcile
<1>6. s \in DOMAIN went /\ went[s] = c[i].into
  BY <1>5 DEF DiffAndClassify
<1> QED
  BY <1>1, <1>6 DEF RewriteCronRefs

(* The report changes a job only by what it finds, and a skill that the fork *)
(* deleted with a target that is there is replaced by the target             *)
(* (_reconcile_classification, _rewrite_cron_refs).                          *)
THEOREM JobsFollowHolds == Spec => JobsFollow
<1>1. ASSUME IInv, Next, NEW r \in Reviewers, pc[r] = "fork", pc'[r] = "closing",
             ReportWorks', "fork" \notin faults'
      PROVE  /\ job \cap Listed \subseteq job'
             /\ job' \ job \subseteq Listed
             /\ \A i \in DOMAIN calls[r] :
                  LET call == calls[r][i]
                  IN  call.verb = "delete" /\ call.on \in job /\ call.into \in Listed
                        => call.into \in job' /\ call.on \notin job'
  <2>1. WriteRunReport(r)
    BY <1>1, ClosingStep
  <2>2. /\ faults \subseteq faults' /\ job' \subseteq job \cup Listed
        /\ (before[r] \ Listed) \cap job' = {} /\ job \cap Listed \subseteq job'
    BY <1>1, <2>1, ReportFacts
  <2>3. PICK claims : job' = RewriteCronRefs(job, DiffAndClassify(before[r], Listed, calls[r], claims))
    BY <1>1, <2>1, ReportFacts
  <2>4. ASSUME NEW i \in DOMAIN calls[r], calls[r][i].verb = "delete",
               calls[r][i].on \in job, calls[r][i].into \in Listed
        PROVE  calls[r][i].into \in job' /\ calls[r][i].on \notin job'
    <3>1. "listing" \notin faults
      BY <1>1, <2>2 DEF ReportWorks
    <3>2. /\ calls[r][i].on \in before[r] \ Listed
          /\ \A k \in DOMAIN calls[r] :
                calls[r][k].verb = "delete" /\ calls[r][k].on = calls[r][i].on => k = i
      BY <1>1, <2>4, <3>1 DEF IInv, ForkInv, IsDelete
    <3>3. /\ before[r] \in SUBSET Skills /\ Listed \in SUBSET Skills
          /\ calls[r] \in Seq(WriteCalls \cup DeleteCalls)
      BY <1>1 DEF IInv, TypeOK, Listed
    <3>4. calls[r][i].into \in job'
      BY <2>3, <2>4, <3>2, <3>3, DeclaredFacts
    <3> QED
      BY <2>2, <3>2, <3>4
  <2> QED
    BY <2>2, <2>4
<1>2. IInv /\ [Next]_vars => [
        \A r \in Reviewers :
          pc[r] = "fork" /\ pc'[r] = "closing" /\ ReportWorks' /\ "fork" \notin faults'
            => /\ job \cap Listed \subseteq job'
               /\ job' \ job \subseteq Listed
               /\ \A i \in DOMAIN calls[r] :
                    LET call == calls[r][i]
                    IN  call.verb = "delete" /\ call.on \in job /\ call.into \in Listed
                          => call.into \in job' /\ call.on \notin job']_vars
  BY <1>1
<1> QED
  BY <1>2, InvariantHolds, PTL DEF Spec, JobsFollow

=============================================================================
