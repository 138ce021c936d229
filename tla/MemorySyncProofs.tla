-------------------------- MODULE MemorySyncProofs --------------------------
(***************************************************************************)
(* Proofs about MemorySync, for any number of tasks and one pool thread,   *)
(* which is what the code has (max_workers=1).                             *)
(***************************************************************************)
EXTENDS MemorySync, FiniteSetTheorems, SequenceTheorems, TLAPS

-----------------------------------------------------------------------------
(* The inductive invariant. *)

\* _submit_background was called for the task.
Called(t) == t < task \/ (t = task /\ hpc # "idle")

Live(t) == fut[t] \in {"pending", "running", "ended"}
Taken(t) == fut[t] \in {"running", "ended", "done"}

\* The executor is open from its lazy creation to the drain.
ExecInv ==
    /\ closed => shutting
    /\ seen = "open" => executor = "open" \/ shutting
    /\ shutting <=> dpc # "idle"
    /\ executor = "open" => ~shutting
    /\ executor = "none" /\ ~shutting => \A t \in Tasks : ~Live(t) /\ fut[t] \notin Over

\* Tasks are submitted in order; none is accepted after one that was refused.
HostInv ==
    /\ hpc # "idle" => task \in Tasks
    /\ hpc \in {"idle", "read", "create", "submit", "raised"} => \A t \in Tasks : t >= task => fut[t] = "none"
    /\ hpc \in {"tracked", "attach"} => Live(task) \/ fut[task] \in Over
    /\ hpc = "inline" => fut[task] = "inline"
    /\ \A t \in Tasks : t > task => fut[t] = "none"
    /\ \A t \in Tasks : t < task => fut[t] \notin {"none", "inline"}
    /\ \A t \in Tasks : fut[t] = "rejected" => shutting
    /\ \A u, t \in Tasks : u < t /\ (Live(t) \/ fut[t] \in Over) => fut[u] # "rejected"
    /\ \A t \in Tasks : fut[t] = "ended" => kind[t] = "boundary"

\* The queue holds the pending tasks in their order, and tasks begin in it.
QueueInv ==
    /\ \A i \in 1 .. Len(queue) : queue[i] # Sentinel => fut[queue[i]] \in {"pending", "cancelled"}
    /\ \A i, j \in 1 .. Len(queue) :
          i < j /\ queue[i] # Sentinel /\ queue[j] # Sentinel => queue[i] < queue[j]
    /\ \A t \in Tasks : fut[t] = "pending" => \E i \in 1 .. Len(queue) : queue[i] = t
    /\ \A u, t \in Tasks : u < t /\ Taken(t) => ~Live(u)

RunningNow == {t \in Tasks : fut[t] \in {"running", "ended"}}

\* The drain misses no live task, and counts what it cancels.
DrainInv ==
    /\ \A t \in Tasks : Live(t) => t \in tracked
    /\ \A t \in Tasks : t \in counted <=> fut[t] = "cancelled"
    /\ dpc \in {"idle", "close", "wait"} => counted = {} /\ asked = {}
    /\ dpc \in {"close", "wait", "cancel"} => \A t \in Tasks : Live(t) => t \in pending
    /\ dpc = "cancel" => counted \subseteq pending /\ \A t \in asked : fut[t] # "pending"
    /\ dpc = "done" =>
          /\ \A t \in Tasks : fut[t] # "pending"
          /\ report.writes = Cardinality({t \in counted : kind[t] # "prefetch"})
          /\ report.prefetches = Cardinality({t \in counted : kind[t] = "prefetch"})
          /\ report.status = "drained" => \A t \in Accepted : fut[t] = "done"
          /\ report.active >= Cardinality(RunningNow)

CalledBoundaries == {t \in Tasks : Called(t) /\ kind[t] = "boundary"}
EarlierBoundaries(t) == {u \in 1 .. t - 1 : kind[u] = "boundary"}
DoneBoundaries == {t \in Tasks : fut[t] = "done" /\ kind[t] = "boundary"}
NoneSkipped == \A t \in Tasks : fut[t] \notin {"inline", "inlineDone", "cancelled"}

\* Sessions are counted in boundaries: submitted ones for the host, those that are
\* over for the provider.
SessionInv ==
    /\ session = Cardinality(CalledBoundaries)
    /\ \A t \in Tasks : Called(t) => from[t] = Cardinality(EarlierBoundaries(t))
    /\ NoneSkipped => bound = Cardinality(DoneBoundaries) /\ ~misfiled

\* What a flush waits for stands before its sentinel.
FlushInv ==
    /\ fpc \in {"submit", "waiting"} => executor = "open" \/ shutting
    /\ fpc \in {"idle", "submit"} => \A i \in 1 .. Len(queue) : queue[i] # Sentinel
    /\ \A i, j \in 1 .. Len(queue) : queue[i] = Sentinel /\ queue[j] = Sentinel => i = j
    /\ \A t \in before : Live(t) \/ fut[t] \in Over
    /\ fpc = "waiting" => \E i \in 1 .. Len(queue) :
          /\ queue[i] = Sentinel
          /\ \A t \in before : fut[t] = "pending" => \E j \in 1 .. i - 1 : queue[j] = t
    /\ FlushIsHonest

IInv == TypeOK /\ ExecInv /\ HostInv /\ QueueInv /\ DrainInv /\ SessionInv /\ FlushInv

-----------------------------------------------------------------------------
(* Numbers of tasks. *)

LEMMA Numbers == MaxTasks \in Nat /\ MaxTasks >= 1 /\ Tasks = 1 .. MaxTasks /\ Tasks \subseteq Nat /\ 0 \notin Tasks
BY MemoryAssumption DEF Tasks

LEMMA SubsetCount ==
    ASSUME NEW n \in Nat, NEW S, S \subseteq 1 .. n
    PROVE  IsFiniteSet(S) /\ Cardinality(S) \in Nat /\ Cardinality(S) <= n
<1>1. 1 \in Int /\ n \in Int
  OBVIOUS
<1>2. IsFiniteSet(1 .. n) /\ Cardinality(1 .. n) = n
  BY <1>1, FS_Interval
<1>3. IsFiniteSet(S) /\ Cardinality(S) <= Cardinality(1 .. n)
  BY <1>2, FS_Subset
<1> QED
  BY <1>2, <1>3, FS_CardinalityType

LEMMA TasksCount ==
    ASSUME NEW S, S \subseteq Tasks
    PROVE  IsFiniteSet(S) /\ Cardinality(S) \in Nat /\ Cardinality(S) <= MaxTasks
BY SubsetCount, Numbers

LEMMA OneMore ==
    ASSUME NEW S, S \subseteq Tasks, NEW t \in Tasks, t \notin S
    PROVE  Cardinality(S \cup {t}) = Cardinality(S) + 1
BY TasksCount, FS_AddElement

\* The counts of sessions survive a step that submits nothing and ends nothing.
LEMMA SessionSame ==
    ASSUME IInv, UNCHANGED <<kind, from, session, bound, misfiled>>,
           \A t \in Tasks : Called(t)' <=> Called(t),
           \A t \in Tasks : fut'[t] = "done" <=> fut[t] = "done",
           NoneSkipped' => NoneSkipped
    PROVE  SessionInv'
<1>1. CalledBoundaries' = CalledBoundaries
  BY DEF CalledBoundaries
<1>2. \A t \in Tasks : EarlierBoundaries(t)' = EarlierBoundaries(t)
  BY DEF EarlierBoundaries
<1>3. DoneBoundaries' = DoneBoundaries
  BY DEF DoneBoundaries
<1> QED
  BY <1>1, <1>2, <1>3 DEF IInv, SessionInv

LEMMA EarlierCount ==
    ASSUME NEW t \in Tasks
    PROVE  /\ EarlierBoundaries(t) \subseteq Tasks
           /\ Cardinality(EarlierBoundaries(t)) \in Nat /\ Cardinality(EarlierBoundaries(t)) <= MaxTasks - 1
<1>1. t - 1 \in Nat /\ EarlierBoundaries(t) \subseteq 1 .. t - 1 /\ t - 1 <= MaxTasks - 1 /\ t \in Nat
  BY Numbers DEF EarlierBoundaries
<1>2. Cardinality(EarlierBoundaries(t)) \in Nat /\ Cardinality(EarlierBoundaries(t)) <= t - 1
  BY <1>1, SubsetCount
<1> QED
  BY <1>1, <1>2, Numbers

\* Before the host calls, its session counts the boundaries before the next task.
LEMMA SessionAtIdle ==
    ASSUME IInv, hpc = "idle", task \in Tasks
    PROVE  CalledBoundaries = EarlierBoundaries(task)
BY Numbers DEF CalledBoundaries, EarlierBoundaries, Called

\* A boundary that a worker has taken finds the sessions before it ended.
LEMMA BoundaryFacts ==
    ASSUME IInv, NoneSkipped, NEW t \in Tasks, fut[t] \in {"running", "ended"}
    PROVE  /\ DoneBoundaries = EarlierBoundaries(t)
           /\ bound = from[t]
<1>1. Called(t)
  BY Numbers DEF IInv, TypeOK, HostInv, Called
<1>2. \A u \in Tasks : u < t => fut[u] = "done"
  <2> TAKE u \in Tasks
  <2> HAVE u < t
  <2>1. u < task
    BY <1>1, Numbers DEF Called, IInv, TypeOK
  <2>2. fut[u] \notin {"none", "inline"} /\ fut[u] # "rejected"
    BY <2>1 DEF IInv, HostInv, Live
  <2>3. ~Live(u)
    BY DEF IInv, QueueInv, Taken
  <2>4. fut[u] \in {"none", "pending", "running", "ended", "done", "cancelled", "inline", "inlineDone", "rejected"}
    BY DEF IInv, TypeOK
  <2> QED
    BY <2>2, <2>3, <2>4 DEF Live, NoneSkipped
<1>3. \A u \in Tasks : fut[u] = "done" => u < t
  <2>1. \A u \in Tasks : t < u /\ fut[u] = "done" => ~Live(t)
    BY DEF IInv, QueueInv, Taken
  <2> QED
    BY <2>1, Numbers DEF Live
<1>4. DoneBoundaries = EarlierBoundaries(t)
  BY <1>2, <1>3, Numbers DEF DoneBoundaries, EarlierBoundaries
<1> QED
  BY <1>1, <1>4 DEF IInv, SessionInv

\* A task or the sentinel joins the queue.
LEMMA AppendFacts ==
    ASSUME TypeOK, NEW x \in Tasks \cup {Sentinel}, queue' = Append(queue, x)
    PROVE  /\ queue' \in Seq(Tasks \cup {Sentinel})
           /\ Len(queue) \in Nat /\ Len(queue') = Len(queue) + 1
           /\ \A i \in 1 .. Len(queue) : queue'[i] = queue[i]
           /\ queue'[Len(queue) + 1] = x
BY AppendProperties, LenProperties DEF TypeOK

\* The first item leaves it.
LEMMA TailFacts ==
    ASSUME TypeOK, queue # <<>>, queue' = Tail(queue)
    PROVE  /\ queue' \in Seq(Tasks \cup {Sentinel})
           /\ Len(queue) \in Nat /\ Len(queue) >= 1 /\ Len(queue') = Len(queue) - 1
           /\ Head(queue) = queue[1]
           /\ \A i \in 1 .. Len(queue) - 1 : queue'[i] = queue[i + 1]
BY HeadTailProperties, LenProperties, EmptySeq DEF TypeOK

\* Each item of the queue is a task or the sentinel.
LEMMA ItemFacts ==
    ASSUME TypeOK
    PROVE  Len(queue) \in Nat /\ \A i \in 1 .. Len(queue) : queue[i] \in Tasks \cup {Sentinel}
BY LenProperties, ElementOfSeq DEF TypeOK

-----------------------------------------------------------------------------
(* Steps. *)

LEMMA InitIsGood ==
    ASSUME Init
    PROVE  IInv
<1>1. TypeOK
  <2>1. from \in [Tasks -> 0 .. MaxTasks] /\ queue \in Seq(Tasks \cup {Sentinel}) /\ task \in 1 .. MaxTasks + 1
    BY Numbers, EmptySeq DEF Init
  <2>2. /\ report.status \in {"not_started", "draining", "drained", "timed_out"}
        /\ {report.writes, report.prefetches, report.active} \subseteq 0 .. MaxTasks
    BY Numbers DEF Init, NoReport
  <2>3. fut \in [Tasks -> {"none", "pending", "running", "ended", "done", "cancelled",
                           "inline", "inlineDone", "rejected"}]
    BY DEF Init
  <2>4. session \in 0 .. MaxTasks /\ bound \in 0 .. MaxTasks
    BY Numbers DEF Init
  <2> QED
    BY <2>1, <2>2, <2>3, <2>4 DEF Init, TypeOK
<1>2. ExecInv /\ HostInv
  BY Numbers DEF Init, ExecInv, HostInv, Live, Over
<1>3. QueueInv
  BY EmptySeq DEF Init, QueueInv, Live, Taken
<1>4. DrainInv
  BY DEF Init, DrainInv, Live
<1>5. SessionInv
  <2>1. CalledBoundaries = {} /\ DoneBoundaries = {}
    BY Numbers DEF Init, CalledBoundaries, DoneBoundaries, Called
  <2>2. \A t \in Tasks : ~Called(t)
    BY Numbers DEF Init, Called
  <2> QED
    BY <2>1, <2>2, FS_EmptySet DEF Init, SessionInv
<1>6. FlushInv
  BY EmptySeq DEF Init, FlushInv, FlushIsHonest, Live, Over
<1> QED
  BY <1>1, <1>2, <1>3, <1>4, <1>5, <1>6 DEF IInv

\* What the drain says stays true while tasks only go on.
LEMMA DrainSame ==
    ASSUME IInv, UNCHANGED drainVars, UNCHANGED kind,
           \A t \in Tasks : Live(t)' => Live(t) /\ t \in tracked',
           \A t \in Tasks : fut'[t] = "pending" => fut[t] = "pending",
           \A t \in Tasks : fut'[t] = "cancelled" <=> fut[t] = "cancelled",
           \A t \in Tasks : fut[t] = "done" => fut'[t] = "done",
           dpc = "done" => Accepted' \subseteq Accepted /\ RunningNow' \subseteq RunningNow
    PROVE  DrainInv'
<1>1. /\ \A t \in Tasks : Live(t)' => t \in tracked'
      /\ \A t \in Tasks : t \in counted' <=> fut'[t] = "cancelled"
      /\ dpc' \in {"idle", "close", "wait"} => counted' = {} /\ asked' = {}
      /\ dpc' \in {"close", "wait", "cancel"} => \A t \in Tasks : Live(t)' => t \in pending'
      /\ dpc' = "cancel" => counted' \subseteq pending' /\ \A t \in asked' : fut'[t] # "pending"
  <2>1. asked \subseteq Tasks
    BY DEF IInv, TypeOK
  <2> QED
    BY <2>1 DEF IInv, DrainInv, drainVars
<1>2. ASSUME dpc = "done"
      PROVE  /\ \A t \in Tasks : fut'[t] # "pending"
             /\ report'.status = "drained" => \A t \in Accepted' : fut'[t] = "done"
             /\ report'.active >= Cardinality(RunningNow')
  <2>1. Cardinality(RunningNow') <= Cardinality(RunningNow)
    BY <1>2, TasksCount, FS_Subset DEF RunningNow
  <2>2. Cardinality(RunningNow') \in Nat /\ Cardinality(RunningNow) \in Nat /\ report.active \in Nat
    BY TasksCount, Numbers DEF IInv, TypeOK, RunningNow
  <2>3. report.active >= Cardinality(RunningNow) /\ report' = report
    BY <1>2 DEF IInv, DrainInv, drainVars
  <2>4. report'.active >= Cardinality(RunningNow')
    BY <2>1, <2>2, <2>3
  <2>5. Accepted \subseteq Tasks
    BY DEF Accepted
  <2> QED
    BY <1>2, <2>3, <2>4, <2>5 DEF IInv, DrainInv
<1>3. {t \in counted' : kind'[t] # "prefetch"} = {t \in counted : kind[t] # "prefetch"}
      /\ {t \in counted' : kind'[t] = "prefetch"} = {t \in counted : kind[t] = "prefetch"}
  BY DEF drainVars
<1>4. dpc' = dpc /\ report' = report
  BY DEF drainVars
<1>5. dpc' = "done" => /\ report'.writes = Cardinality({t \in counted' : kind'[t] # "prefetch"})
                       /\ report'.prefetches = Cardinality({t \in counted' : kind'[t] = "prefetch"})
  BY <1>3, <1>4 DEF IInv, DrainInv
<1> QED
  BY <1>1, <1>2, <1>4, <1>5 DEF DrainInv

\* With one thread, a free one means that nothing runs.
LEMMA FreeFacts ==
    ASSUME Workers = 1, WorkerFree
    PROVE  \A t \in Tasks : fut[t] \notin {"running", "ended"}
<1>1. RunningNow \subseteq Tasks
  BY DEF RunningNow
<1>2. IsFiniteSet(RunningNow) /\ Cardinality(RunningNow) \in Nat
  BY <1>1, TasksCount
<1>3. Cardinality(RunningNow) < 1
  BY DEF WorkerFree, RunningNow
<1>4. RunningNow = {}
  BY <1>2, <1>3, FS_EmptySet
<1> QED
  BY <1>4 DEF RunningNow

LEMMA CallKeeps ==
    ASSUME IInv, Call
    PROVE  IInv'
<1>1. TypeOK'
  <2>1. session' \in 0 .. MaxTasks
    <3>1. session <= MaxTasks - 1 /\ session \in Nat
      BY SessionAtIdle, EarlierCount DEF Call, IInv, SessionInv
    <3> QED
      BY <3>1, Numbers DEF Call
  <2>2. from' \in [Tasks -> 0 .. MaxTasks] /\ bound' = bound
    BY DEF IInv, TypeOK, Call, BoundOnSubmit
  <2> QED
    BY <2>1, <2>2 DEF IInv, TypeOK, Call, execVars, drainVars, flushVars
<1>2. ExecInv'
  BY DEF IInv, ExecInv, Live, Over, Call, execVars, drainVars
<1>3. HostInv'
  BY DEF IInv, HostInv, Live, Over, Call, drainVars
<1>4. QueueInv'
  BY DEF IInv, QueueInv, Live, Taken, Call, execVars
<1>5. DrainInv'
  BY DrainSame DEF DrainInv, IInv, Live, Accepted, RunningNow, Call
<1>6. SessionInv'
  <2>1. /\ hpc = "idle" /\ hpc' = "read" /\ task \in Tasks
        /\ UNCHANGED <<task, kind, fut, bound, misfiled>>
        /\ from' = [from EXCEPT ![task] = session]
        /\ session' = IF kind[task] = "boundary" THEN session + 1 ELSE session
    BY DEF Call, BoundOnSubmit
  <2>2. CalledBoundaries = EarlierBoundaries(task) /\ session = Cardinality(EarlierBoundaries(task))
    BY <2>1, SessionAtIdle DEF IInv, SessionInv
  <2>3. task \notin CalledBoundaries /\ CalledBoundaries \subseteq Tasks
    BY <2>1, Numbers DEF CalledBoundaries, Called
  <2>4. \A t \in Tasks : Called(t)' <=> (Called(t) \/ t = task)
    BY <2>1, Numbers DEF Called, IInv, TypeOK
  <2>5. session' = Cardinality(CalledBoundaries')
    <3>1. CASE kind[task] = "boundary"
      <4>1. CalledBoundaries' = CalledBoundaries \cup {task}
        BY <2>1, <2>4, <3>1 DEF CalledBoundaries
      <4> QED
        BY <2>1, <2>2, <2>3, <3>1, <4>1, OneMore
    <3>2. CASE kind[task] # "boundary"
      <4>1. CalledBoundaries' = CalledBoundaries
        BY <2>1, <2>4, <3>2 DEF CalledBoundaries
      <4> QED
        BY <2>1, <2>2, <3>2, <4>1
    <3> QED
      BY <3>1, <3>2
  <2>6. \A t \in Tasks : EarlierBoundaries(t)' = EarlierBoundaries(t)
    BY <2>1 DEF EarlierBoundaries
  <2>7. \A t \in Tasks : from'[t] = IF t = task THEN session ELSE from[t]
    BY <2>1 DEF IInv, TypeOK
  <2>8. \A t \in Tasks : Called(t)' => from'[t] = Cardinality(EarlierBoundaries(t)')
    BY <2>2, <2>4, <2>6, <2>7 DEF IInv, SessionInv
  <2>9. DoneBoundaries' = DoneBoundaries /\ (NoneSkipped' => NoneSkipped)
    BY <2>1 DEF DoneBoundaries, NoneSkipped
  <2> QED
    BY <2>1, <2>5, <2>8, <2>9 DEF IInv, SessionInv
<1>7. FlushInv'
  BY DEF IInv, FlushInv, FlushIsHonest, Live, Over, Call, execVars, drainVars, flushVars
<1> QED
  BY <1>1, <1>2, <1>3, <1>4, <1>5, <1>6, <1>7 DEF IInv

LEMMA ReadExecutorKeeps ==
    ASSUME IInv, ReadExecutor
    PROVE  IInv'
<1>1. TypeOK'
  BY DEF IInv, TypeOK, ReadExecutor, execVars, drainVars, flushVars
<1>2. ExecInv'
  BY DEF IInv, ExecInv, Live, Over, ReadExecutor, execVars, drainVars
<1>3. HostInv'
  BY DEF IInv, HostInv, Live, Over, ReadExecutor, drainVars
<1>4. QueueInv'
  BY DEF IInv, QueueInv, Live, Taken, ReadExecutor, execVars
<1>5. DrainInv'
  BY DrainSame DEF DrainInv, IInv, Live, Accepted, RunningNow, ReadExecutor
<1>6. SessionInv'
  BY SessionSame DEF Called, NoneSkipped, ReadExecutor
<1>7. FlushInv'
  BY DEF IInv, FlushInv, FlushIsHonest, Live, Over, ReadExecutor, execVars, drainVars, flushVars
<1> QED
  BY <1>1, <1>2, <1>3, <1>4, <1>5, <1>6, <1>7 DEF IInv

LEMMA CreateExecutorKeeps ==
    ASSUME IInv, CreateExecutor
    PROVE  IInv'
<1>1. TypeOK'
  BY DEF IInv, TypeOK, CreateExecutor, drainVars, flushVars
<1>2. ExecInv'
  BY DEF IInv, ExecInv, Live, Over, CreateExecutor, drainVars
<1>3. HostInv'
  BY DEF IInv, HostInv, Live, Over, CreateExecutor, drainVars
<1>4. QueueInv'
  BY DEF IInv, QueueInv, Live, Taken, CreateExecutor
<1>5. DrainInv'
  BY DrainSame DEF DrainInv, IInv, Live, Accepted, RunningNow, CreateExecutor
<1>6. SessionInv'
  BY SessionSame DEF Called, NoneSkipped, CreateExecutor
<1>7. FlushInv'
  BY DEF IInv, FlushInv, FlushIsHonest, Live, Over, CreateExecutor, drainVars, flushVars
<1> QED
  BY <1>1, <1>2, <1>3, <1>4, <1>5, <1>6, <1>7 DEF IInv

\* A task that the host may not queue is refused, or the host runs it itself.
LEMMA NotQueuedKeeps ==
    ASSUME IInv, hpc \in {"submit", "raised"}, NEW v \in {"rejected", "inline"},
           fut' = [fut EXCEPT ![task] = v],
           \/ v = "rejected" /\ shutting /\ task' = task + 1 /\ hpc' = "idle"
           \/ v = "inline" /\ task' = task /\ hpc' = "inline",
           UNCHANGED <<kind, from, seen, session, lock, execVars, tracked, attached, bound, misfiled,
                       drainVars, flushVars>>
    PROVE  IInv'
<1>1. /\ task \in Tasks /\ fut[task] = "none" /\ task + 1 \in 1 .. MaxTasks + 1
      /\ hpc' \in {"idle", "inline"} /\ task' \in {task, task + 1}
  BY Numbers DEF IInv, TypeOK, HostInv
<1>2. /\ fut' \in [Tasks -> {"none", "pending", "running", "ended", "done", "cancelled",
                              "inline", "inlineDone", "rejected"}]
      /\ fut'[task] = v /\ \A t \in Tasks : t # task => fut'[t] = fut[t]
  BY <1>1 DEF IInv, TypeOK
<1>3. /\ \A t \in Tasks : (Live(t)' <=> Live(t)) /\ (Taken(t)' <=> Taken(t))
      /\ \A t \in Tasks : \A w \in {"pending", "running", "ended", "done", "cancelled"} : fut'[t] = w <=> fut[t] = w
  BY <1>1, <1>2 DEF Live, Taken
<1>4. UNCHANGED <<kind, from, seen, session, executor, closed, exiting, queue, tracked, attached, bound, misfiled,
                  shutting, dpc, pending, asked, counted, report, fpc, before>>
  BY DEF execVars, drainVars, flushVars
<1>5. TypeOK'
  <2>1. task' \in 1 .. MaxTasks + 1 /\ hpc' \in {"idle", "inline"} /\ lock' = lock
    BY <1>1, Numbers DEF IInv, TypeOK
  <2> QED
    BY <1>2, <1>4, <2>1 DEF IInv, TypeOK
<1>6. ExecInv'
  BY <1>3, <1>4 DEF IInv, ExecInv, Over
<1>7. HostInv'
  <2>1. CASE v = "rejected"
    BY <1>1, <1>2, <1>3, <1>4, <2>1, Numbers DEF IInv, TypeOK, HostInv, Live, Over
  <2>2. CASE v = "inline"
    BY <1>1, <1>2, <1>3, <1>4, <2>2, Numbers DEF IInv, TypeOK, HostInv, Live, Over
  <2> QED
    BY <2>1, <2>2
<1>8. QueueInv'
  <2>1. \A i \in 1 .. Len(queue) : queue[i] # Sentinel => queue[i] \in Tasks
    BY ItemFacts DEF IInv
  <2> QED
    BY <1>3, <1>4, <2>1 DEF IInv, QueueInv
<1>9. DrainInv'
  <2>1. Accepted' = Accepted /\ RunningNow' = RunningNow
    BY <1>1, <1>2 DEF Accepted, RunningNow
  <2> QED
    BY <1>3, <1>4, <2>1, DrainSame DEF IInv, DrainInv, drainVars
<1>10. SessionInv'
  <2>1. \A t \in Tasks : Called(t)' <=> Called(t)
    BY <1>1, Numbers DEF Called, IInv, TypeOK
  <2>2. NoneSkipped' => NoneSkipped
    BY <1>1, <1>2 DEF NoneSkipped
  <2> QED
    BY <1>3, <1>4, <2>1, <2>2, SessionSame
<1>11. FlushInv'
  <2>1. \A t \in before : t \in Tasks
    BY DEF IInv, TypeOK
  <2> QED
    BY <1>3, <1>4, <2>1 DEF IInv, FlushInv, FlushIsHonest, Over
<1> QED
  BY <1>5, <1>6, <1>7, <1>8, <1>9, <1>10, <1>11 DEF IInv

LEMMA RejectKeeps ==
    ASSUME IInv, Reject
    PROVE  IInv'
BY NotQueuedKeeps DEF Reject, RefusedLate, Finish

LEMMA SubmitTrackedKeeps ==
    ASSUME IInv, SubmitTracked
    PROVE  IInv'
<1>1. TypeOK'
  BY AppendFacts DEF IInv, TypeOK, HostInv, SubmitTracked, drainVars, flushVars
<1>2. ExecInv'
  BY DEF IInv, ExecInv, Live, Over, SubmitTracked, RefusedLate, drainVars
<1>3. HostInv'
  BY Numbers DEF IInv, TypeOK, HostInv, Live, Over, SubmitTracked, RefusedLate, drainVars
<1>4. QueueInv'
  <2>1. /\ task \in Tasks /\ fut[task] = "none" /\ fut' = [fut EXCEPT ![task] = "pending"]
        /\ queue' = Append(queue, task)
    BY DEF SubmitTracked, IInv, TypeOK, HostInv
  <2>2. /\ Len(queue) \in Nat /\ Len(queue') = Len(queue) + 1
        /\ \A i \in 1 .. Len(queue) : queue'[i] = queue[i]
        /\ queue'[Len(queue) + 1] = task
    BY <2>1, AppendFacts DEF IInv
  <2>3. \A i \in 1 .. Len(queue) : queue[i] # Sentinel =>
          queue[i] \in Tasks /\ fut[queue[i]] \in {"pending", "cancelled"} /\ queue[i] < task
    <3>1. \A i \in 1 .. Len(queue) : queue[i] # Sentinel =>
            queue[i] \in Tasks /\ fut[queue[i]] \in {"pending", "cancelled"}
      BY ItemFacts DEF IInv, QueueInv
    <3>2. \A t \in Tasks : fut[t] # "none" => t < task
      BY <2>1, Numbers DEF IInv, HostInv, SubmitTracked
    <3> QED
      BY <3>1, <3>2
  <2>4. \A i \in 1 .. Len(queue') : queue'[i] # Sentinel => fut'[queue'[i]] \in {"pending", "cancelled"}
    <3> TAKE i \in 1 .. Len(queue')
    <3>1. CASE i \in 1 .. Len(queue)
      BY <2>1, <2>2, <2>3, <3>1 DEF IInv, TypeOK
    <3>2. CASE i = Len(queue) + 1
      BY <2>1, <2>2, <3>2 DEF IInv, TypeOK
    <3> QED
      BY <2>2, <3>1, <3>2
  <2>5. \A i, j \in 1 .. Len(queue') :
          i < j /\ queue'[i] # Sentinel /\ queue'[j] # Sentinel => queue'[i] < queue'[j]
    <3> TAKE i, j \in 1 .. Len(queue')
    <3> HAVE i < j /\ queue'[i] # Sentinel /\ queue'[j] # Sentinel
    <3>1. CASE j \in 1 .. Len(queue)
      BY <2>2, <3>1 DEF IInv, QueueInv
    <3>2. CASE j = Len(queue) + 1
      BY <2>2, <2>3, <3>2
    <3> QED
      BY <2>2, <3>1, <3>2
  <2>6. \A t \in Tasks : fut'[t] = "pending" => \E i \in 1 .. Len(queue') : queue'[i] = t
    <3> TAKE t \in Tasks
    <3> HAVE fut'[t] = "pending"
    <3>1. CASE t = task
      BY <2>2, <3>1
    <3>2. CASE t # task
      <4>1. PICK i \in 1 .. Len(queue) : queue[i] = t
        BY <2>1, <3>2 DEF IInv, TypeOK, QueueInv
      <4> QED
        BY <2>2, <4>1
    <3> QED
      BY <3>1, <3>2
  <2>7. \A u, t \in Tasks : u < t /\ Taken(t)' => ~Live(u)'
    <3> TAKE u, t \in Tasks
    <3> HAVE u < t /\ Taken(t)'
    <3>1. Taken(t) /\ t # task
      BY <2>1 DEF Taken, IInv, TypeOK
    <3>2. t < task
      BY <2>1, <3>1, Numbers DEF Taken, IInv, HostInv, SubmitTracked
    <3>3. u # task /\ fut'[u] = fut[u]
      BY <2>1, <3>2, Numbers DEF IInv, TypeOK
    <3> QED
      BY <3>1, <3>3 DEF IInv, QueueInv, Live
  <2> QED
    BY <2>4, <2>5, <2>6, <2>7 DEF QueueInv
<1>5. DrainInv'
  <2>1. ~shutting /\ dpc = "idle" /\ task \in Tasks
    BY DEF SubmitTracked, RefusedLate, IInv, ExecInv, HostInv
  <2> QED
    BY <2>1 DEF IInv, TypeOK, DrainInv, Live, SubmitTracked, HostInv, hostVars, drainVars
<1>6. SessionInv'
  <2>1. /\ task \in Tasks /\ fut[task] = "none" /\ fut' = [fut EXCEPT ![task] = "pending"]
        /\ hpc = "submit" /\ hpc' = "tracked"
        /\ UNCHANGED <<task, kind, from, session, bound, misfiled>>
    BY Numbers DEF SubmitTracked, IInv, TypeOK, HostInv
  <2>2. \A t \in Tasks : Called(t)' <=> Called(t)
    BY <2>1 DEF Called
  <2>3. (\A t \in Tasks : fut'[t] = "done" <=> fut[t] = "done") /\ (NoneSkipped' => NoneSkipped)
    BY <2>1 DEF NoneSkipped, IInv, TypeOK
  <2> QED
    BY <2>1, <2>2, <2>3, SessionSame
<1>7. FlushInv'
  <2>1. /\ task \in Tasks /\ fut[task] = "none" /\ fut' = [fut EXCEPT ![task] = "pending"]
        /\ queue' = Append(queue, task) /\ ~shutting
        /\ UNCHANGED <<executor, shutting, exiting, fpc, before>>
    BY Numbers DEF SubmitTracked, RefusedLate, IInv, TypeOK, HostInv, drainVars, flushVars
  <2>2. /\ Len(queue) \in Nat /\ Len(queue') = Len(queue) + 1
        /\ \A i \in 1 .. Len(queue) : queue'[i] = queue[i]
        /\ queue'[Len(queue) + 1] = task /\ task # Sentinel
    BY <2>1, AppendFacts, Numbers DEF IInv, Sentinel
  <2>3. task \notin before /\ \A t \in before : fut'[t] = fut[t]
    BY <2>1 DEF IInv, TypeOK, FlushInv, Live, Over
  <2>4. \A i \in 1 .. Len(queue') : i \in 1 .. Len(queue) \/ i = Len(queue) + 1
    BY <2>2
  <2>5. /\ fpc' \in {"idle", "submit"} => \A i \in 1 .. Len(queue') : queue'[i] # Sentinel
        /\ \A i, j \in 1 .. Len(queue') : queue'[i] = Sentinel /\ queue'[j] = Sentinel => i = j
    BY <2>1, <2>2, <2>4 DEF IInv, FlushInv
  <2>6. ASSUME fpc = "waiting"
        PROVE  \E i \in 1 .. Len(queue') :
                  /\ queue'[i] = Sentinel
                  /\ \A t \in before' : fut'[t] = "pending" => \E j \in 1 .. i - 1 : queue'[j] = t
    <3>1. PICK i \in 1 .. Len(queue) :
            /\ queue[i] = Sentinel
            /\ \A t \in before : fut[t] = "pending" => \E j \in 1 .. i - 1 : queue[j] = t
      BY <2>6 DEF IInv, FlushInv
    <3>2. i \in 1 .. Len(queue') /\ \A j \in 1 .. i - 1 : j \in 1 .. Len(queue)
      BY <2>2
    <3> QED
      BY <2>1, <2>2, <2>3, <3>1, <3>2
  <2>7. FlushIsHonest'
    BY <2>1, <2>3 DEF IInv, FlushInv, FlushIsHonest, Over
  <2> QED
    BY <2>1, <2>3, <2>5, <2>6, <2>7 DEF IInv, FlushInv, Live, Over
<1> QED
  BY <1>1, <1>2, <1>3, <1>4, <1>5, <1>6, <1>7 DEF IInv

LEMMA ReleaseLockKeeps ==
    ASSUME IInv, ReleaseLock
    PROVE  IInv'
<1>1. TypeOK'
  BY DEF IInv, TypeOK, ReleaseLock, execVars, drainVars, flushVars
<1>2. ExecInv'
  BY DEF IInv, ExecInv, Live, Over, ReleaseLock, execVars, drainVars
<1>3. HostInv'
  BY DEF IInv, HostInv, Live, Over, ReleaseLock, drainVars
<1>4. QueueInv'
  BY DEF IInv, QueueInv, Live, Taken, ReleaseLock, execVars
<1>5. DrainInv'
  BY DrainSame DEF DrainInv, IInv, Live, Accepted, RunningNow, ReleaseLock
<1>6. SessionInv'
  BY SessionSame DEF Called, NoneSkipped, ReleaseLock
<1>7. FlushInv'
  BY DEF IInv, FlushInv, FlushIsHonest, Live, Over, ReleaseLock, execVars, drainVars, flushVars
<1> QED
  BY <1>1, <1>2, <1>3, <1>4, <1>5, <1>6, <1>7 DEF IInv

LEMMA AttachCallbackKeeps ==
    ASSUME IInv, AttachCallback
    PROVE  IInv'
<1>a. /\ task \in Tasks /\ task' = task + 1 /\ hpc = "attach" /\ hpc' = "idle" /\ lock' = "free"
      /\ tracked' \in SUBSET Tasks /\ attached' \in SUBSET Tasks
      /\ \A t \in Tasks : fut[t] \notin Over => (t \in tracked' <=> t \in tracked)
  BY DEF AttachCallback, Finish, IInv, TypeOK, HostInv
<1>b. UNCHANGED <<kind, from, seen, session, executor, closed, exiting, queue, fut, bound, misfiled,
                  shutting, dpc, pending, asked, counted, report, fpc, before>>
  BY DEF AttachCallback, execVars, drainVars, flushVars
<1>c. /\ task + 1 \in 1 .. MaxTasks + 1
      /\ \A t \in Tasks : Called(t)' <=> Called(t)
  BY <1>a, Numbers DEF Called
<1>1. TypeOK'
  BY <1>a, <1>b, <1>c DEF IInv, TypeOK
<1>2. ExecInv'
  BY <1>b DEF IInv, ExecInv, Live, Over
<1>3. HostInv'
  BY <1>a, <1>b, Numbers DEF IInv, HostInv, Live, Over
<1>4. QueueInv'
  BY <1>b DEF IInv, QueueInv, Live, Taken
<1>5. DrainInv'
  BY <1>a, <1>b, DrainSame DEF IInv, DrainInv, Live, Over, Accepted, RunningNow, drainVars
<1>6. SessionInv'
  BY <1>b, <1>c, SessionSame DEF NoneSkipped
<1>7. FlushInv'
  BY <1>b DEF IInv, FlushInv, FlushIsHonest, Live, Over
<1> QED
  BY <1>1, <1>2, <1>3, <1>4, <1>5, <1>6, <1>7 DEF IInv

LEMMA SubmitInlineKeeps ==
    ASSUME IInv, SubmitInline
    PROVE  IInv'
BY NotQueuedKeeps DEF SubmitInline, RefusedLate

LEMMA SubmitRaisesKeeps ==
    ASSUME IInv, SubmitRaises
    PROVE  IInv'
<1>1. TypeOK'
  BY DEF IInv, TypeOK, SubmitRaises, execVars, drainVars, flushVars
<1>2. ExecInv'
  BY DEF IInv, ExecInv, Live, Over, SubmitRaises, execVars, drainVars
<1>3. HostInv'
  BY DEF IInv, HostInv, Live, Over, SubmitRaises, drainVars
<1>4. QueueInv'
  BY DEF IInv, QueueInv, Live, Taken, SubmitRaises, execVars
<1>5. DrainInv'
  BY DrainSame DEF DrainInv, IInv, Live, Accepted, RunningNow, SubmitRaises
<1>6. SessionInv'
  BY SessionSame DEF Called, NoneSkipped, SubmitRaises
<1>7. FlushInv'
  BY DEF IInv, FlushInv, FlushIsHonest, Live, Over, SubmitRaises, execVars, drainVars, flushVars
<1> QED
  BY <1>1, <1>2, <1>3, <1>4, <1>5, <1>6, <1>7 DEF IInv

LEMMA AfterRaiseKeeps ==
    ASSUME IInv, AfterRaise
    PROVE  IInv'
BY NotQueuedKeeps DEF AfterRaise, Finish

LEMMA InlineEndsKeeps ==
    ASSUME IInv, InlineEnds
    PROVE  IInv'
<1>a. /\ task \in Tasks /\ fut[task] = "inline" /\ task' = task + 1 /\ task + 1 \in 1 .. MaxTasks + 1
      /\ hpc = "inline" /\ hpc' = "idle"
      /\ fut' \in [Tasks -> {"none", "pending", "running", "ended", "done", "cancelled",
                              "inline", "inlineDone", "rejected"}]
      /\ fut'[task] = "inlineDone" /\ \A t \in Tasks : t # task => fut'[t] = fut[t]
  BY Numbers DEF InlineEnds, Finish, IInv, TypeOK, HostInv
<1>b. UNCHANGED <<kind, from, seen, session, lock, executor, closed, exiting, queue, tracked, attached,
                  shutting, dpc, pending, asked, counted, report, fpc, before>>
  BY DEF InlineEnds, execVars, drainVars, flushVars
<1>c. /\ \A t \in Tasks : (Live(t)' <=> Live(t)) /\ (Taken(t)' <=> Taken(t))
      /\ \A t \in Tasks : \A w \in {"pending", "running", "ended", "done", "cancelled"} : fut'[t] = w <=> fut[t] = w
  BY <1>a DEF Live, Taken
<1>1. TypeOK'
  <2>1. from[task] = Cardinality(EarlierBoundaries(task))
    BY <1>a DEF IInv, SessionInv, Called
  <2>2. from[task] + 1 \in 0 .. MaxTasks
    BY <1>a, <2>1, EarlierCount, Numbers
  <2>3. bound' \in 0 .. MaxTasks /\ misfiled' \in BOOLEAN
    BY <2>2 DEF InlineEnds, IInv, TypeOK
  <2> QED
    BY <1>a, <1>b, <2>3 DEF IInv, TypeOK
<1>2. ExecInv'
  BY <1>b, <1>c DEF IInv, ExecInv, Over
<1>3. HostInv'
  <2>1. \A t \in Tasks : /\ t >= task' <=> t > task
                         /\ t > task' => t > task
                         /\ t < task' <=> t < task \/ t = task
    BY <1>a, Numbers
  <2>2. \A t \in Tasks : /\ t > task => t # task
                         /\ fut'[t] = "rejected" <=> fut[t] = "rejected"
    BY <1>a, Numbers
  <2> QED
    BY <1>a, <1>b, <1>c, <2>1, <2>2 DEF IInv, HostInv, Live, Over
<1>4. QueueInv'
  <2>1. \A i \in 1 .. Len(queue) : queue[i] # Sentinel => queue[i] \in Tasks
    BY ItemFacts DEF IInv
  <2> QED
    BY <1>b, <1>c, <2>1 DEF IInv, QueueInv
<1>5. DrainInv'
  <2>1. Accepted' = Accepted /\ RunningNow' = RunningNow
    BY <1>a DEF Accepted, RunningNow
  <2> QED
    BY <1>b, <1>c, <2>1, DrainSame DEF IInv, DrainInv, drainVars
<1>6. SessionInv'
  <2>1. UNCHANGED <<kind, from, session>> /\ \A t \in Tasks : Called(t)' <=> Called(t)
    BY <1>a, <1>b, Numbers DEF Called
  <2>2. CalledBoundaries' = CalledBoundaries /\ \A t \in Tasks : EarlierBoundaries(t)' = EarlierBoundaries(t)
    BY <2>1 DEF CalledBoundaries, EarlierBoundaries
  <2>3. ~NoneSkipped'
    BY <1>a DEF NoneSkipped
  <2> QED
    BY <2>1, <2>2, <2>3 DEF IInv, SessionInv
<1>7. FlushInv'
  <2>1. \A t \in before : t \in Tasks
    BY DEF IInv, TypeOK
  <2> QED
    BY <1>b, <1>c, <2>1 DEF IInv, FlushInv, FlushIsHonest, Over
<1> QED
  BY <1>1, <1>2, <1>3, <1>4, <1>5, <1>6, <1>7 DEF IInv

LEMMA TakeKeeps ==
    ASSUME IInv, Workers = 1, Take
    PROVE  IInv'
<1> DEFINE head == Head(queue)
<1>0. /\ queue # <<>> /\ queue' = Tail(queue)
      /\ fut' = IF head # Sentinel /\ fut[head] = "pending" THEN [fut EXCEPT ![head] = "running"] ELSE fut
      /\ fpc' = IF head = Sentinel /\ fpc = "waiting" THEN "true" ELSE fpc
      /\ UNCHANGED <<hostVars, lock, executor, closed, exiting, tracked, attached, bound, misfiled,
                     drainVars, before>>
      /\ \A t \in Tasks : fut[t] \notin {"running", "ended"}
  BY FreeFacts DEF Take
<1>a. /\ queue' \in Seq(Tasks \cup {Sentinel})
      /\ Len(queue) \in Nat /\ Len(queue) >= 1 /\ Len(queue') = Len(queue) - 1
      /\ head = queue[1] /\ head \in Tasks \cup {Sentinel}
      /\ \A i \in 1 .. Len(queue) - 1 : queue'[i] = queue[i + 1]
  BY <1>0, TailFacts, ItemFacts DEF IInv
<1> HIDE DEF head
<1>b. /\ fut' \in [Tasks -> {"none", "pending", "running", "ended", "done", "cancelled",
                              "inline", "inlineDone", "rejected"}]
      /\ \A t \in Tasks : t # head => fut'[t] = fut[t]
      /\ head \in Tasks => fut'[head] = IF fut[head] = "pending" THEN "running" ELSE fut[head]
      /\ head \in Tasks <=> head # Sentinel
  BY <1>0, <1>a, Numbers DEF IInv, TypeOK, Sentinel
<1>c. \A t \in Tasks : /\ Live(t)' <=> Live(t)
                       /\ fut'[t] = "pending" => fut[t] = "pending" /\ t # head
                       /\ fut'[t] \in {"running", "ended"} => t = head /\ fut[t] = "pending"
                       /\ \A v \in {"none", "done", "cancelled", "inline", "inlineDone", "rejected"} :
                             fut'[t] = v <=> fut[t] = v
  BY <1>0, <1>b DEF Live
<1>1. TypeOK'
  BY <1>0, <1>a, <1>b DEF IInv, TypeOK, hostVars, drainVars
<1>2. ExecInv'
  BY <1>0, <1>c DEF IInv, ExecInv, Over, hostVars, drainVars
<1>3. HostInv'
  BY <1>0, <1>b, <1>c DEF IInv, TypeOK, HostInv, Live, Over, hostVars, drainVars
<1>4. QueueInv'
  <2>1. \A i \in 1 .. Len(queue') :
          /\ i + 1 \in 1 .. Len(queue) /\ queue'[i] = queue[i + 1]
          /\ queue[i + 1] # Sentinel => queue[i + 1] \in Tasks /\ queue[i + 1] # head
    <3> TAKE i \in 1 .. Len(queue')
    <3>1. i + 1 \in 1 .. Len(queue) /\ 1 < i + 1 /\ 1 \in 1 .. Len(queue) /\ queue'[i] = queue[i + 1]
      BY <1>a
    <3>2. queue[i + 1] \in Tasks \cup {Sentinel}
      BY <3>1, ItemFacts DEF IInv
    <3>3. queue[i + 1] # Sentinel /\ head # Sentinel => head < queue[i + 1]
      BY <1>a, <3>1 DEF IInv, QueueInv
    <3>4. queue[i + 1] # Sentinel => queue[i + 1] # head
      BY <1>a, <3>2, <3>3, Numbers
    <3> QED
      BY <3>1, <3>2, <3>4
  <2>2. \A i \in 1 .. Len(queue') : queue'[i] # Sentinel => fut'[queue'[i]] \in {"pending", "cancelled"}
    BY <1>b, <2>1 DEF IInv, QueueInv
  <2>3. \A i, j \in 1 .. Len(queue') :
          i < j /\ queue'[i] # Sentinel /\ queue'[j] # Sentinel => queue'[i] < queue'[j]
    <3> TAKE i, j \in 1 .. Len(queue')
    <3>1. i < j => i + 1 < j + 1
      BY <1>a
    <3> QED
      BY <2>1, <3>1 DEF IInv, QueueInv
  <2>4. \A t \in Tasks : fut'[t] = "pending" => \E i \in 1 .. Len(queue') : queue'[i] = t
    <3> TAKE t \in Tasks
    <3> HAVE fut'[t] = "pending"
    <3>1. PICK i \in 1 .. Len(queue) : queue[i] = t
      BY <1>c DEF IInv, QueueInv
    <3>2. i # 1 /\ i - 1 \in 1 .. Len(queue') /\ (i - 1) + 1 = i
      BY <1>a, <1>c, <3>1
    <3> QED
      BY <1>a, <3>1, <3>2
  <2>5. \A u, t \in Tasks : u < t /\ Taken(t)' => ~Live(u)'
    <3> TAKE u, t \in Tasks
    <3> HAVE u < t /\ Taken(t)'
    <3>1. CASE Taken(t)
      BY <1>c, <3>1 DEF IInv, QueueInv
    <3>2. CASE ~Taken(t)
      <4>1. t = head
        BY <1>b, <3>2 DEF Taken
      <4>2. Live(u) => fut[u] = "pending"
        BY <1>0 DEF Live
      <4>3. ASSUME fut[u] = "pending"
            PROVE  FALSE
        <5>1. PICK i \in 1 .. Len(queue) : queue[i] = u
          BY <4>3 DEF IInv, QueueInv
        <5>2. i # 1 /\ 1 < i /\ 1 \in 1 .. Len(queue)
          BY <1>a, <4>1, <5>1, Numbers
        <5>3. queue[1] < queue[i]
          BY <1>a, <1>b, <4>1, <5>1, <5>2, Numbers DEF IInv, QueueInv, Sentinel
        <5> QED
          BY <1>a, <4>1, <5>1, <5>3, Numbers
      <4> QED
        BY <1>c, <4>2, <4>3
    <3> QED
      BY <3>1, <3>2
  <2> QED
    BY <2>2, <2>3, <2>4, <2>5 DEF QueueInv
<1>5. DrainInv'
  <2>1. \A t \in Tasks : Live(t)' => Live(t) /\ t \in tracked'
    BY <1>0, <1>c DEF IInv, DrainInv
  <2>2. dpc = "done" => \A t \in Tasks : fut[t] # "pending"
    BY DEF IInv, DrainInv
  <2>3. dpc = "done" => Accepted' \subseteq Accepted /\ RunningNow' \subseteq RunningNow
    BY <1>b, <1>c, <2>2 DEF Accepted, RunningNow
  <2>4. UNCHANGED drainVars /\ UNCHANGED kind
    BY <1>0 DEF hostVars
  <2> QED
    BY <1>c, <2>1, <2>3, <2>4, DrainSame
<1>6. SessionInv'
  <2>1. NoneSkipped' => NoneSkipped
    BY <1>c DEF NoneSkipped
  <2>2. UNCHANGED <<kind, from, session, bound, misfiled>> /\ \A t \in Tasks : Called(t)' <=> Called(t)
    BY <1>0 DEF Called, hostVars
  <2> QED
    BY <1>c, <2>1, <2>2, SessionSame
<1>7. FlushInv'
  <2>1. \A i \in 1 .. Len(queue') : i + 1 \in 1 .. Len(queue) /\ queue'[i] = queue[i + 1]
    BY <1>a
  <2>2. UNCHANGED <<executor, shutting, exiting, before>>
    BY <1>0 DEF drainVars
  <2>3. \A t \in before' : Live(t)' \/ fut'[t] \in Over'
    BY <1>c, <2>2 DEF IInv, TypeOK, FlushInv, Over
  <2>4. /\ fpc' \in {"idle", "submit"} => fpc' = fpc
        /\ fpc' = "waiting" => fpc = "waiting" /\ head # Sentinel
    BY <1>0
  <2>5. fpc' \in {"idle", "submit"} => \A i \in 1 .. Len(queue') : queue'[i] # Sentinel
    BY <2>1, <2>4 DEF IInv, FlushInv
  <2>6. \A i, j \in 1 .. Len(queue') : queue'[i] = Sentinel /\ queue'[j] = Sentinel => i = j
    <3> TAKE i, j \in 1 .. Len(queue')
    <3>1. queue'[i] = Sentinel /\ queue'[j] = Sentinel => i + 1 = j + 1
      BY <2>1 DEF IInv, FlushInv
    <3> QED
      BY <1>a, <3>1
  <2>7. ASSUME fpc' = "waiting"
        PROVE  \E i \in 1 .. Len(queue') :
                  /\ queue'[i] = Sentinel
                  /\ \A t \in before' : fut'[t] = "pending" => \E j \in 1 .. i - 1 : queue'[j] = t
    <3>1. PICK i \in 1 .. Len(queue) :
            /\ queue[i] = Sentinel
            /\ \A t \in before : fut[t] = "pending" => \E j \in 1 .. i - 1 : queue[j] = t
      BY <2>4, <2>7 DEF IInv, FlushInv
    <3>2. i # 1 /\ i - 1 \in 1 .. Len(queue') /\ (i - 1) + 1 = i
      BY <1>a, <2>4, <2>7, <3>1
    <3>3. ASSUME NEW t \in before, fut'[t] = "pending"
          PROVE  \E j \in 1 .. (i - 1) - 1 : queue'[j] = t
      <4>1. t \in Tasks /\ fut[t] = "pending" /\ t # head
        BY <1>c, <3>3 DEF IInv, TypeOK
      <4>2. PICK j \in 1 .. i - 1 : queue[j] = t
        BY <3>1, <4>1
      <4>3. j # 1 /\ j - 1 \in 1 .. (i - 1) - 1 /\ j - 1 \in 1 .. Len(queue) - 1 /\ (j - 1) + 1 = j
        BY <1>a, <3>2, <4>1, <4>2
      <4> QED
        BY <1>a, <4>2, <4>3
    <3> QED
      BY <1>a, <2>2, <3>1, <3>2, <3>3
  <2>8. FlushIsHonest'
    <3>1. CASE fpc' = "true" /\ fpc # "true"
      <4>1. head = Sentinel /\ fpc = "waiting"
        BY <1>0, <3>1
      <4>2. PICK i \in 1 .. Len(queue) :
              /\ queue[i] = Sentinel
              /\ \A t \in before : fut[t] = "pending" => \E j \in 1 .. i - 1 : queue[j] = t
        BY <4>1 DEF IInv, FlushInv
      <4>3. i = 1
        <5>1. 1 \in 1 .. Len(queue) /\ queue[1] = Sentinel
          BY <1>a, <4>1
        <5> QED
          BY <4>2, <5>1 DEF IInv, FlushInv
      <4>4. \A t \in before : t \in Tasks /\ fut[t] # "pending"
        BY <4>2, <4>3 DEF IInv, TypeOK
      <4>5. \A t \in before : fut[t] \in Over
        BY <1>0, <4>4 DEF IInv, FlushInv, Live
      <4> QED
        BY <1>c, <2>2, <4>4, <4>5 DEF FlushIsHonest, Over
    <3>2. CASE ~(fpc' = "true" /\ fpc # "true")
      BY <1>c, <2>2, <3>2 DEF IInv, TypeOK, FlushInv, FlushIsHonest, Over
    <3> QED
      BY <3>1, <3>2
  <2>9. fpc' \in {"submit", "waiting"} => executor' = "open" \/ shutting'
    BY <2>2, <2>4 DEF IInv, FlushInv
  <2> QED
    BY <2>3, <2>5, <2>6, <2>7, <2>8, <2>9 DEF FlushInv
<1> QED
  BY <1>1, <1>2, <1>3, <1>4, <1>5, <1>6, <1>7 DEF IInv

LEMMA EndSessionKeeps ==
    ASSUME IInv, NEW t \in Tasks, EndSession(t)
    PROVE  IInv'
<1>1. TypeOK'
  <2>1. fut' \in [Tasks -> {"none", "pending", "running", "ended", "done", "cancelled",
                            "inline", "inlineDone", "rejected"}]
    BY DEF EndSession, IInv, TypeOK
  <2>2. misfiled' \in BOOLEAN
    BY DEF EndSession, IInv, TypeOK
  <2> QED
    BY <2>1, <2>2 DEF EndSession, IInv, TypeOK, hostVars, execVars, drainVars, flushVars
<1>2. ExecInv'
  BY DEF IInv, ExecInv, Live, Over, EndSession, hostVars, execVars, drainVars
<1>3. HostInv'
  BY Numbers DEF IInv, TypeOK, HostInv, Live, Over, EndSession, hostVars, drainVars
<1>4. QueueInv'
  BY DEF IInv, TypeOK, QueueInv, Live, Taken, EndSession, execVars
<1>5. DrainInv'
  BY DrainSame DEF DrainInv, IInv, Live, Accepted, RunningNow, Over, EndSession, hostVars
<1>6. SessionInv'
  <2>1. /\ fut[t] = "running" /\ fut' = [fut EXCEPT ![t] = "ended"]
        /\ misfiled' = (misfiled \/ bound # from[t])
        /\ UNCHANGED <<kind, from, session, bound, task, hpc>>
    BY DEF EndSession, hostVars
  <2>2. NoneSkipped' => NoneSkipped /\ ~misfiled'
    <3>1. NoneSkipped' => NoneSkipped
      BY <2>1 DEF NoneSkipped, IInv, TypeOK
    <3> QED
      BY <2>1, <3>1, BoundaryFacts DEF IInv, SessionInv
  <2>3. /\ CalledBoundaries' = CalledBoundaries
        /\ \A u \in Tasks : Called(u)' <=> Called(u)
        /\ \A u \in Tasks : EarlierBoundaries(u)' = EarlierBoundaries(u)
    BY <2>1 DEF CalledBoundaries, EarlierBoundaries, Called
  <2>4. DoneBoundaries' = DoneBoundaries
    BY <2>1 DEF DoneBoundaries, IInv, TypeOK
  <2> QED
    BY <2>1, <2>2, <2>3, <2>4 DEF IInv, SessionInv
<1>7. FlushInv'
  BY DEF IInv, TypeOK, FlushInv, FlushIsHonest, Live, Over, EndSession, execVars, drainVars, flushVars
<1> QED
  BY <1>1, <1>2, <1>3, <1>4, <1>5, <1>6, <1>7 DEF IInv

LEMMA TaskEndsKeeps ==
    ASSUME IInv, NEW t \in Tasks, TaskEnds(t)
    PROVE  IInv'
<1>1. TypeOK'
  <2>1. fut[t] = "ended" => from[t] + 1 \in 0 .. MaxTasks
    <3>1. fut[t] # "none" => Called(t)
      BY Numbers DEF IInv, TypeOK, HostInv, Called
    <3>2. Called(t) => from[t] = Cardinality(EarlierBoundaries(t))
      BY DEF IInv, SessionInv
    <3> QED
      BY <3>1, <3>2, EarlierCount, Numbers
  <2> QED
    BY <2>1 DEF TaskEnds, IInv, TypeOK, hostVars, execVars, drainVars, flushVars
<1>2. ExecInv'
  BY DEF IInv, ExecInv, Live, Over, TaskEnds, hostVars, execVars, drainVars
<1>3. HostInv'
  <2>1. /\ fut[t] \in {"running", "ended"} /\ fut'[t] = "done" /\ \A u \in Tasks : u # t => fut'[u] = fut[u]
        /\ UNCHANGED <<task, kind, hpc, shutting>>
    BY DEF TaskEnds, IInv, TypeOK, hostVars, drainVars
  <2>2. /\ \A u \in Tasks : \A v \in {"none", "inline", "rejected"} : fut'[u] = v <=> fut[u] = v
        /\ \A u \in Tasks : (Live(u) \/ fut[u] \in Over)' <=> (Live(u) \/ fut[u] \in Over)
        /\ \A u \in Tasks : fut'[u] = "ended" => fut[u] = "ended"
    BY <2>1 DEF Live, Over
  <2>3. hpc # "idle" => task \in Tasks
    BY DEF IInv, HostInv
  <2> QED
    BY <2>1, <2>2, <2>3 DEF IInv, HostInv
<1>4. QueueInv'
  BY DEF IInv, TypeOK, QueueInv, Live, Taken, TaskEnds, execVars
<1>5. DrainInv'
  BY DrainSame DEF DrainInv, IInv, Live, Accepted, RunningNow, Over, TaskEnds, hostVars
<1>6. SessionInv'
  <2>1. /\ fut[t] \in {"running", "ended"} /\ fut' = [fut EXCEPT ![t] = "done"]
        /\ UNCHANGED <<kind, from, session, misfiled, task, hpc>>
    BY DEF TaskEnds, hostVars
  <2>2. /\ CalledBoundaries' = CalledBoundaries
        /\ \A u \in Tasks : Called(u)' <=> Called(u)
        /\ \A u \in Tasks : EarlierBoundaries(u)' = EarlierBoundaries(u)
    BY <2>1 DEF CalledBoundaries, EarlierBoundaries, Called
  <2>3. NoneSkipped' => NoneSkipped
    BY <2>1 DEF NoneSkipped, IInv, TypeOK
  <2>4. ASSUME NoneSkipped
        PROVE  bound' = Cardinality(DoneBoundaries') /\ ~misfiled'
    <3>1. CASE kind[t] = "boundary"
      <4>1. fut[t] = "ended" /\ bound' = from[t] + 1
        BY <3>1 DEF TaskEnds
      <4>2. DoneBoundaries' = DoneBoundaries \cup {t}
        BY <2>1, <3>1 DEF DoneBoundaries, IInv, TypeOK
      <4>3. t \notin DoneBoundaries /\ DoneBoundaries \subseteq Tasks
        BY <2>1 DEF DoneBoundaries
      <4>4. bound = Cardinality(DoneBoundaries) /\ bound = from[t] /\ ~misfiled
        BY <2>1, <2>4, BoundaryFacts DEF IInv, SessionInv
      <4> QED
        BY <2>1, <4>1, <4>2, <4>3, <4>4, OneMore
    <3>2. CASE kind[t] # "boundary"
      <4>1. bound' = bound
        BY <3>2 DEF TaskEnds, IInv, HostInv
      <4>2. DoneBoundaries' = DoneBoundaries
        BY <2>1, <3>2 DEF DoneBoundaries, IInv, TypeOK
      <4> QED
        BY <2>1, <2>4, <4>1, <4>2 DEF IInv, SessionInv
    <3> QED
      BY <3>1, <3>2
  <2> QED
    BY <2>1, <2>2, <2>3, <2>4 DEF IInv, SessionInv
<1>7. FlushInv'
  BY DEF IInv, TypeOK, FlushInv, FlushIsHonest, Live, Over, TaskEnds, execVars, drainVars, flushVars
<1> QED
  BY <1>1, <1>2, <1>3, <1>4, <1>5, <1>6, <1>7 DEF IInv

LEMMA ForgetKeeps ==
    ASSUME IInv, NEW t \in Tasks, Forget(t)
    PROVE  IInv'
<1>1. TypeOK'
  BY DEF IInv, TypeOK, Forget, hostVars, execVars, drainVars, flushVars
<1>2. ExecInv'
  BY DEF IInv, ExecInv, Live, Over, Forget, hostVars, execVars, drainVars
<1>3. HostInv'
  BY DEF IInv, HostInv, Live, Over, Forget, hostVars, drainVars
<1>4. QueueInv'
  BY DEF IInv, QueueInv, Live, Taken, Forget, execVars
<1>5. DrainInv'
  BY DrainSame DEF DrainInv, IInv, Live, Accepted, RunningNow, Over, Forget, hostVars
<1>6. SessionInv'
  BY SessionSame DEF Called, NoneSkipped, Forget, hostVars
<1>7. FlushInv'
  BY DEF IInv, FlushInv, FlushIsHonest, Live, Over, Forget, execVars, drainVars, flushVars
<1> QED
  BY <1>1, <1>2, <1>3, <1>4, <1>5, <1>6, <1>7 DEF IInv

LEMMA InterpreterExitsKeeps ==
    ASSUME IInv, InterpreterExits
    PROVE  IInv'
<1>1. TypeOK'
  BY DEF IInv, TypeOK, InterpreterExits, hostVars, drainVars, flushVars
<1>2. ExecInv'
  BY DEF IInv, ExecInv, Live, Over, InterpreterExits, hostVars, drainVars
<1>3. HostInv'
  BY DEF IInv, HostInv, Live, Over, InterpreterExits, hostVars, drainVars
<1>4. QueueInv'
  BY DEF IInv, QueueInv, Live, Taken, InterpreterExits
<1>5. DrainInv'
  BY DrainSame DEF DrainInv, IInv, Live, Accepted, RunningNow, InterpreterExits, hostVars
<1>6. SessionInv'
  BY SessionSame DEF Called, NoneSkipped, InterpreterExits, hostVars
<1>7. FlushInv'
  BY DEF IInv, FlushInv, FlushIsHonest, Live, Over, InterpreterExits, drainVars, flushVars
<1> QED
  BY <1>1, <1>2, <1>3, <1>4, <1>5, <1>6, <1>7 DEF IInv

LEMMA DrainSnapshotKeeps ==
    ASSUME IInv, DrainSnapshot
    PROVE  IInv'
<1>1. TypeOK'
  <2>1. {t \in tracked : fut[t] \notin Over} \subseteq Tasks
    BY DEF IInv, TypeOK
  <2>2. Cardinality({t \in tracked : fut[t] \notin Over}) \in 0 .. MaxTasks
    BY <2>1, TasksCount, Numbers
  <2>3. /\ report'.status \in {"draining", "drained"} /\ report'.writes = 0 /\ report'.prefetches = 0
        /\ report'.active \in 0 .. MaxTasks
    BY <2>2 DEF DrainSnapshot, NoReport
  <2>4. /\ report'.status \in {"not_started", "draining", "drained", "timed_out"}
        /\ {report'.writes, report'.prefetches, report'.active} \subseteq 0 .. MaxTasks
    BY <2>3, Numbers
  <2>5. pending' \in SUBSET Tasks /\ dpc' \in {"close", "done"} /\ shutting' = TRUE /\ executor' = "none"
    BY DEF DrainSnapshot, IInv, TypeOK
  <2> QED
    BY <2>4, <2>5 DEF DrainSnapshot, IInv, TypeOK, hostVars, flushVars
<1>2. ExecInv'
  BY DEF IInv, ExecInv, Live, Over, DrainSnapshot, hostVars
<1>3. HostInv'
  BY DEF IInv, HostInv, Live, Over, DrainSnapshot, hostVars
<1>4. QueueInv'
  BY DEF IInv, QueueInv, Live, Taken, DrainSnapshot
<1>5. DrainInv'
  <2>1. /\ dpc = "idle" /\ pending' = tracked /\ UNCHANGED <<kind, fut, tracked, asked, counted>>
        /\ ~shutting /\ counted = {} /\ asked = {}
    BY DEF DrainSnapshot, hostVars, IInv, ExecInv, DrainInv
  <2>2. CASE executor = "open"
    <3>1. dpc' = "close"
      BY <2>2 DEF DrainSnapshot
    <3> QED
      BY <2>1, <3>1 DEF IInv, DrainInv, Live
  <2>3. CASE executor # "open"
    <3>1. dpc' = "done" /\ report'.writes = 0 /\ report'.prefetches = 0
          /\ report'.active = Cardinality({t \in tracked : fut[t] \notin Over})
      BY <2>3 DEF DrainSnapshot, NoReport
    <3>2. \A t \in Tasks : ~Live(t) /\ fut[t] \notin Over
      BY <2>1, <2>3 DEF IInv, TypeOK, ExecInv
    <3>3. RunningNow' = {} /\ Accepted' = {}
      BY <2>1, <3>2 DEF RunningNow, Accepted, Live, Over, IInv, TypeOK
    <3>4. {t \in counted' : kind'[t] # "prefetch"} = {} /\ {t \in counted' : kind'[t] = "prefetch"} = {}
      BY <2>1
    <3>5. Cardinality({t \in tracked : fut[t] \notin Over}) \in Nat
      BY TasksCount DEF IInv, TypeOK
    <3>6. report'.active >= Cardinality(RunningNow')
      BY <3>1, <3>3, <3>5, FS_EmptySet
    <3> QED
      BY <2>1, <3>1, <3>2, <3>3, <3>4, <3>6, FS_EmptySet DEF IInv, DrainInv, Live
  <2> QED
    BY <2>2, <2>3
<1>6. SessionInv'
  BY SessionSame DEF Called, NoneSkipped, DrainSnapshot, hostVars
<1>7. FlushInv'
  BY DEF IInv, FlushInv, FlushIsHonest, Live, Over, DrainSnapshot, flushVars
<1> QED
  BY <1>1, <1>2, <1>3, <1>4, <1>5, <1>6, <1>7 DEF IInv

LEMMA DrainCloseKeeps ==
    ASSUME IInv, DrainClose
    PROVE  IInv'
<1>1. TypeOK'
  BY DEF IInv, TypeOK, DrainClose, hostVars, flushVars
<1>2. ExecInv'
  BY DEF IInv, ExecInv, Live, Over, DrainClose, hostVars
<1>3. HostInv'
  BY DEF IInv, HostInv, Live, Over, DrainClose, hostVars
<1>4. QueueInv'
  BY DEF IInv, QueueInv, Live, Taken, DrainClose
<1>5. DrainInv'
  BY DEF IInv, TypeOK, DrainInv, Live, Accepted, RunningNow, DrainClose, hostVars, execVars, drainVars, flushVars
<1>6. SessionInv'
  BY SessionSame DEF Called, NoneSkipped, DrainClose, hostVars
<1>7. FlushInv'
  BY DEF IInv, FlushInv, FlushIsHonest, Live, Over, DrainClose, flushVars
<1> QED
  BY <1>1, <1>2, <1>3, <1>4, <1>5, <1>6, <1>7 DEF IInv

LEMMA DrainWaitKeeps ==
    ASSUME IInv, DrainWait
    PROVE  IInv'
<1>1. TypeOK'
  <2>1. pending' \in SUBSET Tasks /\ dpc' = "cancel"
    BY DEF DrainWait, IInv, TypeOK
  <2> QED
    BY <2>1 DEF DrainWait, IInv, TypeOK, hostVars, execVars, flushVars
<1>2. ExecInv'
  BY DEF IInv, ExecInv, Live, Over, DrainWait, hostVars, execVars
<1>3. HostInv'
  BY DEF IInv, HostInv, Live, Over, DrainWait, hostVars
<1>4. QueueInv'
  BY DEF IInv, QueueInv, Live, Taken, DrainWait, execVars
<1>5. DrainInv'
  <2>1. /\ counted = {} /\ asked = {} /\ dpc' = "cancel" /\ UNCHANGED <<fut, tracked, asked, counted>>
        /\ \A t \in Tasks : Live(t) => t \in pending
    BY DEF DrainWait, IInv, DrainInv
  <2>2. \A t \in Tasks : Live(t) => t \in pending'
    BY <2>1 DEF DrainWait, Live, Over
  <2> QED
    BY <2>1, <2>2 DEF IInv, DrainInv, Live
<1>6. SessionInv'
  BY SessionSame DEF Called, NoneSkipped, DrainWait, hostVars
<1>7. FlushInv'
  BY DEF IInv, FlushInv, FlushIsHonest, Live, Over, DrainWait, execVars, flushVars
<1> QED
  BY <1>1, <1>2, <1>3, <1>4, <1>5, <1>6, <1>7 DEF IInv

LEMMA DrainCancelKeeps ==
    ASSUME IInv, DrainCancel
    PROVE  IInv'
<1>1. PICK t \in pending \ asked :
        /\ asked' = asked \cup {t}
        /\ fut' = [fut EXCEPT ![t] = IF @ = "pending" THEN "cancelled" ELSE @]
        /\ counted' = IF fut[t] = "pending" THEN counted \cup {t} ELSE counted
  BY DEF DrainCancel
<1>2. /\ t \in Tasks /\ t \in pending /\ dpc = "cancel" /\ shutting
      /\ fut' \in [Tasks -> {"none", "pending", "running", "ended", "done", "cancelled",
                              "inline", "inlineDone", "rejected"}]
      /\ fut'[t] = (IF fut[t] = "pending" THEN "cancelled" ELSE fut[t])
      /\ \A u \in Tasks : u # t => fut'[u] = fut[u]
  BY <1>1 DEF DrainCancel, IInv, TypeOK, ExecInv
<1>3. UNCHANGED <<task, kind, from, hpc, seen, session, lock, executor, closed, exiting, queue, tracked, attached,
                  bound, misfiled, shutting, dpc, pending, report, fpc, before>>
  BY DEF DrainCancel, hostVars, execVars, flushVars
<1>4. /\ \A u \in Tasks : \A v \in {"none", "running", "ended", "done", "inline", "inlineDone", "rejected"} :
            fut'[u] = v <=> fut[u] = v
      /\ \A u \in Tasks : fut'[u] = "pending" <=> fut[u] = "pending" /\ u # t
      /\ \A u \in Tasks : fut'[u] = "cancelled" <=> fut[u] = "cancelled" \/ (u = t /\ fut[u] = "pending")
  BY <1>2
<1>5. /\ \A u \in Tasks : Live(u)' => Live(u)
      /\ \A u \in Tasks : Taken(u)' <=> Taken(u)
      /\ \A u \in Tasks : (Live(u) \/ fut[u] \in Over)' <=> (Live(u) \/ fut[u] \in Over)
  BY <1>4 DEF Live, Taken, Over
<1>6. TypeOK'
  <2>1. asked' \in SUBSET Tasks /\ counted' \in SUBSET Tasks
    BY <1>1, <1>2 DEF IInv, TypeOK
  <2> QED
    BY <1>2, <1>3, <2>1 DEF IInv, TypeOK
<1>7. ExecInv'
  BY <1>2, <1>3 DEF IInv, ExecInv
<1>8. HostInv'
  <2>1. hpc # "idle" => task \in Tasks
    BY DEF IInv, HostInv
  <2> QED
    BY <1>3, <1>4, <1>5, <2>1 DEF IInv, HostInv
<1>9. QueueInv'
  <2>1. \A i \in 1 .. Len(queue) : queue[i] # Sentinel => queue[i] \in Tasks
    BY ItemFacts DEF IInv
  <2>2. \A i \in 1 .. Len(queue) : queue[i] # Sentinel => fut'[queue[i]] \in {"pending", "cancelled"}
    BY <1>4, <2>1 DEF IInv, QueueInv
  <2> QED
    BY <1>3, <1>4, <1>5, <2>2 DEF IInv, QueueInv
<1>10. DrainInv'
  <2>1. \A u \in Tasks : u \in counted' <=> fut'[u] = "cancelled"
    BY <1>1, <1>2, <1>4 DEF IInv, DrainInv
  <2>2. counted' \subseteq pending /\ \A u \in asked' : fut'[u] # "pending"
    BY <1>1, <1>2, <1>4 DEF IInv, TypeOK, DrainInv
  <2> QED
    BY <1>2, <1>3, <1>5, <2>1, <2>2 DEF IInv, DrainInv
<1>11. SessionInv'
  <2>1. \A u \in Tasks : Called(u)' <=> Called(u)
    BY <1>3 DEF Called
  <2>2. NoneSkipped' => NoneSkipped
    BY <1>4 DEF NoneSkipped
  <2> QED
    BY <1>3, <1>4, <2>1, <2>2, SessionSame
<1>12. FlushInv'
  <2>1. \A u \in before : u \in Tasks
    BY DEF IInv, TypeOK
  <2> QED
    BY <1>2, <1>3, <1>4, <1>5, <2>1 DEF IInv, FlushInv, FlushIsHonest
<1> QED
  BY <1>6, <1>7, <1>8, <1>9, <1>10, <1>11, <1>12 DEF IInv

LEMMA DrainReportKeeps ==
    ASSUME IInv, DrainReport
    PROVE  IInv'
<1>a. /\ counted \subseteq pending /\ pending \subseteq Tasks /\ counted \subseteq Tasks
      /\ dpc = "cancel" /\ asked = pending /\ dpc' = "done"
      /\ report' = [status |-> IF pending # {} THEN "timed_out" ELSE "drained",
                    writes |-> Cardinality({t \in counted : kind[t] # "prefetch"}),
                    prefetches |-> Cardinality({t \in counted : kind[t] = "prefetch"}),
                    active |-> LeftActive]
      /\ UNCHANGED <<hostVars, lock, execVars, fut, tracked, attached, bound, misfiled,
                     shutting, pending, asked, counted, flushVars>>
  BY DEF DrainReport, IInv, TypeOK, DrainInv
<1>b. /\ Cardinality({t \in counted : kind[t] # "prefetch"}) \in 0 .. MaxTasks
      /\ Cardinality({t \in counted : kind[t] = "prefetch"}) \in 0 .. MaxTasks
      /\ Cardinality(pending) \in 0 .. MaxTasks /\ Cardinality(counted) \in Nat
      /\ Cardinality(counted) <= Cardinality(pending)
  <2>1. /\ {t \in counted : kind[t] # "prefetch"} \subseteq Tasks
        /\ {t \in counted : kind[t] = "prefetch"} \subseteq Tasks
    BY <1>a
  <2>2. IsFiniteSet(pending) /\ Cardinality(pending) \in Nat /\ Cardinality(pending) <= MaxTasks
    BY <1>a, TasksCount
  <2>3. Cardinality(counted) <= Cardinality(pending)
    BY <1>a, <2>2, FS_Subset
  <2>4. Cardinality({t \in counted : kind[t] # "prefetch"}) \in 0 .. MaxTasks
    BY <2>1, TasksCount, Numbers
  <2>5. Cardinality({t \in counted : kind[t] = "prefetch"}) \in 0 .. MaxTasks
    BY <2>1, TasksCount, Numbers
  <2>6. Cardinality(counted) \in Nat
    BY <1>a, TasksCount
  <2> QED
    BY <2>2, <2>3, <2>4, <2>5, <2>6, Numbers
<1>c. LeftActive \in 0 .. MaxTasks
  BY <1>b, Numbers DEF LeftActive
<1>1. TypeOK'
  BY <1>a, <1>b, <1>c DEF IInv, TypeOK, hostVars, execVars, flushVars
<1>2. ExecInv'
  BY DEF IInv, ExecInv, Live, Over, DrainReport, hostVars, execVars
<1>3. HostInv'
  BY DEF IInv, HostInv, Live, Over, DrainReport, hostVars
<1>4. QueueInv'
  BY DEF IInv, QueueInv, Live, Taken, DrainReport, execVars
<1>5. DrainInv'
  <2>1. \A t \in Tasks : /\ Live(t)' <=> Live(t)
                         /\ Live(t) => t \in tracked /\ t \in pending
                         /\ fut[t] # "pending"
                         /\ t \in counted <=> fut[t] = "cancelled"
    BY <1>a DEF IInv, DrainInv, Live
  <2>2. LeftActive >= Cardinality(RunningNow)
    <3>1. RunningNow \cup counted \subseteq pending /\ RunningNow \cap counted = {}
      BY <1>a, <2>1 DEF RunningNow, Live
    <3>2. Cardinality(RunningNow \cup counted) = Cardinality(RunningNow) + Cardinality(counted)
      <4>1. IsFiniteSet(RunningNow) /\ IsFiniteSet(counted)
        BY <1>a, TasksCount DEF RunningNow
      <4>2. Cardinality(RunningNow \cap counted) = 0
        BY <3>1, FS_EmptySet
      <4>3. Cardinality(RunningNow) \in Nat /\ Cardinality(counted) \in Nat
        BY <4>1, FS_CardinalityType
      <4>4. Cardinality(RunningNow \cup counted)
              = Cardinality(RunningNow) + Cardinality(counted) - Cardinality(RunningNow \cap counted)
        BY <4>1, FS_Union
      <4> QED
        BY <4>2, <4>3, <4>4
    <3>3. Cardinality(RunningNow \cup counted) <= Cardinality(pending)
      BY <1>a, <3>1, TasksCount, FS_Subset
    <3>4. Cardinality(RunningNow) \in Nat
      BY TasksCount DEF RunningNow
    <3> QED
      BY <1>b, <3>2, <3>3, <3>4 DEF LeftActive
  <2>3. RunningNow' = RunningNow /\ Accepted' = Accepted
    BY <1>a DEF RunningNow, Accepted
  <2>4. pending = {} => \A t \in Accepted : fut[t] = "done"
    BY <1>a, <2>1 DEF Accepted, Live, IInv, TypeOK
  <2>5. /\ {t \in counted' : kind'[t] # "prefetch"} = {t \in counted : kind[t] # "prefetch"}
        /\ {t \in counted' : kind'[t] = "prefetch"} = {t \in counted : kind[t] = "prefetch"}
    BY <1>a DEF hostVars
  <2> QED
    BY <1>a, <2>1, <2>2, <2>3, <2>4, <2>5 DEF DrainInv
<1>6. SessionInv'
  BY <1>a, SessionSame DEF Called, NoneSkipped, hostVars
<1>7. FlushInv'
  BY DEF IInv, FlushInv, FlushIsHonest, Live, Over, DrainReport, execVars, flushVars
<1> QED
  BY <1>1, <1>2, <1>3, <1>4, <1>5, <1>6, <1>7 DEF IInv

LEMMA FlushReadKeeps ==
    ASSUME IInv, FlushRead
    PROVE  IInv'
<1>1. TypeOK'
  <2>1. before' \in SUBSET Tasks /\ fpc' \in {"true", "submit"}
    BY DEF FlushRead, Accepted
  <2> QED
    BY <2>1 DEF FlushRead, IInv, TypeOK, hostVars, execVars, drainVars
<1>2. ExecInv'
  BY DEF IInv, ExecInv, Live, Over, FlushRead, hostVars, execVars, drainVars
<1>3. HostInv'
  BY DEF IInv, HostInv, Live, Over, FlushRead, hostVars, drainVars
<1>4. QueueInv'
  BY DEF IInv, QueueInv, Live, Taken, FlushRead, execVars
<1>5. DrainInv'
  BY DrainSame DEF DrainInv, IInv, Live, Accepted, RunningNow, FlushRead, hostVars
<1>6. SessionInv'
  BY SessionSame DEF Called, NoneSkipped, FlushRead, hostVars
<1>7. FlushInv'
  <2>1. /\ fpc = "idle" /\ before' = {t \in Accepted : fut[t] \notin Over}
        /\ fpc' = IF executor = "none" THEN "true" ELSE "submit"
        /\ UNCHANGED <<executor, shutting, exiting, queue, fut>>
    BY DEF FlushRead, execVars, drainVars
  <2>2. \A t \in before' : t \in Tasks /\ Live(t)
    BY <2>1 DEF Accepted, Live, Over, IInv, TypeOK
  <2>3. FlushIsHonest'
    BY <2>1, <2>2 DEF FlushIsHonest, IInv, ExecInv, Over
  <2>4. executor \in {"none", "open"}
    BY DEF IInv, TypeOK
  <2> QED
    BY <2>1, <2>2, <2>3, <2>4 DEF IInv, FlushInv, Live, Over
<1> QED
  BY <1>1, <1>2, <1>3, <1>4, <1>5, <1>6, <1>7 DEF IInv

LEMMA FlushSubmitKeeps ==
    ASSUME IInv, FlushSubmit
    PROVE  IInv'
<1>1. TypeOK'
  BY AppendFacts DEF IInv, TypeOK, FlushSubmit, hostVars, drainVars
<1>2. ExecInv'
  BY DEF IInv, ExecInv, Live, Over, FlushSubmit, hostVars, drainVars
<1>3. HostInv'
  BY DEF IInv, HostInv, Live, Over, FlushSubmit, hostVars, drainVars
<1>4. QueueInv'
  <2>1. CASE UNCHANGED queue
    BY <2>1 DEF IInv, QueueInv, Live, Taken, FlushSubmit
  <2>2. CASE queue' = Append(queue, Sentinel)
    <3>1. /\ Len(queue) \in Nat /\ Len(queue') = Len(queue) + 1
          /\ \A i \in 1 .. Len(queue) : queue'[i] = queue[i]
          /\ queue'[Len(queue) + 1] = Sentinel
      BY <2>2, AppendFacts DEF IInv
    <3>2. \A i \in 1 .. Len(queue') : i \in 1 .. Len(queue) \/ i = Len(queue) + 1
      BY <3>1
    <3>3. fut' = fut
      BY DEF FlushSubmit
    <3>4. \A t \in Tasks : fut[t] = "pending" => \E i \in 1 .. Len(queue') : queue'[i] = t
      <4> TAKE t \in Tasks
      <4> HAVE fut[t] = "pending"
      <4>1. PICK i \in 1 .. Len(queue) : queue[i] = t
        BY DEF IInv, QueueInv
      <4> QED
        BY <3>1, <4>1
    <3> QED
      BY <3>1, <3>2, <3>3, <3>4 DEF IInv, QueueInv, Live, Taken
  <2> QED
    BY <2>1, <2>2 DEF FlushSubmit
<1>5. DrainInv'
  BY DrainSame DEF DrainInv, IInv, Live, Accepted, RunningNow, FlushSubmit, hostVars
<1>6. SessionInv'
  BY SessionSame DEF Called, NoneSkipped, FlushSubmit, hostVars
<1>7. FlushInv'
  <2>1. /\ fpc = "submit" /\ UNCHANGED <<executor, closed, shutting, exiting, fut, before>>
        /\ \A i \in 1 .. Len(queue) : queue[i] # Sentinel
    BY DEF FlushSubmit, IInv, FlushInv, drainVars
  <2>2. CASE closed \/ exiting
    <3>1. fpc' = "true" /\ queue' = queue /\ (shutting \/ exiting)
      BY <2>2 DEF FlushSubmit, IInv, ExecInv
    <3> QED
      BY <2>1, <3>1 DEF IInv, FlushInv, FlushIsHonest, Live, Over
  <2>3. CASE ~(closed \/ exiting)
    <3>1. fpc' = "waiting" /\ queue' = Append(queue, Sentinel)
      BY <2>3 DEF FlushSubmit
    <3>2. /\ Len(queue) \in Nat /\ Len(queue') = Len(queue) + 1
          /\ \A i \in 1 .. Len(queue) : queue'[i] = queue[i]
          /\ queue'[Len(queue) + 1] = Sentinel
      BY <3>1, AppendFacts DEF IInv
    <3>3. \A i \in 1 .. Len(queue') : i \in 1 .. Len(queue) \/ i = Len(queue) + 1
      BY <3>2
    <3>4. ASSUME NEW t \in before, fut[t] = "pending"
          PROVE  \E j \in 1 .. Len(queue) : queue'[j] = t
      <4>1. PICK j \in 1 .. Len(queue) : queue[j] = t
        BY <3>4 DEF IInv, TypeOK, QueueInv
      <4> QED
        BY <3>2, <4>1
    <3>5. Len(queue) + 1 \in 1 .. Len(queue') /\ (Len(queue) + 1) - 1 = Len(queue)
      BY <3>2
    <3> QED
      BY <2>1, <3>1, <3>2, <3>3, <3>4, <3>5 DEF IInv, FlushInv, FlushIsHonest, Live, Over
  <2> QED
    BY <2>2, <2>3
<1> QED
  BY <1>1, <1>2, <1>3, <1>4, <1>5, <1>6, <1>7 DEF IInv

LEMMA FlushTimesOutKeeps ==
    ASSUME IInv, FlushTimesOut
    PROVE  IInv'
<1>1. TypeOK'
  BY DEF IInv, TypeOK, FlushTimesOut, hostVars, execVars, drainVars
<1>2. ExecInv'
  BY DEF IInv, ExecInv, Live, Over, FlushTimesOut, hostVars, execVars, drainVars
<1>3. HostInv'
  BY DEF IInv, HostInv, Live, Over, FlushTimesOut, hostVars, drainVars
<1>4. QueueInv'
  BY DEF IInv, QueueInv, Live, Taken, FlushTimesOut, execVars
<1>5. DrainInv'
  BY DrainSame DEF DrainInv, IInv, Live, Accepted, RunningNow, FlushTimesOut, hostVars
<1>6. SessionInv'
  BY SessionSame DEF FlushTimesOut, Called, NoneSkipped, hostVars
<1>7. FlushInv'
  BY DEF IInv, FlushInv, FlushIsHonest, Live, Over, FlushTimesOut, execVars, drainVars
<1> QED
  BY <1>1, <1>2, <1>3, <1>4, <1>5, <1>6, <1>7 DEF IInv

LEMMA StutterKeeps ==
    ASSUME IInv, UNCHANGED vars
    PROVE  IInv'
<1>1. TypeOK'
  BY DEF IInv, TypeOK, vars, hostVars, execVars, drainVars, flushVars
<1>2. ExecInv' /\ HostInv'
  BY DEF IInv, ExecInv, HostInv, Live, Over, vars, hostVars, execVars, drainVars, flushVars
<1>3. QueueInv'
  BY DEF IInv, QueueInv, Live, Taken, vars, execVars
<1>4. DrainInv'
  BY DrainSame DEF IInv, DrainInv, Live, Accepted, RunningNow, vars, hostVars
<1>5. SessionInv'
  BY SessionSame DEF Called, NoneSkipped, vars, hostVars
<1>6. FlushInv'
  BY DEF IInv, FlushInv, FlushIsHonest, Live, Over, vars, execVars, drainVars, flushVars
<1> QED
  BY <1>1, <1>2, <1>3, <1>4, <1>5, <1>6 DEF IInv

LEMMA NextKeeps ==
    ASSUME Workers = 1, IInv, [Next]_vars
    PROVE  IInv'
<1>1. CASE Host
  BY <1>1, CallKeeps, ReadExecutorKeeps, CreateExecutorKeeps, RejectKeeps, SubmitTrackedKeeps,
     ReleaseLockKeeps, AttachCallbackKeeps, SubmitInlineKeeps, SubmitRaisesKeeps, AfterRaiseKeeps DEF Host
<1>2. CASE Drain
  BY <1>2, DrainSnapshotKeeps, DrainCloseKeeps, DrainWaitKeeps, DrainCancelKeeps, DrainReportKeeps DEF Drain
<1>3. CASE Flush
  BY <1>3, FlushReadKeeps, FlushSubmitKeeps, FlushTimesOutKeeps DEF Flush
<1>4. CASE UNCHANGED vars \/ Quiet
  BY <1>4, StutterKeeps DEF Quiet
<1> QED
  BY <1>1, <1>2, <1>3, <1>4, InlineEndsKeeps, TakeKeeps, EndSessionKeeps, TaskEndsKeeps, ForgetKeeps,
     InterpreterExitsKeeps DEF Next

-----------------------------------------------------------------------------
(* The theorems. *)

(* In every reachable state all parts of the invariant hold. *)
THEOREM InvariantHolds ==
    ASSUME Workers = 1
    PROVE  Spec => []IInv
<1>1. Init => IInv
  BY InitIsGood
<1>2. IInv /\ [Next]_vars => IInv'
  BY NextKeeps
<1> QED
  BY <1>1, <1>2, PTL DEF Spec

(* What shutdown_all and flush_pending report is what became of the accepted *)
(* tasks (_drain_sync_executor, flush_pending).                              *)
THEOREM AccountsHold ==
    ASSUME Workers = 1
    PROVE  Spec => []AccountsAreHonest
<1>1. ASSUME IInv
      PROVE  NothingLostSilently
  <2>1. /\ \A t \in Tasks : t \in counted <=> fut[t] = "cancelled"
        /\ counted \subseteq Tasks
    BY <1>1 DEF IInv, TypeOK, DrainInv
  <2>2. /\ {t \in counted : kind[t] # "prefetch"} = {t \in Tasks : fut[t] = "cancelled" /\ kind[t] # "prefetch"}
        /\ {t \in counted : kind[t] = "prefetch"} = {t \in Tasks : fut[t] = "cancelled" /\ kind[t] = "prefetch"}
    BY <2>1
  <2>3. RunningNow = {t \in Tasks : fut[t] \in {"running", "ended"}}
    BY DEF RunningNow
  <2> QED
    BY <1>1, <2>2, <2>3 DEF IInv, DrainInv, NothingLostSilently
<1>2. IInv => AccountsAreHonest
  BY <1>1 DEF IInv, FlushInv, AccountsAreHonest
<1> QED
  BY <1>2, InvariantHolds, PTL

(* The extraction of a session finds the provider bound to that session, as   *)
(* long as no task ran inline or was abandoned                                *)
(* (commit_session_boundary_async).                                           *)
THEOREM BoundariesEndTheirOwnSession ==
    ASSUME Workers = 1
    PROVE  Spec => []BoundaryEndsItsOwnSession
<1>1. IInv => BoundaryEndsItsOwnSession
  BY DEF IInv, SessionInv, NoneSkipped, BoundaryEndsItsOwnSession
<1> QED
  BY <1>1, InvariantHolds, PTL

=============================================================================
