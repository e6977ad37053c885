------------------------- MODULE FlowStrandingProofs -------------------------
(***************************************************************************)
(* Proofs about FlowExecution: no work is stranded.  JobsInv says what     *)
(* jobs, markers and deliveries know of each other, and Served that every  *)
(* scheduled flow and every system step has somebody who will see to it.   *)
(***************************************************************************)
EXTENDS FlowExecutionProofs

-----------------------------------------------------------------------------
\* Jobs and deliveries.

Busy(w) == worker[w].phase # "idle"

\* The id of a transaction that has been counted.
Old(j) == j \in Ids /\ j.tx <= txCount

JobsOld ==
    /\ \A j \in DOMAIN queue \cup completedJob : Old(j)
    /\ \A w \in Workers : Busy(w) => Old(worker[w].job)

\* A delivery's payload is its job's, and its claim not later than the latest.
SameJob ==
    \A w \in Workers : Busy(w) =>
        /\ worker[w].job \in DOMAIN queue =>
              /\ worker[w].payload.queue = queue[worker[w].job].queue
              /\ worker[w].payload.ref = queue[worker[w].job].ref
              /\ worker[w].receipt <= queue[worker[w].job].attempts
        /\ \A v \in Workers : Busy(v) /\ worker[v].job = worker[w].job =>
              /\ worker[v].payload.queue = worker[w].payload.queue
              /\ worker[v].payload.ref = worker[w].payload.ref

\* Whoever marks a flow job has consumed its scheduled flow.
Marked ==
    /\ \A j \in DOMAIN queue \cap completedJob :
          queue[j].queue = "flow-execution" => queue[j].ref \notin DOMAIN scheduledFlow
    /\ \A w \in Workers : Busy(w) =>
          /\ worker[w].completed => worker[w].job \in completedJob
          /\ worker[w].payload.queue = "flow-execution"
                /\ worker[w].job \in completedJob =>
                   worker[w].payload.ref \notin DOMAIN scheduledFlow

\* A scheduled flow that has a to-do's id is that of a to-do that is done.
RoutedIds ==
    \A s \in DOMAIN routed : s.item # 0 => s \in DOMAIN toDo /\ toDo[s].deleted

\* A delivery that is to count siblings has read a barrier as it still is.
Snapshot(w) ==
    worker[w].phase = "siblings" /\ worker[w].payload.ref \in DOMAIN scheduledFlow =>
        /\ worker[w].flow = scheduledFlow[worker[w].payload.ref]
        /\ worker[w].flow.forEachBarrier

\* A to-do that was not found is done.
Missing(w) ==
    worker[w].phase = "missing" => toDo[worker[w].payload.ref].deleted

JobsInv ==
    /\ JobsOld /\ SameJob /\ Marked /\ RoutedIds
    /\ \A w \in Workers : Snapshot(w) /\ Missing(w)
    /\ IsFiniteSet(DOMAIN toDo)

\* Jobs are kept or taken away, new ones have ids of this transaction.
JobsGrow ==
    /\ txCount' \in {txCount, txCount + 1}
    /\ \A j \in DOMAIN queue' :
          \/ j \in DOMAIN queue /\ queue'[j] = queue[j]
          \/ NewId(j) /\ txCount' = txCount + 1

\* Scheduled flows are kept or consumed, new ones have ids that are new.
FlowsGrow ==
    /\ \A s \in DOMAIN scheduledFlow' :
          \/ s \in DOMAIN scheduledFlow /\ scheduledFlow'[s] = scheduledFlow[s]
          \/ s \notin DOMAIN routed
    /\ \A s \in DOMAIN routed' :
          \/ s \in DOMAIN routed \/ s.item = 0
          \/ s \in DOMAIN toDo' /\ toDo'[s].deleted
    /\ IsFiniteSet(DOMAIN toDo')

\* Worker w goes on with its delivery.
GoesOn(w) ==
    /\ Busy(w)
    /\ worker'[w].phase # "idle"
    /\ worker'[w].job = worker[w].job
    /\ worker'[w].receipt = worker[w].receipt
    /\ worker'[w].payload = worker[w].payload
    /\ worker'[w].completed => worker[w].completed \/ worker[w].job \in completedJob

\* What it has read before it counts siblings, or found a to-do missing.
HasRead(w) ==
    /\ worker'[w].phase = "siblings" /\ worker[w].payload.ref \in DOMAIN scheduledFlow =>
          /\ worker'[w].flow = scheduledFlow[worker[w].payload.ref]
          /\ worker'[w].flow.forEachBarrier
    /\ worker'[w].phase = "missing" => toDo[worker[w].payload.ref].deleted

\* Only worker w's job is marked, and a flow job's scheduled flow is consumed.
Marks(w) ==
    /\ completedJob \subseteq completedJob'
    /\ completedJob' \subseteq completedJob \cup {worker[w].job}
    /\ completedJob' # completedJob /\ worker[w].payload.queue = "flow-execution" =>
          worker[w].payload.ref \notin DOMAIN scheduledFlow'

LEMMA OldIsKept ==
  ASSUME txCount \in Nat, txCount' \in {txCount, txCount + 1}, NEW j, Old(j)
  PROVE  Old(j)' /\ ~NewId(j)
<1>1. j \in Ids /\ j.tx \in Nat /\ j.tx <= txCount
  BY DEF Old, Ids
<1>2. j.tx <= txCount' /\ j.tx # txCount + 1
  BY <1>1
<1> QED BY <1>1, <1>2 DEF Old, NewId

LEMMA NewIsOld ==
  ASSUME txCount \in Nat, txCount' = txCount + 1, NEW j, NewId(j)
  PROVE  Old(j)'
<1>1. txCount + 1 <= txCount'
  OBVIOUS
<1> QED BY <1>1 DEF Old, NewId

\* A step of at most one worker, which goes on with its delivery or ends it.
LEMMA JobsInvKept ==
  ASSUME IInv, IInv', JobsInv, Grow, JobsGrow, FlowsGrow,
         \A v \in Workers :
            \/ worker'[v] = worker[v]
            \/ worker'[v].phase = "idle"
            \/ GoesOn(v) /\ HasRead(v),
         completedJob' = completedJob \/ \E w \in Workers : Busy(w) /\ Marks(w)
  PROVE  JobsInv'
<1>1. txCount \in Nat /\ txCount' \in {txCount, txCount + 1}
  BY DEF IInv, RowInv, TableTypes, JobsGrow
<1>2. \A j : Old(j) => Old(j)' /\ ~NewId(j)
  BY <1>1, OldIsKept
<1>3. \A v \in Workers : worker'[v].phase # "idle" =>
         /\ Busy(v)
         /\ worker'[v].job = worker[v].job
         /\ worker'[v].receipt = worker[v].receipt
         /\ worker'[v].payload = worker[v].payload
         /\ worker'[v].completed => worker[v].completed \/ worker[v].job \in completedJob
  BY DEF GoesOn, Busy
<1>4. \A j \in completedJob' :
         j \in completedJob \/ \E w \in Workers : Busy(w) /\ Marks(w) /\ j = worker[w].job
  BY DEF Marks
<1>5. completedJob \subseteq completedJob'
  BY DEF Marks
<1>6. \A s \in DOMAIN scheduledFlow' : s \in DOMAIN routed =>
         s \in DOMAIN scheduledFlow /\ scheduledFlow'[s] = scheduledFlow[s]
  BY DEF FlowsGrow
<1>7. JobsOld'
  <2>1. ASSUME NEW j \in DOMAIN queue' PROVE Old(j)'
    <3>1. CASE j \in DOMAIN queue
      BY <1>2, <3>1 DEF JobsInv, JobsOld
    <3>2. CASE NewId(j) /\ txCount' = txCount + 1
      BY <1>1, <3>2, NewIsOld
    <3> QED BY <2>1, <3>1, <3>2 DEF JobsGrow
  <2>2. ASSUME NEW j \in completedJob' PROVE Old(j)'
    <3>1. Old(j)
      BY <1>4, <2>2 DEF JobsInv, JobsOld
    <3> QED BY <1>2, <3>1
  <2>3. ASSUME NEW v \in Workers, worker'[v].phase # "idle"
        PROVE  \E j : j = worker'[v].job /\ Old(j)'
    <3>1. Old(worker[v].job)
      BY <1>3, <2>3 DEF JobsInv, JobsOld
    <3>2. \E j : j = worker[v].job /\ Old(j)'
      BY <1>2, <3>1
    <3> QED BY <1>3, <2>3, <3>2
  <2> QED BY <2>1, <2>2, <2>3 DEF JobsOld, Busy, Old
<1>8. SameJob'
  <2>1. ASSUME NEW v \in Workers, worker'[v].phase # "idle",
               worker'[v].job \in DOMAIN queue'
        PROVE  /\ worker'[v].payload.queue = queue'[worker'[v].job].queue
               /\ worker'[v].payload.ref = queue'[worker'[v].job].ref
               /\ worker'[v].receipt <= queue'[worker'[v].job].attempts
    <3>1. Old(worker[v].job)
      BY <1>3, <2>1 DEF JobsInv, JobsOld
    <3>2. ~NewId(worker[v].job)
      BY <1>2, <3>1
    <3>3. worker[v].job \in DOMAIN queue /\ queue'[worker[v].job] = queue[worker[v].job]
      BY <1>3, <2>1, <3>2 DEF JobsGrow
    <3> QED BY <1>3, <2>1, <3>3 DEF JobsInv, SameJob
  <2>2. ASSUME NEW v \in Workers, worker'[v].phase # "idle",
               NEW u \in Workers, worker'[u].phase # "idle",
               worker'[u].job = worker'[v].job
        PROVE  /\ worker'[u].payload.queue = worker'[v].payload.queue
               /\ worker'[u].payload.ref = worker'[v].payload.ref
    BY <1>3, <2>2 DEF JobsInv, SameJob
  <2> QED BY <2>1, <2>2 DEF SameJob, Busy
<1>9. Marked'
  <2>1. ASSUME NEW j \in DOMAIN queue', j \in completedJob',
               queue'[j].queue = "flow-execution"
        PROVE  queue'[j].ref \notin DOMAIN scheduledFlow'
    <3>1. Old(j)
      BY <1>4, <2>1 DEF JobsInv, JobsOld
    <3>2. j \in DOMAIN queue /\ queue'[j] = queue[j]
      BY <1>2, <2>1, <3>1 DEF JobsGrow
    <3>3. queue[j].ref \in DOMAIN routed
      BY <2>1, <3>2 DEF IInv, RowInv, JobNames, Refers
    <3>4. CASE j \in completedJob
      BY <1>6, <2>1, <3>2, <3>3, <3>4 DEF JobsInv, Marked
    <3>5. CASE j \notin completedJob
      <4>1. PICK w \in Workers : Busy(w) /\ Marks(w) /\ j = worker[w].job
        BY <1>4, <2>1, <3>5
      <4>2. worker[w].payload.queue = queue[j].queue /\ worker[w].payload.ref = queue[j].ref
        BY <3>2, <4>1 DEF JobsInv, SameJob
      <4> QED BY <2>1, <3>2, <3>5, <4>1, <4>2 DEF Marks
    <3> QED BY <3>4, <3>5
  <2>2. ASSUME NEW v \in Workers, worker'[v].phase # "idle",
               worker'[v].payload.queue = "flow-execution",
               worker'[v].job \in completedJob'
        PROVE  worker'[v].payload.ref \notin DOMAIN scheduledFlow'
    <3>1. worker[v].payload.ref \in DOMAIN routed
      BY <1>3, <2>2 DEF IInv, Others, DeliveryNames, Refers, Busy
    <3>2. CASE worker[v].job \in completedJob
      BY <1>3, <1>6, <2>2, <3>1, <3>2 DEF JobsInv, Marked
    <3>3. CASE worker[v].job \notin completedJob
      <4>1. PICK w \in Workers : Busy(w) /\ Marks(w) /\ worker[v].job = worker[w].job
        BY <1>3, <1>4, <2>2, <3>3
      <4>2. /\ worker[w].payload.queue = worker[v].payload.queue
            /\ worker[w].payload.ref = worker[v].payload.ref
        BY <1>3, <2>2, <4>1 DEF JobsInv, SameJob
      <4> QED BY <1>3, <2>2, <3>3, <4>1, <4>2 DEF Marks
    <3> QED BY <3>2, <3>3
  <2>3. ASSUME NEW v \in Workers, worker'[v].phase # "idle", worker'[v].completed
        PROVE  worker'[v].job \in completedJob'
    BY <1>3, <1>5, <2>3 DEF JobsInv, Marked
  <2> QED BY <2>1, <2>2, <2>3 DEF Marked, Busy
<1>10. RoutedIds'
  BY DEF JobsInv, RoutedIds, FlowsGrow, Grow
<1>11. ASSUME NEW v \in Workers, worker'[v].phase = "siblings",
              worker'[v].payload.ref \in DOMAIN scheduledFlow'
       PROVE  /\ worker'[v].flow = scheduledFlow'[worker'[v].payload.ref]
              /\ worker'[v].flow.forEachBarrier
  <2>1. Busy(v) /\ worker'[v].payload = worker[v].payload
    BY <1>3, <1>11
  <2>2. Refers(worker'[v].payload.queue, worker'[v].payload.ref)
    BY <2>1 DEF IInv, Others, DeliveryNames, Busy
  <2>3. worker'[v].payload.queue = "flow-execution"
    BY <1>11 DEF IInv, Others, DeliveryNames, FlowPhases
  <2>4. worker[v].payload.ref \in DOMAIN routed
    BY <2>1, <2>2, <2>3 DEF Refers
  <2>5. /\ worker[v].payload.ref \in DOMAIN scheduledFlow
        /\ scheduledFlow'[worker[v].payload.ref] = scheduledFlow[worker[v].payload.ref]
    BY <1>6, <1>11, <2>1, <2>4
  <2>6. CASE worker'[v] = worker[v]
    BY <1>11, <2>5, <2>6 DEF JobsInv, Snapshot
  <2>7. CASE HasRead(v)
    BY <1>11, <2>1, <2>5, <2>7 DEF HasRead
  <2> QED BY <1>11, <2>6, <2>7
<1>12. ASSUME NEW v \in Workers, worker'[v].phase = "missing"
       PROVE  toDo'[worker'[v].payload.ref].deleted
  <2>1. Busy(v) /\ worker'[v].payload = worker[v].payload
    BY <1>3, <1>12
  <2>2. toDo[worker[v].payload.ref].deleted
    BY <1>12, <2>1 DEF JobsInv, Missing, HasRead
  <2>3. worker'[v].payload.queue = "system-step-execution"
    BY <1>12 DEF IInv, Others, DeliveryNames, SystemPhases
  <2>4. worker[v].payload.ref \in DOMAIN toDo
    BY <2>1, <2>3 DEF IInv, Others, DeliveryNames, Busy, Refers
  <2> QED BY <2>1, <2>2, <2>4 DEF Grow
<1> QED BY <1>7, <1>8, <1>9, <1>10, <1>11, <1>12 DEF JobsInv, Snapshot, Missing, FlowsGrow

-----------------------------------------------------------------------------
\* Who sees to what is left.

\* w has the latest claim of job j.
Claims(w, j) == worker[w].job = j /\ worker[w].receipt = queue[j].attempts

\* Pending, and claimed by a worker that is not idle.
Live(j) ==
    /\ \A w \in Workers : Claims(w, j) => worker[w].phase # "acknowledge"
    /\ queue[j].attempts < MaxAttempts \/ \E w \in Workers : Busy(w) /\ Claims(w, j)

\* An active to-do of the barrier.
Held(s) == \E t \in ActiveTodos : toDo[t].barrier = s

HasFlowJob(s) ==
    \E j \in DOMAIN queue :
        queue[j].queue = "flow-execution" /\ queue[j].ref = s /\ Live(j)

\* A system step that is still to be run.
Needed(t) == t \in ActiveTodos /\ toDo[t].step \in System /\ ~toDo[t].failed

HasSystemJob(t) ==
    \E j \in DOMAIN queue :
        /\ queue[j].queue = "system-step-execution" /\ queue[j].ref = t
        /\ Live(j) /\ j \notin completedJob

\* A system job that is marked has nothing left to do.
Finished(j) == queue[j].queue # "flow-execution" /\ j \in completedJob

Served ==
    /\ \A s \in DOMAIN scheduledFlow : HasFlowJob(s) \/ Held(s)
    /\ \A t : Needed(t) => HasSystemJob(t)

\* Nobody has to do a job of this kind any more after the step.
Over(kind, ref) ==
    IF kind = "flow-execution"
    THEN \/ ref \notin DOMAIN scheduledFlow'
         \/ \E t \in DOMAIN toDo' : ~toDo'[t].deleted /\ toDo'[t].barrier = ref
    ELSE \/ ref \notin DOMAIN toDo'
         \/ toDo'[ref].deleted \/ toDo'[ref].failed

\* A job that stays in the queue.
Stays(j) == j \in DOMAIN queue' /\ queue'[j] = queue[j]

\* Every pending job remains so or is over; what is new or takes another's place
\* has a job.
LEMMA ServedKept ==
  ASSUME Served, Grow,
         \A j \in DOMAIN queue : Live(j) /\ ~Finished(j) =>
            \/ /\ j \in DOMAIN queue'
               /\ queue'[j].queue = queue[j].queue /\ queue'[j].ref = queue[j].ref
               /\ Live(j)'
               /\ queue[j].queue # "flow-execution" => j \notin completedJob'
            \/ Over(queue[j].queue, queue[j].ref),
         \A s \in DOMAIN scheduledFlow' :
            s \in DOMAIN scheduledFlow \/ HasFlowJob(s)' \/ Held(s)',
         \A s \in DOMAIN scheduledFlow : \A t \in ActiveTodos :
            toDo[t].barrier = s => t \in ActiveTodos' \/ HasFlowJob(s)',
         \A t : Needed(t)' => Needed(t) \/ HasSystemJob(t)'
  PROVE  Served'
<1>1. ASSUME NEW s \in DOMAIN scheduledFlow'
      PROVE  HasFlowJob(s)' \/ Held(s)'
  <2>1. CASE s \in DOMAIN scheduledFlow
    <3>1. CASE HasFlowJob(s)
      <4>1. PICK j \in DOMAIN queue :
               queue[j].queue = "flow-execution" /\ queue[j].ref = s /\ Live(j)
        BY <3>1 DEF HasFlowJob
      <4>2. ~Finished(j)
        BY <4>1 DEF Finished
      <4>3. CASE Over(queue[j].queue, queue[j].ref)
        BY <1>1, <4>1, <4>3 DEF Over, Held, ActiveTodos
      <4>4. CASE /\ j \in DOMAIN queue'
                 /\ queue'[j].queue = queue[j].queue /\ queue'[j].ref = queue[j].ref
                 /\ Live(j)'
        BY <4>1, <4>4 DEF HasFlowJob
      <4> QED BY <4>1, <4>2, <4>3, <4>4
    <3>2. CASE Held(s)
      <4>1. PICK t \in ActiveTodos : toDo[t].barrier = s
        BY <3>2 DEF Held
      <4>2. t \in ActiveTodos' \/ HasFlowJob(s)'
        BY <2>1, <4>1
      <4>3. toDo'[t].barrier = s
        BY <4>1 DEF Grow, ActiveTodos
      <4> QED BY <4>2, <4>3 DEF Held
    <3> QED BY <2>1, <3>1, <3>2 DEF Served
  <2> QED BY <1>1, <2>1
<1>2. ASSUME NEW t, Needed(t)'
      PROVE  HasSystemJob(t)'
  <2>1. CASE Needed(t)
    <3>1. PICK j \in DOMAIN queue :
             /\ queue[j].queue = "system-step-execution" /\ queue[j].ref = t
             /\ Live(j) /\ j \notin completedJob
      BY <2>1 DEF Served, HasSystemJob
    <3>2. ~Over(queue[j].queue, queue[j].ref)
      BY <1>2, <3>1 DEF Over, Needed, ActiveTodos
    <3>3. /\ j \in DOMAIN queue'
          /\ queue'[j].queue = queue[j].queue /\ queue'[j].ref = queue[j].ref
          /\ Live(j)'
          /\ j \notin completedJob'
      BY <3>1, <3>2 DEF Finished
    <3> QED BY <3>1, <3>3 DEF HasSystemJob
  <2> QED BY <1>2, <2>1
<1> QED BY <1>1, <1>2 DEF Served

\* A job that is live and whose row stays remains so unless its latest delivery is
\* done or given up.
LEMMA LiveKept ==
  ASSUME IInv, NEW j \in DOMAIN queue, Stays(j), Live(j),
         \A w \in Workers :
            \/ worker'[w] = worker[w]
            \/ /\ worker'[w].phase = "idle"
               /\ Claims(w, j) => queue[j].attempts < MaxAttempts
            \/ /\ worker'[w].phase # "idle"
               /\ worker'[w].job = worker[w].job
               /\ worker'[w].receipt = worker[w].receipt
               /\ Claims(w, j) => worker'[w].phase # "acknowledge"
  PROVE  Live(j)'
<1>1. queue'[j].attempts = queue[j].attempts
  BY DEF Stays
<1>2. ASSUME NEW w \in Workers, worker'[w].job = j,
             worker'[w].receipt = queue[j].attempts
      PROVE  worker'[w].phase # "acknowledge"
  <2>1. Claims(w, j) => worker[w].phase # "acknowledge"
    BY DEF Live
  <2> QED BY <1>2, <2>1 DEF Claims
<1>3. ASSUME ~(queue[j].attempts < MaxAttempts)
      PROVE  \E w \in Workers : /\ worker'[w].phase # "idle"
                                /\ worker'[w].job = j
                                /\ worker'[w].receipt = queue[j].attempts
  <2>1. PICK w \in Workers : Busy(w) /\ Claims(w, j)
    BY <1>3 DEF Live
  <2> QED BY <1>3, <2>1 DEF Claims, Busy
<1> QED BY <1>1, <1>2, <1>3 DEF Live, Claims, Busy

\* A job of a new id is live.
LEMMA NewIsLive ==
  ASSUME IInv, JobsInv, NEW j, NewId(j), queue'[j].attempts = 0,
         \A w \in Workers :
            \/ worker'[w].phase = "idle"
            \/ Busy(w) /\ worker'[w].job = worker[w].job
  PROVE  Live(j)' /\ j \notin completedJob
<1>1. \A i : Old(i) => ~NewId(i)
  <2>1. txCount \in Nat
    BY DEF IInv, RowInv, TableTypes
  <2> QED BY <2>1 DEF Old, NewId, Ids
<1>2. ASSUME NEW w \in Workers, worker'[w].phase # "idle"
      PROVE  worker'[w].job # j
  BY <1>1, <1>2 DEF JobsInv, JobsOld
<1>3. 0 < MaxAttempts
  BY Constants
<1>4. \A w \in Workers : Claims(w, j)' => worker'[w].phase # "acknowledge"
  BY <1>2 DEF Claims
<1>5. j \notin completedJob
  BY <1>1 DEF JobsInv, JobsOld
<1> QED BY <1>3, <1>4, <1>5 DEF Live

\* A worker ends its delivery only after a claim that is not the last, or when it
\* is acknowledged; it is done with what it acknowledges or marks.
Ends(w) ==
    /\ worker'[w].phase = "idle" =>
          worker[w].receipt < MaxAttempts \/ worker[w].phase = "acknowledge"
    /\ worker'[w].phase = "acknowledge" \/ completedJob' # completedJob =>
          \/ Over(worker[w].payload.queue, worker[w].payload.ref)
          \/ /\ worker[w].payload.queue # "flow-execution"
             /\ worker[w].job \in completedJob

\* A scheduled flow that is new, or left by the last to-do of its barrier, gets a
\* job, and so does a system step.
Provides ==
    /\ \A s \in DOMAIN scheduledFlow' :
          s \in DOMAIN scheduledFlow \/ HasFlowJob(s)' \/ Held(s)'
    /\ \A s \in DOMAIN scheduledFlow : \A t \in ActiveTodos :
          toDo[t].barrier = s => t \in ActiveTodos' \/ HasFlowJob(s)'
    /\ \A t : Needed(t)' => Needed(t) \/ HasSystemJob(t)'

\* A step of a worker that leaves the rows of the queue.
LEMMA WorkerServes ==
  ASSUME IInv, JobsInv, Served, Grow, NEW w \in Workers, Busy(w),
         \A v \in Workers : v # w => worker'[v] = worker[v],
         worker'[w].phase = "idle" \/ GoesOn(w),
         Ends(w),
         completedJob' \subseteq completedJob \cup {worker[w].job},
         \A j \in DOMAIN queue : Stays(j),
         Provides
  PROVE  Served'
<1>1. ASSUME NEW j \in DOMAIN queue, Live(j), ~Finished(j),
             ~Over(queue[j].queue, queue[j].ref)
      PROVE  /\ j \in DOMAIN queue'
             /\ queue'[j].queue = queue[j].queue /\ queue'[j].ref = queue[j].ref
             /\ Live(j)'
             /\ queue[j].queue # "flow-execution" => j \notin completedJob'
  <2>1. worker[w].job = j =>
           /\ worker[w].payload.queue = queue[j].queue
           /\ worker[w].payload.ref = queue[j].ref
    BY DEF JobsInv, SameJob
  <2>2. worker[w].job = j =>
           worker'[w].phase # "acknowledge" /\ completedJob' = completedJob
    BY <1>1, <2>1 DEF Ends, Finished
  <2>3. Claims(w, j) /\ worker'[w].phase = "idle" => queue[j].attempts < MaxAttempts
    <3>1. Claims(w, j) => worker[w].phase # "acknowledge"
      BY <1>1 DEF Live
    <3> QED BY <3>1 DEF Ends, Claims
  <2>4. Live(j)'
    <3>1. \A v \in Workers :
             \/ worker'[v] = worker[v]
             \/ /\ worker'[v].phase = "idle"
                /\ Claims(v, j) => queue[j].attempts < MaxAttempts
             \/ /\ worker'[v].phase # "idle"
                /\ worker'[v].job = worker[v].job
                /\ worker'[v].receipt = worker[v].receipt
                /\ Claims(v, j) => worker'[v].phase # "acknowledge"
      BY <2>2, <2>3 DEF GoesOn, Claims
    <3> QED BY <1>1, <3>1, LiveKept
  <2>5. queue[j].queue # "flow-execution" => j \notin completedJob'
    BY <1>1, <2>2 DEF Finished
  <2> QED BY <1>1, <2>4, <2>5 DEF Stays
<1> QED BY <1>1, ServedKept DEF Provides

\* A step of somebody else that leaves the rows of the queue.
LEMMA OthersServe ==
  ASSUME IInv, Served, Grow, UNCHANGED <<worker, completedJob>>,
         \A j \in DOMAIN queue : Stays(j),
         Provides
  PROVE  Served'
<1>1. \A j \in DOMAIN queue : Live(j) => Live(j)'
  BY LiveKept
<1> QED BY <1>1, ServedKept DEF Provides, Stays, Finished

\* Nothing is to be provided when nothing new is there.
LEMMA NothingToProvide ==
  ASSUME UNCHANGED toDo, DOMAIN scheduledFlow' \subseteq DOMAIN scheduledFlow
  PROVE  Provides
  BY DEF Provides, ActiveTodos, Needed

-----------------------------------------------------------------------------
\* Steps of a worker that only read, or mark a job.

\* The inductive invariant, unless a job was given up.
Serving == JobsInv /\ (dropped = {} => Served)

\* A step of a worker.
LEMMA WorkerKeeps ==
  ASSUME IInv, IInv', Serving, Grow, JobsGrow, FlowsGrow, NEW w \in Workers, Busy(w),
         \A v \in Workers : v # w => worker'[v] = worker[v],
         worker'[w].phase = "idle" \/ (GoesOn(w) /\ HasRead(w)),
         dropped \subseteq dropped', dropped' = {} => Ends(w),
         completedJob' = completedJob \/ Marks(w),
         \A j \in DOMAIN queue : Stays(j),
         Provides
  PROVE  Serving'
<1>1. JobsInv'
  BY JobsInvKept DEF Serving
<1>2. ASSUME dropped' = {} PROVE Served'
  <2>1. Served /\ JobsInv /\ Ends(w)
    BY <1>2 DEF Serving
  <2>2. completedJob' \subseteq completedJob \cup {worker[w].job}
    BY DEF Marks
  <2> QED BY <2>1, <2>2, WorkerServes
<1> QED BY <1>1, <1>2 DEF Serving

\* The rows do not change.
RowsStay == UNCHANGED <<scheduledFlow, toDo, queue, txCount, routed>>

\* They grow and stay.
LEMMA RowsStayGrow ==
  ASSUME IInv, JobsInv, RowsStay
  PROVE  /\ Grow /\ JobsGrow /\ FlowsGrow /\ Provides
         /\ \A j \in DOMAIN queue : Stays(j)
<1>1. /\ scheduledFlow' = scheduledFlow /\ toDo' = toDo /\ queue' = queue
      /\ txCount' = txCount /\ routed' = routed
  BY DEF RowsStay
<1>2. Grow
  BY <1>1 DEF Grow
<1>3. JobsGrow /\ \A j \in DOMAIN queue : Stays(j)
  BY <1>1 DEF JobsGrow, Stays
<1>4. FlowsGrow
  BY <1>1 DEF FlowsGrow, JobsInv
<1>5. Provides
  BY <1>1, NothingToProvide
<1> QED BY <1>2, <1>3, <1>4, <1>5

\* A step of a worker that leaves the rows alone.
LEMMA ReadKeeps ==
  ASSUME IInv, IInv', Serving, RowsStay, NEW w \in Workers, Busy(w),
         \A v \in Workers : v # w => worker'[v] = worker[v],
         worker'[w].phase = "idle" \/ (GoesOn(w) /\ HasRead(w)),
         dropped \subseteq dropped', dropped' = {} => Ends(w),
         completedJob' = completedJob \/ Marks(w)
  PROVE  Serving'
  BY RowsStayGrow, WorkerKeeps DEF Serving

\* A worker that goes to another phase goes on, or has ended its delivery.
LEMMA MovesOn ==
  ASSUME NEW w \in Workers, Busy(w), NEW p, Moves(w, p),
         p = "siblings" => FALSE,
         p = "missing" => toDo[worker[w].payload.ref].deleted
  PROVE  /\ \A v \in Workers : v # w => worker'[v] = worker[v]
         /\ worker'[w].phase = p
         /\ p = "idle" \/ (GoesOn(w) /\ HasRead(w))
<1>1. /\ \A v \in Workers : v # w => worker'[v] = worker[v]
      /\ worker'[w].phase = p
  BY DEF Moves
<1>2. ASSUME p # "idle" PROVE GoesOn(w) /\ HasRead(w)
  <2>1. GoesOn(w)
    BY <1>2 DEF Moves, GoesOn
  <2>2. HasRead(w)
    BY <1>1 DEF HasRead
  <2> QED BY <2>1, <2>2
<1> QED BY <1>1, <1>2

\* An error: the job is left to a later claim, or is to be recorded as failed.
LEMMA ErrorKeeps ==
  ASSUME IInv, IInv', Serving, RowsStay, NEW w \in Workers, Busy(w), HandlerError(w),
         UNCHANGED <<completedJob, dropped>>
  PROVE  Serving'
<1>1. (Moves(w, "idle") /\ ~IsLastAttempt(w)) \/ Moves(w, "record")
  BY ErrorMoves DEF IInv, Others
<1>2. \E p \in {"idle", "record"} : Moves(w, p) /\ (p = "idle" => ~IsLastAttempt(w))
  BY <1>1
<1>3. PICK p \in {"idle", "record"} : Moves(w, p) /\ (p = "idle" => ~IsLastAttempt(w))
  BY <1>2
<1>4. /\ \A v \in Workers : v # w => worker'[v] = worker[v]
      /\ worker'[w].phase = p
      /\ p = "idle" \/ (GoesOn(w) /\ HasRead(w))
  BY <1>3, MovesOn
<1>5. ~IsLastAttempt(w) => worker[w].receipt < MaxAttempts
  <2>1. worker[w].receipt \in Nat
    BY DEF IInv, Others, WorkerTypes, Delivery
  <2> QED BY <2>1, Constants DEF IsLastAttempt
<1>6. Ends(w)
  BY <1>3, <1>4, <1>5 DEF Ends
<1> QED BY <1>4, <1>6, ReadKeeps

\* A delivery that is done with its job.
LEMMA DoneKeeps ==
  ASSUME IInv, IInv', Serving, RowsStay, NEW w \in Workers, Busy(w),
         GoTo(w, "acknowledge"), completedJob' = completedJob \/ Marks(w),
         UNCHANGED dropped,
         \/ Over(worker[w].payload.queue, worker[w].payload.ref)
         \/ /\ worker[w].payload.queue # "flow-execution"
            /\ worker[w].job \in completedJob
  PROVE  Serving'
<1>1. Moves(w, "acknowledge")
  BY GoToMoves DEF IInv, Others, Phases
<1>2. /\ \A v \in Workers : v # w => worker'[v] = worker[v]
      /\ worker'[w].phase = "acknowledge"
      /\ GoesOn(w) /\ HasRead(w)
  BY <1>1, MovesOn
<1>3. Ends(w)
  BY <1>2 DEF Ends
<1> QED BY <1>2, <1>3, ReadKeeps

\* The marker is read.
LEMMA ReadMarkerServes ==
  ASSUME IInv, IInv', Serving, NEW w \in Workers, ReadMarker(w)
  PROVE  Serving'
<1> DEFINE completed == worker[w].job \in completedJob
           p == IF IsFlowJob(w) THEN "flow"
                ELSE IF completed THEN "acknowledge" ELSE "execute"
           new == [worker[w] EXCEPT !.completed = completed, !.phase = p]
<1>1. PICK jobs : worker \in [Workers -> Delivery(jobs)]
  BY DEF IInv, Others, WorkerTypes
<1>2. /\ worker[w].phase = "marker"
      /\ worker' = [worker EXCEPT ![w].completed = completed, ![w].phase = p]
      /\ UNCHANGED <<completedJob, dropped>>
      /\ RowsStay
  BY DEF ReadMarker, tables, history, RowsStay
<1>3. Busy(w)
  BY <1>2 DEF Busy
<1>4. /\ worker'[w] = new
      /\ \A v \in Workers : v # w => worker'[v] = worker[v]
  BY <1>1, <1>2 DEF Delivery
<1>5. /\ new.phase = p /\ new.completed = completed
      /\ new.job = worker[w].job /\ new.payload = worker[w].payload
      /\ new.receipt = worker[w].receipt
  <2> HIDE DEF p, completed
  <2> QED BY <1>1 DEF Delivery
<1> HIDE DEF new
<1>6. p \in {"flow", "acknowledge", "execute"}
  OBVIOUS
<1>7. p = "acknowledge" => completed /\ worker[w].payload.queue # "flow-execution"
  BY DEF IsFlowJob, Payload
<1> HIDE DEF p
<1>8. GoesOn(w) /\ HasRead(w)
  BY <1>3, <1>4, <1>5, <1>6 DEF GoesOn, HasRead
<1>9. Ends(w)
  BY <1>2, <1>4, <1>5, <1>6, <1>7 DEF Ends
<1> QED BY <1>2, <1>3, <1>4, <1>8, <1>9, ReadKeeps

\* The scheduled flow is read: a job that is marked has nothing to route.
LEMMA ReadScheduledFlowServes ==
  ASSUME IInv, IInv', Serving, NEW w \in Workers, ReadScheduledFlow(w)
  PROVE  Serving'
<1> DEFINE s == Payload(w).ref
           p == IF scheduledFlow[s].forEachBarrier THEN "siblings"
                ELSE IF worker[w].completed THEN "acknowledge" ELSE "commit"
           new == [worker[w] EXCEPT !.flow = scheduledFlow[s], !.phase = p]
<1>1. PICK jobs : worker \in [Workers -> Delivery(jobs)]
  BY DEF IInv, Others, WorkerTypes
<1>2. /\ worker[w].phase = "flow"
      /\ UNCHANGED <<completedJob, dropped>>
      /\ RowsStay
  BY DEF ReadScheduledFlow, tables, history, RowsStay
<1>3. Busy(w) /\ worker[w].payload.queue = "flow-execution"
  BY <1>2 DEF Busy, IInv, Others, DeliveryNames, FlowPhases
<1>4. CASE s \in DOMAIN scheduledFlow
  <2>1. worker' = [worker EXCEPT ![w].flow = scheduledFlow[s], ![w].phase = p]
    BY <1>4 DEF ReadScheduledFlow
  <2>2. /\ worker'[w] = new
        /\ \A v \in Workers : v # w => worker'[v] = worker[v]
    BY <1>1, <2>1 DEF Delivery
  <2>3. /\ new.phase = p /\ new.flow = scheduledFlow[s]
        /\ new.job = worker[w].job /\ new.payload = worker[w].payload
        /\ new.receipt = worker[w].receipt /\ new.completed = worker[w].completed
    <3> HIDE DEF p, s
    <3> QED BY <1>1 DEF Delivery
  <2> HIDE DEF new
  <2>4. p \in {"siblings", "acknowledge", "commit"}
    OBVIOUS
  <2>5. p = "siblings" => scheduledFlow[s].forEachBarrier
    OBVIOUS
  <2>6. p = "acknowledge" => worker[w].completed
    OBVIOUS
  <2> HIDE DEF p
  <2>7. ~worker[w].completed
    BY <1>3, <1>4 DEF Serving, JobsInv, Marked, Payload
  <2>8. GoesOn(w) /\ HasRead(w)
    BY <1>3, <2>2, <2>3, <2>4, <2>5 DEF GoesOn, HasRead, Payload
  <2>9. Ends(w)
    BY <1>2, <2>2, <2>3, <2>4, <2>6, <2>7 DEF Ends
  <2> QED BY <1>2, <1>3, <2>2, <2>8, <2>9, ReadKeeps
<1>5. CASE s \notin DOMAIN scheduledFlow
  <2>1. CASE GoTo(w, "acknowledge")
    <3>1. Over(worker[w].payload.queue, worker[w].payload.ref)
      BY <1>2, <1>3, <1>5 DEF Over, Payload, RowsStay
    <3> QED BY <1>2, <1>3, <2>1, <3>1, DoneKeeps
  <2>2. CASE HandlerError(w)
    BY <1>2, <1>3, <2>2, ErrorKeeps
  <2> QED BY <1>5, <2>1, <2>2 DEF ReadScheduledFlow
<1> QED BY <1>4, <1>5

\* A sibling that is active holds the barrier: the delivery may end.
LEMMA CountSiblingsServes ==
  ASSUME IInv, IInv', Serving, BarriersApart, NEW w \in Workers, CountSiblings(w)
  PROVE  Serving'
<1> DEFINE siblings == ActiveTodosForStep(worker[w].flow.sourceStepId)
<1>1. /\ worker[w].phase = "siblings"
      /\ UNCHANGED <<completedJob, dropped>>
      /\ RowsStay
  BY DEF CountSiblings, tables, history, RowsStay
<1>2. Busy(w) /\ worker[w].payload.queue = "flow-execution"
  BY <1>1 DEF Busy, IInv, Others, DeliveryNames, FlowPhases
<1>3. CASE siblings = {}
  <2>1. Moves(w, "commit")
    BY <1>3, GoToMoves DEF CountSiblings, IInv, Others, Phases
  <2>2. /\ \A v \in Workers : v # w => worker'[v] = worker[v]
        /\ worker'[w].phase = "commit"
        /\ GoesOn(w) /\ HasRead(w)
    BY <1>2, <2>1, MovesOn
  <2>3. Ends(w)
    BY <1>1, <2>2 DEF Ends
  <2> QED BY <1>1, <1>2, <2>2, <2>3, ReadKeeps
<1>4. CASE siblings # {}
  <2>1. GoTo(w, "acknowledge")
    BY <1>4 DEF CountSiblings
  <2>2. Over("flow-execution", worker[w].payload.ref)
    <3>1. CASE worker[w].payload.ref \notin DOMAIN scheduledFlow
      BY <1>1, <3>1 DEF Over, RowsStay
    <3>2. CASE worker[w].payload.ref \in DOMAIN scheduledFlow
      <4>1. PICK t \in ActiveTodos : toDo[t].step = worker[w].flow.sourceStepId
        BY <1>4 DEF ActiveTodosForStep
      <4>2. /\ worker[w].flow = scheduledFlow[worker[w].payload.ref]
            /\ worker[w].flow.forEachBarrier
        BY <1>1, <3>2 DEF Serving, JobsInv, Snapshot
      <4>3. toDo[t].barrier = worker[w].payload.ref
        BY <3>2, <4>1, <4>2 DEF BarriersApart
      <4> QED BY <1>1, <4>1, <4>3 DEF Over, RowsStay, ActiveTodos
    <3> QED BY <3>1, <3>2
  <2> QED BY <1>1, <1>2, <2>1, <2>2, DoneKeeps
<1> QED BY <1>3, <1>4

\* The step of a to-do runs, or its to-do is gone.
LEMMA ExecuteServes ==
  ASSUME IInv, IInv', Serving, NEW w \in Workers,
         TodoNotFound(w) \/ \E outcome \in {"output", "retryable", "terminal"} : Execute(w, outcome)
  PROVE  Serving'
<1>1. /\ worker[w].phase = "execute"
      /\ UNCHANGED <<completedJob, dropped>>
      /\ RowsStay
  BY DEF TodoNotFound, Execute, tables, history, RowsStay
<1>2. Busy(w) /\ WorkerTypes /\ Payload(w).ref \in DOMAIN toDo
  BY <1>1, Known DEF Busy, SystemPhases
<1>3. CASE ~IsLastAttempt(w) /\ worker' = [worker EXCEPT ![w] = Idle]
  <2>1. HandlerError(w)
    <3>1. PICK jobs : worker \in [Workers -> Delivery(jobs)]
      BY <1>2 DEF WorkerTypes
    <3> QED BY <1>3, <3>1 DEF HandlerError
  <2> QED BY <1>1, <1>2, <2>1, ErrorKeeps
<1>4. ASSUME NEW p \in {"complete", "fail", "missing"}, GoTo(w, p),
             p = "missing" => Payload(w).ref \notin ActiveTodos
      PROVE  Serving'
  <2>1. Moves(w, p)
    BY <1>2, <1>4, GoToMoves DEF Phases
  <2>2. /\ \A v \in Workers : v # w => worker'[v] = worker[v]
        /\ worker'[w].phase = p
        /\ GoesOn(w) /\ HasRead(w)
    BY <1>2, <1>4, <2>1, MovesOn DEF ActiveTodos, Payload
  <2>3. Ends(w)
    BY <1>1, <1>4, <2>2 DEF Ends
  <2> QED BY <1>1, <1>2, <2>2, <2>3, ReadKeeps
<1>5. CASE TodoNotFound(w)
  BY <1>4, <1>5 DEF TodoNotFound
<1>6. ASSUME NEW outcome \in {"output", "retryable", "terminal"}, Execute(w, outcome)
      PROVE  Serving'
  <2>1. \/ GoTo(w, "complete") \/ GoTo(w, "fail")
        \/ ~IsLastAttempt(w) /\ worker' = [worker EXCEPT ![w] = Idle]
    BY <1>6 DEF Execute
  <2> QED BY <1>3, <1>4, <2>1
<1> QED BY <1>5, <1>6

\* A marker that is there already, or an error.
LEMMA FaultServes ==
  ASSUME IInv, IInv', Serving, NEW w \in Workers, CommitConflict(w) \/ Fault(w)
  PROVE  Serving'
<1>1. /\ worker[w].phase # "idle" /\ HandlerError(w)
      /\ UNCHANGED <<completedJob, dropped>>
      /\ RowsStay
  BY DEF CommitConflict, Fault, tables, history, RowsStay
<1> QED BY <1>1, ErrorKeeps DEF Busy

\* A job is marked without another row being changed.
LEMMA SkipServes ==
  ASSUME IInv, IInv', Serving, NEW w \in Workers, SkipClaimed(w) \/ SkipMissing(w)
  PROVE  Serving'
<1>1. /\ worker[w].phase \in {"commit", "missing"}
      /\ worker[w].phase = "commit" => Payload(w).ref \notin DOMAIN scheduledFlow
      /\ GoTo(w, "acknowledge")
      /\ completedJob' = completedJob \cup {worker[w].job}
      /\ UNCHANGED dropped
      /\ RowsStay
  BY DEF SkipClaimed, SkipMissing, history, RowsStay
<1>2. /\ Busy(w)
      /\ worker[w].phase = "commit" => worker[w].payload.queue = "flow-execution"
      /\ worker[w].phase = "missing" => worker[w].payload.queue = "system-step-execution"
  BY <1>1 DEF Busy, IInv, Others, DeliveryNames, FlowPhases, SystemPhases
<1>3. Over(worker[w].payload.queue, worker[w].payload.ref)
  BY <1>1, <1>2 DEF Over, Payload, RowsStay, Serving, JobsInv, Missing
<1>4. Marks(w)
  BY <1>1, <1>2 DEF Marks, Payload, RowsStay
<1> QED BY <1>1, <1>2, <1>3, <1>4, DoneKeeps

\* A delivery that is given up after its last attempt is remembered.
LEMMA GiveUpServes ==
  ASSUME IInv, IInv', Serving, NEW w \in Workers, RecordingFails(w) \/ Crash(w)
  PROVE  Serving'
<1>1. /\ worker[w].phase # "idle"
      /\ completedJob' = completedJob
      /\ dropped \subseteq dropped'
      /\ RowsStay
  BY DEF RecordingFails, Crash, tables, RowsStay
<1>2. Busy(w) /\ WorkerTypes
  BY <1>1 DEF Busy, IInv, Others
<1>3. CASE RecordingFails(w)
  <2>1. Moves(w, "acknowledge")
    BY <1>2, <1>3, GoToMoves DEF RecordingFails, Phases
  <2>2. dropped' # {}
    BY <1>3 DEF RecordingFails
  <2>3. /\ \A v \in Workers : v # w => worker'[v] = worker[v]
        /\ GoesOn(w) /\ HasRead(w)
    BY <1>2, <2>1, MovesOn
  <2> QED BY <1>1, <1>2, <2>2, <2>3, ReadKeeps
<1>4. CASE Crash(w)
  <2>1. Moves(w, "idle")
    BY <1>2, <1>4, IdleMoves DEF Crash
  <2>2. /\ \A v \in Workers : v # w => worker'[v] = worker[v]
        /\ worker'[w].phase = "idle"
    BY <2>1 DEF Moves
  <2>3. ~IsLastAttempt(w) => worker[w].receipt < MaxAttempts
    <3>1. worker[w].receipt \in Nat
      BY <1>2 DEF WorkerTypes, Delivery
    <3> QED BY <3>1, Constants DEF IsLastAttempt
  <2>4. dropped' = {} => ~IsLastAttempt(w) \/ worker[w].phase = "acknowledge"
    BY <1>4 DEF Crash
  <2>5. dropped' = {} => Ends(w)
    BY <1>1, <2>2, <2>3, <2>4 DEF Ends
  <2> QED BY <1>1, <1>2, <2>2, <2>5, ReadKeeps
<1> QED BY <1>3, <1>4

-----------------------------------------------------------------------------
\* Claims and acknowledgements.

\* A claim is the latest of its job.
LEMMA ClaimServes ==
  ASSUME IInv, IInv', Serving, NEW w \in Workers, NEW j \in DOMAIN queue, Claim(w, j)
  PROVE  Serving'
<1> DEFINE payload == [queue |-> queue[j].queue, ref |-> queue[j].ref,
                       onError |-> queue[j].onError]
           new == [Idle EXCEPT !.phase = "marker", !.job = j,
                               !.receipt = queue[j].attempts + 1,
                               !.payload = payload]
<1>1. /\ queue' = [queue EXCEPT ![j].attempts = @ + 1]
      /\ worker' = [worker EXCEPT ![w] = new]
      /\ worker[w].phase = "idle"
      /\ UNCHANGED <<scheduledFlow, toDo, txCount, routed, completedJob, dropped>>
  BY DEF Claim, history
<1>2. /\ new.phase = "marker" /\ new.job = j /\ new.receipt = queue[j].attempts + 1
      /\ new.payload.queue = queue[j].queue /\ new.payload.ref = queue[j].ref
      /\ ~new.completed
  <2>1. new \in [phase : {"marker"}, job : {j}, receipt : {queue[j].attempts + 1},
                 payload : {payload}, completed : {FALSE}, flow : {Null}]
    BY ClaimRecord
  <2>2. payload.queue = queue[j].queue /\ payload.ref = queue[j].ref
    OBVIOUS
  <2> HIDE DEF payload, new
  <2> QED BY <2>1, <2>2
<1> HIDE DEF new
<1>3. PICK jobs : worker \in [Workers -> Delivery(jobs)]
  BY DEF IInv, Others, WorkerTypes
<1>4. worker'[w] = new /\ \A v \in Workers : v # w => worker'[v] = worker[v]
  BY <1>1, <1>3
<1>5. /\ DOMAIN queue' = DOMAIN queue
      /\ \A i \in DOMAIN queue :
            queue'[i].queue = queue[i].queue /\ queue'[i].ref = queue[i].ref
      /\ \A i \in DOMAIN queue : i # j => queue'[i] = queue[i]
      /\ queue'[j].attempts = queue[j].attempts + 1
      /\ queue[j].attempts \in Nat
  BY <1>1, Constants DEF IInv, RowInv, TableTypes, JobRow
<1>6. JobsInv'
  <2>1. JobsOld'
    BY <1>1, <1>2, <1>4, <1>5 DEF Serving, JobsInv, JobsOld, Old, Busy
  <2>2. SameJob'
    <3>1. \A v \in Workers : Busy(v) /\ worker[v].job = j =>
             /\ worker[v].payload.queue = queue[j].queue
             /\ worker[v].payload.ref = queue[j].ref
             /\ worker[v].receipt <= queue[j].attempts + 1
      <4>1. \A v \in Workers : worker[v].receipt \in Nat
        BY <1>3 DEF Delivery
      <4> QED BY <1>5, <4>1 DEF Serving, JobsInv, SameJob
    <3>2. ASSUME NEW v \in Workers, worker'[v].phase # "idle",
                 worker'[v].job \in DOMAIN queue'
          PROVE  /\ worker'[v].payload.queue = queue'[worker'[v].job].queue
                 /\ worker'[v].payload.ref = queue'[worker'[v].job].ref
                 /\ worker'[v].receipt <= queue'[worker'[v].job].attempts
      <4>1. CASE v = w
        BY <1>2, <1>4, <1>5, <4>1
      <4>2. CASE v # w /\ worker[v].job = j
        BY <1>4, <1>5, <3>1, <3>2, <4>2 DEF Busy
      <4>3. CASE v # w /\ worker[v].job # j
        BY <1>4, <1>5, <3>2, <4>3 DEF Serving, JobsInv, SameJob, Busy
      <4> QED BY <4>1, <4>2, <4>3
    <3>3. ASSUME NEW v \in Workers, worker'[v].phase # "idle",
                 NEW u \in Workers, worker'[u].phase # "idle",
                 worker'[u].job = worker'[v].job
          PROVE  /\ worker'[u].payload.queue = worker'[v].payload.queue
                 /\ worker'[u].payload.ref = worker'[v].payload.ref
      <4>1. CASE u # w /\ v # w
        BY <1>4, <3>3, <4>1 DEF Serving, JobsInv, SameJob, Busy
      <4>2. CASE u = w \/ v = w
        BY <1>2, <1>4, <3>1, <3>3, <4>2 DEF Busy
      <4> QED BY <4>1, <4>2
    <3> QED BY <3>2, <3>3 DEF SameJob, Busy
  <2>3. Marked'
    <3>1. \A i \in DOMAIN queue' \cap completedJob' :
             queue'[i].queue = "flow-execution" => queue'[i].ref \notin DOMAIN scheduledFlow'
      BY <1>1, <1>5 DEF Serving, JobsInv, Marked
    <3>2. ASSUME NEW v \in Workers, worker'[v].phase # "idle"
          PROVE  /\ worker'[v].completed => worker'[v].job \in completedJob'
                 /\ worker'[v].payload.queue = "flow-execution"
                       /\ worker'[v].job \in completedJob' =>
                          worker'[v].payload.ref \notin DOMAIN scheduledFlow'
      <4>1. CASE v = w
        BY <1>1, <1>2, <1>4, <4>1 DEF Serving, JobsInv, Marked
      <4>2. CASE v # w
        BY <1>1, <1>4, <3>2, <4>2 DEF Serving, JobsInv, Marked, Busy
      <4> QED BY <4>1, <4>2
    <3> QED BY <3>1, <3>2 DEF Marked, Busy
  <2>4. RoutedIds' /\ IsFiniteSet(DOMAIN toDo')
    BY <1>1 DEF Serving, JobsInv, RoutedIds
  <2>5. ASSUME NEW v \in Workers
        PROVE  Snapshot(v)' /\ Missing(v)'
    <3>1. CASE v = w
      BY <1>2, <1>4, <3>1 DEF Snapshot, Missing
    <3>2. CASE v # w
      BY <1>1, <1>4, <3>2 DEF Serving, JobsInv, Snapshot, Missing
    <3> QED BY <3>1, <3>2
  <2> QED BY <2>1, <2>2, <2>3, <2>4, <2>5 DEF JobsInv
<1>7. ASSUME NEW i \in DOMAIN queue, Live(i)
      PROVE  Live(i)'
  <2>1. CASE i = j
    <3>1. ASSUME NEW v \in Workers, worker'[v].job = j,
                 worker'[v].receipt = queue[j].attempts + 1
          PROVE  worker'[v].phase # "acknowledge"
      <4>1. CASE v = w
        BY <1>2, <1>4, <4>1
      <4>2. CASE v # w /\ Busy(v)
        <5>1. worker[v].receipt <= queue[j].attempts
          BY <1>4, <3>1, <4>2 DEF Serving, JobsInv, SameJob
        <5> QED BY <1>4, <1>5, <3>1, <4>2, <5>1
      <4>3. CASE v # w /\ ~Busy(v)
        BY <1>4, <4>3 DEF Busy
      <4> QED BY <4>1, <4>2, <4>3
    <3>2. worker'[w].phase # "idle" /\ worker'[w].job = j
          /\ worker'[w].receipt = queue'[j].attempts
      BY <1>2, <1>4, <1>5
    <3> QED BY <1>5, <2>1, <3>1, <3>2 DEF Live, Claims, Busy
  <2>2. CASE i # j
    <3>1. \A v \in Workers : Claims(v, i)' => v # w /\ Claims(v, i)
      BY <1>2, <1>4, <1>5, <2>2 DEF Claims
    <3>2. \A v \in Workers : Busy(v) => v # w
      BY <1>1 DEF Busy
    <3>3. \A v \in Workers : v # w /\ Claims(v, i) /\ Busy(v) => Claims(v, i)' /\ Busy(v)'
      BY <1>4, <1>5, <2>2 DEF Claims, Busy
    <3>4. \A v \in Workers : Claims(v, i)' => worker'[v].phase # "acknowledge"
      BY <1>4, <1>7, <3>1 DEF Live
    <3>5. queue'[i].attempts < MaxAttempts \/ \E v \in Workers : Busy(v)' /\ Claims(v, i)'
      BY <1>5, <1>7, <2>2, <3>2, <3>3 DEF Live
    <3> QED BY <3>4, <3>5 DEF Live
  <2> QED BY <2>1, <2>2
<1>8. Grow /\ Provides
  BY <1>1, NothingToProvide DEF Grow
<1>9. Served => Served'
  BY <1>1, <1>5, <1>7, <1>8, ServedKept DEF Provides, Finished
<1> QED BY <1>1, <1>6, <1>9 DEF Serving

\* Only a job whose latest delivery is done is taken off the queue.
LEMMA AcknowledgeServes ==
  ASSUME IInv, IInv', Serving, NEW w \in Workers, Acknowledge(w)
  PROVE  Serving'
<1>1. /\ worker[w].phase = "acknowledge"
      /\ worker' = [worker EXCEPT ![w] = Idle]
      /\ UNCHANGED <<scheduledFlow, toDo, txCount, routed, completedJob, dropped>>
  BY DEF Acknowledge, history
<1>2. Moves(w, "idle")
  BY <1>1, IdleMoves DEF IInv, Others
<1>3. /\ \A v \in Workers : v # w => worker'[v] = worker[v]
      /\ worker'[w].phase = "idle"
  BY <1>2 DEF Moves
<1>4. \A i \in DOMAIN queue : Stays(i) \/ Claims(w, i)
  <2>1. CASE worker[w].job \in DOMAIN queue
             /\ queue[worker[w].job].attempts = worker[w].receipt
    <3>1. PICK k : k = worker[w].job
      OBVIOUS
    <3>2. queue' = Delete(queue, {k})
      BY <2>1, <3>1 DEF Acknowledge
    <3>3. /\ DOMAIN queue' = DOMAIN queue \ {k}
          /\ \A i \in DOMAIN queue \ {k} : queue'[i] = queue[i]
      BY <3>2, Deleted
    <3> QED BY <2>1, <3>1, <3>3 DEF Claims, Stays
  <2>2. CASE ~(worker[w].job \in DOMAIN queue
               /\ queue[worker[w].job].attempts = worker[w].receipt)
    <3>1. queue' = queue
      BY <2>2 DEF Acknowledge
    <3> QED BY <3>1 DEF Stays
  <2> QED BY <2>1, <2>2
<1>5. \A i \in DOMAIN queue' : i \in DOMAIN queue /\ queue'[i] = queue[i]
  <2>1. queue' = queue \/ \E i : queue' = Delete(queue, {i})
    BY DEF Acknowledge
  <2>2. ASSUME NEW k, queue' = Delete(queue, {k})
        PROVE  \A i \in DOMAIN queue' : i \in DOMAIN queue /\ queue'[i] = queue[i]
    <3>1. /\ DOMAIN queue' = DOMAIN queue \ {k}
          /\ \A i \in DOMAIN queue \ {k} : queue'[i] = queue[i]
      BY <2>2, Deleted
    <3> QED BY <3>1
  <2> QED BY <2>1, <2>2
<1>6. Grow /\ Provides
  BY <1>1, NothingToProvide DEF Grow
<1>7. JobsGrow
  BY <1>1, <1>5 DEF JobsGrow
<1>8. FlowsGrow
  BY <1>1 DEF FlowsGrow, Serving, JobsInv
<1>9. JobsInv'
  BY <1>1, <1>3, <1>6, <1>7, <1>8, JobsInvKept DEF Serving
<1>10. \A i \in DOMAIN queue : Live(i) => Stays(i) /\ Live(i)'
  <2> SUFFICES ASSUME NEW i \in DOMAIN queue, Live(i)
               PROVE  Stays(i) /\ Live(i)'
    OBVIOUS
  <2>1. ~Claims(w, i)
    BY <1>1 DEF Live
  <2>2. Stays(i)
    BY <1>4, <2>1
  <2> QED BY <1>3, <2>1, <2>2, LiveKept
<1>11. Served => Served'
  BY <1>1, <1>6, <1>10, ServedKept DEF Provides, Finished, Stays
<1> QED BY <1>1, <1>9, <1>11 DEF Serving

-----------------------------------------------------------------------------
\* Transactions of a worker.

\* A scheduled flow is consumed without being routed.
LEMMA ConsumptionServes ==
  ASSUME IInv, IInv', Serving, NEW w \in Workers, SkipClosed(w) \/ RecordFlowFailure(w)
  PROVE  Serving'
<1>1. /\ worker[w].phase \in {"commit", "record"} /\ GoTo(w, "acknowledge")
      /\ toDo' = toDo /\ queue' = queue /\ txCount' = txCount /\ routed' = routed
      /\ UNCHANGED dropped
  BY DEF SkipClosed, RecordFlowFailure, history
<1>2. /\ Busy(w) /\ worker[w].payload.queue = "flow-execution"
  <2>1. CASE SkipClosed(w)
    BY <2>1 DEF SkipClosed, Busy, IInv, Others, DeliveryNames, FlowPhases
  <2>2. CASE RecordFlowFailure(w)
    BY <2>2 DEF RecordFlowFailure, IsFlowJob, Payload, Busy
  <2> QED BY <2>1, <2>2
<1>3. CASE completedJob' = completedJob /\ scheduledFlow' = scheduledFlow
           /\ worker[w].job \in completedJob
  <2>1. RowsStay
    BY <1>1, <1>3 DEF RowsStay
  <2>2. Over("flow-execution", worker[w].payload.ref)
    BY <1>2, <1>3 DEF Over, Serving, JobsInv, Marked
  <2> QED BY <1>1, <1>2, <1>3, <2>1, <2>2, DoneKeeps
<1>4. CASE /\ completedJob' = completedJob \cup {worker[w].job}
           /\ scheduledFlow' = Delete(scheduledFlow, {Payload(w).ref})
  <2>1. /\ worker[w].payload.ref \notin DOMAIN scheduledFlow'
        /\ DOMAIN scheduledFlow' \subseteq DOMAIN scheduledFlow
        /\ \A s \in DOMAIN scheduledFlow' : scheduledFlow'[s] = scheduledFlow[s]
    <3>1. Unschedules(Payload(w).ref)
      BY <1>4, UnschedulesOne
    <3> QED BY <3>1 DEF Unschedules, Payload
  <2>2. Moves(w, "acknowledge")
    BY <1>1, GoToMoves DEF IInv, Others, Phases
  <2>3. /\ \A v \in Workers : v # w => worker'[v] = worker[v]
        /\ worker'[w].phase = "acknowledge"
        /\ GoesOn(w) /\ HasRead(w)
    BY <1>2, <2>2, MovesOn
  <2>4. Over("flow-execution", worker[w].payload.ref)
    BY <2>1 DEF Over
  <2>5. Ends(w)
    BY <1>2, <2>3, <2>4 DEF Ends
  <2>6. Marks(w)
    BY <1>4, <2>1 DEF Marks
  <2>7. Grow /\ Provides
    BY <1>1, <2>1, NothingToProvide DEF Grow
  <2>8. JobsGrow /\ \A j \in DOMAIN queue : Stays(j)
    BY <1>1 DEF JobsGrow, Stays
  <2>9. FlowsGrow
    BY <1>1, <2>1 DEF FlowsGrow, Serving, JobsInv
  <2> QED BY <1>1, <1>2, <2>3, <2>5, <2>6, <2>7, <2>8, <2>9, WorkerKeeps
<1> QED BY <1>3, <1>4 DEF SkipClosed, RecordFlowFailure

\* A flow job that is added has a new id and is live.
LEMMA AddedFlowJob ==
  ASSUME IInv, JobsInv, NEW s, NEW e, txCount' = txCount + 1,
         queue' = Insert(queue, [j \in {Id(Null, 0)} |-> FlowJob(s, e)]),
         \A w \in Workers :
            \/ worker'[w].phase = "idle"
            \/ Busy(w) /\ worker'[w].job = worker[w].job
  PROVE  /\ JobsGrow
         /\ \A j \in DOMAIN queue : Stays(j)
         /\ HasFlowJob(s)'
<1>0. PICK i : i = Id(Null, 0)
  OBVIOUS
<1>1. NewId(i)
  BY <1>0, IdsAreNew DEF IInv, RowInv, TableTypes
<1>2. i \notin DOMAIN queue
  BY <1>1 DEF JobsInv, JobsOld, Old, NewId, Ids, IInv, RowInv, TableTypes
<1>3. /\ DOMAIN queue' = DOMAIN queue \cup {i}
      /\ queue'[i] = FlowJob(s, e)
      /\ \A j \in DOMAIN queue : queue'[j] = queue[j]
  BY <1>0, <1>2 DEF Insert
<1>4. JobsGrow /\ \A j \in DOMAIN queue : Stays(j)
  BY <1>1, <1>3 DEF JobsGrow, Stays
<1>5. Live(i)'
  <2>1. queue'[i].attempts = 0
    BY <1>3 DEF FlowJob
  <2> QED BY <1>1, <2>1, NewIsLive
<1>6. HasFlowJob(s)'
  <2>1. i \in DOMAIN queue' /\ queue'[i].queue = "flow-execution" /\ queue'[i].ref = s
    BY <1>3 DEF FlowJob
  <2> QED BY <1>5, <2>1 DEF HasFlowJob
<1> QED BY <1>4, <1>6

\* A completion whose flow is a barrier, or is new.
LEMMA CompletionServes ==
  ASSUME IInv, JobsInv, NEW t \in DOMAIN toDo, NEW fresh \in Ids, Continue(t, fresh),
         fresh \notin DOMAIN routed, fresh.item = 0 \/ fresh = t,
         \A w \in Workers :
            \/ worker'[w].phase = "idle"
            \/ Busy(w) /\ worker'[w].job = worker[w].job
  PROVE  /\ JobsGrow /\ FlowsGrow /\ Provides
         /\ \A j \in DOMAIN queue : Stays(j)
         /\ toDo'[t].deleted
<1>1. PICK s : s = IF toDo[t].barrier # Null THEN toDo[t].barrier ELSE fresh
  OBVIOUS
<1>2. /\ queue' = Insert(queue, [i \in {Id(Null, 0)} |-> FlowJob(s, Null)])
      /\ txCount' = txCount + 1
  BY <1>1 DEF Continue
<1>3. JobsGrow /\ (\A j \in DOMAIN queue : Stays(j)) /\ HasFlowJob(s)'
  BY <1>2, AddedFlowJob
<1>4. /\ DOMAIN toDo' = DOMAIN toDo
      /\ \A u \in DOMAIN toDo : u # t => toDo'[u] = toDo[u]
      /\ toDo'[t].deleted
  <2>1. PICK r : Continues(t, r)
    BY ContinueRows DEF IInv, RowInv
  <2> QED BY <2>1 DEF Continues
<1>5. CASE toDo[t].barrier # Null
  <2>1. UNCHANGED <<scheduledFlow, routed>> /\ s = toDo[t].barrier
    BY <1>1, <1>5 DEF Continue
  <2>2. FlowsGrow
    BY <1>4, <2>1 DEF FlowsGrow, JobsInv, RoutedIds
  <2>3. Provides
    <3>1. \A u \in ActiveTodos : u \in ActiveTodos' \/ u = t
      BY <1>4 DEF ActiveTodos
    <3>2. \A u : Needed(u)' => Needed(u)
      BY <1>4 DEF Needed, ActiveTodos
    <3> QED BY <1>3, <2>1, <3>1, <3>2 DEF Provides
  <2> QED BY <1>3, <1>4, <2>2, <2>3
<1>6. CASE toDo[t].barrier = Null
  <2>1. s = fresh
    BY <1>1, <1>6
  <2>2. /\ DOMAIN scheduledFlow' = DOMAIN scheduledFlow \cup {s}
        /\ \A i \in DOMAIN scheduledFlow : i # s => scheduledFlow'[i] = scheduledFlow[i]
        /\ DOMAIN routed' = DOMAIN routed \cup {s}
    BY <1>1, <1>6 DEF Continue, Insert
  <2>3. s \notin DOMAIN scheduledFlow
    BY <2>1 DEF IInv, RowInv, RowNames
  <2>4. FlowsGrow
    <3>1. \A i \in DOMAIN scheduledFlow' :
             \/ i \in DOMAIN scheduledFlow /\ scheduledFlow'[i] = scheduledFlow[i]
             \/ i \notin DOMAIN routed
      BY <2>1, <2>2, <2>3
    <3>2. \A i \in DOMAIN routed' :
             \/ i \in DOMAIN routed \/ i.item = 0
             \/ i \in DOMAIN toDo' /\ toDo'[i].deleted
      BY <1>4, <2>1, <2>2
    <3>3. IsFiniteSet(DOMAIN toDo')
      BY <1>4 DEF JobsInv
    <3> QED BY <3>1, <3>2, <3>3 DEF FlowsGrow
  <2>5. Provides
    <3>1. \A u \in ActiveTodos : u \in ActiveTodos' \/ u = t
      BY <1>4 DEF ActiveTodos
    <3>2. \A u : Needed(u)' => Needed(u)
      BY <1>4 DEF Needed, ActiveTodos
    <3>3. Null \notin DOMAIN scheduledFlow
      BY Constants DEF IInv, RowInv, RowNames, TableTypes
    <3>4. \A i \in DOMAIN scheduledFlow' : i \in DOMAIN scheduledFlow \/ HasFlowJob(i)'
      BY <1>3, <2>2
    <3> QED BY <1>6, <3>1, <3>2, <3>3, <3>4 DEF Provides
  <2> QED BY <1>3, <1>4, <2>4, <2>5
<1> QED BY <1>5, <1>6

\* A system step is completed, and its job marked.
LEMMA CompleteSystemStepServes ==
  ASSUME IInv, IInv', Serving, NEW w \in Workers, CompleteSystemStep(w)
  PROVE  Serving'
<1>1. PICK t, fresh : t = worker[w].payload.ref /\ fresh = Id(Null, 0)
  OBVIOUS
<1>2. /\ worker[w].phase = "complete" /\ GoTo(w, "acknowledge")
      /\ Continue(t, fresh)
      /\ completedJob' = completedJob \cup {worker[w].job}
      /\ UNCHANGED <<execution, dropped>>
  BY <1>1 DEF CompleteSystemStep, Payload
<1>3. /\ Busy(w) /\ worker[w].payload.queue = "system-step-execution"
      /\ t \in DOMAIN toDo
  BY <1>1, <1>2, Known DEF Busy, SystemPhases, Payload
<1>4. NewId(fresh) /\ fresh.item = 0
  BY <1>1, IdsAreNew DEF IInv, RowInv, TableTypes
<1>5. fresh \in Ids /\ fresh \notin DOMAIN routed
  BY <1>4, NewIdsDiffer DEF IInv, NewId
<1>6. Moves(w, "acknowledge")
  BY <1>2, GoToMoves DEF IInv, Others, Phases
<1>7. /\ \A v \in Workers : v # w => worker'[v] = worker[v]
      /\ worker'[w].phase = "acknowledge"
      /\ GoesOn(w) /\ HasRead(w)
  BY <1>3, <1>6, MovesOn
<1>8. \A v \in Workers :
         \/ worker'[v].phase = "idle"
         \/ Busy(v) /\ worker'[v].job = worker[v].job
  BY <1>7 DEF GoesOn, Busy
<1>9. /\ JobsGrow /\ FlowsGrow /\ Provides
      /\ \A j \in DOMAIN queue : Stays(j)
      /\ toDo'[t].deleted
  BY <1>2, <1>3, <1>4, <1>5, <1>8, CompletionServes DEF Serving
<1>10. Grow
  <2>1. fresh.tx <= txCount + 1
    BY <1>4 DEF NewId, Ids, IInv, RowInv, TableTypes
  <2>2. \A u \in DOMAIN toDo : toDo[u].barrier # Null => toDo[u].barrier # fresh
    BY <1>5 DEF IInv, RowInv, RowNames
  <2> QED BY <1>2, <1>3, <1>5, <2>1, <2>2, CompletionKeeps DEF IInv
<1>11. Ends(w)
  BY <1>1, <1>3, <1>7, <1>9 DEF Ends, Over
<1>12. Marks(w)
  BY <1>2, <1>3 DEF Marks
<1> QED BY <1>2, <1>3, <1>7, <1>9, <1>10, <1>11, <1>12, WorkerKeeps

\* A person completes a to-do.
LEMMA CompleteToDoServes ==
  ASSUME IInv, IInv', Serving, NEW t \in DOMAIN toDo, CompleteToDo(t)
  PROVE  Serving'
<1>1. /\ Continue(t, t) /\ ~toDo[t].deleted
      /\ UNCHANGED execution
      /\ worker' = worker /\ completedJob' = completedJob /\ dropped' = dropped
  BY DEF CompleteToDo, ActiveTodos
<1>2. t \in Ids /\ t.tx <= txCount + 1 /\ t.item # 0
  BY DEF IInv, RowInv, RowNames, TableTypes, Ids
<1>3. t \notin DOMAIN routed
  BY <1>1, <1>2 DEF Serving, JobsInv, RoutedIds
<1>4. \A u \in DOMAIN toDo : toDo[u].barrier # Null => toDo[u].barrier # t
  BY <1>3 DEF IInv, RowInv, RowNames
<1>5. Grow
  BY <1>1, <1>2, <1>4, CompletionKeeps DEF IInv
<1>6. JobsGrow /\ FlowsGrow /\ Provides /\ \A j \in DOMAIN queue : Stays(j)
  BY <1>1, <1>2, <1>3, CompletionServes DEF Serving, Busy
<1>7. JobsInv'
  BY <1>1, <1>5, <1>6, JobsInvKept DEF Serving
<1>8. Served => Served'
  BY <1>1, <1>5, <1>6, OthersServe
<1> QED BY <1>1, <1>7, <1>8 DEF Serving

\* A failure, recorded or found by the handler, marks a system job.
LEMMA FailureServes ==
  ASSUME IInv, IInv', Serving, NEW w \in Workers, FailSystemStep(w) \/ RecordSystemFailure(w)
  PROVE  Serving'
<1>1. PICK t : t = worker[w].payload.ref
  OBVIOUS
<1>2. /\ worker[w].phase \in {"fail", "record"} /\ GoTo(w, "acknowledge")
      /\ dropped' = dropped
  BY DEF FailSystemStep, RecordSystemFailure, history
<1>3. Busy(w) /\ worker[w].payload.queue = "system-step-execution" /\ t \in DOMAIN toDo
  <2>1. CASE FailSystemStep(w)
    BY <1>1, <2>1, Known DEF FailSystemStep, Busy, SystemPhases, Payload
  <2>2. CASE RecordSystemFailure(w)
    BY <1>1, <2>2, Known DEF RecordSystemFailure, IsFlowJob, Payload, PayloadRow, Queues, Busy
  <2> QED BY <2>1, <2>2
<1>4. Moves(w, "acknowledge")
  BY <1>2, GoToMoves DEF IInv, Others, Phases
<1>5. /\ \A v \in Workers : v # w => worker'[v] = worker[v]
      /\ worker'[w].phase = "acknowledge"
      /\ GoesOn(w) /\ HasRead(w)
  BY <1>3, <1>4, MovesOn
<1>6. \A v \in Workers :
         \/ worker'[v].phase = "idle"
         \/ Busy(v) /\ worker'[v].job = worker[v].job
  BY <1>5 DEF GoesOn, Busy
<1>7. CASE RecordSystemFailure(w) /\ worker[w].job \in completedJob
  <2>1. RowsStay /\ completedJob' = completedJob
    BY <1>7 DEF RecordSystemFailure, RowsStay, history
  <2> QED BY <1>2, <1>3, <1>7, <2>1, DoneKeeps
<1>8. CASE FailSystemStep(w) \/ worker[w].job \notin completedJob
  <2>1. PICK s : s = Id(Null, 0)
    OBVIOUS
  <2>2. FailToDo(t) /\ completedJob' = completedJob \cup {worker[w].job}
    BY <1>1, <1>8 DEF FailSystemStep, RecordSystemFailure, Payload
  <2>3. /\ toDo[t].step \in System
        /\ FailsAndRoutes(t, s) \/ FailsAndRoutes(t, Null)
    BY <1>1, <1>8, <2>1, FailSystemStepRows, RecordSystemFailureRows DEF Payload
  <2>4. Grow
    BY <1>3, <2>3, FailKeepsRows DEF IInv
  <2>5. /\ DOMAIN toDo' = DOMAIN toDo
        /\ \A u \in DOMAIN toDo : u # t => toDo'[u] = toDo[u]
        /\ toDo'[t].deleted = toDo[t].deleted
        /\ toDo'[t].failed \/ toDo'[t].deleted
    BY <1>3, <2>2 DEF FailToDo, IInv, RowInv, TableTypes, ToDoRow
  <2>6. /\ \A u \in ActiveTodos : u \in ActiveTodos'
        /\ \A u : Needed(u)' => Needed(u)
    BY <2>5 DEF ActiveTodos, Needed
  <2>7. JobsGrow /\ FlowsGrow /\ Provides /\ \A j \in DOMAIN queue : Stays(j)
    <3>1. CASE UNCHANGED <<scheduledFlow, queue, routed, txCount>>
      <4>1. JobsGrow /\ \A j \in DOMAIN queue : Stays(j)
        BY <3>1 DEF JobsGrow, Stays
      <4>2. FlowsGrow
        BY <2>5, <3>1 DEF FlowsGrow, Serving, JobsInv
      <4>3. Provides
        BY <2>6, <3>1 DEF Provides
      <4> QED BY <4>1, <4>2, <4>3
    <3>2. CASE \E error \in Errors :
                  /\ scheduledFlow' = Insert(scheduledFlow,
                        [i \in {s} |-> ScheduledFlow(toDo[t].step, Null, FALSE)])
                  /\ queue' = Insert(queue, [i \in {s} |-> FlowJob(s, error)])
                  /\ routed' = Insert(routed, [i \in {s} |-> 0])
                  /\ txCount' = txCount + 1
      <4>1. PICK error \in Errors :
               /\ scheduledFlow' = Insert(scheduledFlow,
                     [i \in {s} |-> ScheduledFlow(toDo[t].step, Null, FALSE)])
               /\ queue' = Insert(queue, [i \in {s} |-> FlowJob(s, error)])
               /\ routed' = Insert(routed, [i \in {s} |-> 0])
               /\ txCount' = txCount + 1
        BY <3>2
      <4>2. JobsGrow /\ (\A j \in DOMAIN queue : Stays(j)) /\ HasFlowJob(s)'
        BY <1>6, <2>1, <4>1, AddedFlowJob DEF Serving
      <4>3. s.item = 0 /\ s \notin DOMAIN routed
        BY <2>1, IdsAreNew, NewIdsDiffer DEF IInv, RowInv, TableTypes
      <4>4. s \notin DOMAIN scheduledFlow
        BY <4>3 DEF IInv, RowInv, RowNames
      <4>5. /\ DOMAIN scheduledFlow' = DOMAIN scheduledFlow \cup {s}
            /\ \A i \in DOMAIN scheduledFlow : scheduledFlow'[i] = scheduledFlow[i]
            /\ DOMAIN routed' = DOMAIN routed \cup {s}
        BY <4>1, <4>4 DEF Insert
      <4>6. FlowsGrow
        <5>1. \A i \in DOMAIN scheduledFlow' :
                 \/ i \in DOMAIN scheduledFlow /\ scheduledFlow'[i] = scheduledFlow[i]
                 \/ i \notin DOMAIN routed
          BY <4>3, <4>5
        <5>2. \A i \in DOMAIN routed' : i \in DOMAIN routed \/ i.item = 0
          BY <4>3, <4>5
        <5>3. IsFiniteSet(DOMAIN toDo')
          BY <2>5 DEF Serving, JobsInv
        <5> QED BY <5>1, <5>2, <5>3 DEF FlowsGrow
      <4>7. Provides
        BY <2>6, <4>2, <4>5 DEF Provides
      <4> QED BY <4>2, <4>6, <4>7
    <3>3. CASE FailSystemStep(w)
      BY <1>1, <2>1, <3>1, <3>2, <3>3 DEF FailSystemStep, Payload
    <3>4. CASE RecordSystemFailure(w)
      BY <3>1, <3>4 DEF RecordSystemFailure, history
    <3> QED BY <1>8, <3>3, <3>4
  <2>8. Ends(w)
    BY <1>1, <1>3, <1>5, <2>5 DEF Ends, Over
  <2>9. Marks(w)
    BY <1>3, <2>2 DEF Marks
  <2> QED BY <1>2, <1>3, <1>5, <2>4, <2>7, <2>8, <2>9, WorkerKeeps
<1> QED BY <1>7, <1>8

\* Whatever a route schedules or creates has somebody who sees to it.
LEMMA RouteServes ==
  ASSUME IInv, IInv', Serving, NEW w \in Workers, Route(w)
  PROVE  Serving'
<1>1. PICK ref : ref = worker[w].payload.ref
  OBVIOUS
<1>2. /\ worker[w].phase = "commit" /\ GoTo(w, "acknowledge")
      /\ completedJob' = completedJob \cup {worker[w].job}
      /\ dropped' = dropped
  BY DEF Route
<1>3. PICK branches, new, flows :
         RoutesTo(ref, new, flows) /\ RoutesBranches(branches, new, flows)
  BY <1>1, RouteIs DEF Payload
<1>4. Busy(w) /\ worker[w].payload.queue = "flow-execution"
  BY <1>2 DEF Busy, IInv, Others, DeliveryNames, FlowPhases
<1>5. Moves(w, "acknowledge")
  BY <1>2, GoToMoves DEF IInv, Others, Phases
<1>6. /\ \A v \in Workers : v # w => worker'[v] = worker[v]
      /\ worker'[w].phase = "acknowledge"
      /\ GoesOn(w) /\ HasRead(w)
  BY <1>4, <1>5, MovesOn
<1>7. \A v \in Workers :
         \/ worker'[v].phase = "idle"
         \/ Busy(v) /\ worker'[v].job = worker[v].job
  BY <1>6 DEF GoesOn, Busy
<1>8. Grow
  BY <1>1, <1>3, RouteIs, RouteKeepsRows DEF IInv, Payload
<1>9. /\ \A i \in new : NewId(i) /\ i \notin DOMAIN toDo
      /\ \A i \in flows : NewId(i) /\ i.item = 0 /\ i \notin DOMAIN routed
  BY <1>3, NewIdsDiffer DEF RoutesTo, IInv
<1>10. \A j : Old(j) => ~NewId(j)
  BY DEF Old, NewId, Ids, IInv, RowInv, TableTypes
<1>11. /\ ref \in DOMAIN routed /\ ref \notin flows
       /\ DOMAIN scheduledFlow \subseteq DOMAIN routed
  BY <1>1, <1>9, RouteIs DEF IInv, RowInv, RowNames, Payload
<1>12. /\ DOMAIN scheduledFlow' = (DOMAIN scheduledFlow \ {ref}) \cup flows
       /\ \A s \in DOMAIN scheduledFlow \ {ref} : scheduledFlow'[s] = scheduledFlow[s]
       /\ DOMAIN routed' = DOMAIN routed \cup flows
       /\ DOMAIN toDo' = DOMAIN toDo \cup new
       /\ \A t \in DOMAIN toDo : toDo'[t] = toDo[t]
       /\ \A t \in new : ~toDo'[t].deleted
       /\ txCount' = txCount + 1
  BY <1>3, <1>9, <1>11 DEF RoutesTo
<1>13. JobsGrow /\ \A j \in DOMAIN queue : Stays(j)
  <2>1. \A j \in DOMAIN queue : ~NewId(j)
    BY <1>10 DEF Serving, JobsInv, JobsOld
  <2> QED BY <1>3, <1>12, <2>1 DEF RoutesBranches, JobsGrow, Stays
<1>14. FlowsGrow
  <2>1. \A s \in DOMAIN scheduledFlow' :
           \/ s \in DOMAIN scheduledFlow /\ scheduledFlow'[s] = scheduledFlow[s]
           \/ s \notin DOMAIN routed
    BY <1>9, <1>12
  <2>2. \A s \in DOMAIN routed' : s \in DOMAIN routed \/ s.item = 0
    BY <1>9, <1>12
  <2>3. IsFiniteSet(new)
    BY <1>3 DEF RoutesBranches
  <2>4. IsFiniteSet(DOMAIN toDo)
    BY DEF Serving, JobsInv
  <2>5. IsFiniteSet(DOMAIN toDo \cup new)
    BY <2>3, <2>4, FS_Union
  <2>6. DOMAIN toDo' = DOMAIN toDo \cup new
    BY <1>12
  <2>7. IsFiniteSet(DOMAIN toDo')
    BY <2>5, <2>6
  <2> QED BY <2>1, <2>2, <2>7 DEF FlowsGrow
<1>15. \A j : NewId(j) /\ queue'[j].attempts = 0 => Live(j)' /\ j \notin completedJob'
  <2> SUFFICES ASSUME NEW j, NewId(j), queue'[j].attempts = 0
               PROVE  Live(j)' /\ j \notin completedJob'
    OBVIOUS
  <2>1. Live(j)' /\ j \notin completedJob
    BY <1>7, NewIsLive DEF Serving
  <2>2. j # worker[w].job
    BY <1>4, <1>10 DEF Serving, JobsInv, JobsOld
  <2> QED BY <1>2, <2>1, <2>2
<1>16. Provides
  <2>1. ASSUME NEW s \in flows
        PROVE  HasFlowJob(s)' \/ Held(s)'
    <3>1. CASE s \in DOMAIN queue' /\ queue'[s] = FlowJob(s, Null)
      <4>1. /\ queue'[s].queue = "flow-execution" /\ queue'[s].ref = s
            /\ queue'[s].attempts = 0
        BY <3>1 DEF FlowJob
      <4>2. Live(s)'
        BY <1>9, <1>15, <4>1
      <4> QED BY <3>1, <4>1, <4>2 DEF HasFlowJob
    <3>2. CASE \E t \in new : toDo'[t].barrier = s
      BY <1>12, <3>2 DEF Held, ActiveTodos
    <3> QED BY <1>3, <3>1, <3>2 DEF RoutesBranches
  <2>2. ASSUME NEW t \in new, toDo'[t].step \in System
        PROVE  HasSystemJob(t)'
    <3>1. t \in DOMAIN queue' /\ queue'[t] = SystemJob(t)
      BY <1>3, <2>2 DEF RoutesBranches
    <3>2. /\ queue'[t].queue = "system-step-execution" /\ queue'[t].ref = t
          /\ queue'[t].attempts = 0
      BY <3>1 DEF SystemJob
    <3>3. Live(t)' /\ t \notin completedJob'
      BY <1>9, <1>15, <3>2
    <3> QED BY <3>1, <3>2, <3>3 DEF HasSystemJob
  <2>3. \A t \in ActiveTodos : t \in ActiveTodos'
    BY <1>12 DEF ActiveTodos
  <2>4. \A t : Needed(t)' => Needed(t) \/ HasSystemJob(t)'
    <3> SUFFICES ASSUME NEW t, Needed(t)'
                 PROVE  Needed(t) \/ HasSystemJob(t)'
      OBVIOUS
    <3>1. t \in DOMAIN toDo \/ t \in new
      BY <1>12 DEF Needed, ActiveTodos
    <3>2. CASE t \in DOMAIN toDo
      BY <1>12, <3>2 DEF Needed, ActiveTodos
    <3>3. CASE t \in new
      BY <2>2, <3>3 DEF Needed
    <3> QED BY <3>1, <3>2, <3>3
  <2> QED BY <1>12, <2>1, <2>3, <2>4 DEF Provides
<1>17. Over("flow-execution", ref)
  BY <1>11, <1>12 DEF Over
<1>18. Ends(w)
  BY <1>1, <1>4, <1>6, <1>17 DEF Ends
<1>19. Marks(w)
  BY <1>1, <1>2, <1>11, <1>12 DEF Marks
<1> QED BY <1>2, <1>4, <1>6, <1>8, <1>13, <1>14, <1>16, <1>18, <1>19, WorkerKeeps

-----------------------------------------------------------------------------
\* Administrators.

\* A request, or nothing at all.
LEMMA RequestServes ==
  ASSUME IInv, IInv', Serving, RowsStay,
         worker' = worker, completedJob' = completedJob, dropped' = dropped
  PROVE  Serving'
<1>1. /\ Grow /\ JobsGrow /\ FlowsGrow /\ Provides
      /\ \A j \in DOMAIN queue : Stays(j)
  BY RowsStayGrow DEF Serving
<1>2. JobsInv'
  BY <1>1, JobsInvKept DEF Serving
<1>3. Served => Served'
  BY <1>1, OthersServe
<1> QED BY <1>2, <1>3 DEF Serving

\* After an abandonment there is nothing to do.
LEMMA AbandonServes ==
  ASSUME IInv, IInv', Serving, NEW a \in Admins, Abandon(a)
  PROVE  Serving'
<1>1. /\ queue' = queue /\ txCount' = txCount /\ routed' = routed
      /\ worker' = worker /\ completedJob' = completedJob /\ dropped' = dropped
      /\ UNCHANGED completions
  BY DEF Abandon, history
<1>2. Abandons
  BY AbandonRows DEF IInv, RowInv
<1>3. Grow
  BY <1>1, <1>2, AbandonKeepsRows DEF IInv
<1>4. JobsGrow
  BY <1>1 DEF JobsGrow
<1>5. FlowsGrow
  BY <1>1, <1>2 DEF Abandons, FlowsGrow, Serving, JobsInv
<1>6. JobsInv'
  BY <1>1, <1>3, <1>4, <1>5, JobsInvKept DEF Serving
<1>7. Served'
  BY <1>2 DEF Abandons, Served, Needed, ActiveTodos
<1> QED BY <1>6, <1>7 DEF Serving

\* A restart gives every to-do it names a new job.
LEMMA RestartJobs ==
  ASSUME IInv, JobsInv, NEW a \in Admins, Restart(a)
  PROVE  /\ JobsGrow
         /\ \A j \in DOMAIN queue : Stays(j)
         /\ \A t \in admin[a].todos : \E j \in DOMAIN queue' :
               NewId(j) /\ queue'[j] = SystemJob(t)
<1>1. PICK todos : todos = admin[a].todos
  OBVIOUS
<1>2. PICK nth : nth = CHOOSE r \in [todos -> 1 .. Cardinality(todos)] :
                  \A t, u \in todos : r[t] = r[u] => t = u
  OBVIOUS
<1> DEFINE jobs == {Id(Null, nth[t]) : t \in todos}
           Ref(j) == CHOOSE t \in todos : nth[t] = j.item
           rows == [j \in jobs |-> SystemJob(Ref(j))]
<1>3. /\ queue' = Insert(queue, rows)
      /\ txCount' = txCount + 1
  BY <1>1, <1>2 DEF Restart
<1>4. /\ nth \in [todos -> 1 .. Cardinality(todos)]
      /\ \A t, u \in todos : nth[t] = nth[u] => t = u
      /\ Cardinality(todos) \in Nat
  <2>1. \A t \in todos : t \in DOMAIN toDo
    BY <1>1, RestartedAreRows
  <2>2. IsFiniteSet(todos)
    BY <2>1, FS_Subset DEF JobsInv
  <2>3. Cardinality(todos) \in Nat
    BY <2>2, FS_CardinalityType
  <2>4. ExistsBijection(todos, 1 .. Cardinality(todos))
    BY <2>2, FS_CardinalityType, Fun_ExistsBijSymmetric
  <2>5. PICK r : r \in Bijection(todos, 1 .. Cardinality(todos))
    BY <2>4 DEF ExistsBijection
  <2>6. /\ r \in [todos -> 1 .. Cardinality(todos)]
        /\ \A t, u \in todos : r[t] = r[u] => t = u
    <3>1. PICK T : T = 1 .. Cardinality(todos)
      OBVIOUS
    <3>2. r \in Bijection(todos, T)
      BY <2>5, <3>1
    <3>3. r \in [todos -> T] /\ \A t, u \in todos : r[t] = r[u] => t = u
      BY ONLY <3>2, Fun_BijectionProperties
    <3> QED BY <3>1, <3>3
  <2>7. \E r2 \in [todos -> 1 .. Cardinality(todos)] :
           \A t, u \in todos : r2[t] = r2[u] => t = u
    BY <2>6
  <2>8. /\ nth \in [todos -> 1 .. Cardinality(todos)]
        /\ \A t, u \in todos : nth[t] = nth[u] => t = u
    BY <1>2, <2>7
  <2> QED BY <2>3, <2>8
<1>5. \A t \in todos : NewId(Id(Null, nth[t])) /\ Id(Null, nth[t]).item = nth[t]
  <2>1. \A t \in todos : nth[t] \in Nat
    BY <1>4
  <2> QED BY <2>1, IdsAreNew DEF IInv, RowInv, TableTypes
<1>6. \A t \in todos : Ref(Id(Null, nth[t])) = t
  <2> SUFFICES ASSUME NEW t \in todos
               PROVE  (CHOOSE u \in todos : nth[u] = Id(Null, nth[t]).item) = t
    OBVIOUS
  <2>1. \A u \in todos : nth[u] = Id(Null, nth[t]).item <=> u = t
    BY <1>4, <1>5
  <2> QED BY <2>1
<1>7. \A j \in jobs : NewId(j)
  BY <1>5
<1> HIDE DEF Ref
<1>8. \A t \in todos : Id(Null, nth[t]) \in jobs /\ rows[Id(Null, nth[t])] = SystemJob(t)
  BY <1>6
<1>9. DOMAIN rows = jobs
  OBVIOUS
<1> HIDE DEF rows, jobs
<1>10. \A j \in DOMAIN queue : j \notin jobs
  BY <1>7 DEF JobsInv, JobsOld, Old, NewId, Ids, IInv, RowInv, TableTypes
<1>11. /\ DOMAIN queue' = DOMAIN queue \cup jobs
       /\ \A j \in DOMAIN queue : queue'[j] = queue[j]
       /\ \A j \in jobs : queue'[j] = rows[j]
  <2>1. /\ DOMAIN Insert(queue, rows) = DOMAIN queue \cup jobs
        /\ \A j \in jobs : Insert(queue, rows)[j] = rows[j]
        /\ \A j \in DOMAIN queue : Insert(queue, rows)[j] = queue[j]
    BY <1>9, <1>10 DEF Insert
  <2>2. queue' = Insert(queue, rows)
    BY <1>3
  <2> QED BY <2>1, <2>2
<1>12. JobsGrow /\ \A j \in DOMAIN queue : Stays(j)
  BY <1>3, <1>7, <1>11 DEF JobsGrow, Stays
<1>13. \A t \in todos : \E j \in DOMAIN queue' : NewId(j) /\ queue'[j] = SystemJob(t)
  BY <1>5, <1>8, <1>11
<1> QED BY <1>1, <1>12, <1>13

\* A restart.
LEMMA RestartServes ==
  ASSUME IInv, IInv', Serving, NEW a \in Admins, Restart(a)
  PROVE  Serving'
<1>1. PICK todos : todos = admin[a].todos
  OBVIOUS
<1>2. /\ scheduledFlow' = scheduledFlow /\ routed' = routed
      /\ worker' = worker /\ completedJob' = completedJob /\ dropped' = dropped
      /\ UNCHANGED completions
  BY DEF Restart, history
<1>3. todos \in SUBSET Ids /\ \A t \in todos : Refers("system-step-execution", t)
  BY <1>1 DEF IInv, Others, AdminTypes, AdminRow, AdminNames
<1>4. Restarts(todos)
  BY <1>1, <1>3, RestartRows DEF IInv, RowInv
<1>5. Grow
  BY <1>2, <1>3, <1>4, RestartKeepsRows DEF IInv
<1>6. /\ JobsGrow
      /\ \A j \in DOMAIN queue : Stays(j)
      /\ \A t \in todos : \E j \in DOMAIN queue' : NewId(j) /\ queue'[j] = SystemJob(t)
  BY <1>1, RestartJobs DEF Serving
<1>7. FlowsGrow
  BY <1>2, <1>4 DEF Restarts, FlowsGrow, Serving, JobsInv, RoutedIds
<1>8. JobsInv'
  BY <1>2, <1>5, <1>6, <1>7, JobsInvKept DEF Serving
<1>9. ASSUME NEW t \in todos
      PROVE  HasSystemJob(t)'
  <2>1. PICK j \in DOMAIN queue' : NewId(j) /\ queue'[j] = SystemJob(t)
    BY <1>6
  <2>2. /\ queue'[j].queue = "system-step-execution" /\ queue'[j].ref = t
        /\ queue'[j].attempts = 0
    BY <2>1 DEF SystemJob
  <2>3. Live(j)' /\ j \notin completedJob
    BY <1>2, <2>1, <2>2, NewIsLive DEF Serving, Busy
  <2> QED BY <1>2, <2>2, <2>3 DEF HasSystemJob
<1>10. Provides
  <2>1. \A t \in ActiveTodos : t \in ActiveTodos'
    BY <1>4 DEF Restarts, ActiveTodos
  <2>2. \A t : Needed(t)' => Needed(t) \/ HasSystemJob(t)'
    <3> SUFFICES ASSUME NEW t, Needed(t)', t \notin todos
                 PROVE  Needed(t)
      BY <1>9
    <3>1. t \in DOMAIN toDo /\ toDo'[t].step = toDo[t].step
          /\ toDo'[t].deleted = toDo[t].deleted
      BY <1>4 DEF Restarts, Needed, ActiveTodos
    <3>2. toDo'[t] = toDo[t]
      BY <1>1, <3>1 DEF Restart
    <3> QED BY <3>1, <3>2 DEF Needed, ActiveTodos
  <2> QED BY <1>2, <2>1, <2>2 DEF Provides
<1>11. Served => Served'
  BY <1>2, <1>5, <1>6, <1>10, OthersServe
<1> QED BY <1>2, <1>8, <1>11 DEF Serving

-----------------------------------------------------------------------------
\* The theorem.

\* The job of the flow of the start has not been claimed.
LEMMA InitServing ==
  ASSUME Init
  PROVE  Serving
<1>1. /\ scheduledFlow = [i \in {StartId} |-> ScheduledFlow(Start, Null, FALSE)]
      /\ toDo = << >>
      /\ queue = [i \in {StartId} |-> FlowJob(StartId, Null)]
      /\ completedJob = {} /\ txCount = 0
      /\ worker = [w \in Workers |-> Idle]
      /\ routed = [i \in {StartId} |-> 0]
  BY DEF Init
<1>2. /\ \A w \in Workers : worker[w].phase = "idle"
      /\ DOMAIN toDo = {} /\ DOMAIN queue = {StartId} /\ DOMAIN routed = {StartId}
      /\ DOMAIN scheduledFlow = {StartId}
  BY <1>1 DEF Idle
<1>3. StartId \in Ids /\ StartId.tx = 0 /\ StartId.item = 0
  BY DEF StartId, Ids
<1>4. JobsOld
  BY <1>1, <1>2, <1>3 DEF JobsOld, Old, Busy
<1>5. SameJob /\ Marked /\ RoutedIds
  BY <1>1, <1>2, <1>3 DEF SameJob, Marked, RoutedIds, Busy
<1>6. \A w \in Workers : Snapshot(w) /\ Missing(w)
  BY <1>2 DEF Snapshot, Missing
<1>7. IsFiniteSet(DOMAIN toDo)
  BY <1>2, FS_EmptySet
<1>8. JobsInv
  BY <1>4, <1>5, <1>6, <1>7 DEF JobsInv
<1>9. queue[StartId].queue = "flow-execution" /\ queue[StartId].ref = StartId
      /\ queue[StartId].attempts = 0
  BY <1>1 DEF FlowJob
<1>10. Live(StartId)
  BY <1>2, <1>9, Constants DEF Live, Claims
<1>11. Served
  BY <1>2, <1>9, <1>10 DEF Served, HasFlowJob, Needed, ActiveTodos
<1> QED BY <1>8, <1>11 DEF Serving

\* Every step keeps it, while barriers are apart.
LEMMA NextServing ==
  ASSUME IInv, Serving, BarriersApart, [Next]_vars
  PROVE  Serving'
<1>0. IInv'
  BY NextIInv
<1>1. ASSUME NEW w \in Workers, NEW j \in DOMAIN queue, Claim(w, j)
      PROVE  Serving'
  BY <1>0, <1>1, ClaimServes
<1>2. ASSUME NEW w \in Workers, FlowStep(w)
      PROVE  Serving'
  BY <1>0, <1>2, ReadScheduledFlowServes, CountSiblingsServes, SkipServes,
     ConsumptionServes, RouteServes DEF FlowStep
<1>3. ASSUME NEW w \in Workers, SystemStep(w)
      PROVE  Serving'
  BY <1>0, <1>3, ExecuteServes, SkipServes, CompleteSystemStepServes, FailureServes
     DEF SystemStep
<1>4. ASSUME NEW w \in Workers, HandlerStep(w)
      PROVE  Serving'
  BY <1>0, <1>2, <1>3, <1>4, ReadMarkerServes, FaultServes, AcknowledgeServes DEF HandlerStep
<1>5. ASSUME NEW w \in Workers, Fault(w) \/ RecordingFails(w) \/ Crash(w)
      PROVE  Serving'
  BY <1>0, <1>5, FaultServes, GiveUpServes
<1>6. ASSUME NEW t \in DOMAIN toDo, CompleteToDo(t)
      PROVE  Serving'
  BY <1>0, <1>6, CompleteToDoServes
<1>7. ASSUME NEW a \in Admins, AbandonRequest(a) \/ RestartRequest(a)
      PROVE  Serving'
  BY <1>0, <1>7, RequestServes DEF AbandonRequest, RestartRequest, tables, history, RowsStay
<1>8. ASSUME NEW a \in Admins, Abandon(a) \/ Restart(a)
      PROVE  Serving'
  BY <1>0, <1>8, AbandonServes, RestartServes
<1>9. CASE UNCHANGED vars
  BY <1>0, <1>9, RequestServes DEF vars, RowsStay
<1> QED BY <1>1, <1>4, <1>5, <1>6, <1>7, <1>8, <1>9 DEF Next

\* Whoever is served is not stranded.
LEMMA ServedIsNotStranded ==
  ASSUME Serving
  PROVE  NothingStranded
<1>1. \A j \in DOMAIN queue : Live(j) => Pending(j)
  BY DEF Live, Pending, Claims
<1> QED BY <1>1 DEF Serving, Served, HasFlowJob, Held, Needed, HasSystemJob, NothingStranded

\* As long as a barrier's step has no to-do that is not the barrier's own, every
\* scheduled flow and every open system step has a job that will be worked on,
\* through any number of errors, crashes before the last attempt, redeliveries,
\* completions, failures and restarts (flow-execution.ts, system-step-execution.ts).
THEOREM NothingIsStranded == Spec /\ []BarriersApart => []NothingStranded
<1>1. Init => IInv /\ Serving
  BY InitIInv, InitServing
<1>2. IInv /\ Serving /\ BarriersApart /\ [Next]_vars => (IInv /\ Serving)'
  BY NextIInv, NextServing
<1>3. IInv /\ Serving => NothingStranded
  BY ServedIsNotStranded
<1> QED BY <1>1, <1>2, <1>3, PTL DEF Spec
=============================================================================
