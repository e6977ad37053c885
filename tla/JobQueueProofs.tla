--------------------------- MODULE JobQueueProofs ---------------------------
(***************************************************************************)
(* Proofs about JobQueue for every number of jobs and workers, every delay,*)
(* retry limit and visibility timeout, and both ways to claim.             *)
(***************************************************************************)
EXTENDS JobQueue, TLAPS

-----------------------------------------------------------------------------
\* The inductive invariant, in named parts.

\* Only enqueued jobs are present or held.
Known ==
    /\ present \subseteq enqueued
    /\ \A w \in Workers : Holds(w) => worker[w].job \in enqueued

\* Every receipt has been handed out, and none to two workers.
Receipts ==
    /\ \A j \in Jobs :
          row[j].claimReceipt # Null => row[j].claimReceipt < nextReceipt
    /\ \A w \in Workers : Holds(w) => worker[w].receipt < nextReceipt
    /\ \A v, w \in Workers :
          Holds(v) /\ Holds(w) /\ v # w => worker[v].receipt # worker[w].receipt

\* A worker that still holds its row's receipt knows when the lock expires; one
\* that does not has outlived its visibility timeout.
Leases ==
    \A w \in Workers :
        Holds(w) => IF HoldsReceipt(w)
                    THEN row[worker[w].job].lockedUntil = worker[w].lease
                    ELSE worker[w].lease <= 0

\* Rows leave by an acknowledgement, and that follows a successful handler.
Deletions ==
    /\ enqueued \ present \subseteq handled
    /\ \A w \in Workers :
          worker[w].phase = "settling" /\ worker[w].verdict = "acknowledge" =>
             worker[w].job \in handled

\* The attempts column counts the deliveries until a refusal exhausts it, and
\* whoever holds a job was given it.
Attempts ==
    /\ \A w \in Workers : Holds(w) => deliveries[worker[w].job] > 0
    /\ \A j \in Jobs :
          /\ deliveries[j] <= row[j].jobAttempts
          /\ row[j].jobAttempts <= row[j].jobRetryLimit
          /\ j \notin refused => row[j].jobAttempts = deliveries[j]
          /\ j \notin enqueued => deliveries[j] = 0 /\ j \notin refused

IInv == TypeOK /\ Known /\ Receipts /\ Leases /\ Deletions /\ Attempts

-----------------------------------------------------------------------------
\* Types.

\* What the proofs use of the assumption about the constants.
LEMMA Constants ==
  /\ Visibility \in Int /\ Visibility > 0
  /\ MaxAge \in Int /\ MaxClaimAge \in Int
  /\ 0 <= MaxClaimAge /\ MaxClaimAge <= MaxAge
  /\ Null \notin Int /\ Null \notin Jobs
  BY QueueAssumption

\* Moving a point in time by a tick keeps it an integer.
LEMMA OneTickLaterType == \A t \in Int : OneTickLater(t) \in Int
  BY QueueAssumption DEF OneTickLater

\* The rows a claim may commit to are rows of jobs.
LEMMA ClaimChoiceType == \A w \in Workers : ClaimChoice(w) \subseteq Jobs
  BY DEF ClaimChoice, Claimable

LEMMA InitType == Init => TypeOK
  BY QueueAssumption DEF Init, TypeOK, Row, Worker, Idle, WorkerAt, Verdicts,
                             Holds

\* The two functions of TypeOK after a step that changes one of their records.
LEMMA WorkerType ==
  ASSUME TypeOK, NEW w \in Workers, NEW r \in Worker,
         worker' = [worker EXCEPT ![w] = r],
         r.phase \in {"running", "settling"} =>
            r.job \in Jobs /\ r.receipt \in Nat
  PROVE  /\ worker' \in [Workers -> Worker]
         /\ \A v \in Workers :
               Holds(v)' => worker'[v].job \in Jobs /\ worker'[v].receipt \in Nat
<1>1. worker' \in [Workers -> Worker]
  BY DEF TypeOK
<1>2. \A v \in Workers : worker'[v] = IF v = w THEN r ELSE worker[v]
  BY DEF TypeOK
<1> QED
  BY <1>1, <1>2 DEF TypeOK, Holds

LEMMA RowType ==
  ASSUME TypeOK, NEW j \in Jobs, NEW r \in Row, row' = [row EXCEPT ![j] = r]
  PROVE  row' \in [Jobs -> Row]
  BY DEF TypeOK

LEMMA IdleType == Idle \in Worker
  BY QueueAssumption DEF Idle, WorkerAt, Worker, Verdicts

LEMMA NextType == TypeOK /\ [Next]_vars => TypeOK'
<1> SUFFICES ASSUME TypeOK, [Next]_vars PROVE TypeOK'
  OBVIOUS
<1>0. ASSUME NEW w \in Workers, worker' = [worker EXCEPT ![w] = Idle]
      PROVE  /\ worker' \in [Workers -> Worker]
             /\ \A v \in Workers : Holds(v)' =>
                   worker'[v].job \in Jobs /\ worker'[v].receipt \in Nat
  BY <1>0, IdleType, WorkerType DEF Idle, WorkerAt
<1>1. ASSUME NEW j \in Jobs, NEW delay \in Delays, NEW limit \in AttemptLimits,
             Enqueue(j, delay, limit)
      PROVE  TypeOK'
  <2>1. limit \in Nat
    BY QueueAssumption DEF AttemptLimits
  <2>2. delay \in Int
    BY QueueAssumption
  <2>3. [jobAttempts |-> 0, jobRetryLimit |-> limit, availableAt |-> delay,
         lockedUntil |-> Null, claimReceipt |-> Null] \in Row
    BY <2>1, <2>2 DEF Row
  <2>4. row' \in [Jobs -> Row]
    BY <1>1, <2>3, RowType DEF Enqueue
  <2> QED
    BY <1>1, <2>4 DEF Enqueue, TypeOK, Holds
<1>2. ASSUME NEW w \in Workers, ClaimRead(w) PROVE TypeOK'
  <2>1. PICK j \in Claimable(w, 0) :
          worker' = [worker EXCEPT ![w] =
                        WorkerAt("claiming", IF w \in LocalWorkers THEN j ELSE Null,
                                 Null, 0)]
    BY <1>2 DEF ClaimRead
  <2>2. j \in Jobs
    BY DEF Claimable
  <2> DEFINE c == WorkerAt("claiming", IF w \in LocalWorkers THEN j ELSE Null, Null, 0)
  <2>3. c \in Worker /\ c.phase \notin {"running", "settling"}
    BY <2>2 DEF WorkerAt, Worker, Verdicts
  <2>4. worker' = [worker EXCEPT ![w] = c]
    BY <2>1
  <2> HIDE DEF c
  <2> QED
    BY <1>2, <2>3, <2>4, WorkerType DEF ClaimRead, TypeOK, queueVars, history
<1>3. ASSUME NEW w \in Workers, NEW j \in Jobs, ClaimCommit(w, j) PROVE TypeOK'
  <2> DEFINE lease == Visibility - worker[w].age
             c == WorkerAt("running", j, nextReceipt, lease)
  <2>1. lease \in Int
    BY Constants DEF TypeOK, Worker
  <2> HIDE DEF lease
  <2>2. row' \in [Jobs -> Row]
    <3>1. row' = [row EXCEPT ![j].jobAttempts = @ + 1,
                             ![j].lockedUntil = lease,
                             ![j].claimReceipt = nextReceipt]
      BY <1>3 DEF ClaimCommit, lease
    <3>2. row[j].jobAttempts + 1 \in Nat /\ nextReceipt \in Nat
      BY DEF TypeOK, Row
    <3> QED
      BY <2>1, <3>1, <3>2 DEF TypeOK, Row
  <2>3. c \in Worker /\ c.job \in Jobs /\ c.receipt \in Nat
    BY <2>1 DEF WorkerAt, Worker, Verdicts, TypeOK
  <2>4. worker' = [worker EXCEPT ![w] = c]
    BY <1>3 DEF ClaimCommit, lease
  <2>5. deliveries' \in [Jobs -> Nat] /\ nextReceipt' \in Nat
    BY <1>3 DEF ClaimCommit, TypeOK
  <2> HIDE DEF c
  <2>6. /\ worker' \in [Workers -> Worker]
        /\ \A v \in Workers : Holds(v)' =>
              worker'[v].job \in Jobs /\ worker'[v].receipt \in Nat
    BY <2>3, <2>4, WorkerType
  <2> QED
    BY <1>3, <2>2, <2>5, <2>6 DEF ClaimCommit, TypeOK
<1>4. ASSUME NEW w \in Workers, ClaimLost(w) PROVE TypeOK'
  BY <1>4, <1>0 DEF ClaimLost, TypeOK, queueVars, history
<1>5. ASSUME NEW w \in Workers, NEW verdict \in Verdicts \ {"none"},
             HandlerReturns(w, verdict)
      PROVE  TypeOK'
  <2>1. worker[w].job \in Jobs /\ worker[w].receipt \in Nat
    BY <1>5 DEF HandlerReturns, TypeOK, Holds
  <2>2. [worker[w] EXCEPT !.phase = "settling", !.verdict = verdict] \in Worker
    BY DEF TypeOK, Worker
  <2>3. worker' = [worker EXCEPT ![w] = [worker[w] EXCEPT !.phase = "settling",
                                                  !.verdict = verdict]]
    BY <1>5 DEF HandlerReturns, TypeOK
  <2>4. handled' \subseteq Jobs
    BY <1>5, <2>1 DEF HandlerReturns, TypeOK
  <2>5. /\ worker' \in [Workers -> Worker]
        /\ \A v \in Workers : Holds(v)' =>
              worker'[v].job \in Jobs /\ worker'[v].receipt \in Nat
    BY <2>1, <2>2, <2>3, WorkerType DEF TypeOK, Worker
  <2> QED
    BY <1>5, <2>4, <2>5 DEF HandlerReturns, TypeOK, queueVars
<1>6. ASSUME NEW w \in Workers, Acknowledge(w) PROVE TypeOK'
  BY <1>6, <1>0 DEF Acknowledge, TypeOK, history
<1>7. ASSUME NEW w \in Workers, FailTerminal(w) PROVE TypeOK'
  <2>1. worker[w].job \in Jobs
    BY <1>7 DEF FailTerminal, TypeOK, Holds
  <2>2. row' \in [Jobs -> Row] /\ refused' \subseteq Jobs
    BY <1>7, <2>1 DEF FailTerminal, TypeOK, Row
  <2> QED
    BY <1>7, <1>0, <2>2 DEF FailTerminal, TypeOK
<1>8. ASSUME NEW w \in Workers, FailRelease(w) PROVE TypeOK'
  <2>1. row' \in [Jobs -> Row]
    BY <1>8 DEF FailRelease, TypeOK, Row
  <2> QED
    BY <1>8, <1>0, <2>1 DEF FailRelease, TypeOK, history
<1>9. ASSUME NEW w \in Workers, FailKeepLock(w) PROVE TypeOK'
  BY <1>9, <1>0 DEF FailKeepLock, TypeOK, queueVars, history
<1>10. ASSUME NEW w \in Workers, ExtendVisibility(w) PROVE TypeOK'
  <2>0. worker[w].job \in Jobs
    BY <1>10 DEF ExtendVisibility, TypeOK, Holds
  <2>1. row' \in [Jobs -> Row]
    BY <1>10, <2>0, Constants DEF ExtendVisibility, TypeOK, Row
  <2>2. [worker[w] EXCEPT !.lease = Visibility] \in Worker
    BY QueueAssumption DEF TypeOK, Worker
  <2>3. worker' = [worker EXCEPT ![w] = [worker[w] EXCEPT !.lease = Visibility]]
    BY <1>10 DEF ExtendVisibility, TypeOK
  <2>4. worker[w].job \in Jobs /\ worker[w].receipt \in Nat
    BY <1>10 DEF ExtendVisibility, TypeOK, Holds
  <2>5. /\ worker' \in [Workers -> Worker]
        /\ \A v \in Workers : Holds(v)' =>
              worker'[v].job \in Jobs /\ worker'[v].receipt \in Nat
    BY <2>2, <2>3, <2>4, WorkerType DEF TypeOK, Worker
  <2> QED
    BY <1>10, <2>1, <2>5 DEF ExtendVisibility, TypeOK, history
<1>11. ASSUME NEW w \in Workers, Crash(w) PROVE TypeOK'
  <2>1. crashes' \in Nat
    BY <1>11 DEF Crash, TypeOK
  <2> QED
    BY <1>11, <1>0, <2>1 DEF Crash, TypeOK, queueVars, history
<1>12. ASSUME Tick PROVE TypeOK'
  <2>1. row' \in [Jobs -> Row]
    BY <1>12, OneTickLaterType DEF Tick, TypeOK, Row
  <2>2. ASSUME NEW w \in Workers
        PROVE  /\ worker'[w] \in Worker
               /\ worker'[w].job = worker[w].job
               /\ worker'[w].receipt = worker[w].receipt
               /\ worker'[w].phase = worker[w].phase
    <3> DEFINE aged == [worker[w] EXCEPT !.age = @ + 1]
               run == [worker[w] EXCEPT !.lease = OneTickLater(@)]
    <3>1. worker[w] \in Worker
      BY DEF TypeOK
    <3>2. worker[w].phase = "claiming" => worker[w].age + 1 \in Nat
      BY <3>1 DEF Worker
    <3>3. OneTickLater(worker[w].lease) \in Int
      BY <3>1, OneTickLaterType DEF Worker
    <3>4. worker'[w] = CASE worker[w].phase = "claiming" -> aged
                         [] worker[w].phase \in {"running", "settling"} -> run
                         [] OTHER -> worker[w]
      BY <1>12 DEF Tick
    <3>5. run \in Worker
      BY <3>1, <3>3 DEF Worker
    <3>6. worker[w].phase = "claiming" => aged \in Worker
      BY <3>1, <3>2 DEF Worker
    <3> QED
      BY <3>1, <3>4, <3>5, <3>6 DEF Worker
  <2>3. worker' \in [Workers -> Worker]
    BY <1>12, <2>2 DEF Tick
  <2> QED
    BY <1>12, <2>1, <2>2, <2>3 DEF Tick, TypeOK, Holds, history
<1>13. CASE UNCHANGED vars
  BY <1>13 DEF vars, TypeOK, Holds
<1> QED
  BY <1>1, <1>2, <1>3, <1>4, <1>5, <1>6, <1>7, <1>8, <1>9, <1>10, <1>11,
     <1>12, <1>13 DEF Next

\* Every variable keeps its type in every behaviour of the queue, whatever the
\* limits, delays and timeouts (pf_job_queue's columns, RawJob's fields).
THEOREM TypeCorrect == Spec => []TypeOK
<1>1. Init => TypeOK
  BY InitType
<1>2. TypeOK /\ [Next]_vars => TypeOK'
  BY NextType
<1> QED
  BY <1>1, <1>2, PTL DEF Spec

-----------------------------------------------------------------------------
\* The parts of the invariant, one lemma each.

\* What a tick changes: points in time, and nothing else of a row or a worker.
LEMMA TickEffect ==
  ASSUME TypeOK, Tick
  PROVE  /\ \A w \in Workers :
               /\ worker'[w].phase = worker[w].phase
               /\ worker'[w].job = worker[w].job
               /\ worker'[w].receipt = worker[w].receipt
               /\ worker'[w].verdict = worker[w].verdict
               /\ Holds(w) =>
                     worker'[w].lease = OneTickLater(worker[w].lease)
         /\ \A j \in Jobs :
               /\ row'[j].jobAttempts = row[j].jobAttempts
               /\ row'[j].jobRetryLimit = row[j].jobRetryLimit
               /\ row'[j].claimReceipt = row[j].claimReceipt
               /\ row'[j].lockedUntil = IF row[j].lockedUntil = Null THEN Null
                                        ELSE OneTickLater(row[j].lockedUntil)
<1>1. ASSUME NEW w \in Workers
      PROVE  /\ worker'[w].phase = worker[w].phase
             /\ worker'[w].job = worker[w].job
             /\ worker'[w].receipt = worker[w].receipt
             /\ worker'[w].verdict = worker[w].verdict
             /\ Holds(w) => worker'[w].lease = OneTickLater(worker[w].lease)
  <2>1. worker[w] \in Worker
    BY DEF TypeOK
  <2>2. CASE worker[w].phase = "claiming"
    <3>1. worker'[w] = [worker[w] EXCEPT !.age = @ + 1]
      BY <2>2 DEF Tick
    <3> QED
      BY <2>1, <2>2, <3>1 DEF Worker, Holds
  <2>3. CASE Holds(w)
    <3>1. worker'[w] = [worker[w] EXCEPT !.lease = OneTickLater(@)]
      BY <2>3 DEF Tick, Holds
    <3> QED
      BY <2>1, <3>1 DEF Worker
  <2>4. CASE worker[w].phase = "idle"
    <3>1. worker'[w] = worker[w]
      BY <2>4 DEF Tick
    <3> QED
      BY <2>4, <3>1 DEF Holds
  <2> QED
    BY <2>1, <2>2, <2>3, <2>4 DEF Worker, Holds
<1>2. ASSUME NEW j \in Jobs
      PROVE  /\ row'[j].jobAttempts = row[j].jobAttempts
             /\ row'[j].jobRetryLimit = row[j].jobRetryLimit
             /\ row'[j].claimReceipt = row[j].claimReceipt
             /\ row'[j].lockedUntil = IF row[j].lockedUntil = Null THEN Null
                                      ELSE OneTickLater(row[j].lockedUntil)
  <2>1. row[j] \in Row
    BY DEF TypeOK
  <2> QED
    BY <2>1 DEF Tick, Row
<1> QED
  BY <1>1, <1>2

\* No step makes a job present or held that was not enqueued.
LEMMA KnownStep ==
  ASSUME TypeOK, Known, [Next]_vars PROVE Known'
<1>1. ASSUME NEW j \in Jobs, NEW delay \in Delays, NEW limit \in AttemptLimits,
             Enqueue(j, delay, limit)
      PROVE Known'
  BY <1>1
    DEF Enqueue, Known, TypeOK, Holds, queueVars, history
<1>2. ASSUME NEW w \in Workers, ClaimRead(w) PROVE Known'
  BY <1>2
    DEF ClaimRead, WorkerAt, Known, TypeOK, Holds, queueVars, history
<1>3. ASSUME NEW w \in Workers, NEW j \in Jobs, ClaimCommit(w, j)
      PROVE Known'
  <2>1. j \in present
    BY <1>3 DEF ClaimCommit, ClaimChoice, Claimable, Available
  <2> QED
    BY <1>3, <2>1 DEF ClaimCommit, WorkerAt, Known, TypeOK, Holds
<1>4. ASSUME NEW w \in Workers, ClaimLost(w) PROVE Known'
  BY <1>4
    DEF ClaimLost, Idle, WorkerAt, Known, TypeOK, Holds, queueVars, history
<1>5. ASSUME NEW w \in Workers, NEW verdict \in Verdicts \ {"none"},
             HandlerReturns(w, verdict)
      PROVE Known'
  BY <1>5
    DEF HandlerReturns, Known, TypeOK, Holds, queueVars, history
<1>6. ASSUME NEW w \in Workers, Acknowledge(w) PROVE Known'
  BY <1>6
    DEF Acknowledge, Idle, WorkerAt, Known, TypeOK, Holds, queueVars, history
<1>7. ASSUME NEW w \in Workers, FailTerminal(w) PROVE Known'
  BY <1>7
    DEF FailTerminal, Idle, WorkerAt, Known, TypeOK, Holds, queueVars, history
<1>8. ASSUME NEW w \in Workers, FailRelease(w) PROVE Known'
  BY <1>8
    DEF FailRelease, Idle, WorkerAt, Known, TypeOK, Holds, queueVars, history
<1>9. ASSUME NEW w \in Workers, FailKeepLock(w) PROVE Known'
  BY <1>9
    DEF FailKeepLock, Idle, WorkerAt, Known, TypeOK, Holds, queueVars, history
<1>10. ASSUME NEW w \in Workers, ExtendVisibility(w) PROVE Known'
  BY <1>10
    DEF ExtendVisibility, Known, TypeOK, Holds, queueVars, history
<1>11. ASSUME NEW w \in Workers, Crash(w) PROVE Known'
  BY <1>11
    DEF Crash, Idle, WorkerAt, Known, TypeOK, Holds, queueVars, history
<1>12. ASSUME Tick PROVE Known'
  <2>1. present' = present /\ UNCHANGED <<nextReceipt, history>>
    BY <1>12 DEF Tick
  <2> QED
    BY <1>12, <2>1, TickEffect, NextType
    DEF Known, TypeOK, Holds, history
<1>13. CASE UNCHANGED vars
  BY <1>13 DEF vars, Known, TypeOK, Holds
<1> QED
  BY <1>1, <1>2, <1>3, <1>4, <1>5, <1>6, <1>7, <1>8, <1>9, <1>10, <1>11, <1>12,
       <1>13 DEF Next

\* A receipt is handed out once.
LEMMA ReceiptsStep ==
  ASSUME TypeOK, Receipts, [Next]_vars PROVE Receipts'
<1>1. ASSUME NEW j \in Jobs, NEW delay \in Delays, NEW limit \in AttemptLimits,
             Enqueue(j, delay, limit)
      PROVE Receipts'
  BY <1>1
    DEF Enqueue, Receipts, TypeOK, Holds, Row, queueVars, history
<1>2. ASSUME NEW w \in Workers, ClaimRead(w) PROVE Receipts'
  BY <1>2
    DEF ClaimRead, WorkerAt, Receipts, TypeOK, Holds, Row, queueVars, history
<1>3. ASSUME NEW w \in Workers, NEW j \in Jobs, ClaimCommit(w, j)
      PROVE Receipts'
  BY <1>3
    DEF ClaimCommit, WorkerAt, Receipts, TypeOK, Holds, Row, queueVars, history
<1>4. ASSUME NEW w \in Workers, ClaimLost(w) PROVE Receipts'
  BY <1>4
    DEF ClaimLost, Idle, WorkerAt, Receipts, TypeOK, Holds, Row, queueVars,
       history
<1>5. ASSUME NEW w \in Workers, NEW verdict \in Verdicts \ {"none"},
             HandlerReturns(w, verdict)
      PROVE Receipts'
  BY <1>5
    DEF HandlerReturns, Receipts, TypeOK, Holds, Row, queueVars, history
<1>6. ASSUME NEW w \in Workers, Acknowledge(w) PROVE Receipts'
  BY <1>6
    DEF Acknowledge, Idle, WorkerAt, Receipts, TypeOK, Holds, Row, queueVars,
       history
<1>7. ASSUME NEW w \in Workers, FailTerminal(w) PROVE Receipts'
  BY <1>7
    DEF FailTerminal, Idle, WorkerAt, Receipts, TypeOK, Holds, Row, queueVars,
       history
<1>8. ASSUME NEW w \in Workers, FailRelease(w) PROVE Receipts'
  BY <1>8
    DEF FailRelease, Idle, WorkerAt, Receipts, TypeOK, Holds, Row, queueVars,
       history
<1>9. ASSUME NEW w \in Workers, FailKeepLock(w) PROVE Receipts'
  BY <1>9
    DEF FailKeepLock, Idle, WorkerAt, Receipts, TypeOK, Holds, Row, queueVars,
       history
<1>10. ASSUME NEW w \in Workers, ExtendVisibility(w) PROVE Receipts'
  BY <1>10
    DEF ExtendVisibility, Receipts, TypeOK, Holds, Row, queueVars, history
<1>11. ASSUME NEW w \in Workers, Crash(w) PROVE Receipts'
  BY <1>11
    DEF Crash, Idle, WorkerAt, Receipts, TypeOK, Holds, Row, queueVars, history
<1>12. ASSUME Tick PROVE Receipts'
  <2>1. present' = present /\ UNCHANGED <<nextReceipt, history>>
    BY <1>12 DEF Tick
  <2> QED
    BY <1>12, <2>1, TickEffect, NextType
    DEF Receipts, TypeOK, Holds, history
<1>13. CASE UNCHANGED vars
  BY <1>13 DEF vars, Receipts, TypeOK, Holds, Row
<1> QED
  BY <1>1, <1>2, <1>3, <1>4, <1>5, <1>6, <1>7, <1>8, <1>9, <1>10, <1>11, <1>12,
       <1>13 DEF Next

\* Rows go only behind a successful handler.
LEMMA DeletionsStep ==
  ASSUME TypeOK, Known, Deletions, [Next]_vars PROVE Deletions'
<1>1. ASSUME NEW j \in Jobs, NEW delay \in Delays, NEW limit \in AttemptLimits,
             Enqueue(j, delay, limit)
      PROVE Deletions'
  BY <1>1
    DEF Enqueue, Known, Deletions, TypeOK, Holds, queueVars, history
<1>2. ASSUME NEW w \in Workers, ClaimRead(w) PROVE Deletions'
  BY <1>2
    DEF ClaimRead, WorkerAt, Known, Deletions, TypeOK, Holds, queueVars,
       history
<1>3. ASSUME NEW w \in Workers, NEW j \in Jobs, ClaimCommit(w, j)
      PROVE Deletions'
  BY <1>3
    DEF ClaimCommit, WorkerAt, Known, Deletions, TypeOK, Holds, queueVars,
       history
<1>4. ASSUME NEW w \in Workers, ClaimLost(w) PROVE Deletions'
  BY <1>4
    DEF ClaimLost, Idle, WorkerAt, Known, Deletions, TypeOK, Holds, queueVars,
       history
<1>5. ASSUME NEW w \in Workers, NEW verdict \in Verdicts \ {"none"},
             HandlerReturns(w, verdict)
      PROVE Deletions'
  BY <1>5
    DEF HandlerReturns, Known, Deletions, TypeOK, Holds, queueVars, history
<1>6. ASSUME NEW w \in Workers, Acknowledge(w) PROVE Deletions'
  BY <1>6
    DEF Acknowledge, Idle, WorkerAt, Known, Deletions, TypeOK, Holds,
       queueVars, history
<1>7. ASSUME NEW w \in Workers, FailTerminal(w) PROVE Deletions'
  BY <1>7
    DEF FailTerminal, Idle, WorkerAt, Known, Deletions, TypeOK, Holds,
       queueVars, history
<1>8. ASSUME NEW w \in Workers, FailRelease(w) PROVE Deletions'
  BY <1>8
    DEF FailRelease, Idle, WorkerAt, Known, Deletions, TypeOK, Holds,
       queueVars, history
<1>9. ASSUME NEW w \in Workers, FailKeepLock(w) PROVE Deletions'
  BY <1>9
    DEF FailKeepLock, Idle, WorkerAt, Known, Deletions, TypeOK, Holds,
       queueVars, history
<1>10. ASSUME NEW w \in Workers, ExtendVisibility(w) PROVE Deletions'
  BY <1>10
    DEF ExtendVisibility, Known, Deletions, TypeOK, Holds, queueVars, history
<1>11. ASSUME NEW w \in Workers, Crash(w) PROVE Deletions'
  BY <1>11
    DEF Crash, Idle, WorkerAt, Known, Deletions, TypeOK, Holds, queueVars,
       history
<1>12. ASSUME Tick PROVE Deletions'
  <2>1. present' = present /\ UNCHANGED <<nextReceipt, history>>
    BY <1>12 DEF Tick
  <2> QED
    BY <1>12, <2>1, TickEffect, NextType
    DEF Deletions, TypeOK, Holds, history
<1>13. CASE UNCHANGED vars
  BY <1>13 DEF vars, Known, Deletions, TypeOK, Holds
<1> QED
  BY <1>1, <1>2, <1>3, <1>4, <1>5, <1>6, <1>7, <1>8, <1>9, <1>10, <1>11, <1>12,
       <1>13 DEF Next

\* Attempts and deliveries move together until a refusal.
LEMMA AttemptsStep ==
  ASSUME TypeOK, Known, Attempts, [Next]_vars PROVE Attempts'
<1>1. ASSUME NEW j \in Jobs, NEW delay \in Delays, NEW limit \in AttemptLimits,
             Enqueue(j, delay, limit)
      PROVE Attempts'
  <2>1. limit \in Nat
    BY QueueAssumption DEF AttemptLimits
  <2>2. \A w \in Workers : Holds(w) => worker[w].job # j
    BY <1>1 DEF Enqueue, Known
  <2> QED
    BY <1>1, <2>1, <2>2 DEF Enqueue, Attempts, TypeOK, Holds
<1>2. ASSUME NEW w \in Workers, ClaimRead(w) PROVE Attempts'
  BY <1>2
    DEF ClaimRead, WorkerAt, Known, Attempts, TypeOK, Holds, Row, queueVars,
       history
<1>3. ASSUME NEW w \in Workers, NEW j \in Jobs, ClaimCommit(w, j)
      PROVE Attempts'
  <2>1. j \in present /\ row[j].jobAttempts < row[j].jobRetryLimit
    BY <1>3 DEF ClaimCommit, ClaimChoice, Claimable, Available
  <2>2. row[j] \in Row /\ deliveries[j] \in Nat
    BY DEF TypeOK
  <2>3. \A i \in Jobs :
          /\ row'[i].jobRetryLimit = row[i].jobRetryLimit
          /\ row'[i].jobAttempts = IF i = j THEN row[j].jobAttempts + 1
                                             ELSE row[i].jobAttempts
          /\ deliveries'[i] = IF i = j THEN deliveries[j] + 1 ELSE deliveries[i]
    BY <1>3 DEF ClaimCommit, TypeOK, Row
  <2>4. /\ worker'[w].job = j
        /\ \A v \in Workers : v # w => worker'[v] = worker[v]
    BY <1>3 DEF ClaimCommit, WorkerAt, TypeOK
  <2>5. \A v \in Workers : Holds(v)' => deliveries'[worker'[v].job] > 0
    BY <2>2, <2>3, <2>4 DEF Attempts, TypeOK, Holds
  <2>6. UNCHANGED <<refused, enqueued>> /\ j \in enqueued
    BY <1>3, <2>1 DEF ClaimCommit, Known
  <2> QED
    BY <2>1, <2>2, <2>3, <2>5, <2>6 DEF Attempts, TypeOK, Row
<1>4. ASSUME NEW w \in Workers, ClaimLost(w) PROVE Attempts'
  BY <1>4
    DEF ClaimLost, Idle, WorkerAt, Known, Attempts, TypeOK, Holds, Row,
       queueVars, history
<1>5. ASSUME NEW w \in Workers, NEW verdict \in Verdicts \ {"none"},
             HandlerReturns(w, verdict)
      PROVE Attempts'
  BY <1>5
    DEF HandlerReturns, Known, Attempts, TypeOK, Holds, Row, queueVars, history
<1>6. ASSUME NEW w \in Workers, Acknowledge(w) PROVE Attempts'
  BY <1>6
    DEF Acknowledge, Idle, WorkerAt, Known, Attempts, TypeOK, Holds, Row,
       queueVars, history
<1>7. ASSUME NEW w \in Workers, FailTerminal(w) PROVE Attempts'
  BY <1>7
    DEF FailTerminal, Idle, WorkerAt, Known, Attempts, TypeOK, Holds, Row,
       queueVars, history
<1>8. ASSUME NEW w \in Workers, FailRelease(w) PROVE Attempts'
  BY <1>8
    DEF FailRelease, Idle, WorkerAt, Known, Attempts, TypeOK, Holds, Row,
       queueVars, history
<1>9. ASSUME NEW w \in Workers, FailKeepLock(w) PROVE Attempts'
  BY <1>9
    DEF FailKeepLock, Idle, WorkerAt, Known, Attempts, TypeOK, Holds, Row,
       queueVars, history
<1>10. ASSUME NEW w \in Workers, ExtendVisibility(w) PROVE Attempts'
  BY <1>10
    DEF ExtendVisibility, Known, Attempts, TypeOK, Holds, Row, queueVars,
       history
<1>11. ASSUME NEW w \in Workers, Crash(w) PROVE Attempts'
  BY <1>11
    DEF Crash, Idle, WorkerAt, Known, Attempts, TypeOK, Holds, Row, queueVars,
       history
<1>12. ASSUME Tick PROVE Attempts'
  <2>1. present' = present /\ UNCHANGED <<nextReceipt, history>>
    BY <1>12 DEF Tick
  <2> QED
    BY <1>12, <2>1, TickEffect, NextType
    DEF Attempts, TypeOK, Holds, history
<1>13. CASE UNCHANGED vars
  BY <1>13 DEF vars, Known, Attempts, TypeOK, Holds, Row
<1> QED
  BY <1>1, <1>2, <1>3, <1>4, <1>5, <1>6, <1>7, <1>8, <1>9, <1>10, <1>11, <1>12,
       <1>13 DEF Next

\* A lock is taken over only when it has expired for its holder too.
LEMMA LeasesStep ==
  ASSUME TypeOK, Known, Receipts, Leases, [Next]_vars PROVE Leases'
<1>1. ASSUME NEW j \in Jobs, NEW delay \in Delays, NEW limit \in AttemptLimits,
             Enqueue(j, delay, limit)
      PROVE Leases'
  BY <1>1
    DEF Enqueue, Known, Receipts, Leases, HoldsReceipt, TypeOK, Holds, Row,
       Worker, queueVars, history
<1>2. ASSUME NEW w \in Workers, ClaimRead(w) PROVE Leases'
  BY <1>2
    DEF ClaimRead, WorkerAt, Known, Receipts, Leases, HoldsReceipt, TypeOK,
       Holds, Row, Worker, queueVars, history
<1>3. ASSUME NEW w \in Workers, NEW j \in Jobs, ClaimCommit(w, j)
      PROVE Leases'
  <2>1. /\ worker[w].age \in Nat /\ row[j] \in Row
        /\ Visibility - worker[w].age \in Int
    BY Constants DEF TypeOK, Worker
  <2>2. row[j].lockedUntil = Null \/ row[j].lockedUntil + worker[w].age <= 0
    BY <1>3 DEF ClaimCommit, ClaimChoice, Claimable, Available
  <2>3. ASSUME NEW i \in Jobs, i # j PROVE row'[i] = row[i]
    BY <1>3, <2>3 DEF ClaimCommit, TypeOK
  <2>4. /\ row'[j].claimReceipt = nextReceipt
        /\ row'[j].lockedUntil = Visibility - worker[w].age
    BY <1>3 DEF ClaimCommit, TypeOK, Row
  <2>5. \A v \in Workers : v # w => worker'[v] = worker[v]
    BY <1>3 DEF ClaimCommit, TypeOK
  <2>6. /\ worker'[w].job = j /\ worker'[w].receipt = nextReceipt
        /\ worker'[w].lease = Visibility - worker[w].age
    BY <1>3 DEF ClaimCommit, WorkerAt, TypeOK
  <2>7. present' = present /\ j \in present
    BY <1>3 DEF ClaimCommit, ClaimChoice, Claimable, Available
  <2>8. ASSUME NEW v \in Workers, v # w, Holds(v)'
        PROVE  IF HoldsReceipt(v)'
               THEN row'[worker'[v].job].lockedUntil = worker'[v].lease
               ELSE worker'[v].lease <= 0
    <3>1. Holds(v) /\ worker[v].job \in Jobs /\ worker[v].receipt < nextReceipt
      BY <2>5, <2>8 DEF Holds, TypeOK, Receipts
    <3>2. CASE worker[v].job # j
      BY <2>3, <2>5, <2>7, <2>8, <3>1, <3>2 DEF Leases, HoldsReceipt
    <3>3. CASE worker[v].job = j
      <4>1. ~HoldsReceipt(v)'
        BY <2>4, <2>5, <2>8, <3>1, <3>3 DEF HoldsReceipt, TypeOK
      <4>2. worker[v].lease \in Int
        BY DEF TypeOK, Worker
      <4>3. worker[v].lease <= 0
        BY <2>1, <2>2, <3>1, <3>3, <4>2, Constants DEF Leases, Row
      <4> QED
        BY <2>5, <2>8, <4>1, <4>3
    <3> QED
      BY <3>2, <3>3
  <2> QED
    BY <2>4, <2>6, <2>7, <2>8 DEF Leases, HoldsReceipt
<1>4. ASSUME NEW w \in Workers, ClaimLost(w) PROVE Leases'
  BY <1>4
    DEF ClaimLost, Idle, WorkerAt, Known, Receipts, Leases, HoldsReceipt,
       TypeOK, Holds, Row, Worker, queueVars, history
<1>5. ASSUME NEW w \in Workers, NEW verdict \in Verdicts \ {"none"},
             HandlerReturns(w, verdict)
      PROVE Leases'
  BY <1>5
    DEF HandlerReturns, Known, Receipts, Leases, HoldsReceipt, TypeOK, Holds,
       Row, Worker, queueVars, history
<1>6. ASSUME NEW w \in Workers, Acknowledge(w) PROVE Leases'
  BY <1>6
    DEF Acknowledge, Idle, WorkerAt, Known, Receipts, Leases, HoldsReceipt,
       TypeOK, Holds, Row, Worker, queueVars, history
<1>7. ASSUME NEW w \in Workers, FailTerminal(w) PROVE Leases'
  BY <1>7
    DEF FailTerminal, Idle, WorkerAt, Known, Receipts, Leases, HoldsReceipt,
       TypeOK, Holds, Row, Worker, queueVars, history
<1>8. ASSUME NEW w \in Workers, FailRelease(w) PROVE Leases'
  BY <1>8
    DEF FailRelease, Idle, WorkerAt, Known, Receipts, Leases, HoldsReceipt,
       TypeOK, Holds, Row, Worker, queueVars, history
<1>9. ASSUME NEW w \in Workers, FailKeepLock(w) PROVE Leases'
  BY <1>9
    DEF FailKeepLock, Idle, WorkerAt, Known, Receipts, Leases, HoldsReceipt,
       TypeOK, Holds, Row, Worker, queueVars, history
<1>10. ASSUME NEW w \in Workers, ExtendVisibility(w) PROVE Leases'
  BY <1>10
    DEF ExtendVisibility, Known, Receipts, Leases, HoldsReceipt, TypeOK, Holds,
       Row, Worker, queueVars, history
<1>11. ASSUME NEW w \in Workers, Crash(w) PROVE Leases'
  BY <1>11
    DEF Crash, Idle, WorkerAt, Known, Receipts, Leases, HoldsReceipt, TypeOK,
       Holds, Row, Worker, queueVars, history
<1>12. ASSUME Tick PROVE Leases'
  <2>1. present' = present
    BY <1>12 DEF Tick
  <2>2. ASSUME NEW w \in Workers, Holds(w)'
        PROVE  IF HoldsReceipt(w)'
               THEN row'[worker'[w].job].lockedUntil = worker'[w].lease
               ELSE worker'[w].lease <= 0
    <3>1. /\ Holds(w) /\ worker[w].job \in Jobs /\ worker[w].lease \in Int
          /\ worker'[w].job = worker[w].job
          /\ worker'[w].lease = OneTickLater(worker[w].lease)
      BY <1>12, <2>2, TickEffect DEF Holds, TypeOK, Worker
    <3>2. HoldsReceipt(w)' <=> HoldsReceipt(w)
      BY <1>12, <2>1, <3>1, TickEffect DEF HoldsReceipt
    <3>3. CASE HoldsReceipt(w)
      BY <1>12, <3>1, <3>2, <3>3, TickEffect, Constants DEF Leases
    <3>4. CASE ~HoldsReceipt(w)
      BY <3>1, <3>2, <3>4, Constants DEF Leases, OneTickLater
    <3> QED
      BY <3>3, <3>4
  <2> QED
    BY <2>2 DEF Leases
<1>13. CASE UNCHANGED vars
  BY <1>13 DEF vars, Known, Receipts, Leases, HoldsReceipt, TypeOK, Holds, Row, Worker
<1> QED
  BY <1>1, <1>2, <1>3, <1>4, <1>5, <1>6, <1>7, <1>8, <1>9, <1>10, <1>11, <1>12,
       <1>13 DEF Next

-----------------------------------------------------------------------------
\* The invariant and what follows from it.

LEMMA InitInvariant == Init => IInv
  BY InitType DEF Init, IInv, Known, Receipts, Leases, Deletions, Attempts,
                  Idle, WorkerAt, Holds

LEMMA NextInvariant == IInv /\ [Next]_vars => IInv'
<1> SUFFICES ASSUME IInv, [Next]_vars PROVE IInv'
  OBVIOUS
<1>1. TypeOK /\ Known /\ Receipts /\ Leases /\ Deletions /\ Attempts
  BY DEF IInv
<1>2. TypeOK'
  BY <1>1, NextType
<1>3. Known'
  BY <1>1, KnownStep
<1>4. Receipts'
  BY <1>1, ReceiptsStep
<1>5. Leases'
  BY <1>1, LeasesStep
<1>6. Deletions'
  BY <1>1, DeletionsStep
<1>7. Attempts'
  BY <1>1, AttemptsStep
<1> QED
  BY <1>2, <1>3, <1>4, <1>5, <1>6, <1>7 DEF IInv

LEMMA Invariance == Spec => []IInv
<1>1. Init => IInv
  BY InitInvariant
<1>2. IInv /\ [Next]_vars => IInv'
  BY NextInvariant
<1> QED
  BY <1>1, <1>2, PTL DEF Spec

\* No row of pf_job_queue disappears unless a handler has returned successfully
\* from its job: retries, refusals, releases, crashes and expired locks only
\* ever leave the row where it is.
THEOREM JobsAreNotLost == Spec => []NoSilentLoss
<1>1. IInv => NoSilentLoss
  BY DEF IInv, Deletions, NoSilentLoss
<1> QED
  BY <1>1, Invariance, PTL

\* The retry limit is exact: a job that was not refused becomes a dead letter
\* after as many deliveries as its limit, and none is delivered more often.
THEOREM RetryLimitIsExact == Spec => []DeadLetterJustified
<1>1. IInv => DeadLetterJustified
  <2> SUFFICES ASSUME IInv, NEW j \in enqueued
               PROVE  /\ deliveries[j] <= row[j].jobRetryLimit
                      /\ row[j].jobAttempts >= row[j].jobRetryLimit =>
                            \/ deliveries[j] = row[j].jobRetryLimit
                            \/ j \in refused
    BY DEF DeadLetterJustified
  <2>1. j \in Jobs /\ deliveries[j] \in Nat /\ row[j] \in Row
    BY DEF IInv, TypeOK
  <2>2. /\ deliveries[j] <= row[j].jobAttempts
        /\ row[j].jobAttempts <= row[j].jobRetryLimit
        /\ j \notin refused => row[j].jobAttempts = deliveries[j]
    BY <2>1 DEF IInv, Attempts
  <2> QED
    BY <2>1, <2>2 DEF Row
<1> QED
  BY <1>1, Invariance, PTL

\* A worker whose visibility timeout is running holds its row's receipt.
LEMMA RunningLeaseHoldsReceipt ==
  ASSUME IInv, NEW w \in Workers, Holds(w), worker[w].lease > 0
  PROVE  HoldsReceipt(w)
<1>1. worker[w].lease \in Int
  BY DEF IInv, TypeOK, Worker
<1> QED
  BY <1>1 DEF IInv, Leases

\* Mutual exclusion of the visibility timeout: rawClaim, claimNextLocalJob,
\* fail and extendVisibility never let two workers hold one job at a time,
\* however late a claim commits after it read the clock.
THEOREM LeaseIsExclusive == Spec => []ExclusiveLease
<1>1. IInv => ExclusiveLease
  <2> SUFFICES ASSUME IInv, NEW v \in Workers, NEW w \in Workers, v # w,
                      Holds(v), Holds(w), worker[v].job = worker[w].job,
                      ~(worker[v].lease <= 0), ~(worker[w].lease <= 0)
               PROVE  FALSE
    BY DEF ExclusiveLease
  <2>1. worker[v].lease > 0 /\ worker[w].lease > 0
    BY DEF IInv, TypeOK, Worker
  <2>2. HoldsReceipt(v) /\ HoldsReceipt(w)
    BY <2>1, RunningLeaseHoldsReceipt
  <2>3. worker[v].receipt = worker[w].receipt
    BY <2>2 DEF HoldsReceipt
  <2> QED
    BY <2>3 DEF IInv, Receipts
<1> QED
  BY <1>1, Invariance, PTL

\* What LiveClaimUndisturbed says of one step and one worker.
Undisturbed(w) ==
    /\ worker[w].job \in present'
    /\ row'[worker[w].job].claimReceipt = worker[w].receipt
    /\ row'[worker[w].job].jobAttempts = row[worker[w].job].jobAttempts

LEMMA UndisturbedStep ==
  ASSUME IInv, [Next]_vars, NEW w \in Workers, Holds(w), worker[w].lease > 0,
         worker'[w] = worker[w]
  PROVE  Undisturbed(w)
<1> DEFINE job == worker[w].job
<1>a. /\ job \in present /\ job \in Jobs
      /\ row[job].claimReceipt = worker[w].receipt
  BY RunningLeaseHoldsReceipt DEF HoldsReceipt, IInv, TypeOK
<1>b. worker[w].lease \in Int /\ row[job].lockedUntil = worker[w].lease
  BY RunningLeaseHoldsReceipt DEF IInv, TypeOK, Leases, Worker
\* No other worker holds the receipt of the row.
<1>c. ASSUME NEW v \in Workers, Holds(v), v # w
      PROVE  ~(HoldsReceipt(v) /\ worker[v].job = job)
  BY <1>a, <1>c DEF IInv, Receipts, HoldsReceipt
\* A worker that becomes idle is another one.
<1>d. ASSUME NEW v \in Workers, worker' = [worker EXCEPT ![v] = Idle]
      PROVE  v # w
  BY <1>d DEF IInv, TypeOK, Idle, WorkerAt, Holds
<1>1. ASSUME NEW j \in Jobs, NEW delay \in Delays, NEW limit \in AttemptLimits,
             Enqueue(j, delay, limit)
      PROVE Undisturbed(w)
  <2>1. j # job
    BY <1>1, <1>a DEF Enqueue, IInv, Known
  <2> QED
    BY <1>1, <2>1, <1>a DEF Enqueue, Undisturbed, IInv, TypeOK
<1>2. ASSUME NEW v \in Workers, ClaimRead(v) PROVE Undisturbed(w)
  BY <1>2, <1>a DEF ClaimRead, Undisturbed, IInv, TypeOK, queueVars
<1>3. ASSUME NEW v \in Workers, NEW j \in Jobs, ClaimCommit(v, j)
      PROVE Undisturbed(w)
  <2>1. j # job
    <3>1. \/ row[j].lockedUntil = Null
          \/ row[j].lockedUntil + worker[v].age <= 0
      BY <1>3 DEF ClaimCommit, ClaimChoice, Claimable, Available
    <3>2. worker[v].age \in Nat
      BY DEF IInv, TypeOK, Worker
    <3> QED
      BY <1>b, <3>1, <3>2, Constants
  <2> QED
    BY <1>3, <2>1, <1>a DEF ClaimCommit, Undisturbed, IInv, TypeOK
<1>4. ASSUME NEW v \in Workers, ClaimLost(v) PROVE Undisturbed(w)
  BY <1>4, <1>a DEF ClaimLost, Undisturbed, IInv, TypeOK, queueVars
<1>5. ASSUME NEW v \in Workers, NEW verdict \in Verdicts \ {"none"},
             HandlerReturns(v, verdict)
      PROVE Undisturbed(w)
  BY <1>5, <1>a DEF HandlerReturns, Undisturbed, IInv, TypeOK, queueVars
<1>6. ASSUME NEW v \in Workers, Acknowledge(v) PROVE Undisturbed(w)
  <2>1. v # w /\ Holds(v)
    BY <1>6, <1>d DEF Acknowledge, Holds
  <2>2. ~(HoldsReceipt(v) /\ worker[v].job = job)
    BY <2>1, <1>c
  <2> QED
    BY <1>6, <2>2, <1>a DEF Acknowledge, Undisturbed, IInv, TypeOK, history
<1>7. ASSUME NEW v \in Workers, FailTerminal(v) PROVE Undisturbed(w)
  <2>1. v # w /\ Holds(v)
    BY <1>7, <1>d DEF FailTerminal, Holds
  <2>2. ~(HoldsReceipt(v) /\ worker[v].job = job)
    BY <2>1, <1>c
  <2> QED
    BY <1>7, <2>2, <1>a DEF FailTerminal, Undisturbed, IInv, TypeOK, history
<1>8. ASSUME NEW v \in Workers, FailRelease(v) PROVE Undisturbed(w)
  <2>1. v # w /\ Holds(v)
    BY <1>8, <1>d DEF FailRelease, Holds
  <2>2. ~(HoldsReceipt(v) /\ worker[v].job = job)
    BY <2>1, <1>c
  <2> QED
    BY <1>8, <2>2, <1>a DEF FailRelease, Undisturbed, IInv, TypeOK, history
<1>9. ASSUME NEW v \in Workers, FailKeepLock(v) PROVE Undisturbed(w)
  BY <1>9, <1>a DEF FailKeepLock, Undisturbed, IInv, TypeOK, queueVars
<1>10. ASSUME NEW v \in Workers, ExtendVisibility(v) PROVE Undisturbed(w)
  BY <1>10, <1>a DEF ExtendVisibility, Undisturbed, IInv, TypeOK, Row
<1>11. ASSUME NEW v \in Workers, Crash(v) PROVE Undisturbed(w)
  BY <1>11, <1>a DEF Crash, Undisturbed, IInv, TypeOK, queueVars
<1>12. ASSUME Tick PROVE Undisturbed(w)
  <2>1. present' = present
    BY <1>12 DEF Tick
  <2> QED
    BY <1>12, <2>1, <1>a, TickEffect DEF Undisturbed, IInv
<1>13. CASE UNCHANGED vars
  BY <1>13, <1>a DEF vars, Undisturbed
<1> QED
  BY <1>1, <1>2, <1>3, <1>4, <1>5, <1>6, <1>7, <1>8, <1>9, <1>10, <1>11, <1>12,
       <1>13 DEF Next

\* An expired worker cannot mutate a newer claim: while a visibility timeout
\* runs, nobody else's acknowledge, fail, claim or extension touches the row.
THEOREM LiveClaimsAreUndisturbed == Spec => LiveClaimUndisturbed
<1> DEFINE A == \A w \in Workers :
                   (Holds(w) /\ worker[w].lease > 0 /\ worker'[w] = worker[w]) =>
                      LET j == worker[w].job IN
                      /\ j \in present'
                      /\ row'[j].claimReceipt = worker[w].receipt
                      /\ row'[j].jobAttempts = row[j].jobAttempts
<1>1. IInv /\ [Next]_vars => [A]_vars
  BY UndisturbedStep DEF Undisturbed
<1>2. LiveClaimUndisturbed <=> [][A]_vars
  BY DEF LiveClaimUndisturbed
<1> HIDE DEF A
<1> QED
  BY <1>1, <1>2, Invariance, PTL DEF Spec

-----------------------------------------------------------------------------
\* Refinement.

\* A step that changes no row, no history and not which rows exist stutters.
LEMMA ContractStutter ==
  ASSUME UNCHANGED <<present, enqueued, deliveries>>,
         \A j \in Jobs : /\ row'[j].jobRetryLimit = row[j].jobRetryLimit
                         /\ row'[j].jobAttempts = row[j].jobAttempts
  PROVE  UNCHANGED Contract!contractVars
  BY DEF Contract!contractVars, JobStage, JobBudget

LEMMA InitContract == Init => Contract!ContractInit
  BY DEF Init, Contract!ContractInit, JobStage, JobBudget

LEMMA NextContract ==
  IInv /\ [Next]_vars => [Contract!ContractNext]_(Contract!contractVars)
<1> SUFFICES ASSUME IInv, [Next]_vars
             PROVE  [Contract!ContractNext]_(Contract!contractVars)
  OBVIOUS
<1> DEFINE Goal == [Contract!ContractNext]_(Contract!contractVars)
<1>a. TypeOK /\ Known /\ Attempts
  BY DEF IInv
<1>b. \A j \in Jobs : /\ row[j].jobAttempts \in Nat
                      /\ row[j].jobRetryLimit \in Nat
                      /\ deliveries[j] \in Nat
  BY <1>a DEF TypeOK, Row
<1>1. ASSUME NEW j \in Jobs, NEW delay \in Delays, NEW limit \in AttemptLimits,
             Enqueue(j, delay, limit)
      PROVE  Goal
  <2>1. limit \in Nat \ {0}
    BY QueueAssumption DEF AttemptLimits
  <2>2. j \notin enqueued /\ j \notin present /\ deliveries[j] = 0
    BY <1>1, <1>a DEF Enqueue, Known, Attempts
  <2>3. \A i \in Jobs : JobStage'[i] = IF i = j THEN "accepted" ELSE JobStage[i]
    BY <1>1, <2>2 DEF Enqueue, JobStage
  <2>4. \A i \in Jobs : JobBudget'[i] = IF i = j THEN limit ELSE JobBudget[i]
    BY <1>1, <2>1, <2>2, <1>a DEF Enqueue, JobBudget, TypeOK
  <2>5. JobStage' = [JobStage EXCEPT ![j] = "accepted"] /\ JobStage[j] = "new"
    BY <2>2, <2>3 DEF JobStage
  <2>6. JobBudget' = [JobBudget EXCEPT ![j] = limit] /\ JobBudget'[j] = limit
    BY <2>4 DEF JobBudget
  <2>7. Contract!Accept(j)
    BY <1>1, <2>1, <2>5, <2>6 DEF Contract!Accept, Enqueue
  <2> QED
    BY <2>7 DEF Contract!ContractNext
<1>2. ASSUME NEW w \in Workers, ClaimRead(w) PROVE Goal
  BY <1>2, ContractStutter DEF ClaimRead, queueVars, history
<1>3. ASSUME NEW w \in Workers, NEW j \in Jobs, ClaimCommit(w, j) PROVE Goal
  <2>1. j \in present /\ row[j].jobAttempts < row[j].jobRetryLimit
    BY <1>3 DEF ClaimCommit, ClaimChoice, Claimable, Available
  <2>2. j \in enqueued
    BY <2>1, <1>a DEF Known
  <2>3. \A i \in Jobs :
          /\ row'[i].jobRetryLimit = row[i].jobRetryLimit
          /\ row'[i].jobAttempts = IF i = j THEN row[j].jobAttempts + 1
                                             ELSE row[i].jobAttempts
          /\ deliveries'[i] = IF i = j THEN deliveries[j] + 1 ELSE deliveries[i]
    BY <1>3, <1>a DEF ClaimCommit, TypeOK, Row
  <2>4. UNCHANGED <<enqueued, present>>
    BY <1>3 DEF ClaimCommit
  <2>5. JobBudget' = JobBudget
    <3>1. ASSUME NEW i \in Jobs
          PROVE  deliveries'[i] + row'[i].jobRetryLimit - row'[i].jobAttempts
                    = deliveries[i] + row[i].jobRetryLimit - row[i].jobAttempts
      BY <1>b, <2>3
    <3> QED
      BY <2>4, <3>1 DEF JobBudget
  <2>6. JobStage' = JobStage
    BY <2>4 DEF JobStage
  <2>7. JobStage[j] = "accepted" /\ deliveries[j] < JobBudget[j]
    BY <1>b, <2>1, <2>2 DEF JobStage, JobBudget
  <2>8. deliveries' = [deliveries EXCEPT ![j] = @ + 1]
    BY <1>3 DEF ClaimCommit
  <2>9. Contract!Deliver(j)
    BY <2>5, <2>6, <2>7, <2>8 DEF Contract!Deliver
  <2> QED
    BY <2>9 DEF Contract!ContractNext
<1>4. ASSUME NEW w \in Workers, ClaimLost(w) PROVE Goal
  BY <1>4, ContractStutter DEF ClaimLost, queueVars, history
<1>5. ASSUME NEW w \in Workers, NEW verdict \in Verdicts \ {"none"},
             HandlerReturns(w, verdict)
      PROVE  Goal
  BY <1>5, ContractStutter DEF HandlerReturns, queueVars
<1>6. ASSUME NEW w \in Workers, Acknowledge(w) PROVE Goal
  <2> DEFINE j == worker[w].job
  <2>1. CASE HoldsReceipt(w)
    <3>1. j \in Jobs /\ j \in present /\ j \in enqueued /\ deliveries[j] > 0
      BY <1>6, <1>a, <2>1
      DEF Acknowledge, HoldsReceipt, TypeOK, Known, Attempts, Holds
    <3>2. /\ present' = present \ {j}
          /\ UNCHANGED <<row, enqueued, deliveries>>
      BY <1>6, <2>1 DEF Acknowledge, history
    <3>3. JobStage' = [JobStage EXCEPT ![j] = "completed"]
      BY <3>1, <3>2 DEF JobStage
    <3>4. JobStage[j] = "accepted" /\ JobBudget' = JobBudget
      BY <3>1, <3>2 DEF JobStage, JobBudget
    <3>5. Contract!Complete(j)
      BY <3>1, <3>2, <3>3, <3>4 DEF Contract!Complete
    <3> QED
      BY <3>1, <3>5 DEF Contract!ContractNext
  <2>2. CASE ~HoldsReceipt(w)
    BY <1>6, <2>2, ContractStutter DEF Acknowledge, history
  <2> QED
    BY <2>1, <2>2
<1>7. ASSUME NEW w \in Workers, FailTerminal(w) PROVE Goal
  <2> DEFINE j == worker[w].job
  <2>1. CASE HoldsReceipt(w)
    <3>1. j \in Jobs /\ j \in present /\ j \in enqueued /\ deliveries[j] > 0
      BY <1>7, <1>a, <2>1
      DEF FailTerminal, HoldsReceipt, TypeOK, Known, Attempts, Holds
    <3>2. UNCHANGED <<present, enqueued, deliveries>>
      BY <1>7 DEF FailTerminal
    <3>3. \A i \in Jobs :
            /\ row'[i].jobRetryLimit = row[i].jobRetryLimit
            /\ row'[i].jobAttempts = IF i = j THEN row[j].jobRetryLimit
                                               ELSE row[i].jobAttempts
      BY <1>7, <1>a, <2>1, <3>1 DEF FailTerminal, TypeOK, Row
    <3>4. JobBudget' = [JobBudget EXCEPT ![j] = deliveries[j]]
      <4>1. ASSUME NEW i \in Jobs
            PROVE  deliveries[i] + row'[i].jobRetryLimit - row'[i].jobAttempts
                     = IF i = j THEN deliveries[j]
                       ELSE deliveries[i] + row[i].jobRetryLimit
                                          - row[i].jobAttempts
        BY <1>b, <3>1, <3>3
      <4> QED
        BY <3>1, <3>2, <4>1 DEF JobBudget
    <3>5. JobStage' = JobStage /\ JobStage[j] = "accepted"
      BY <3>1, <3>2 DEF JobStage
    <3>6. Contract!Refuse(j)
      BY <3>1, <3>2, <3>4, <3>5 DEF Contract!Refuse
    <3> QED
      BY <3>1, <3>6 DEF Contract!ContractNext
  <2>2. CASE ~HoldsReceipt(w)
    BY <1>7, <2>2, ContractStutter DEF FailTerminal
  <2> QED
    BY <2>1, <2>2
<1>8. ASSUME NEW w \in Workers, FailRelease(w) PROVE Goal
  <2>1. \A i \in Jobs : /\ row'[i].jobRetryLimit = row[i].jobRetryLimit
                        /\ row'[i].jobAttempts = row[i].jobAttempts
    BY <1>8, <1>a DEF FailRelease, TypeOK, Row
  <2> QED
    BY <1>8, <2>1, ContractStutter DEF FailRelease, history
<1>9. ASSUME NEW w \in Workers, FailKeepLock(w) PROVE Goal
  BY <1>9, ContractStutter DEF FailKeepLock, queueVars, history
<1>10. ASSUME NEW w \in Workers, ExtendVisibility(w) PROVE Goal
  <2>1. \A i \in Jobs : /\ row'[i].jobRetryLimit = row[i].jobRetryLimit
                        /\ row'[i].jobAttempts = row[i].jobAttempts
    BY <1>10, <1>a DEF ExtendVisibility, TypeOK, Row
  <2> QED
    BY <1>10, <2>1, ContractStutter DEF ExtendVisibility, history
<1>11. ASSUME NEW w \in Workers, Crash(w) PROVE Goal
  BY <1>11, ContractStutter DEF Crash, queueVars, history
<1>12. ASSUME Tick PROVE Goal
  <2>1. UNCHANGED <<present, enqueued, deliveries>>
    BY <1>12 DEF Tick, history
  <2> QED
    BY <1>12, <1>a, <2>1, TickEffect, ContractStutter
<1>13. CASE UNCHANGED vars
  BY <1>13, ContractStutter DEF vars
<1> QED
  BY <1>1, <1>2, <1>3, <1>4, <1>5, <1>6, <1>7, <1>8, <1>9, <1>10, <1>11,
     <1>12, <1>13 DEF Next

\* The rows, locks, receipts and clocks of the queue implement the contract its
\* clients rely on: deliveries within budget, completion only after a delivery.
THEOREM QueueImplementsContract == Spec => ImplementsContract
<1>1. Init => Contract!ContractInit
  BY InitContract
<1>2. IInv /\ [Next]_vars => [Contract!ContractNext]_(Contract!contractVars)
  BY NextContract
<1> QED
  BY <1>1, <1>2, Invariance, PTL
  DEF Spec, ImplementsContract, Contract!ContractSpec
=============================================================================
