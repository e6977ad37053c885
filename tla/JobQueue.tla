------------------------------ MODULE JobQueue ------------------------------
(***************************************************************************)
(* The database-backed job queue (packages/sqlite-queue-service, its twin  *)
(* packages/postgres-queue-service and the local runtime's own claim) with *)
(* the workers that use it: enqueue with a delay and a retry limit, claim  *)
(* under a visibility timeout, acknowledge, fail, extend the visibility,   *)
(* the crash of a worker at any point and the passing of time.             *)
(*                                                                         *)
(* Time is relative: availableAt and lockedUntil hold the distance from    *)
(* now, so Tick decrements them, and a time further in the past than       *)
(* MaxAge is no longer told from MaxAge.  The code only asks whether a     *)
(* time is past and, for the claim order, which of two is earlier.         *)
(***************************************************************************)
EXTENDS Integers, FiniteSets

CONSTANTS
    Jobs,               \* ids of the rows that may ever be enqueued
    Workers,            \* claiming processes (queue pollers, other runtimes)
    Delays,             \* delays of enqueueWithDelay; 0 is enqueue
    RetryLimits,        \* values of options.retryLimit
    DefaultMaxRetries,  \* attempts of a job enqueued without retryLimit
    Visibility,         \* visibility timeout of a claim, in ticks
    MaxAge,             \* bound: a past further away is not told apart
    MaxClaimAge,        \* bound: ticks between rawClaim's `now' and its commit
    MaxCrashes,         \* bound: worker crashes
    LocalWorkers,       \* those that claim by claimNextLocalJob; the others do
                        \* by QueueService.rawClaim, from the same table
    Null                \* SQL NULL, and "no such job"

ASSUME QueueAssumption ==
    /\ Delays \subseteq Nat
    /\ RetryLimits \subseteq Nat
    /\ DefaultMaxRetries \in Nat \ {0}
    /\ Visibility \in Nat \ {0}
    /\ MaxAge \in Nat
    /\ MaxClaimAge \in 0 .. MaxAge
    /\ MaxCrashes \in Nat
    /\ LocalWorkers \subseteq Workers
    /\ Null \notin Int
    /\ Null \notin Jobs

VARIABLES
    present,      \* ids of the rows of pf_job_queue
    row,          \* job -> the columns of its row
    worker,       \* worker -> where it is in claim, handler and settlement
    nextReceipt,  \* source of fresh receipts (crypto.randomUUID)
    crashes,      \* crashes so far
    enqueued,     \* history: jobs ever enqueued
    handled,      \* history: jobs a handler has returned successfully from
    refused,      \* history: jobs a handler refused for good
    deliveries    \* history: job -> claims that returned it

queueVars == <<present, row, nextReceipt>>
history == <<enqueued, handled, refused, deliveries>>
vars == <<present, row, worker, nextReceipt, crashes, enqueued, handled,
          refused, deliveries>>

Row == [jobAttempts : Nat, jobRetryLimit : Nat, availableAt : Int,
        lockedUntil : Int \cup {Null}, claimReceipt : Nat \cup {Null}]

Verdicts == {"none", "acknowledge", "terminal", "release", "retry"}

Worker == [phase : {"idle", "claiming", "running", "settling"},
           job : Jobs \cup {Null}, receipt : Nat \cup {Null}, lease : Int,
           age : Nat, verdict : Verdicts]

\* `lease' is RawJob.lockedUntil, the deadline the worker was told.
WorkerAt(phase, job, receipt, lease) ==
    [phase |-> phase, job |-> job, receipt |-> receipt, lease |-> lease,
     age |-> 0, verdict |-> "none"]

Idle == WorkerAt("idle", Null, Null, 0)

-----------------------------------------------------------------------------
\* The conditions of a claim.

\* An operator without a comment here is a wrong variant of the commented one
\* that follows it (a condition dropped): the properties below tell them apart.

\* A column that holds a point in time, one tick later.
OneTickLater(t) == IF t > -MaxAge THEN t - 1 ELSE t

NoExpiry(j, age) ==
    /\ j \in present
    /\ row[j].availableAt + age <= 0
    /\ row[j].lockedUntil = Null
    /\ row[j].jobAttempts < row[j].jobRetryLimit

IgnoresLock(j, age) ==
    /\ j \in present
    /\ row[j].availableAt + age <= 0
    /\ row[j].jobAttempts < row[j].jobRetryLimit

IgnoresBudget(j, age) ==
    /\ j \in present
    /\ row[j].availableAt + age <= 0
    /\ \/ row[j].lockedUntil = Null
       \/ row[j].lockedUntil + age <= 0

\* availableJobConditions, as of a `now' captured `age' ticks ago.
Available(j, age) ==
    /\ j \in present
    /\ row[j].availableAt + age <= 0
    /\ \/ row[j].lockedUntil = Null
       \/ row[j].lockedUntil + age <= 0
    /\ row[j].jobAttempts < row[j].jobRetryLimit

\* The claim order: fewest attempts, then the oldest (the service) or the
\* newest (the local poller) availableAt.  Ids break ties: any of them may.
Precedes(w, i, j) ==
    \/ row[i].jobAttempts < row[j].jobAttempts
    \/ /\ row[i].jobAttempts = row[j].jobAttempts
       /\ IF w \in LocalWorkers
          THEN row[i].availableAt > row[j].availableAt
          ELSE row[i].availableAt < row[j].availableAt

\* The rows a claim as of `age' ticks ago may return.
Claimable(w, age) ==
    {j \in Jobs : /\ Available(j, age)
                  /\ \A i \in Jobs : Available(i, age) => ~Precedes(w, i, j)}

\* The receipt comparison every settlement makes: WHERE id AND claim_receipt.
AnyReceipt(w) == worker[w].job \in present

HoldsReceipt(w) ==
    /\ worker[w].job \in present
    /\ row[worker[w].job].claimReceipt = worker[w].receipt

-----------------------------------------------------------------------------
Init ==
    /\ present = {}
    /\ row = [j \in Jobs |-> [jobAttempts |-> 0, jobRetryLimit |-> 1,
                              availableAt |-> 0, lockedUntil |-> Null,
                              claimReceipt |-> Null]]
    /\ worker = [w \in Workers |-> Idle]
    /\ nextReceipt = 1
    /\ crashes = 0
    /\ enqueued = {}
    /\ handled = {}
    /\ refused = {}
    /\ deliveries = [j \in Jobs |-> 0]

\* enqueue and enqueueWithDelay: an absent retryLimit gives the default
\* number of attempts, retryLimit r gives r + 1.
Enqueue(j, delay, limit) ==
    /\ j \notin enqueued
    /\ present' = present \cup {j}
    /\ row' = [row EXCEPT ![j] = [jobAttempts |-> 0, jobRetryLimit |-> limit,
                                  availableAt |-> delay,
                                  lockedUntil |-> Null,
                                  claimReceipt |-> Null]]
    /\ enqueued' = enqueued \cup {j}
    /\ UNCHANGED <<worker, nextReceipt, crashes, handled, refused, deliveries>>

AttemptLimits == {DefaultMaxRetries} \cup {r + 1 : r \in RetryLimits}

\* The advisory read: it captures `now' and, in the local poller, the
\* candidate.  A claim that finds nothing ends here and changes nothing.
ClaimRead(w) ==
    /\ worker[w].phase = "idle"
    /\ \E j \in Claimable(w, 0) :
          worker' = [worker EXCEPT ![w] =
                        WorkerAt("claiming",
                                 IF w \in LocalWorkers THEN j ELSE Null,
                                 Null, 0)]
    /\ UNCHANGED <<queueVars, crashes, history>>

CandidateUnchecked(w) ==
    IF w \in LocalWorkers THEN {worker[w].job} \cap present
                           ELSE Claimable(w, worker[w].age)

\* The writing half: the service chooses again inside its transaction, the
\* poller's UPDATE repeats the conditions for the candidate it read.
ClaimChoice(w) ==
    IF w \in LocalWorkers
    THEN {j \in Jobs : j = worker[w].job /\ Available(j, worker[w].age)}
    ELSE Claimable(w, worker[w].age)

ClaimWithoutReceipt(w, j) ==
    /\ worker[w].phase = "claiming"
    /\ j \in ClaimChoice(w)
    /\ row' = [row EXCEPT ![j].jobAttempts = @ + 1,
                          ![j].lockedUntil = Visibility - worker[w].age]
    /\ worker' = [worker EXCEPT ![w] =
                     WorkerAt("running", j, row[j].claimReceipt,
                              Visibility - worker[w].age)]
    /\ deliveries' = [deliveries EXCEPT ![j] = @ + 1]
    /\ UNCHANGED <<present, crashes, enqueued, handled, refused, nextReceipt>>

ClaimWithoutCount(w, j) ==
    /\ worker[w].phase = "claiming"
    /\ j \in ClaimChoice(w)
    /\ row' = [row EXCEPT ![j].lockedUntil = Visibility - worker[w].age,
                          ![j].claimReceipt = nextReceipt]
    /\ worker' = [worker EXCEPT ![w] =
                     WorkerAt("running", j, nextReceipt,
                              Visibility - worker[w].age)]
    /\ nextReceipt' = nextReceipt + 1
    /\ deliveries' = [deliveries EXCEPT ![j] = @ + 1]
    /\ UNCHANGED <<present, crashes, enqueued, handled, refused>>

\* rawClaim's UPDATE ... RETURNING: lock, fresh receipt, one more attempt.
ClaimCommit(w, j) ==
    /\ worker[w].phase = "claiming"
    /\ j \in ClaimChoice(w)
    /\ row' = [row EXCEPT ![j].jobAttempts = @ + 1,
                          ![j].lockedUntil = Visibility - worker[w].age,
                          ![j].claimReceipt = nextReceipt]
    /\ worker' = [worker EXCEPT ![w] =
                     WorkerAt("running", j, nextReceipt,
                              Visibility - worker[w].age)]
    /\ nextReceipt' = nextReceipt + 1
    /\ deliveries' = [deliveries EXCEPT ![j] = @ + 1]
    /\ UNCHANGED <<present, crashes, enqueued, handled, refused>>

\* Another worker won between the read and the write: Option.none().
ClaimLost(w) ==
    /\ worker[w].phase = "claiming"
    /\ ClaimChoice(w) = {}
    /\ worker' = [worker EXCEPT ![w] = Idle]
    /\ UNCHANGED <<queueVars, crashes, history>>

\* The handler ends and makeJobDispatcher classifies its exit.  "retry" also
\* stands for the exits after which the poller makes no queue call: a defect
\* and ScheduledFlowNotFoundError.
HandlerReturns(w, verdict) ==
    /\ worker[w].phase = "running"
    /\ worker' = [worker EXCEPT ![w].phase = "settling",
                                ![w].verdict = verdict]
    /\ handled' = IF verdict = "acknowledge"
                  THEN handled \cup {worker[w].job} ELSE handled
    /\ UNCHANGED <<queueVars, crashes, enqueued, refused, deliveries>>

AcknowledgeAnyVerdict(w) ==
    /\ worker[w].phase = "settling"
    /\ worker[w].verdict \in {"acknowledge", "release"}
    /\ present' = IF HoldsReceipt(w) THEN present \ {worker[w].job}
                                     ELSE present
    /\ worker' = [worker EXCEPT ![w] = Idle]
    /\ UNCHANGED <<row, nextReceipt, crashes, history>>

\* acknowledge: DELETE the row if the receipt is still the row's; otherwise
\* StaleJobClaimError or JobNotFoundError and no change.
Acknowledge(w) ==
    /\ worker[w].phase = "settling"
    /\ worker[w].verdict = "acknowledge"
    /\ present' = IF HoldsReceipt(w) THEN present \ {worker[w].job}
                                     ELSE present
    /\ worker' = [worker EXCEPT ![w] = Idle]
    /\ UNCHANGED <<row, nextReceipt, crashes, history>>

\* fail({retryable: false}): no attempt is left, lock and receipt are cleared.
FailTerminal(w) ==
    LET j == worker[w].job IN
    /\ worker[w].phase = "settling"
    /\ worker[w].verdict = "terminal"
    /\ IF HoldsReceipt(w)
       THEN /\ row' = [row EXCEPT ![j].jobAttempts = row[j].jobRetryLimit,
                                  ![j].lockedUntil = Null,
                                  ![j].claimReceipt = Null]
            /\ refused' = refused \cup {j}
       ELSE UNCHANGED <<row, refused>>
    /\ worker' = [worker EXCEPT ![w] = Idle]
    /\ UNCHANGED <<present, nextReceipt, crashes, enqueued, handled, deliveries>>

\* fail({releaseImmediately: true}): lock and receipt are cleared.
FailRelease(w) ==
    LET j == worker[w].job IN
    /\ worker[w].phase = "settling"
    /\ worker[w].verdict = "release"
    /\ row' = IF HoldsReceipt(w)
              THEN [row EXCEPT ![j].lockedUntil = Null,
                               ![j].claimReceipt = Null]
              ELSE row
    /\ worker' = [worker EXCEPT ![w] = Idle]
    /\ UNCHANGED <<present, nextReceipt, crashes, history>>

\* fail() without options only verifies the claim: the row stays locked until
\* its visibility timeout.
FailKeepLock(w) ==
    /\ worker[w].phase = "settling"
    /\ worker[w].verdict = "retry"
    /\ worker' = [worker EXCEPT ![w] = Idle]
    /\ UNCHANGED <<queueVars, crashes, history>>

Settle(w) == Acknowledge(w) \/ FailTerminal(w) \/ FailRelease(w) \/ FailKeepLock(w)

\* extendVisibility from a running handler.  A stale or cleared claim is
\* refused with an error and nothing changes.
ExtendVisibility(w) ==
    LET j == worker[w].job IN
    /\ worker[w].phase = "running"
    /\ HoldsReceipt(w)
    /\ row[j].lockedUntil # Null
    /\ row' = [row EXCEPT ![j].lockedUntil = Visibility]
    /\ worker' = [worker EXCEPT ![w].lease = Visibility]
    /\ UNCHANGED <<present, nextReceipt, crashes, history>>

\* A worker dies; its row, if any, stays locked.  It restarts idle.
Crash(w) ==
    /\ worker[w].phase # "idle"
    /\ crashes < MaxCrashes
    /\ crashes' = crashes + 1
    /\ worker' = [worker EXCEPT ![w] = Idle]
    /\ UNCHANGED <<queueVars, history>>

\* Time passes.  A claim commits within MaxClaimAge ticks of reading `now'.
Tick ==
    /\ \A w \in Workers :
          worker[w].phase = "claiming" => worker[w].age < MaxClaimAge
    /\ row' = [j \in Jobs |->
                 [row[j] EXCEPT
                    !.availableAt = OneTickLater(@),
                    !.lockedUntil = IF @ = Null THEN Null ELSE OneTickLater(@)]]
    /\ worker' = [w \in Workers |->
                    CASE worker[w].phase = "claiming" ->
                            [worker[w] EXCEPT !.age = @ + 1]
                      [] worker[w].phase \in {"running", "settling"} ->
                            [worker[w] EXCEPT !.lease = OneTickLater(@)]
                      [] OTHER -> worker[w]]
    /\ UNCHANGED <<present, nextReceipt, crashes, history>>

Next ==
    \/ \E j \in Jobs, delay \in Delays, limit \in AttemptLimits :
          Enqueue(j, delay, limit)
    \/ \E w \in Workers :
          \/ ClaimRead(w)
          \/ \E j \in Jobs : ClaimCommit(w, j)
          \/ ClaimLost(w)
          \/ \E verdict \in Verdicts \ {"none"} : HandlerReturns(w, verdict)
          \/ Acknowledge(w)
          \/ FailTerminal(w)
          \/ FailRelease(w)
          \/ FailKeepLock(w)
          \/ ExtendVisibility(w)
          \/ Crash(w)
    \/ Tick

Spec == Init /\ [][Next]_vars

\* Workers poll for ever, claims and handlers end, time passes.  Nothing is
\* assumed of producers, crashes or visibility extensions.
Fairness ==
    /\ WF_vars(Tick)
    /\ \A w \in Workers :
          /\ WF_vars(ClaimRead(w))
          /\ WF_vars(ClaimLost(w) \/ \E j \in Jobs : ClaimCommit(w, j))
          /\ WF_vars(\E v \in Verdicts \ {"none"} : HandlerReturns(w, v))
          /\ WF_vars(Settle(w))

FairSpec == Spec /\ Fairness

-----------------------------------------------------------------------------
\* Properties.

Holds(w) == worker[w].phase \in {"running", "settling"}

\* Every variable keeps its type, and a worker that holds a job knows its id
\* and the receipt of its claim (RawJob.jobId, RawJob.receipt).
TypeOK ==
    /\ present \subseteq Jobs
    /\ row \in [Jobs -> Row]
    /\ worker \in [Workers -> Worker]
    /\ \A w \in Workers :
          Holds(w) => worker[w].job \in Jobs /\ worker[w].receipt \in Nat
    /\ nextReceipt \in Nat
    /\ crashes \in Nat
    /\ enqueued \subseteq Jobs
    /\ handled \subseteq Jobs
    /\ refused \subseteq Jobs
    /\ deliveries \in [Jobs -> Nat]

\* A job is worked on by at most one worker whose visibility timeout is still
\* running, whatever was claimed, released, extended, lost or crashed before:
\* the claim's two statements and its re-used `now' never hand out a job twice.
ExclusiveLease ==
    \A v, w \in Workers :
        /\ v # w
        /\ Holds(v) /\ Holds(w)
        /\ worker[v].job = worker[w].job
        => worker[v].lease <= 0 \/ worker[w].lease <= 0

\* No implicit deletion: a row that is gone was deleted after some handler
\* returned successfully from that job.
NoSilentLoss == enqueued \ present \subseteq handled

\* A row stops being claimable (dead letter) only after as many deliveries as
\* its retry limit allows, or because a handler refused it; never earlier, and
\* no job is delivered more often than its limit.
DeadLetterJustified ==
    \A j \in enqueued :
        /\ deliveries[j] <= row[j].jobRetryLimit
        /\ row[j].jobAttempts >= row[j].jobRetryLimit =>
              deliveries[j] = row[j].jobRetryLimit \/ j \in refused

\* While a worker's visibility timeout is running, no step of anybody else
\* deletes its row, takes the claim over or changes the attempts: an expired
\* worker cannot mutate a newer claim.
LiveClaimUndisturbed ==
    [][\A w \in Workers :
          (Holds(w) /\ worker[w].lease > 0 /\ worker'[w] = worker[w]) =>
             LET j == worker[w].job IN
             /\ j \in present'
             /\ row'[j].claimReceipt = worker[w].receipt
             /\ row'[j].jobAttempts = row[j].jobAttempts]_vars

\* A job leaves the queue or is dead-lettered and at rest.
AtRest(j) ==
    \/ j \notin present
    \/ /\ row[j].jobAttempts >= row[j].jobRetryLimit
       /\ \A w \in Workers : ~(Holds(w) /\ worker[w].job = j)

\* Every job that is enqueued is eventually acknowledged or dead-lettered,
\* also when its worker crashes while holding it.
EventuallyAtRest == \A j \in Jobs : j \in enqueued ~> AtRest(j)

\* A job as the contract sees it: where it is, and how many deliveries it may
\* have in all.
JobStage ==
    [j \in Jobs |-> IF j \notin enqueued THEN "new"
                    ELSE IF j \in present THEN "accepted" ELSE "completed"]

JobBudget ==
    [j \in Jobs |-> IF j \notin enqueued THEN 0
                    ELSE deliveries[j] + row[j].jobRetryLimit
                                       - row[j].jobAttempts]

Contract == INSTANCE JobQueueContract WITH
                stage <- JobStage, delivered <- deliveries, budget <- JobBudget

\* The queue keeps the promise of JobQueueContract: deliveries within budget,
\* completion only after a delivery, no resurrection.
ImplementsContract == Contract!ContractSpec
=============================================================================
