# Process Focus: TLA+ models and proofs

Process Focus is an engine for business processes written in TypeScript with
Effect. An organisation declares processes (steps, roles, flows); people fill
in forms, steps without a role run as code, and a relational database (SQLite or
Postgres) holds every piece of state, the job queue included. Nothing is kept in
memory between two jobs, so what makes the engine correct is the order in which
handlers read and write the database while jobs are delivered more than once.
These modules model that core.

Paths below are relative to the repository; `src/packages/...` is written
`packages/...`.

## 1. Inventory

| Component | State | Operations | Modules |
|---|---|---|---|
| Job queue service (`packages/sqlite-queue-service`, `packages/postgres-queue-service`) | `pf_job_queue`: attempts, retry limit, available_at, locked_until, claim receipt | enqueue, enqueueWithDelay, rawClaim, acknowledge, fail, extendVisibility | JobQueue, JobQueueContract, JobQueueProofs |
| Queue interface and dispatcher (`packages/runtime/src/lib/queue.ts`, `job.ts`) | none | classification of a handler's exit: acknowledge, retry, terminal | JobQueue (`HandlerReturns`) |
| Local job worker (`runtime/local/src/job-worker`) | permits, activeJobs, pause token, worker state file | claimNextLocalJob, processClaimedJob, pause, backoff | JobQueue (claim and settlement) |
| Flow-execution handler (`packages/job-handler/.../flow-execution.ts`) | `pf_scheduled_flow`, `pf_to_do`, `pf_process_execution`, `pf_completed_job` | route from a completed step, forEach barriers, deferred flows, finish check, failure recorder | FlowExecution, FlowExecutionProofs, FlowStrandingProofs, FlowSequentialProofs |
| System-step handler (`system-step-execution.ts`, `complete-system-step.ts`) | the same tables | run, complete, fail, route to error flows, record infrastructure failures | FlowExecution, FlowExecutionProofs, FlowStrandingProofs |
| Step completion (`packages/graphql-api/.../process-operations.ts`) | to-do, process state with a version, completion outbox | completeStep with optimistic retries, outbox recovery | StepCompletion, StepCompletionProofs; its effect in FlowExecution |
| Restart and abandon (`system-resolvers.ts`) | execution, to-dos | restartExecution, abandonExecution | FlowExecution |
| Public completion (`public-completion-delivery.ts`, `notification-delivery.ts`, `webhook-callback-host.ts` in `packages/job-handler`; `system-resolvers.ts`; the callback half of `plugins/resend`) | `pf_public_completion_invitation_attempt`, the to-do's correction and failure columns, the outbox | invite, complete, ask for a fresh link, correct an address, delivery callback | PublicCompletion, PublicCompletionProofs |
| Event handlers (`todo-event.ts`) and event hub (`runtime/local/.../event-hub.ts`) | the subscribers' sliding queues, in memory | read the row, publish, mark the job | TodoReplication |
| Replication resolvers (`packages/graphql-api/src/lib/rxdb-resolvers.ts`, `todo-queries.ts`) | none; the checkpoint travels with the client | pullTodo, streamTodo | TodoReplication |
| Frontend collections (`apps/frontend/lib/collections`) | the browser's copy of the rows, its checkpoint | stream, resync, pull (RxDB, external) | TodoReplication |
| Authentication, other resolvers, authoring and import, calendars, drivers, CLI, pages, other plugins | | | not modelled, reasons in PROJECT.json |

How they interact: `startProcessExecution` inserts a scheduled flow and a
flow-execution job in one transaction. The worker claims the job and runs the
flow-execution handler, which creates to-dos (and barriers, deferred flows and
system-step jobs) in one transaction. A to-do is completed by a person
(`completeStep`) or by the system-step handler; both insert the next scheduled
flow, or refer to the forEach's barrier, and enqueue a job for it. The handlers
know each other only through rows: a job names a scheduled flow or a to-do, a
to-do names its barrier, and `pf_completed_job` remembers which jobs are done.
A to-do whose form somebody outside completes gets an invitation attempt and a
notification job in the transaction that creates it; the mail provider reports
back through a webhook. Every transaction that changes a to-do also enqueues an
event job, whose handler publishes the row to the subscribed browsers.

What is hard:

- *delivery*: a job is delivered again after its visibility timeout, a failure
  or a crash, also while its first handler is still running;
- *reads before the transaction*: marker, scheduled flow, sibling count, the
  status checked by abandon and restart, the state read by completeStep;
- *barriers*: the last of several concurrent completions has to take the flow,
  exactly once, and be sure to be the last;
- *finishing*: an execution ends when nothing is left, judged from inside one
  branch while others are deferred or running;
- *retry limits*: what happens at the last attempt is different from what
  happens before it;
- *partial failure*: every read and the commit may fail; with an external queue
  rows and jobs are not written together;
- *callbacks*: delivery events arrive late, twice, out of order, or about an
  invitation that has been replaced;
- *replication*: a row is stamped with the time its request began and committed
  later, pages are read while rows change, events are dropped and reordered.

What makes the components correct: a queue never loses, duplicates (under a
live lease) or over-delivers a job; a scheduled flow is routed once and a to-do
completed once; a barrier waits for all its items and is then taken; nothing is
stranded; a completed execution has nothing left; a closed one stays quiet; an
execution comes to rest in a state somebody can do something about, or waits for a timer; a
completion is applied on exactly the state it was validated against; a delivery
event changes a to-do once, keeps its follow-up jobs, and a bounce is noticed; a
browser ends with the last version of every row it was told about.

PROJECT.json lists every hazard with the line where it bites and the properties
that would catch it, or the reason why none does yet.

## 2. Modules

### JobQueueContract, JobQueue, MCJobQueue

`JobQueueContract` is what clients of the queue may rely on: a job is accepted
once with a budget of deliveries, delivered while the budget lasts, completed
only after a delivery and never un-completed; a refusal ends its budget.

`JobQueue` is the row-level queue with its workers. One action per operation;
`row` holds the columns of `pf_job_queue`, `present` the ids in the table,
`worker[w]` what a claiming process knows: its phase, the job and receipt of its
claim and the deadline (`lease`) it was told. A claim is two actions, because the
code reads `now` and a candidate in one statement (`ClaimRead`) and writes in
another (`ClaimCommit`, or `ClaimLost`); up to `MaxClaimAge` ticks may pass in
between, and the stale `now` is used for the condition and the new deadline.
`LocalWorkers` are those that claim as the local runtime does: `claimNextLocalJob`
updates the candidate it read under repeated conditions, while the others claim
through the queue service, which chooses again in its transaction. Both kinds meet
on one table: the scripts and the process test runner claim through the service
beside a poller. Postgres with FOR UPDATE SKIP LOCKED makes a
choice the service variant also allows. `HandlerReturns` is the dispatcher's
classification, and the settlements are `Acknowledge`, `FailTerminal`,
`FailRelease` and `FailKeepLock`, each comparing the receipt.

Time is relative. `availableAt` and `lockedUntil` are distances from now which
`Tick` decrements, and a past beyond `MaxAge` is not told apart; the code asks only
whether a time is past and which of two is earlier. The history variables
`enqueued`, `handled`, `refused` and `deliveries` never guard an action.

### FlowExecution, MCFlowExecution

One process execution on a database-backed queue. The process graph is a
constant (`Steps`, `Flows`, `Source`, `Target`, `Kind`, ...). The tables are
functions from row ids to records; a row's id names the transaction that
inserted it, which makes ids unique as UUIDs are and keeps states canonical.

A handler is a sequence of phases of `worker[w]`: `ReadMarker`,
`ReadScheduledFlow`, `CountSiblings` and then one of the transactions `Route`,
`SkipClosed`, `SkipClaimed` (flow-execution); `Execute` or `TodoNotFound` and then
`CompleteSystemStep`, `FailSystemStep` or `SkipMissing` (system step). Everything a
transaction does is one action, every read outside one is another. `HandlerError`
is the wrapper around both handlers: re-thrown while attempts remain, then
`RecordFlowFailure` or `RecordSystemFailure`. `Fault` is a database error at any
point, `RecordingFails` one while a failure is recorded, `Crash` the worker's
death. The queue is reduced to what JobQueue establishes: a job with attempts
left may be claimed at any time, even while another worker handles it (its
visibility timeout expired), and only its latest claim can acknowledge it.
`Outcomes` lets every condition hold or not and every schedule be due or not. The
schedule of a deferred flow is evaluated again when its delayed job is delivered, as
the code does, on the state of then: the flow may be taken, dropped or put off once
more. `FailSystemStep` picks the error (`Errors`); `MatchingOnErrorFlows` are the error
flows that name it (`Catches`), else those that name none, and without any the
execution fails.

People and administrators are `CompleteToDo` (the transaction of `completeStep`),
`AbandonRequest` then `Abandon`, `RestartRequest` then `Restart`: the two requests
check first and write later, as the resolvers do.

`MaxErrors`, `MaxCrashes` and `MaxFaults` (both together) bound the faults,
`MaxDeferrals` how often one flow is put off.

Left out: event, notification, SLA and metric writes; the dispatch of an
external queue; steps started without a to-do; asynchronous ("Deferred") system
steps; forEach item data; what a condition computes.

### StepCompletion, MCStepCompletion

People completing the to-dos of one execution while the queue is external: the
completion writes dispatch rows (the outbox) in its transaction and hands them to
the queue afterwards under a lease. A request is one call of `completeStep`, or of
`recoverPendingExternalCompletionEnqueues` and the public replay, which start at
the dispatch (`Recover`). The latter drain is exported but has no caller in the
repository; the public replay reaches the same code.

`writes` is the process state as the sequence of patches merged into it, each with
the number of patches its writer had validated against (`base`); `version` is the
`updatedAt` column in milliseconds, which is what the code compares. An attempt is
`Inspect` (the to-do by id), `ReadState` (the snapshot) and one of the outcomes of
the transaction: `Complete`, `Overtaken` (somebody with the same user completed
it: roll back, answer success), `Conflict` (again, up to
`COMPLETE_STEP_MAX_ATTEMPTS`) or `DatabaseError`. `Replay` is the path of a to-do
that was completed before the attempt began. A form compares the version before it
looks at the to-do and a forEach step only afterwards, and a completion that merges
nothing compares no version; the guards keep that order. `SystemWrite` is the
unconditional write of a system step, whose version is the time its job began.

`row[t][k]` is the dispatch row of a to-do and a kind of job; "event" stands for
the three events of a completion, which differ only in name, and precedes "flow".
`ClaimRows`, `ExtendClaim`, `Send`, `DeleteRow`, `Release` are the steps of
`recoverExternalCompletionEnqueue`; `DispatchError` is an enqueue that fails, with
or without having been accepted. A lease is running or has lapsed (`LeaseLapses`):
its five minutes are not measured in the milliseconds of `clock`.

Left out: participants, drafts, corrections of public completions, what a form
rule computes (`Reject` is a choice), business durations, and `queueInTransaction`,
the database-backed queue, which FlowExecution has.

`ValidatedState` says a completion is merged into exactly the state it was
validated against; `ValidatedAmongRequests` the same as long as no system step
writes the state (`OnlyRequestsWrite`), which is what the code guarantees.

### PublicCompletion, MCPublicCompletion

One public form: its to-do, the invitation attempts, the mails, the provider's
reports and the webhook calls. `queueInTransaction` is fixed initially, and decides
between one transaction (`IssueInTransaction`, `ApplyInTransaction`) and the
statements of an external queue one by one (`WriteState`, `InsertAttempt`,
`EnqueueMail`, `ClearCorrection`, between which `RequestFails` may strike). A request
is a completion, a fresh link or a correction; `Validate`, `LoadState` and
`ReadCorrection` are its reads, whose results it uses later.

An attempt is stamped with the time its request began; `Latest` is by that time, as
in the query, so an attempt inserted last need not be the latest. The provider
reports events of mailed attempts and repeats those whose webhook call has not been
answered (`unanswered`). A call is `Receive`, with an external queue `Leftover` (jobs
an earlier call has left in the outbox), then `Record` (stale, or a delivery) or
`Fail` (the transaction of a bounce: correction or failure, and its follow-up jobs),
with an external queue `ListJobs`, `SendJob`, `DeleteJob`, and `Answer`.
`CallbackFails` ends a call at any point. `published` and `outcomes` are history.

Left out: the link's expiry and key, the sender's receipts, callbacks that the host
defers, the event jobs requests write themselves, what a form's rules compute.

### TodoReplication, MCTodoReplication

How a change of a to-do reaches one browser. `Begin` and `Commit` are a transaction
of the engine; the row is stamped with the time of `Begin`. `Read`, `Publish`, `Mark`
are the todo-event handler, whose job may be repeated between any two of them. The
hub's queue of `Capacity` events drops its oldest (`Publish`), `Connect`, `Subscribe`,
`Deliver` and `Disconnect` are the socket. The client works on one task at a time: a
resync pulls page after page (`StartPull` or `NextPull`, `AnswerPull`, `ApplyPage`),
any other event is written with its own checkpoint (`ApplyEvent`). `Candidates`, `Page`
and `NextCheckpoint` are `pullTodo`: open rows up to a frozen head in a backfill, all
rows beyond the checkpoint afterwards. The head and the rows of a page are read by
two statements, so the table may change between `Ask` and `AnswerPull`.

RxDB is not in the repository: its loop over full batches, its ignoring an empty
page's checkpoint and its dropping of queued events when a pull begins are taken
from how `replication-factory.ts` and `graphql-stream.ts` use it, and these
definitions are marked external. `lost` and `skipped` are history: to-dos whose last
change's event was dropped, and to-dos that changed behind the checkpoint. `Asked` is
the checkpoint of the next page, `OutOfReach` what that pull will not bring.
`MaxFaults` bounds lost connections, reloads and repeated jobs together.

Left out: rows a user may not see, checkpoints of older clients, other collections.

### The proofs

JobQueueProofs, FlowExecutionProofs, StepCompletionProofs, PublicCompletionProofs and
TodoReplicationProofs hold the theorems about the module each is named after;
FlowStrandingProofs and FlowSequentialProofs add to FlowExecutionProofs what becomes of
work that is waiting, in general and in a process that takes one branch at a time. See
section 4.

## 3. Runs

| Run | Instance | Shows |
|---|---|---|
| `job_queue` | 2 jobs, a local poller and a client of the queue service, fair | type, exclusive leases, no loss, exact retry limits, live claims undisturbed, refinement of the contract; every job is eventually acknowledged or a dead letter |
| `flow_sequential` | condition, forEach for people, system step; 2 workers, 1 administrator, 1 error, 1 crash | once-only routing, barriers, no premature completion, nothing stranded, a closed execution stays quiet |
| `flow_branching` | condition with else, timer that may be put off twice, forEach of a system step with a flow for one of two errors; 2 workers, 1 database error, fair | once-only routing across branches and error routing, no premature completion, nothing stranded, barriers apart, and the execution is again and again closed, waiting for somebody or for a deferred flow's time |
| `completion` | 2 requests of 2 users, a form and a forEach item, 1 system write, 1 error, 2 lapses, 1 crash | the state each completion was validated against, one write per to-do, true answers; outbox: nothing lost, events first, no needless duplicate, nothing left behind after success |
| `public_completion` | 2 requests, 1 callback, 2 addresses, 2 reports, 1 fault, 1 repetition, 1 restart, both queue modes | corrections have causes, follow-up jobs are kept and come back, events are applied once, bounces are noticed, a completion is final |
| `todo_replication` | 2 transactions, 3 to-dos, pages of 2, a queue of 1, 1 outage, reload or repeated job | what the client misses is explained, and events alone bring every change whose event was not dropped |
| `flow_premature_finish` | violation | an execution with a deferred flow is marked finished |
| `flow_stranded_barrier` | violation | two branches into one forEach step strand a barrier |
| `flow_lost_barrier` | violation | the failure recorder consumes a barrier siblings still need |
| `completion_stale_state` | violation | two writes of system steps can give the state a version it had before |
| `replication_stuck_backfill` | violation | after an exactly full last page no pull brings a later change |
| `public_orphaned_attempt` | violation | with an external queue an attempt that was never mailed hides the bounce of one that was |

Every property of a passing run has a mutant in PROJECT.json: a plausible wrong
variant of one definition (a dropped condition, a missing reset) defined next to
the right one, under which TLC finds the property violated.

**Bounds.** Two workers are enough for every race in the code, which is between
two deliveries of one job, two jobs of one barrier, or a handler and a person.
Two attempts give a first, a retried and a last attempt; zero items and two items give
the pass-through and a barrier with a sibling. In the queue, claims that commit a
tick after they read give leases that are running, just over and over, and `MaxAge`
covers every comparison. The bounds on errors, crashes, faults, requests, repetitions
and restarts make the instances finite.
`job_queue` has one worker of either kind, which gives all pairs of claims: the race
between two of one kind has the same choices as that between the two.
Completions have two requests, one of which may replay or take over what the other
left; the theorems cover any number. Two milliseconds give equal and increasing
times, and two attempts of the code's five a retried and a last one.
Two public requests give every pair (completion, fresh link, correction) with a
callback and somebody else's close in between. One callback is a bound that matters
to one property, `LeftoversAreRepeated`, and is part of its statement.
In replication pages of two and up to three rows give a backfill of several pages,
and last pages that are empty, partly filled and exactly full; `Initially` lets two or
three of them be there before the client, and the theorems any set; a queue of one event
drops at once; two transactions may begin in one order and commit in the other. An
outage and a repeated job in one behaviour are left to the theorems, which cover any
number of both. Two deferrals give a flow that is put off, and put off again when its
job arrives; the theorems cover any number.
Deadlock is checked for the queue, where time always passes, and not for the other
modules, where a finished execution, or a set of answered requests, really stops.

**Fairness.** JobQueue: the poller loops for ever (`Effect.forever` in
`createSingleQueuePoller`), a claim and a handler end (queries and steps have
timeouts), a settlement is called after the handler, and time passes; weak
fairness of each. Nothing is assumed of producers, crashes or extensions, except
that crashes are finitely many. FlowExecution: one weak fairness for all workers, that
some worker goes on while there is a job to claim or a handler at work (less than the
code gives, where every poller and every handler goes on); people, administrators and
faults are unconstrained. No fairness says that a schedule is ever due, because the
code does not ensure it: the schedule is evaluated at every delivery, and for an
execution without a completed step it is counted from the time of the delivery
(`flow-execution.ts:1690-1697`). `AlwaysSettles` therefore counts an undelivered job of a deferred flow as waiting (`Deferred`) and
promises that everything else settles; it does not say that a deferred flow is taken.
StepCompletion, PublicCompletion and TodoReplication state no fairness: nobody is
bound to submit, to repeat a callback or to stay connected, and all their properties
are safety properties. What one would like to say with "eventually" is stated of the
quiet states instead (`AllBounced`, nothing under way).

**What the violations mean.**
`flow_premature_finish`: `countPendingFlowJobs` matches on a payload field that
jobs of a database-backed queue do not carry, so it is always 0; a timer that is
still waiting does not keep the execution open, and when it fires the closed
execution skips it. `flow_stranded_barrier`: `countActiveTodosForStep` counts the
whole step, not the barrier's own to-dos; with two branches into one forEach
step the first barrier's last job yields to a to-do that belongs to the other
barrier, is acknowledged, and nobody comes back for the first.
`flow_lost_barrier`: on the last failed attempt of one item's job
`recordFlowExecutionFailure` deletes the barrier although a sibling is open; the
sibling's job then finds no barrier and skips.
`completion_stale_state`: `updateProcessState`, used by system steps, sets the
version to the time its request began, whatever it was. Two system steps begun in
the same millisecond give two different states one version, and a completion
that read the first passes its comparison on the second; it is merged into a state
it was not validated against. `public_orphaned_attempt`: a fresh link's attempt is
inserted before its mail is enqueued; if that fails the attempt stays behind and is
the latest, so the bounce of the invitation that was mailed is ignored as stale and
the to-do waits for ever for somebody who was not reached.
`replication_stuck_backfill`: `pullTodo` ends a backfill with the checkpoint of a page
that is not full. After an exactly full page that page is empty, and RxDB drops the
checkpoint of an empty page, so the client stays in backfill mode with the frozen
head: a change beyond it whose event was lost is brought by no pull, although
`rxdb-resolvers.ts:269-270` says "Later writes remain beyond that boundary for
incremental pulls". The repository's test of an exactly full page hands the empty
page's checkpoint back itself. Any later event repairs the client's mode
(`ApplyEvent`). The comment does not hold either of a row that is committed after the
checkpoint has passed its stamp; such rows are in `skipped`, which
`LaterWritesArePulled` exempts, so that the run shows the backfill alone. Each quotes the comment it
contradicts in PROJECT.json.

**Seen in the models, without a run**, because no text of the repository promises
otherwise; the properties are stated so that they allow for it. Two overlapping
callbacks of one event on an external queue: the second answers 200 while the first
still sends, and if the first dies its jobs stay in the outbox
(`LeftoversAreRepeated` is about calls that do not overlap). A correction that was
begun before a fresh link and commits after it mails an invitation that is not the
latest (`Overtaken`). With two handlers of to-do events at a time, which the local runtime
does not allow, an older event can be published after a newer one, and the client,
which takes events as they come, ends with the older version.

## 4. Proofs

`JobQueueProofs` proves, for every set of jobs and workers, every visibility
timeout and both claim variants:

- `TypeCorrect`: `Spec => []TypeOK`;
- `JobsAreNotLost`, `RetryLimitIsExact`, `LeaseIsExclusive`: the three invariants;
- `LiveClaimsAreUndisturbed`: the action property;
- `QueueImplementsContract`: JobQueue refines JobQueueContract.

The only assumption is `QueueAssumption` on the constants: naturals, a positive
visibility timeout and default limit, a claim no older than `MaxAge`, `Null`
neither an integer nor a job.

None of the invariants is inductive. The inductive one is
`IInv == TypeOK /\ Known /\ Receipts /\ Leases /\ Deletions /\ Attempts`:

- *Receipts*: every receipt was handed out before `nextReceipt`, and no two
  workers hold the same. A fresh receipt is therefore not held by anybody.
- *Leases*: a worker that holds a job either still has the row's receipt, and
  then the row's `lockedUntil` is exactly the deadline the worker knows, or its own
  deadline has passed. This is the heart: a claim is possible only when
  `lockedUntil` is past (even judged by a stale `now`, which makes time look earlier
  and the condition harder), so a worker that loses its receipt had an expired
  lease. Exclusiveness and undisturbed claims follow.
- *Attempts*: `jobAttempts` equals the deliveries until a refusal sets it to the
  limit; it never exceeds the limit. Exact retry limits follow, and the budget of
  the contract is preserved by every claim.
- *Deletions*: a worker that settles with "acknowledge" has a handled job, so what
  leaves the table is handled.
- *Known*: rows and claims are of jobs that were enqueued.

Each part has a step lemma with one step per action. The refinement is proved
from `IInv`: an enqueue is `Accept`, a claim `Deliver`, an effective acknowledgement
`Complete`, an effective refusal `Refuse`, everything else a stutter.

`FlowExecutionProofs` proves, for every process graph, any number of workers,
administrators, items, attempts, errors, crashes and requests, from `FlowAssumption`
(subsets, naturals, finitely many flows, `Null` neither a step nor a flow nor an error nor
a row's id):

- `TypeCorrect`, `CompletedNobodyLeft` and `BarriersWait`: `TypeOK`,
  `CompletedHasNoToDo` and `BarrierWaits`;
- `ClosedIsQuiet`: the action property `ClosedStaysQuiet`;
- `RoutedAtMostOnce`: `RoutedOnce`, if there is one administrator at a time
  (`OneAdmin`, a hypothesis of the theorem). The code needs it: two restarts that
  read the same failed to-do enqueue two jobs that may both complete it.

The invariant is `IInv == RowInv /\ Others`. `RowInv` is about the tables, `Others`
about what workers and administrators still know of them:

- *RowNames, JobNames, DeliveryNames, AdminNames*: what a to-do, a job, a delivery or
  a restart names was inserted by a transaction that is counted, so the ids of a new
  one are fresh; only to-dos of system steps have jobs, and only they fail while open.
- *Routing*: a scheduled flow that still has its row has not been routed. Route takes
  the row in the transaction that routes it, which gives the first half of `RoutedOnce`.
- *RowBarriers, DeliveryBarriers*: a barrier's row names its to-dos' step; a delivery
  that counts siblings counts those of that step; one that has found none is about to
  commit only when all the barrier's to-dos are deleted. They stay deleted and no
  to-do is added to a barrier that exists, which is why a count made before the
  transaction is enough.
- *Closing*: a failed execution is a finished one; a completed one has no to-do,
  because whatever finishes it has just seen none, and Route checks in its own
  transaction that it is open.
- *Completing* (for `RoutedAtMostOnce`): at most one job of a to-do is not marked in
  `pf_completed_job`; none is once the to-do is completed, failed, or about to be
  restarted. `completeSystemStep` asks nothing of the to-do, so the argument rests on
  the marker alone: completing needs an unmarked job and marks the last one.

A transaction is first described row by row (`RouteRows`, `ContinueRows`, `FailRows`,
`AbandonRows`, `RestartRows`), then shown to keep the rows (`...KeepsRows`), then what
the workers know (`EndingKeeps`, `ArrivingKeeps`); there is one lemma per action.

`FlowStrandingProofs` proves `NothingIsStranded`: `NothingStranded` in every behaviour in
which barriers stay apart (`[]BarriersApart`), for the same constants and any number of
administrators. The hypothesis is what the code takes for granted when it counts the
active to-dos of a barrier's whole step; the join of `flow_stranded_barrier` does not
satisfy it, and there the conclusion fails. `flow_branching` checks it on a graph with
branches, a timer and an error flow, `BarriersStayApart` below proves it of sequences.
The invariant `Serving` adds to `IInv`:

- *JobsInv*: jobs are older than the transaction count, all deliveries of a job know the
  same payload and no later claim than the row, whoever marks a flow job has consumed
  its scheduled flow, and what a delivery read of a barrier, or did not find, still holds;
- *Served*: unless a job was given up, every scheduled flow has a *live* job, or an
  active to-do of its barrier, and every open, unfailed system step has one. `Live`
  is a little stronger than the property's `Pending` (a latest claim that counts is a
  busy worker's), and the job of a system step is besides not marked: a marked one
  would be acknowledged by its next delivery without running the step.

Each action has a lemma `...Serves`. Whoever stops serving is shown to leave nothing to
serve: an acknowledgement follows a transaction that consumed the flow or closed the
to-do (`Over`), a delivery that yields to a sibling leaves the barrier to that sibling,
which is where the hypothesis is used, and a completion brings the job of the flow it
schedules or names (`Provides`).

`FlowSequentialProofs` proves, with one administrator at a time and of processes without
error flows in which at most one flow leaves a step whatever its conditions say
(`OneBranch`; the graph of `flow_sequential` is one):

- `BarriersStayApart`: `BarriersApart`, which discharges the hypothesis above, and so
  `NothingIsStrandedInSequence`: `NothingStranded` without it;
- `CompletedMeansDone`: `CompletedIsDone`. Without `OneBranch` it fails
  (`flow_premature_finish`).

`Token` is the invariant: until it is abandoned the execution is in one place, that is one
scheduled flow, the open to-dos of one barrier with or without their scheduled flow, or
one to-do. A route takes the only scheduled flow, whose to-dos are done, and moves the
token; a completion of a to-do without a barrier schedules the only flow. That no
to-do is completed a second time, which would make a second token, is *Completing* above.

`StepCompletionProofs` proves, for any number of requests, to-dos, users,
attempts, errors, lapses and crashes, from `CompletionAssumption` on the constants
(subsets, naturals, `None` and `SystemStep` distinct from the rest):

- `TypeCorrect`: types, and that a receipt is held only on an existing row of the
  holder's own, completed to-do;
- `CompletionsAreValidated`: `ValidatedAmongRequests`, that is `ValidatedState` as
  long as only requests write the state. The condition cannot be dropped: `completion_stale_state` is the counterexample.
  The invariant is `Snapshots`: a version that some request still remembers is at
  most the present one, and if it is the present one the state is the one that was
  read. Every completion increases the version, also when the clock does not move
  or a request is old (`nextProcessStateVersion`), which is all the argument needs;
- `AnswersAreTrue`: `AnswerIsTrue`. `TruthInv` adds that a request which has not
  yet completed anything left no patch and is nobody's winner, and that one which
  is dispatching or has succeeded sees its to-do closed in its user's name;
- `PatchesAreWrittenOnce`: `WrittenOnce`. `WrittenInv` joins it to `TruthInv`: the
  to-do a completion closes was open, so the state held nothing of it, and the
  patches appended are this request's, as many as `Expected` counts; no other step
  of a request that has left something changes its to-do;
- `DispatchIsKept` and `DispatchIsInOrder`: `DispatchKept` and `DispatchInOrder`.
  `DispatchInv` adds that a request about to delete a row has sent its job, that
  the present rows of a to-do share receipt and lease (`UniformOf`), so that a
  claim takes all of them or none, and that what a sender did not claim although
  it precedes what it did claim has been sent (`SentBy`);
- `SuccessIsDispatched`: `SuccessMeansDispatched`. `CustodyInv` adds who looks after a
  row that is still there: the sender whose receipt it has, or, unleased, a request
  about to claim it, unless that request failed or died. A sender holds either all
  the jobs it works on or, after somebody took them over, none;
- `JobsArePublishedOnce`: `PublishedOnce`. `BudgetInv` adds up for each job how often it
  was sent, the requests that have renewed their claim and will send it whatever
  becomes of it (`Sure`), and one if the row may be sent besides (`Free`). The sum is at
  most one plus the lapses and errors so far: a publication moves a request from the
  second term to the first, a renewal the third to the second.

`PublicCompletionProofs` proves, for any number of requests, callbacks, addresses,
reports, faults, repetitions and restarts and for both queue modes, from
`PublicCompletionAssumption` (finite sets of requests and callbacks, `Null` neither an
address nor a number):

- `TypeCorrect`, `CorrectionsHaveCauses`, `NoFollowUpIsLost`, `StatesAreInvited` and
  `CompletionsAreFinal`, from
  `IInv == Types /\ Names /\ Work /\ Modes /\ CorrectionHasCause /\ FollowUpsKept /\ StateIsInvited`.
  *Names*: what rows, mails, requests and the provider name exists. *Work*: a call
  works on a reported event, holds jobs only of a failure that was committed, and
  has sent the job it is about to delete, which is what keeps follow-up jobs.
  *Modes*: with a queue inside the transaction no request is between two statements
  and the outbox is empty;
- `LeftoversComeBack`: `CallInv` adds, for a single callback, that a call in progress
  has an unanswered event and holds every job of the outbox once it sends, so it
  answers only when the outbox is empty;
- `EventsAreAppliedOnce`: `FreshTimes` says no two attempts share a time and a
  request that has not inserted yet has a time of its own. `AppliedInv` then counts: an
  event's outcomes are at most one more than restarts and overtaking attempts, and
  one less than that while the to-do waits for the event's attempt;
- `BouncesAreNoticed`: `BounceIsNoticedInTransaction`. `NoticeInv` says that with a queue
  inside the transaction every attempt has its mail, and that once the provider was
  told of a bounce of the latest attempt the to-do no longer waits, if nobody was
  overtaken. A new attempt that nobody overtakes is the latest, and no event is of it.

`TodoReplicationProofs` proves, for every number of transactions and to-dos, every page
size, queue capacity, number of outages, reloads and repeated jobs, from `ReplicationAssumption`
(naturals, positive sizes, finitely many transactions, `Null` not a number):

- `TypeCorrect`: `TypeOK`;
- `PullsSkipNothing`: the half of `GapsAreExplained` that is about pulls, for any number
  of handlers: a change that is not shown and that the next pull will not bring was
  committed late or jumped over by an event (`skipped`), or lies beyond the head of a
  backfill that has not ended (`BeyondBackfill`), as in `replication_stuck_backfill`.
  `PullInv` carries the argument: an answer under way, its frozen head and the next
  checkpoint together leave out only rows that have changed since they were read, and
  such a row is beyond them or in `skipped`; `ReachOfPull` draws the conclusion for
  the query of the next page;
- `GapsExplained`, `EventsAreEnough`: `GapsAreExplained` and `EventsSuffice`, if there is one
  handler at a time (`OneWorker`, a hypothesis of the theorems: the local runtime's
  `GLOBAL_MAX_CONCURRENT` is 1, `job-worker.ts:409`). `Ordered` says that on its way
  from the handler over the hub to the client no event of a to-do is behind
  a newer one, `Told` that the newest version of a to-do that is not in `lost`
  is shown, in an event on its way after which no older one comes, or has its job.
  Dropped events are the oldest of the queue, so the order survives drops.

  The invariant below is `IInv == ServerInv /\ StreamInv /\ PullInv`: the versions
  of rows, jobs, events and documents never get ahead of one another in this order,
  which is where the types come from. It needs no hypothesis on the handlers.

Only model-checked: liveness (`EventuallyAtRest`, `AlwaysSettles`), which needs
fairness and ENABLED, and, on the graph of `flow_branching`, `BarriersApart`, since it is
neither true of every graph nor, there, a matter of taking one branch at a time.
Every other property of a passing run is the subject of a theorem. Recursion is avoided
in every module that is proved about.

## 5. Not modelled

- *The poller's pause protocol* (`queue-poller.ts`): with the one permit the runtime
  configures, claim and pause cannot overlap; the model would show nothing.
- *The dispatch of flow-execution jobs on an external queue*: the outbox is the one
  StepCompletion models; a restart re-uses logical job ids, and whether a queue
  deduplicates them is decided outside the repository.
- *READ COMMITTED on Postgres*: FlowExecution's transactions are steps, as they are
  on SQLite. Splitting them into statements would multiply the states of the largest
  model; the places where it matters are listed as hazards.
- *Steps without a to-do, asynchronous system steps, two administrators*: the same
  tables and shapes; a restart of a step without a to-do is left out with them.
- *Expiry, receipts and deferred callbacks of public completions*: time limits and
  keys, which no property tells apart.
- *Replication of the other collections*: pulls without a backfill mode, with the same
  checkpoints; `process-event.ts` and `execution-event.ts` have `todo-event.ts`'s shape.
- *Authentication and authorisation, forms, organisation import and authoring,
  business calendar, drivers and layers, command line tools, pages, sample plugins*:
  computations over one request's data, generated code or I/O. They keep no state that
  several actors race for, which is what these models are about.
