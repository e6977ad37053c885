---------------------------- MODULE FlowExecution ----------------------------
(***************************************************************************)
(* One process execution driven by the job handlers on a database-backed   *)
(* queue: the flow-execution handler that routes from a completed step to  *)
(* the next ones, the system-step handler that runs steps without a role,  *)
(* the people who complete the other to-dos, and administrators who        *)
(* abandon or restart the execution.                                       *)
(*                                                                         *)
(* A handler reads the database several times and then commits one         *)
(* transaction; every read and the transaction are separate steps, and a   *)
(* job may be delivered to several workers at once (its visibility timeout *)
(* may expire at any time, JobQueue.tla).  A transaction is one step.      *)
(* Event, notification and metric jobs are left out.                       *)
(***************************************************************************)
EXTENDS Naturals, FiniteSets

CONSTANTS
    Steps,        \* steps of the process
    Start,        \* the step whose completion started the execution
    ForEach,      \* steps with a forEach (one to-do per item)
    System,       \* steps without a role (run by the system-step handler)
    Flows,        \* edges of the process
    Source,       \* flow -> step
    Target,       \* flow -> step
    Kind,         \* flow -> one of Kinds
    Errors,       \* tags of the errors a system step may fail with
    Catches,      \* flow -> the errors an error flow names, if it names any
    Items,        \* numbers of items a forEach may resolve to
    Workers,      \* concurrent job deliveries
    Admins,       \* concurrent abandon or restart requests
    MaxAttempts,  \* jobRetryLimit of every job
    MaxErrors,    \* bound: database errors
    MaxCrashes,   \* bound: worker crashes
    MaxFaults,    \* bound: errors and crashes together
    MaxRequests,  \* bound: abandon and restart requests
    MaxDeferrals, \* bound: times the schedule of a flow is still ahead
    Null          \* SQL NULL

Kinds == {"plain", "conditional", "scheduled", "fallback", "onError"}

\* Row ids (see Id below).
Ids == [tx : Nat, flow : Flows \cup {Null}, item : Nat]

ASSUME FlowAssumption ==
    /\ Start \in Steps /\ ForEach \subseteq Steps /\ System \subseteq Steps
    /\ Source \in [Flows -> Steps] /\ Target \in [Flows -> Steps]
    /\ Kind \in [Flows -> Kinds] /\ IsFiniteSet(Flows)
    /\ Catches \in [Flows -> SUBSET Errors]
    /\ Items \subseteq Nat
    /\ MaxAttempts \in Nat \ {0} /\ MaxErrors \in Nat
    /\ MaxCrashes \in Nat /\ MaxFaults \in Nat /\ MaxRequests \in Nat
    /\ MaxDeferrals \in Nat
    /\ Null \notin Steps \cup Flows \cup Errors \cup Ids

VARIABLES
    execution,      \* pf_process_execution: the columns that decide its status
    scheduledFlow,  \* id -> pf_scheduled_flow
    toDo,           \* id -> pf_to_do
    queue,          \* id -> pf_job_queue rows of the two queues
    completedJob,   \* ids marked in pf_completed_job
    worker,         \* worker -> the delivery it is handling
    admin,          \* administrator -> request in flight
    txCount,        \* transactions that created rows: the source of fresh ids
    faults,         \* database errors and crashes so far
    requests,       \* abandon and restart requests so far
    routed,         \* history: id of a scheduled flow -> times it was routed
    completions,    \* history: to-do -> times it was completed
    dropped         \* history: jobs given up without their work being done

tables == <<execution, scheduledFlow, toDo, queue, completedJob, txCount>>
history == <<routed, completions, dropped>>
vars == <<execution, scheduledFlow, toDo, queue, completedJob, worker, admin,
          txCount, faults, requests, routed, completions, dropped>>

\* A row id names the transaction that inserted the row, the flow it was
\* inserted for and the item: unique as a UUID is.
Id(flow, item) == [tx |-> txCount + 1, flow |-> flow, item |-> item]
StartId == [tx |-> 0, flow |-> Null, item |-> 0]

\* Rows added to a table.
Insert(table, rows) ==
    [i \in DOMAIN table \cup DOMAIN rows |->
        IF i \in DOMAIN rows THEN rows[i] ELSE table[i]]

Delete(table, ids) == [i \in DOMAIN table \ ids |-> table[i]]

ScheduledFlow(source, target, barrier) ==
    [sourceStepId |-> source, targetStepId |-> target,
     forEachBarrier |-> barrier]

\* onError: the error whose flows are asked for, or Null.  executionId: the
\* payload names the process execution; only the payloads an external queue's
\* outbox stores do.
FlowJob(ref, onError) ==
    [queue |-> "flow-execution", ref |-> ref, onError |-> onError,
     attempts |-> 0, executionId |-> FALSE]

SystemJob(ref) ==
    [queue |-> "system-step-execution", ref |-> ref, onError |-> Null,
     attempts |-> 0, executionId |-> FALSE]

\* What a worker knows of its delivery: the claim (receipt is RawJob.attempts,
\* distinct for every claim of a job), the payload, and what it has read.
Idle == [phase |-> "idle", job |-> Null, receipt |-> 0, payload |-> Null,
         completed |-> FALSE, flow |-> Null]

-----------------------------------------------------------------------------
\* Queries.

\* An operator without a comment here is a wrong variant of the commented one
\* that follows it: the properties below tell them apart.

OpenForEver == TRUE

\* isProcessExecutionOpen.
Open == ~execution.finishedAt /\ ~execution.abandonedAt

\* The status column of getExecutions; `failed' is abandonedReason.
Status ==
    CASE execution.abandonedAt -> "Abandoned"
      [] ~execution.abandonedAt /\ execution.failed -> "Failed"
      [] ~execution.abandonedAt /\ ~execution.failed
            /\ execution.finishedAt -> "Completed"
      [] OTHER -> "Running"

\* countActiveTodos counts rows that are not deleted, failed ones included.
ActiveTodos == {t \in DOMAIN toDo : ~toDo[t].deleted}

TodosForStep(step) == {t \in DOMAIN toDo : toDo[t].step = step}

\* countActiveTodosForStep: over the whole step, whatever their barrier.
ActiveTodosForStep(step) == {t \in ActiveTodos : toDo[t].step = step}

\* countPendingFlowJobs: matched by the execution id in the payload.
PendingFlowJobs ==
    {j \in DOMAIN queue : /\ queue[j].queue = "flow-execution"
                          /\ queue[j].executionId}

MayFinishWithToDos == Cardinality(PendingFlowJobs) <= 1

\* checkAndMarkProcessFinished, with the current job allowed.
MayFinish == ActiveTodos = {} /\ Cardinality(PendingFlowJobs) <= 1

\* wasBarrierScheduledFlow.
WasBarrier(s) == \E t \in DOMAIN toDo : toDo[t].barrier = s

\* selectMatchingOnErrorFlows: the error flows that name the error, else those
\* that name none.
MatchingOnErrorFlows(step, error) ==
    LET flows == {f \in Flows : Source[f] = step /\ Kind[f] = "onError"}
        tagged == {f \in flows : error \in Catches[f]}
    IN IF tagged # {} THEN tagged ELSE {f \in flows : Catches[f] = {}}

-----------------------------------------------------------------------------
\* The state right after startProcessExecution has committed.
Init ==
    /\ execution = [finishedAt |-> FALSE, abandonedAt |-> FALSE,
                    failed |-> FALSE]
    /\ scheduledFlow = [i \in {StartId} |-> ScheduledFlow(Start, Null, FALSE)]
    /\ toDo = << >>
    /\ queue = [i \in {StartId} |-> FlowJob(StartId, Null)]
    /\ completedJob = {}
    /\ worker = [w \in Workers |-> Idle]
    /\ admin = [a \in Admins |-> [phase |-> "idle", todos |-> {}]]
    /\ txCount = 0
    /\ faults = [errors |-> 0, crashes |-> 0]
    /\ requests = 0
    /\ routed = [i \in {StartId} |-> 0]
    /\ completions = << >>
    /\ dropped = {}

-----------------------------------------------------------------------------
\* Deliveries.

Payload(w) == worker[w].payload
IsFlowJob(w) == Payload(w).queue = "flow-execution"
IsLastAttempt(w) == worker[w].receipt >= MaxAttempts

\* The next phase; what was read is of no use once the work is done or given up.
GoTo(w, phase) ==
    worker' = [worker EXCEPT
                 ![w] = IF phase \in {"record", "acknowledge"}
                        THEN [@ EXCEPT !.phase = phase, !.completed = FALSE,
                                       !.flow = Null]
                        ELSE [@ EXCEPT !.phase = phase]]

ClaimableForEver(j) == j \in DOMAIN queue

\* Any row with attempts left, its lock expired or not yet taken.
Claimable(j) == j \in DOMAIN queue /\ queue[j].attempts < MaxAttempts

\* A claim by the poller.
Claim(w, j) ==
    /\ worker[w].phase = "idle"
    /\ Claimable(j)
    /\ queue' = [queue EXCEPT ![j].attempts = @ + 1]
    /\ worker' = [worker EXCEPT ![w] =
                     [Idle EXCEPT !.phase = "marker", !.job = j,
                                  !.receipt = queue[j].attempts + 1,
                                  !.payload = [queue |-> queue[j].queue,
                                               ref |-> queue[j].ref,
                                               onError |-> queue[j].onError]]]
    /\ UNCHANGED <<execution, scheduledFlow, toDo, completedJob, admin,
                   txCount, faults, requests, history>>

\* The poller acknowledges: the row goes if this is still the latest claim.
Acknowledge(w) ==
    LET j == worker[w].job IN
    /\ worker[w].phase = "acknowledge"
    /\ queue' = IF j \in DOMAIN queue /\ queue[j].attempts = worker[w].receipt
                THEN Delete(queue, {j}) ELSE queue
    /\ worker' = [worker EXCEPT ![w] = Idle]
    /\ UNCHANGED <<execution, scheduledFlow, toDo, completedJob, admin,
                   txCount, faults, requests, history>>

ErrorSwallowed(w) == GoTo(w, "acknowledge")

\* An error escapes the inner handler: it is re-thrown while attempts remain
\* (the row stays for a later claim), else the wrapper records a failure.
HandlerError(w) ==
    IF IsLastAttempt(w) THEN GoTo(w, "record")
    ELSE worker' = [worker EXCEPT ![w] = Idle]

\* isJobCompleted, the first read of both handlers.
ReadMarker(w) ==
    LET completed == worker[w].job \in completedJob IN
    /\ worker[w].phase = "marker"
    /\ worker' = [worker EXCEPT
                    ![w].completed = completed,
                    ![w].phase = IF IsFlowJob(w) THEN "flow"
                                 ELSE IF completed THEN "acknowledge"
                                 ELSE "execute"]
    /\ UNCHANGED <<tables, admin, faults, requests, history>>

-----------------------------------------------------------------------------
\* The flow-execution handler.

\* getScheduledFlow and the early returns that follow it.  A completed job
\* whose barrier is still there is looked at again.
ReadScheduledFlow(w) ==
    LET s == Payload(w).ref IN
    /\ worker[w].phase = "flow"
    /\ IF s \in DOMAIN scheduledFlow
       THEN worker' = [worker EXCEPT
              ![w].flow = scheduledFlow[s],
              ![w].phase = IF scheduledFlow[s].forEachBarrier THEN "siblings"
                           ELSE IF worker[w].completed THEN "acknowledge"
                           ELSE "commit"]
       ELSE IF worker[w].completed \/ WasBarrier(s) \/ IsLastAttempt(w)
            THEN GoTo(w, "acknowledge")
            ELSE HandlerError(w)   \* ScheduledFlowNotFoundError
    /\ UNCHANGED <<tables, admin, faults, requests, history>>

SiblingsIgnored(w) ==
    /\ worker[w].phase = "siblings"
    /\ GoTo(w, "commit")
    /\ UNCHANGED <<tables, admin, faults, requests, history>>

\* The barrier check, before the transaction: while a sibling is active the
\* barrier and the marker are left alone and the delivery ends.
CountSiblings(w) ==
    /\ worker[w].phase = "siblings"
    /\ GoTo(w, IF ActiveTodosForStep(worker[w].flow.sourceStepId) = {}
               THEN "commit" ELSE "acknowledge")
    /\ UNCHANGED <<tables, admin, faults, requests, history>>

MarkTwice(w) == TRUE

\* markJobCompleted is a plain INSERT under a unique index; a stale marker has
\* been cleared before.
MayMark(w) == worker[w].completed \/ worker[w].job \notin completedJob

\* The marker is there already: the transaction rolls back.
CommitConflict(w) ==
    /\ worker[w].phase \in {"commit", "missing", "complete", "fail"}
    /\ ~MayMark(w)
    /\ HandlerError(w)
    /\ UNCHANGED <<tables, admin, faults, requests, history>>

\* DELETE ... RETURNING found nothing: another delivery or an abandon won.
SkipClaimed(w) ==
    /\ worker[w].phase = "commit"
    /\ Payload(w).ref \notin DOMAIN scheduledFlow
    /\ MayMark(w)
    /\ completedJob' = completedJob \cup {worker[w].job}
    /\ GoTo(w, "acknowledge")
    /\ UNCHANGED <<execution, scheduledFlow, toDo, queue, txCount, admin,
                   faults, requests, history>>

\* The execution is closed: the scheduled flow is consumed and nothing follows.
SkipClosed(w) ==
    LET s == Payload(w).ref IN
    /\ worker[w].phase = "commit"
    /\ s \in DOMAIN scheduledFlow
    /\ ~Open
    /\ MayMark(w)
    /\ scheduledFlow' = Delete(scheduledFlow, {s})
    /\ completedJob' = completedJob \cup {worker[w].job}
    /\ GoTo(w, "acknowledge")
    /\ UNCHANGED <<execution, toDo, queue, txCount, admin, faults, requests,
                   history>>

FlowsOfStep(flow, onError) ==
    {f \in Flows : /\ Source[f] = flow.sourceStepId
                   /\ IF onError = Null THEN Kind[f] # "onError"
                      ELSE f \in MatchingOnErrorFlows(flow.sourceStepId, onError)}

\* The flows a scheduled flow stands for: those leaving its source step, only
\* those to its target if it was deferred, the matching error flows for an
\* onError job.
FlowsFor(flow, onError) ==
    {f \in Flows : /\ Source[f] = flow.sourceStepId
                   /\ flow.targetStepId # Null => Target[f] = flow.targetStepId
                   /\ IF onError = Null THEN Kind[f] # "onError"
                      ELSE f \in MatchingOnErrorFlows(flow.sourceStepId, onError)}

\* Phases 2 to 5: unconditional flows are taken, conditions and schedules may
\* go either way, the else branches are taken if there were conditions and
\* none held.  The schedule of a deferred flow is evaluated again when its job
\* is delivered, on the state and the times of then, and may be ahead again.
Outcomes(flow, onError) ==
    LET flows == FlowsFor(flow, onError)
        Of(kind) == {f \in flows : Kind[f] = kind}
    IN {o \in [execute : SUBSET flows, defer : SUBSET Of("scheduled")] :
          /\ Of("plain") \cup Of("onError") \subseteq o.execute
          /\ o.execute \cap o.defer = {}
          /\ o.execute \cap Of("fallback") =
                IF Of("conditional") # {} /\ o.execute \cap Of("conditional") = {}
                THEN Of("fallback") ELSE {}}

\* Bound: every flow is put off MaxDeferrals times at most.
MayDefer(flows) ==
    \A f \in flows :
        Cardinality({s \in DOMAIN routed : s.flow = f}) < MaxDeferrals

NoToDoFollows(newToDos, continuing) == newToDos = {}

\* Nothing to wait for: neither a to-do nor a deferred or pass-through flow.
NothingFollows(newToDos, continuing) == newToDos = {} /\ continuing = {}

\* Phase 6 and the enqueues: to-dos, a barrier for every forEach with items, a
\* pass-through flow for every forEach without, a delayed job for every
\* deferred flow; the execution finishes if nothing follows.
RouteTo(w, execute, defer, items) ==
    LET Each(f) == IF Target[f] \in ForEach THEN items[f] ELSE 1
        barriers == {f \in execute : Target[f] \in ForEach /\ Each(f) > 0}
        passThrough == {f \in execute : Each(f) = 0}
        newToDos == UNION {{Id(f, k) : k \in 1 .. Each(f)} : f \in execute}
        continuing == {Id(f, 0) : f \in passThrough \cup defer}
        newFlows == continuing \cup {Id(f, 0) : f \in barriers}
        newSystem == {t \in newToDos : Target[t.flow] \in System}
    IN
    /\ toDo' = Insert(toDo, [t \in newToDos |->
                   [step |-> Target[t.flow],
                    barrier |-> IF t.flow \in barriers THEN Id(t.flow, 0)
                                                       ELSE Null,
                    deleted |-> FALSE, failed |-> FALSE]])
    /\ scheduledFlow' = Insert(Delete(scheduledFlow, {Payload(w).ref}),
                   [s \in newFlows |->
                      IF s.flow \in defer
                      THEN ScheduledFlow(Source[s.flow], Target[s.flow], FALSE)
                      ELSE ScheduledFlow(Target[s.flow], Null,
                                         s.flow \in barriers)])
    /\ queue' = Insert(queue, [j \in continuing \cup newSystem |->
                   IF j \in continuing THEN FlowJob(j, Null)
                                       ELSE SystemJob(j)])
    /\ execution' = [execution EXCEPT !.finishedAt =
                        @ \/ (NothingFollows(newToDos, continuing) /\ MayFinish)]
    /\ completions' = Insert(completions, [t \in newToDos |-> 0])
    /\ routed' = [Insert(routed, [s \in newFlows |-> 0])
                     EXCEPT ![Payload(w).ref] = @ + 1]
    /\ txCount' = txCount + 1

RouteFromSnapshot(w) ==
    /\ worker[w].phase = "commit"
    /\ MayMark(w)
    /\ \E outcome \in Outcomes(worker[w].flow, Payload(w).onError) :
       /\ MayDefer(outcome.defer)
       /\ \E items \in [{f \in outcome.execute : Target[f] \in ForEach} -> Items] :
             RouteTo(w, outcome.execute, outcome.defer, items)
    /\ completedJob' = completedJob \cup {worker[w].job}
    /\ GoTo(w, "acknowledge")
    /\ UNCHANGED <<admin, faults, requests, dropped>>

\* The transaction: the scheduled flow is taken by DELETE ... RETURNING and the
\* execution is open; then the routing is applied.
Route(w) ==
    /\ worker[w].phase = "commit"
    /\ Payload(w).ref \in DOMAIN scheduledFlow
    /\ Open
    /\ MayMark(w)
    /\ \E outcome \in Outcomes(worker[w].flow, Payload(w).onError) :
       /\ MayDefer(outcome.defer)
       /\ \E items \in [{f \in outcome.execute : Target[f] \in ForEach} -> Items] :
             RouteTo(w, outcome.execute, outcome.defer, items)
    /\ completedJob' = completedJob \cup {worker[w].job}
    /\ GoTo(w, "acknowledge")
    /\ UNCHANGED <<admin, faults, requests, dropped>>

\* recordFlowExecutionFailure: the flow is consumed and the execution finished
\* if nothing else is active.  A marker conflict rolls it back, and is ignored.
RecordFlowFailure(w) ==
    LET s == Payload(w).ref IN
    /\ worker[w].phase = "record"
    /\ IsFlowJob(w)
    /\ IF worker[w].job \in completedJob
       THEN UNCHANGED <<scheduledFlow, execution, completedJob>>
       ELSE /\ completedJob' = completedJob \cup {worker[w].job}
            /\ scheduledFlow' = Delete(scheduledFlow, {s})
            /\ execution' =
                  [execution EXCEPT !.finishedAt =
                     @ \/ (s \in DOMAIN scheduledFlow /\ Open /\ MayFinish)]
    /\ GoTo(w, "acknowledge")
    /\ UNCHANGED <<toDo, queue, txCount, admin, faults, requests, history>>

-----------------------------------------------------------------------------
\* The system-step handler.

\* The to-do is read, and its step runs on that snapshot: it returns an output,
\* or fails; a retryable failure is re-thrown while attempts remain.  A to-do
\* that is deleted by now is not found.
Execute(w, outcome) ==
    /\ worker[w].phase = "execute"
    /\ Payload(w).ref \in ActiveTodos
    /\ CASE outcome = "output" -> GoTo(w, "complete")
         [] outcome = "terminal" \/ IsLastAttempt(w) -> GoTo(w, "fail")
         [] OTHER -> worker' = [worker EXCEPT ![w] = Idle]
    /\ UNCHANGED <<tables, admin, faults, requests, history>>

TodoNotFound(w) ==
    /\ worker[w].phase = "execute"
    /\ Payload(w).ref \notin ActiveTodos
    /\ GoTo(w, "missing")
    /\ UNCHANGED <<tables, admin, faults, requests, history>>

\* markJobCompleted on its own, so that the job is not retried.
SkipMissing(w) ==
    /\ worker[w].phase = "missing"
    /\ MayMark(w)
    /\ completedJob' = completedJob \cup {worker[w].job}
    /\ GoTo(w, "acknowledge")
    /\ UNCHANGED <<execution, scheduledFlow, toDo, queue, txCount, admin,
                   faults, requests, history>>

\* What completing to-do t inserts: the barrier's flow or a new one called
\* `fresh', with a job to route from it.
Continue(t, fresh) ==
    LET s == IF toDo[t].barrier # Null THEN toDo[t].barrier ELSE fresh IN
    /\ toDo' = [toDo EXCEPT ![t].deleted = TRUE, ![t].failed = FALSE]
    /\ IF toDo[t].barrier # Null
       THEN UNCHANGED <<scheduledFlow, routed>>
       ELSE /\ scheduledFlow' = Insert(scheduledFlow,
                  [i \in {s} |-> ScheduledFlow(toDo[t].step, Null, FALSE)])
            /\ routed' = Insert(routed, [i \in {s} |-> 0])
    /\ queue' = Insert(queue, [i \in {Id(Null, 0)} |-> FlowJob(s, Null)])
    /\ completions' = [completions EXCEPT ![t] = @ + 1]
    /\ txCount' = txCount + 1

\* completeSystemStep: completeToDo asks nothing of the to-do's state; only
\* the marker keeps a second delivery from completing it again.
CompleteSystemStep(w) ==
    /\ worker[w].phase = "complete"
    /\ MayMark(w)
    /\ Continue(Payload(w).ref, Id(Null, 0))
    /\ completedJob' = completedJob \cup {worker[w].job}
    /\ GoTo(w, "acknowledge")
    /\ UNCHANGED <<execution, admin, faults, requests, dropped>>

\* failToDo spares a to-do that is completed or abandoned;
\* setProcessExecutionFailed an execution that is closed.
FailToDo(t) ==
    toDo' = [toDo EXCEPT ![t].failed = @ \/ ~toDo[t].deleted]

SetProcessExecutionFailed ==
    execution' = IF Open THEN [execution EXCEPT !.finishedAt = TRUE,
                                                !.failed = TRUE]
                         ELSE execution

\* The last or a terminal failure of a step: routed to the error flows that match
\* it if there are any, else the execution fails.
FailSystemStep(w) ==
    LET t == Payload(w).ref
        s == Id(Null, 0)
    IN
    /\ worker[w].phase = "fail"
    /\ MayMark(w)
    /\ FailToDo(t)
    /\ \E error \in Errors :
          IF MatchingOnErrorFlows(toDo[t].step, error) # {}
          THEN /\ scheduledFlow' = Insert(scheduledFlow,
                     [i \in {s} |-> ScheduledFlow(toDo[t].step, Null, FALSE)])
               /\ queue' = Insert(queue, [i \in {s} |-> FlowJob(s, error)])
               /\ routed' = Insert(routed, [i \in {s} |-> 0])
               /\ txCount' = txCount + 1
               /\ UNCHANGED execution
          ELSE /\ SetProcessExecutionFailed
               /\ UNCHANGED <<scheduledFlow, queue, routed, txCount>>
    /\ completedJob' = completedJob \cup {worker[w].job}
    /\ GoTo(w, "acknowledge")
    /\ UNCHANGED <<admin, faults, requests, completions, dropped>>

\* recordInfrastructureFailure: the execution is found through its to-do.  A
\* marker conflict rolls it back, and is ignored.
RecordSystemFailure(w) ==
    /\ worker[w].phase = "record"
    /\ ~IsFlowJob(w)
    /\ IF worker[w].job \in completedJob
       THEN UNCHANGED <<toDo, execution, completedJob>>
       ELSE /\ FailToDo(Payload(w).ref)
            /\ IF Payload(w).ref \in ActiveTodos THEN SetProcessExecutionFailed
                                                ELSE UNCHANGED execution
            /\ completedJob' = completedJob \cup {worker[w].job}
    /\ GoTo(w, "acknowledge")
    /\ UNCHANGED <<scheduledFlow, queue, txCount, admin, faults, requests,
                   history>>

-----------------------------------------------------------------------------
\* Faults.

FaultsLeft == faults.errors + faults.crashes < MaxFaults

\* A database error aborts what a handler is doing.
Fault(w) ==
    /\ worker[w].phase \in {"marker", "flow", "siblings", "commit", "execute",
                            "missing", "complete", "fail"}
    /\ faults.errors < MaxErrors /\ FaultsLeft
    /\ faults' = [faults EXCEPT !.errors = @ + 1]
    /\ HandlerError(w)
    /\ UNCHANGED <<tables, admin, requests, history>>

\* An error while a failure is recorded is logged, and the job acknowledged.
RecordingFails(w) ==
    /\ worker[w].phase = "record"
    /\ faults.errors < MaxErrors /\ FaultsLeft
    /\ faults' = [faults EXCEPT !.errors = @ + 1]
    /\ dropped' = dropped \cup {worker[w].job}
    /\ GoTo(w, "acknowledge")
    /\ UNCHANGED <<tables, admin, requests, routed, completions>>

\* The worker dies; after a job's last attempt its row is a dead letter.
Crash(w) ==
    /\ worker[w].phase # "idle"
    /\ faults.crashes < MaxCrashes /\ FaultsLeft
    /\ faults' = [faults EXCEPT !.crashes = @ + 1]
    /\ worker' = [worker EXCEPT ![w] = Idle]
    /\ dropped' = IF IsLastAttempt(w) /\ worker[w].phase # "acknowledge"
                  THEN dropped \cup {worker[w].job} ELSE dropped
    /\ UNCHANGED <<tables, admin, requests, routed, completions>>

-----------------------------------------------------------------------------
\* People.

\* completeStep's transaction for an open to-do of a step with a role.  The
\* scheduled flow takes the to-do's id.
CompleteToDo(t) ==
    /\ t \in ActiveTodos
    /\ toDo[t].step \notin System
    /\ Continue(t, t)
    /\ UNCHANGED <<execution, completedJob, worker, admin, faults, requests,
                   dropped>>

\* abandonExecution checks the status first and writes later, whatever the
\* status is by then.
AbandonRequest(a) ==
    /\ admin[a].phase = "idle"
    /\ requests < MaxRequests
    /\ Status \in {"Running", "Failed"}
    /\ requests' = requests + 1
    /\ admin' = [admin EXCEPT ![a].phase = "abandon"]
    /\ UNCHANGED <<tables, worker, faults, history>>

Abandon(a) ==
    /\ admin[a].phase = "abandon"
    /\ execution' = [execution EXCEPT !.finishedAt = TRUE,
                                      !.abandonedAt = TRUE]
    /\ toDo' = [t \in DOMAIN toDo |->
                  IF toDo[t].deleted THEN toDo[t]
                  ELSE [toDo[t] EXCEPT !.deleted = TRUE, !.failed = TRUE]]
    /\ scheduledFlow' = << >>
    /\ admin' = [admin EXCEPT ![a] = [phase |-> "idle", todos |-> {}]]
    /\ UNCHANGED <<queue, completedJob, txCount, worker, faults, requests,
                   history>>

\* restartExecution: the failed to-dos are read first, then cleared, the
\* execution is reopened and their system steps enqueued under new job ids.
RestartRequest(a) ==
    LET failed == {t \in ActiveTodos : toDo[t].failed} IN
    /\ admin[a].phase = "idle"
    /\ requests < MaxRequests
    /\ failed # {}
    /\ requests' = requests + 1
    /\ admin' = [admin EXCEPT ![a] = [phase |-> "restart", todos |-> failed]]
    /\ UNCHANGED <<tables, worker, faults, history>>

Restart(a) ==
    LET todos == admin[a].todos
        nth == CHOOSE r \in [todos -> 1 .. Cardinality(todos)] :
                  \A t, u \in todos : r[t] = r[u] => t = u
        jobs == {Id(Null, nth[t]) : t \in todos}
    IN
    /\ admin[a].phase = "restart"
    /\ toDo' = [t \in DOMAIN toDo |->
                  IF t \in todos THEN [toDo[t] EXCEPT !.failed = FALSE]
                                 ELSE toDo[t]]
    /\ execution' = [execution EXCEPT !.finishedAt = FALSE, !.failed = FALSE]
    /\ queue' = Insert(queue,
                   [j \in jobs |->
                      SystemJob(CHOOSE t \in todos : nth[t] = j.item)])
    /\ txCount' = txCount + 1
    /\ admin' = [admin EXCEPT ![a] = [phase |-> "idle", todos |-> {}]]
    /\ UNCHANGED <<scheduledFlow, completedJob, worker, faults, requests,
                   history>>

-----------------------------------------------------------------------------
FlowStep(w) ==
    \/ ReadScheduledFlow(w)
    \/ CountSiblings(w)
    \/ SkipClaimed(w)
    \/ SkipClosed(w)
    \/ Route(w)
    \/ RecordFlowFailure(w)

SystemStep(w) ==
    \/ \E outcome \in {"output", "retryable", "terminal"} : Execute(w, outcome)
    \/ TodoNotFound(w)
    \/ SkipMissing(w)
    \/ CompleteSystemStep(w)
    \/ FailSystemStep(w)
    \/ RecordSystemFailure(w)

HandlerStep(w) ==
    ReadMarker(w) \/ FlowStep(w) \/ SystemStep(w) \/ CommitConflict(w)
        \/ Acknowledge(w)

Next ==
    \/ \E w \in Workers :
          \/ \E j \in DOMAIN queue : Claim(w, j)
          \/ HandlerStep(w)
          \/ Fault(w)
          \/ RecordingFails(w)
          \/ Crash(w)
    \/ \E t \in DOMAIN toDo : CompleteToDo(t)
    \/ \E a \in Admins :
          AbandonRequest(a) \/ Abandon(a) \/ RestartRequest(a) \/ Restart(a)

Spec == Init /\ [][Next]_vars

\* While there is a job to claim or a handler at work, some worker goes on.
\* Nothing is assumed of people, administrators or faults.
Fairness ==
    WF_vars(\E w \in Workers : \/ \E j \in DOMAIN queue : Claim(w, j)
                              \/ HandlerStep(w))

FairSpec == Spec /\ Fairness

-----------------------------------------------------------------------------
\* Properties.

Columns == [finishedAt : BOOLEAN, abandonedAt : BOOLEAN, failed : BOOLEAN]

Phases == {"idle", "marker", "flow", "siblings", "commit", "execute",
           "missing", "complete", "fail", "record", "acknowledge"}

\* Every table holds rows of its type, and every to-do's barrier, every job's
\* scheduled flow or to-do has been inserted at some time.
TypeOK ==
    /\ execution \in Columns
    /\ DOMAIN scheduledFlow \subseteq DOMAIN routed
    /\ \A s \in DOMAIN scheduledFlow :
          scheduledFlow[s] \in [sourceStepId : Steps,
                                targetStepId : Steps \cup {Null},
                                forEachBarrier : BOOLEAN]
    /\ \A t \in DOMAIN toDo :
          toDo[t] \in [step : Steps, barrier : DOMAIN routed \cup {Null},
                       deleted : BOOLEAN, failed : BOOLEAN]
    /\ \A j \in DOMAIN queue :
          /\ queue[j].attempts \in 0 .. MaxAttempts
          /\ IF queue[j].queue = "flow-execution"
             THEN queue[j].ref \in DOMAIN routed
             ELSE queue[j].ref \in DOMAIN toDo
    /\ \A w \in Workers : worker[w].phase \in Phases
    /\ DOMAIN toDo = DOMAIN completions

\* A scheduled flow is routed at most once and a to-do completed at most once,
\* however often their jobs are delivered, retried or recorded as failed.
RoutedOnce ==
    /\ \A s \in DOMAIN routed : routed[s] <= 1
    /\ \A t \in DOMAIN completions : completions[t] <= 1

\* The flow behind a forEach is taken only when every item's to-do is done.
BarrierWaits ==
    \A t \in DOMAIN toDo :
        toDo[t].barrier # Null /\ routed[toDo[t].barrier] > 0 =>
            toDo[t].deleted

\* Once an execution has completed nobody has a to-do of it left.
CompletedHasNoToDo == Status = "Completed" => ActiveTodos = {}

\* No to-do is ever created for an execution that is closed: the check and the
\* insert are one transaction.
ClosedStaysQuiet ==
    [][DOMAIN toDo' # DOMAIN toDo => Status = "Running"]_vars

\* While a barrier is there, the active to-dos of its step are its own: what
\* countActiveTodosForStep takes for granted when it asks for the step only.
BarriersApart ==
    \A s \in DOMAIN scheduledFlow, t \in ActiveTodos :
        /\ scheduledFlow[s].forEachBarrier
        /\ toDo[t].step = scheduledFlow[s].sourceStepId
        => toDo[t].barrier = s

\* A job that will still be worked on: a claim of it is in progress or can be
\* made, and it is not merely waiting to be acknowledged.
Pending(j) ==
    LET latest == {w \in Workers : /\ worker[w].job = j
                                   /\ worker[w].receipt = queue[j].attempts}
    IN /\ \A w \in latest : worker[w].phase # "acknowledge"
       /\ queue[j].attempts < MaxAttempts \/ latest # {}

\* Nothing is stranded: every scheduled flow has a job that will route it, or is
\* a barrier that an item's to-do still holds; every open system to-do has a job
\* that will run it.  A job given up after its last attempt is the exception.
NothingStranded ==
    dropped = {} =>
      /\ \A s \in DOMAIN scheduledFlow :
            \/ \E j \in DOMAIN queue :
                  /\ queue[j].queue = "flow-execution" /\ queue[j].ref = s
                  /\ Pending(j)
            \/ \E t \in ActiveTodos : toDo[t].barrier = s
      /\ \A t \in ActiveTodos :
            toDo[t].step \in System /\ ~toDo[t].failed =>
               \E j \in DOMAIN queue :
                  /\ queue[j].queue = "system-step-execution"
                  /\ queue[j].ref = t
                  /\ Pending(j)

\* An execution is marked finished only when nothing of it is left to route:
\* checkAndMarkProcessFinished's promise.
CompletedIsDone == Status = "Completed" => scheduledFlow = << >>

\* The execution never just stops: again and again it is closed, or waits for a
\* person, for a restart of a failed step, for a job that was given up, or for the
\* time of a deferred flow, which may be put off again and again.
Settled ==
    \/ ~Open
    \/ \E t \in ActiveTodos : toDo[t].failed \/ toDo[t].step \notin System
    \/ dropped # {}

\* A deferred flow waits for its time: its delayed job has not been delivered.
Deferred ==
    \E j \in DOMAIN queue :
        /\ queue[j].queue = "flow-execution" /\ queue[j].attempts = 0
        /\ queue[j].ref \in DOMAIN scheduledFlow
        /\ scheduledFlow[queue[j].ref].targetStepId # Null

AlwaysSettles == []<>(Settled \/ Deferred)
=============================================================================
