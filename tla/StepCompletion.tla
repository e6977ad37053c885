--------------------------- MODULE StepCompletion ---------------------------
(***************************************************************************)
(* Completing to-dos of one execution (completeStep in packages/graphql-api,*)
(* the statements of packages/sqlite-operations/src/lib/step-completion.ts) *)
(* on a runtime whose queue is external: a completion and its dispatch rows *)
(* commit in one transaction, and the rows are then handed to the queue     *)
(* under a lease.                                                           *)
(*                                                                          *)
(* A request is one call; a client that submits twice makes two requests.   *)
(* The process state is the sequence of the patches merged into it, each    *)
(* with the number of patches its writer had validated against; its version *)
(* is the updatedAt column in milliseconds.  Input validation is a choice.  *)
(* A lease is running or has lapsed: its five minutes are far longer than   *)
(* the clock here, which counts the milliseconds of updatedAt.              *)
(***************************************************************************)
EXTENDS Integers, FiniteSets, Sequences

CONSTANTS
    Requests,         \* calls of completeStep and of the recovery of dispatches
    Todos,            \* open to-dos of the execution
    ForEachTodos,     \* those of a forEach step: they append to an array
    Users,            \* who may complete a to-do
    Identified,       \* users recorded with a role: a completion adds their identity
    Silent,           \* users whose validated input is empty
    MaxAttempts,      \* COMPLETE_STEP_MAX_ATTEMPTS
    MaxClock,         \* bound: milliseconds
    MaxSystemWrites,  \* bound: state updates by system steps
    MaxFaults,        \* bound: database and enqueue errors
    MaxLapses,        \* bound: leases that run out
    MaxCrashes,       \* bound: deaths of a process
    None              \* no request, no user, no version

(* Who writes the output of a system step, beside the requests.             *)
SystemStep == "system step"

ASSUME CompletionAssumption ==
    /\ ForEachTodos \subseteq Todos
    /\ Identified \subseteq Users
    /\ Silent \subseteq Users
    /\ {MaxAttempts, MaxClock} \subseteq Nat \ {0}
    /\ {MaxSystemWrites, MaxFaults, MaxLapses, MaxCrashes} \subseteq Nat
    /\ None \notin Requests \cup Users \cup Todos \cup Nat
    /\ SystemStep \notin Requests

VARIABLES
    clock,      \* DateTime.now in milliseconds
    version,    \* process_state.updated_at
    writes,     \* the patches of process_state.state, oldest first
    todo,       \* to-do -> whether it is open, and who completed it
    row,        \* to-do and kind of job -> its dispatch row
    published,  \* to-do and kind of job -> times the queue accepted it
    request,    \* request -> where it is
    lapses,     \* leases that ran out
    faults,     \* database and enqueue errors so far
    crashes     \* crashes so far

vars == <<clock, version, writes, todo, row, published, request, lapses, faults,
          crashes>>

(* The dispatch rows and their sequence numbers; "event" stands for the     *)
(* three events of a completion.                                            *)
JobSequence == [event |-> 0, flow |-> 1]
Kinds == DOMAIN JobSequence

Phases == {"idle", "inspect", "replay", "read", "commit", "dispatch", "sending",
           "renewed", "sent", "release", "succeeded", "conflicted", "rejected",
           "failed", "crashed"}
Final == {"succeeded", "conflicted", "rejected", "failed", "crashed"}

Merged(who, base) == [by |-> who, base |-> base]

AbsentRow == [present |-> FALSE, receipt |-> None, lease |-> "none"]

Idle == [phase |-> "idle", todo |-> None, user |-> None, attempt |-> 0,
         time |-> 0, version |-> None, base |-> None, jobs |-> {}]

(* The execution was started at 0, at least one millisecond ago.            *)
Init ==
    /\ clock = 1
    /\ version = 0
    /\ writes = <<>>
    /\ todo = [t \in Todos |-> [open |-> TRUE, user |-> None, winner |-> None]]
    /\ row = [t \in Todos |-> [k \in Kinds |-> AbsentRow]]
    /\ published = [t \in Todos |-> [k \in Kinds |-> 0]]
    /\ request = [r \in Requests |-> Idle]
    /\ lapses = 0
    /\ faults = 0
    /\ crashes = 0

-----------------------------------------------------------------------------
(* Helpers: a request's next phase, the version columns and the verdict of  *)
(* completeToDoIfOpen.                                                      *)

Go(r, phase) == request' = [request EXCEPT ![r].phase = phase]

(* The end of a request forgets what it read: nothing uses it any more.     *)
Finish(r, outcome) ==
    request' = [request EXCEPT ![r] = [Idle EXCEPT !.phase = outcome,
                                                   !.todo = request[r].todo,
                                                   !.user = request[r].user]]

(* Effect.retry: the whole attempt again, at most MaxAttempts in all, then  *)
(* StepCompletionConflictError.                                             *)
Retry(r) ==
    IF request[r].attempt < MaxAttempts
    THEN request' = [request EXCEPT ![r].phase = "inspect",
                                    ![r].attempt = @ + 1,
                                    ![r].version = None,
                                    ![r].base = None]
    ELSE Finish(r, "conflicted")

NextVersion(time, expected) == IF time > expected THEN time ELSE expected + 1

(* Mutant: a completed to-do is not compared with who completes it again.   *)
CompletedByAnyone(t, user) ==
    IF todo[t].open THEN "completed" ELSE "already-completed"

CompleteToDoIfOpen(t, user) ==
    IF todo[t].open THEN "completed"
    ELSE IF todo[t].user = user THEN "already-completed"
    ELSE "conflict"

(* A user with a role always adds an identity, so the patch is not empty.   *)
PatchIsEmpty(user) == user \in Silent \ Identified

(* Mutant: the UPDATE without its condition on the version.                 *)
AlwaysCurrent(r) == TRUE

(* The snapshot is current when the version it was read with still is.      *)
Unchanged(r) == request[r].version = version

-----------------------------------------------------------------------------
(* One attempt to complete a to-do.                                         *)

Submit(r, t, user) ==
    /\ request[r].phase = "idle"
    /\ request' = [request EXCEPT ![r] = [Idle EXCEPT !.phase = "inspect",
                                                      !.todo = t,
                                                      !.user = user,
                                                      !.attempt = 1,
                                                      !.time = clock]]
    /\ UNCHANGED <<clock, version, writes, todo, row, published, lapses, faults,
                   crashes>>

(* queryTodoForCompletionById also finds a completed to-do.                 *)
Inspect(r) ==
    /\ request[r].phase = "inspect"
    /\ Go(r, IF todo[request[r].todo].open THEN "read" ELSE "replay")
    /\ UNCHANGED <<clock, version, writes, todo, row, published, lapses, faults,
                   crashes>>

(* getProcessStateByTodoId finds nothing once the to-do is completed.  What *)
(* follows it, up to the transaction, computes from this snapshot.          *)
ReadState(r) ==
    /\ request[r].phase = "read"
    /\ request' =
           IF todo[request[r].todo].open
           THEN [request EXCEPT ![r].phase = "commit",
                                ![r].version = version,
                                ![r].base = Len(writes)]
           ELSE [request EXCEPT ![r].phase = "commit"]
    /\ UNCHANGED <<clock, version, writes, todo, row, published, lapses, faults,
                   crashes>>

(* A form rule, a target check or the input schema refuses the input.       *)
Reject(r) ==
    /\ request[r].phase = "commit"
    /\ Finish(r, "rejected")
    /\ UNCHANGED <<clock, version, writes, todo, row, published, lapses, faults,
                   crashes>>

(* The to-do was already completed when the attempt began.                  *)
Replay(r) ==
    LET q == request[r]
    IN  /\ q.phase = "replay"
        /\ IF CompleteToDoIfOpen(q.todo, q.user) = "already-completed"
           THEN Go(r, "dispatch")
           ELSE Retry(r)
        /\ UNCHANGED <<clock, version, writes, todo, row, published, lapses,
                       faults, crashes>>

(* An empty form merges nothing; a forEach step always appends an item.     *)
Merges(r) ==
    request[r].todo \in ForEachTodos \/ ~PatchIsEmpty(request[r].user)

(* What the completion merges into the state: a form's patch is one write,  *)
(* a forEach step appends its item and then merges the identity.            *)
Patches(r) ==
    LET q == request[r]
        n == IF q.todo \in ForEachTodos /\ q.user \in Identified THEN 2 ELSE 1
    IN  IF Merges(r) THEN [i \in 1 .. n |-> Merged(r, q.base + i - 1)] ELSE <<>>

VersionAfter(r, patches) ==
    LET first == NextVersion(request[r].time, version)
    IN  CASE Len(patches) = 0 -> version
          [] Len(patches) = 1 -> first
          [] Len(patches) = 2 -> NextVersion(request[r].time, first)

(* A form compares the version before it looks at the to-do, a forEach step *)
(* only once it has taken the to-do.                                        *)
Complete(r) ==
    LET q == request[r]
    IN  /\ q.phase = "commit"
        /\ CompleteToDoIfOpen(q.todo, q.user) = "completed"
        /\ Merges(r) => Unchanged(r)
        /\ writes' = writes \o Patches(r)
        /\ version' = VersionAfter(r, Patches(r))
        /\ todo' = [todo EXCEPT ![q.todo] =
                        [open |-> FALSE, user |-> q.user, winner |-> r]]
        /\ row' = [row EXCEPT ![q.todo] =
                       [k \in Kinds |-> [AbsentRow EXCEPT !.present = TRUE]]]
        /\ Go(r, "dispatch")
        /\ UNCHANGED <<clock, published, lapses, faults, crashes>>

(* ReplayStepCompletion rolls the transaction back and answers success.     *)
Overtaken(r) ==
    LET q == request[r]
    IN  /\ q.phase = "commit"
        /\ CompleteToDoIfOpen(q.todo, q.user) = "already-completed"
        /\ q.todo \in ForEachTodos \/ ~Merges(r) \/ Unchanged(r)
        /\ Go(r, "dispatch")
        /\ UNCHANGED <<clock, version, writes, todo, row, published, lapses,
                       faults, crashes>>

(* Mutant: the patch of a form outlives the retry, without a transaction.   *)
ConflictKeepsPatch(r) ==
    LET q == request[r]
    IN  /\ q.phase = "commit"
        /\ CompleteToDoIfOpen(q.todo, q.user) = "conflict"
        /\ writes' = IF Unchanged(r) THEN writes \o Patches(r) ELSE writes
        /\ Retry(r)
        /\ UNCHANGED <<clock, version, todo, row, published, lapses, faults, crashes>>

(* RetryStepCompletion: the state or the to-do changed.                     *)
Conflict(r) ==
    LET q == request[r]
        verdict == CompleteToDoIfOpen(q.todo, q.user)
    IN  /\ q.phase = "commit"
        /\ \/ verdict = "conflict"
           \/ /\ Merges(r)
              /\ ~Unchanged(r)
              /\ q.todo \in ForEachTodos => verdict = "completed"
        /\ Retry(r)
        /\ UNCHANGED <<clock, version, writes, todo, row, published, lapses,
                       faults, crashes>>

(* A locked database or a failed concurrent commit is retried, any other    *)
(* database error is not; either way the transaction is rolled back.        *)
DatabaseError(r) ==
    /\ request[r].phase \in {"inspect", "replay", "read", "commit"}
    /\ faults < MaxFaults
    /\ faults' = faults + 1
    /\ Retry(r) \/ Finish(r, "failed")
    /\ UNCHANGED <<clock, version, writes, todo, row, published, lapses, crashes>>

(* A system step merges its output unconditionally and sets updated_at to   *)
(* the time the worker began its job.                                       *)
SystemWrite(time) ==
    /\ Cardinality({i \in DOMAIN writes : writes[i].by = SystemStep}) < MaxSystemWrites
    /\ writes' = Append(writes, Merged(SystemStep, Len(writes)))
    /\ version' = time
    /\ UNCHANGED <<clock, todo, row, published, request, lapses, faults, crashes>>

-----------------------------------------------------------------------------
(* Handing the dispatch rows to the queue (recoverExternalCompletionEnqueue).*)

(* The pending-dispatch drain and the public replay of a completed to-do    *)
(* start here.                                                              *)
Recover(r, t) ==
    /\ request[r].phase = "idle"
    /\ ~todo[t].open
    /\ request' = [request EXCEPT ![r].phase = "dispatch", ![r].todo = t]
    /\ UNCHANGED <<clock, version, writes, todo, row, published, lapses, faults,
                   crashes>>

Held(r, t) == {k \in Kinds : row[t][k].receipt = r}

(* Mutant: the claim takes leased rows too.                                 *)
IgnoresLease(t) == {k \in Kinds : row[t][k].present}

Claimable(t) == {k \in Kinds : row[t][k].present /\ row[t][k].lease # "running"}

(* Mutant: rows in the order the UPDATE returned them.                      *)
Unsorted(kinds) == CHOOSE k \in kinds : \A j \in kinds : JobSequence[j] <= JobSequence[k]

(* claimFlowDispatchJobs sorts the rows by sequence: the one sent next.     *)
NextJob(kinds) == CHOOSE k \in kinds : \A j \in kinds : JobSequence[k] <= JobSequence[j]

(* Mutant: the rows are locked without a receipt.                           *)
ClaimWithoutReceipt(r) ==
    LET t == request[r].todo
    IN  /\ request[r].phase = "dispatch"
        /\ row' = [row EXCEPT ![t] =
                       [k \in Kinds |->
                            IF k \in Claimable(t)
                            THEN [row[t][k] EXCEPT !.lease = "running"]
                            ELSE row[t][k]]]
        /\ request' = [request EXCEPT ![r].phase = "sending",
                                      ![r].jobs = Claimable(t)]
        /\ UNCHANGED <<clock, version, writes, todo, published, lapses, faults,
                       crashes>>

ClaimRows(r) ==
    LET t == request[r].todo
    IN  /\ request[r].phase = "dispatch"
        /\ row' = [row EXCEPT ![t] =
                       [k \in Kinds |->
                            IF k \in Claimable(t)
                            THEN [present |-> TRUE, receipt |-> r, lease |-> "running"]
                            ELSE row[t][k]]]
        /\ request' = [request EXCEPT ![r].phase = "sending",
                                      ![r].jobs = Claimable(t)]
        /\ UNCHANGED <<clock, version, writes, todo, published, lapses, faults,
                       crashes>>

AllSent(r) ==
    /\ request[r].phase = "sending"
    /\ request[r].jobs = {}
    /\ Finish(r, "succeeded")
    /\ UNCHANGED <<clock, version, writes, todo, row, published, lapses, faults,
                   crashes>>

(* Mutant: renewed only if every row of the dispatch is still held.         *)
AllRenewed(r) == Held(r, request[r].todo) = Kinds

(* extendFlowDispatchClaim renews the rows that still carry the receipt,    *)
(* also when the lease has lapsed.                                          *)
Renewed(r) == Held(r, request[r].todo) # {}

(* Mutant: the row is deleted before its job is sent.                       *)
DeleteThenSend(r) ==
    LET t == request[r].todo
    IN  /\ request[r].phase = "sending"
        /\ request[r].jobs # {}
        /\ row' = [row EXCEPT ![t][NextJob(request[r].jobs)] = AbsentRow]
        /\ Go(r, "renewed")
        /\ UNCHANGED <<clock, version, writes, todo, published, lapses, faults,
                       crashes>>

ExtendClaim(r) ==
    LET t == request[r].todo
    IN  /\ request[r].phase = "sending"
        /\ request[r].jobs # {}
        /\ IF Renewed(r)
           THEN /\ row' = [row EXCEPT ![t] =
                               [k \in Kinds |->
                                    IF k \in Held(r, t)
                                    THEN [row[t][k] EXCEPT !.lease = "running"]
                                    ELSE row[t][k]]]
                /\ Go(r, "renewed")
           ELSE /\ Finish(r, "succeeded")
                /\ UNCHANGED row
        /\ UNCHANGED <<clock, version, writes, todo, published, lapses, faults,
                       crashes>>

Accept(r) ==
    published' = [published EXCEPT ![request[r].todo][NextJob(request[r].jobs)] = @ + 1]

Send(r) ==
    /\ request[r].phase = "renewed"
    /\ Accept(r)
    /\ Go(r, "sent")
    /\ UNCHANGED <<clock, version, writes, todo, row, lapses, faults, crashes>>

DeleteRow(r) ==
    LET t == request[r].todo
        k == NextJob(request[r].jobs)
    IN  /\ request[r].phase = "sent"
        /\ IF k \in Held(r, t)
           THEN /\ row' = [row EXCEPT ![t][k] = AbsentRow]
                /\ request' = [request EXCEPT ![r].phase = "sending",
                                              ![r].jobs = @ \ {k}]
           ELSE /\ Finish(r, "succeeded")
                /\ UNCHANGED row
        /\ UNCHANGED <<clock, version, writes, todo, published, lapses, faults,
                       crashes>>

(* An enqueue that fails may have been accepted.  Nothing is released when  *)
(* the claim itself fails.                                                  *)
DispatchError(r) ==
    /\ faults < MaxFaults
    /\ faults' = faults + 1
    /\ \/ /\ request[r].phase = "dispatch"
          /\ Finish(r, "failed")
          /\ UNCHANGED published
       \/ /\ request[r].phase \in {"sending", "renewed", "sent"}
          /\ request[r].jobs # {}
          /\ Go(r, "release")
          /\ UNCHANGED published \/ (request[r].phase = "renewed" /\ Accept(r))
    /\ UNCHANGED <<clock, version, writes, todo, row, lapses, crashes>>

Release(r) ==
    LET t == request[r].todo
    IN  /\ request[r].phase = "release"
        /\ row' = [row EXCEPT ![t] =
                       [k \in Kinds |->
                            IF k \in Held(r, t)
                            THEN [AbsentRow EXCEPT !.present = TRUE]
                            ELSE row[t][k]]]
        /\ Finish(r, "failed")
        /\ UNCHANGED <<clock, version, writes, todo, published, lapses, faults,
                       crashes>>

-----------------------------------------------------------------------------
(* The environment.                                                         *)

(* The five minutes of a claim are over.                                    *)
LeaseLapses(r, t) ==
    /\ lapses < MaxLapses
    /\ \E k \in Held(r, t) : row[t][k].lease = "running"
    /\ lapses' = lapses + 1
    /\ row' = [row EXCEPT ![t] =
                   [k \in Kinds |->
                        IF k \in Held(r, t)
                        THEN [row[t][k] EXCEPT !.lease = "lapsed"]
                        ELSE row[t][k]]]
    /\ UNCHANGED <<clock, version, writes, todo, published, request, faults,
                   crashes>>

Crash(r) ==
    /\ request[r].phase \notin Final \cup {"idle"}
    /\ crashes < MaxCrashes
    /\ crashes' = crashes + 1
    /\ Finish(r, "crashed")
    /\ UNCHANGED <<clock, version, writes, todo, row, published, lapses, faults>>

Tick ==
    /\ clock < MaxClock
    /\ clock' = clock + 1
    /\ UNCHANGED <<version, writes, todo, row, published, request, lapses,
                   faults, crashes>>

Attempt(r) ==
    \/ Inspect(r)
    \/ ReadState(r)
    \/ Reject(r)
    \/ Replay(r)
    \/ Complete(r)
    \/ Overtaken(r)
    \/ Conflict(r)
    \/ DatabaseError(r)

Dispatch(r) ==
    \/ ClaimRows(r)
    \/ AllSent(r)
    \/ ExtendClaim(r)
    \/ Send(r)
    \/ DeleteRow(r)
    \/ DispatchError(r)
    \/ Release(r)

Next ==
    \/ \E r \in Requests, t \in Todos, user \in Users : Submit(r, t, user)
    \/ \E r \in Requests : Attempt(r)
    \/ \E time \in 1 .. clock : SystemWrite(time)
    \/ \E r \in Requests, t \in Todos : Recover(r, t)
    \/ \E r \in Requests : Dispatch(r)
    \/ \E r \in Requests, t \in Todos : LeaseLapses(r, t)
    \/ \E r \in Requests : Crash(r)
    \/ Tick

Spec == Init /\ [][Next]_vars

-----------------------------------------------------------------------------
(* Properties.                                                              *)

Request == [phase : Phases, todo : Todos \cup {None}, user : Users \cup {None},
            attempt : Nat, time : Nat, version : Nat \cup {None},
            base : Nat \cup {None}, jobs : SUBSET Kinds]

Row == [present : BOOLEAN, receipt : Requests \cup {None},
        lease : {"none", "running", "lapsed"}]

(* Types, and which parts of a request and of a row go together: a receipt  *)
(* is held only on an existing row of the holder's own to-do, which is      *)
(* completed.                                                               *)
TypeOK ==
    /\ clock \in Nat
    /\ version \in Nat
    /\ writes \in Seq([by : Requests \cup {SystemStep}, base : Nat])
    /\ todo \in [Todos -> [open : BOOLEAN, user : Users \cup {None},
                           winner : Requests \cup {None}]]
    /\ row \in [Todos -> [Kinds -> Row]]
    /\ published \in [Todos -> [Kinds -> Nat]]
    /\ request \in [Requests -> Request]
    /\ {lapses, faults, crashes} \subseteq Nat
    /\ \A r \in Requests :
           /\ request[r].phase = "idle" <=> request[r].todo = None
           /\ request[r].version = None <=> request[r].base = None
           /\ request[r].phase \in {"inspect", "replay", "read", "commit"}
              => request[r].user # None
           /\ request[r].phase \in {"renewed", "sent"} => request[r].jobs # {}
    /\ \A t \in Todos, k \in Kinds :
           /\ row[t][k].present => ~todo[t].open
           /\ row[t][k].receipt = None <=> row[t][k].lease = "none"
           /\ row[t][k].receipt # None =>
                  row[t][k].present /\ request[row[t][k].receipt].todo = t

WritesOf(t) ==
    {i \in DOMAIN writes : writes[i].by # SystemStep
                             /\ request[writes[i].by].todo = t}

(* A completion is merged into exactly the state it was validated against:  *)
(* "Append only when the process-state snapshot is still current"           *)
(* (graphql-db-operations/src/lib/step-completion.ts:344), through          *)
(* updateProcessStateIfUnchanged and appendProcessStateArrayItemIfUnchanged.*)
ValidatedState ==
    \A i \in DOMAIN writes : writes[i].by # SystemStep => writes[i].base = i - 1

OnlyRequestsWrite == \A i \in DOMAIN writes : writes[i].by # SystemStep

(* The same as long as only requests have written the state: each of them   *)
(* compares the version and increases it, whatever the clock does.          *)
ValidatedAmongRequests == OnlyRequestsWrite => ValidatedState

(* However often a to-do is submitted, the state holds the patch of the one *)
(* request that completed it, once, and nothing of an open to-do: the       *)
(* transaction of completeStep and completeToDoIfOpen.                      *)
WrittenOnce ==
    \A t \in Todos :
        IF todo[t].open
        THEN WritesOf(t) = {}
        ELSE /\ \A i \in WritesOf(t) : writes[i].by = todo[t].winner
             /\ Cardinality(WritesOf(t)) =
                    IF t \in ForEachTodos
                    THEN (IF todo[t].user \in Identified THEN 2 ELSE 1)
                    ELSE (IF PatchIsEmpty(todo[t].user) THEN 0 ELSE 1)

(* The answer tells the truth: success means the to-do is completed in this *)
(* user's name, a conflict or a rejection that nothing of the request was   *)
(* kept (completeStep, its retries and StepCompletionConflictError).        *)
AnswerIsTrue ==
    \A r \in Requests : request[r].user # None =>
        /\ request[r].phase = "succeeded" =>
               todo[request[r].todo].user = request[r].user
        /\ request[r].phase \in {"conflicted", "rejected"} =>
               /\ \A i \in DOMAIN writes : writes[i].by # r
               /\ \A t \in Todos : todo[t].winner # r

(* A completed to-do's jobs are in the outbox or with the queue, whatever   *)
(* fails or crashes after the commit (insertFlowDispatchJobs inside the     *)
(* transaction, deleteFlowDispatchJob after the enqueue).                   *)
DispatchKept ==
    \A t \in Todos, k \in Kinds :
        ~todo[t].open => row[t][k].present \/ published[t][k] > 0

(* The flow starts after the events of the completion, also when several    *)
(* recoveries take over from each other (claimFlowDispatchJobs sorts by     *)
(* sequence, one row at a time is sent).                                    *)
DispatchInOrder ==
    \A t \in Todos, j, k \in Kinds :
        JobSequence[j] < JobSequence[k] /\ published[t][k] > 0
        => published[t][j] > 0

(* Concurrent replays publish a job once: every further publication costs a *)
(* lapsed lease or an error (claimFlowDispatchJobs, extendFlowDispatchClaim *)
(* and the receipt in deleteFlowDispatchJob).                               *)
PublishedOnce ==
    \A t \in Todos, k \in Kinds : published[t][k] <= 1 + lapses + faults

(* When every request has been answered and none failed or crashed, nothing *)
(* is left in the outbox (the early returns of                              *)
(* recoverExternalCompletionEnqueue leave the rows to whoever holds them).  *)
SuccessMeansDispatched ==
    (\A r \in Requests :
         request[r].phase \in {"idle", "succeeded", "conflicted", "rejected"})
    => \A t \in Todos, k \in Kinds :
           ~row[t][k].present /\ (~todo[t].open => published[t][k] > 0)
=============================================================================
