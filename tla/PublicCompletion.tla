--------------------------- MODULE PublicCompletion ---------------------------
(***************************************************************************)
(* One form that somebody outside the organisation completes through a     *)
(* mailed link: the invitation attempts, the provider's delivery callbacks *)
(* (delivered, bounced), the correction of a wrong address by a provider   *)
(* user, a fresh link asked for by the recipient, and the completion.      *)
(*                                                                         *)
(* Requests and callbacks interleave; a transaction is one step.  With a   *)
(* database-backed queue (queueInTransaction) jobs are enqueued in the     *)
(* transaction; with an external one they are separate steps that may      *)
(* fail, and a callback keeps its follow-up jobs in an outbox.             *)
(*                                                                         *)
(* Time is the order in which requests begin (requestTime): an attempt is  *)
(* stamped with it however late its row is inserted.  The link's expiry,   *)
(* receipts of the sender and event jobs of requests are left out.         *)
(***************************************************************************)
EXTENDS Naturals, Sequences, FiniteSets

CONSTANTS
    Requests,       \* HTTP requests, each made at most once
    Callbacks,      \* webhook requests that may be in progress at one time
    Addresses,      \* e-mail addresses
    First,          \* the address the process state begins with
    QueueModes,     \* values of queueService.queueInTransaction
    Kinds,          \* what the provider reports about an invitation
    MaxReports,     \* bound: events the provider reports
    MaxFaults,      \* bound: failed enqueues and processes that die
    MaxRepeats,     \* bound: callbacks repeated after they were answered
    MaxRestarts,    \* bound: restarts of the execution
    Null

ASSUME PublicCompletionAssumption ==
    /\ IsFiniteSet(Requests) /\ IsFiniteSet(Callbacks)
    /\ First \in Addresses
    /\ QueueModes \subseteq BOOLEAN
    /\ Kinds \subseteq {"delivered", "address", "transport"}
    /\ MaxReports \in Nat /\ MaxFaults \in Nat
    /\ MaxRepeats \in Nat /\ MaxRestarts \in Nat
    /\ Null \notin Addresses \cup Nat

VARIABLES
    queueInTransaction, \* fixed at deployment
    todo,               \* pf_to_do: open or not, failed, in correction
    recipient,          \* the address publicCompletion.recipient resolves to
    attempt,            \* pf_public_completion_invitation_attempt, as inserted
    mail,               \* attempts whose invitation is in the delivery queue
    sent,               \* attempts whose invitation has been mailed
    clock,              \* requests begun
    request,            \* request -> where it is
    reported,           \* delivery events the provider has reported
    unanswered,         \* those it repeats until a webhook call succeeds
    callback,           \* webhook call -> where it is
    outbox,             \* event -> follow-up jobs stored for an external queue
    budget,             \* faults, repeats and restarts so far
    published,          \* history: event -> follow-up jobs that were enqueued
    outcomes            \* history: event -> times it changed the to-do

vars == <<queueInTransaction, todo, recipient, attempt, mail, sent, clock,
          request, reported, unanswered, callback, outbox, budget, published,
          outcomes>>

tables == <<todo, recipient, attempt, mail>>
provider == <<sent, reported, unanswered>>
webhook == <<callback, outbox, published, outcomes>>

\* Every request inserts at most one attempt, the flow job the first.
AttemptIds == 1 .. 1 + Cardinality(Requests)

\* "address" is a failure of kind recipient_address (correction is enabled),
\* "transport" any other failure.
Events == [attempt : AttemptIds, kind : Kinds]

\* What follows a failure: the event jobs, the notification jobs, by sequence.
FollowUps == 1 .. 2

Attempt(email, time) == [email |-> email, time |-> time, delivery |-> "none"]

NoRequest == [kind |-> "none", phase |-> "idle", time |-> 0, email |-> Null,
              attempt |-> 0]

Fresh(kind, email) == [kind |-> kind, phase |-> "begun", time |-> clock + 1,
                       email |-> email, attempt |-> 0]

Listening == [phase |-> "idle", event |-> Null, jobs |-> {}]

-----------------------------------------------------------------------------
\* Queries.

\* An operator without a comment here is a wrong variant of the commented one
\* that follows it: the properties below tell them apart.

\* ORDER BY created_at DESC LIMIT 1: by the requests' times, not by insertion.
Latest ==
    CHOOSE a \in DOMAIN attempt :
        \A b \in DOMAIN attempt : attempt[b].time <= attempt[a].time

\* The to-do waits for its recipient: status "active", callbacks are accepted.
Waiting == todo.status = "open" /\ ~todo.failed /\ todo.correction = Null

OpenForCorrection ==
    todo.status = "open" /\ ~todo.failed /\ todo.correction # Null

AnyAttempt(a) == Waiting

LatestOpen(a) == a = Latest /\ todo.status = "open"

\* queryPublicCompletionInvitationAttemptCallbackTarget.
CallbackTarget(a) == a = Latest /\ Waiting

-----------------------------------------------------------------------------
\* The flow job has created the to-do and the first invitation.
Init ==
    /\ queueInTransaction \in QueueModes
    /\ todo = [status |-> "open", failed |-> FALSE, correction |-> Null,
               by |-> Null]
    /\ recipient = First
    /\ attempt = <<Attempt(First, 0)>>
    /\ mail = {1}
    /\ sent = {}
    /\ clock = 0
    /\ request = [r \in Requests |-> NoRequest]
    /\ reported = {}
    /\ unanswered = {}
    /\ callback = [c \in Callbacks |-> Listening]
    /\ outbox = [e \in Events |-> {}]
    /\ budget = [faults |-> 0, repeats |-> 0, restarts |-> 0]
    /\ published = [e \in Events |-> {}]
    /\ outcomes = [e \in Events |-> 0]

-----------------------------------------------------------------------------
\* Requests.

\* A request ends: answered, refused or failed.
End(r) == request' = [request EXCEPT ![r].phase = "done"]

Goto(r, phase) == request' = [request EXCEPT ![r].phase = phase]

\* A holder of a mailed link opens it to complete the form or to ask for a
\* fresh link; a provider user submits another address.
Begin(r, kind, email) ==
    /\ request[r].phase = "idle"
    /\ kind # "correct" => \E a \in sent : attempt[a].email = email
    /\ kind = "correct" => todo.correction # Null
    /\ clock' = clock + 1
    /\ request' = [request EXCEPT ![r] = Fresh(kind, email)]
    /\ UNCHANGED <<queueInTransaction, tables, provider, webhook, budget>>

\* validatePublicTodoCapability: only the recipient of the latest invitation
\* of a to-do that waits goes on.
Validate(r) ==
    /\ request[r].phase = "begun"
    /\ request[r].kind # "correct"
    /\ IF Waiting /\ attempt[Latest].email = request[r].email
       THEN Goto(r, IF request[r].kind = "fresh" THEN "load" ELSE "complete")
       ELSE End(r)
    /\ UNCHANGED <<queueInTransaction, tables, provider, webhook, clock, budget>>

CompleteAnyway(r) ==
    /\ request[r].phase = "complete"
    /\ todo' = [status |-> "completed", failed |-> FALSE, correction |-> Null,
                by |-> request[r].email]
    /\ End(r)
    /\ UNCHANGED <<queueInTransaction, recipient, attempt, mail, provider,
                   webhook, clock, budget>>

\* completeStep's transaction: completeToDoIfOpen clears failure and
\* correction, and asks nothing about the invitation.
Complete(r) ==
    /\ request[r].phase = "complete"
    /\ todo' = IF todo.status = "open"
               THEN [status |-> "completed", failed |-> FALSE,
                     correction |-> Null, by |-> request[r].email]
               ELSE todo
    /\ End(r)
    /\ UNCHANGED <<queueInTransaction, recipient, attempt, mail, provider,
                   webhook, clock, budget>>

\* requestFreshPublicTodoLink reads the state before its transaction.
LoadState(r) ==
    /\ request[r].phase = "load"
    /\ request' = [request EXCEPT ![r].phase = "issue", ![r].email = recipient]
    /\ UNCHANGED <<queueInTransaction, tables, provider, webhook, clock, budget>>

\* submitPublicCompletionCorrection reads the to-do and prepares its patch.
ReadCorrection(r) ==
    /\ request[r].phase = "begun"
    /\ request[r].kind = "correct"
    /\ IF todo.status = "open" /\ todo.correction # Null
       THEN Goto(r, "apply") ELSE End(r)
    /\ UNCHANGED <<queueInTransaction, tables, provider, webhook, clock, budget>>

Insert(r) == attempt' = Append(attempt, Attempt(request[r].email, request[r].time))

IssueWithoutMail(r) ==
    /\ queueInTransaction
    /\ request[r].phase = "issue"
    /\ Insert(r)
    /\ End(r)
    /\ UNCHANGED <<queueInTransaction, todo, recipient, mail, provider, webhook,
                   clock, budget>>

\* enqueueFreshPublicCompletionInvitation in one transaction with its enqueue.
IssueInTransaction(r) ==
    /\ queueInTransaction
    /\ request[r].phase = "issue"
    /\ Insert(r)
    /\ mail' = mail \cup {Len(attempt) + 1}
    /\ End(r)
    /\ UNCHANGED <<queueInTransaction, todo, recipient, provider, webhook, clock,
                   budget>>

ApplyWithoutAttempt(r) ==
    /\ queueInTransaction
    /\ request[r].phase = "apply"
    /\ IF OpenForCorrection
       THEN /\ todo' = [todo EXCEPT !.correction = Null]
            /\ recipient' = request[r].email
            /\ mail' = mail \cup {Len(attempt) + 1}
       ELSE UNCHANGED <<todo, recipient, mail>>
    /\ End(r)
    /\ UNCHANGED <<queueInTransaction, attempt, provider, webhook, clock, budget>>

ApplyWithoutRollback(r) ==
    /\ queueInTransaction
    /\ request[r].phase = "apply"
    /\ recipient' = request[r].email
    /\ IF OpenForCorrection
       THEN /\ todo' = [todo EXCEPT !.correction = Null]
            /\ Insert(r)
            /\ mail' = mail \cup {Len(attempt) + 1}
       ELSE UNCHANGED <<todo, attempt, mail>>
    /\ End(r)
    /\ UNCHANGED <<queueInTransaction, provider, webhook, clock, budget>>

\* transactionalApplyAndReissue: the state is patched, the correction cleared
\* and a new invitation enqueued, or everything is rolled back.
ApplyInTransaction(r) ==
    /\ queueInTransaction
    /\ request[r].phase = "apply"
    /\ IF OpenForCorrection
       THEN /\ todo' = [todo EXCEPT !.correction = Null]
            /\ recipient' = request[r].email
            /\ Insert(r)
            /\ mail' = mail \cup {Len(attempt) + 1}
       ELSE UNCHANGED tables
    /\ End(r)
    /\ UNCHANGED <<queueInTransaction, provider, webhook, clock, budget>>

\* With an external queue every statement stands alone: patch, insert,
\* enqueue, clear.
WriteState(r) ==
    /\ ~queueInTransaction
    /\ request[r].phase = "apply"
    /\ recipient' = request[r].email
    /\ Goto(r, "issue")
    /\ UNCHANGED <<queueInTransaction, todo, attempt, mail, provider, webhook,
                   clock, budget>>

InsertAttempt(r) ==
    /\ ~queueInTransaction
    /\ request[r].phase = "issue"
    /\ Insert(r)
    /\ request' = [request EXCEPT ![r].phase = "mail",
                                  ![r].attempt = Len(attempt) + 1]
    /\ UNCHANGED <<queueInTransaction, todo, recipient, mail, provider, webhook,
                   clock, budget>>

EnqueueMail(r) ==
    /\ request[r].phase = "mail"
    /\ mail' = mail \cup {request[r].attempt}
    /\ Goto(r, IF request[r].kind = "correct" THEN "clear" ELSE "done")
    /\ UNCHANGED <<queueInTransaction, todo, recipient, attempt, provider,
                   webhook, clock, budget>>

ClearCorrection(r) ==
    /\ request[r].phase = "clear"
    /\ todo' = IF OpenForCorrection THEN [todo EXCEPT !.correction = Null]
                                    ELSE todo
    /\ End(r)
    /\ UNCHANGED <<queueInTransaction, recipient, attempt, mail, provider,
                   webhook, clock, budget>>

FaultLeft == budget.faults < MaxFaults
OneFault == budget' = [budget EXCEPT !.faults = @ + 1]

\* An enqueue fails or the process dies: what has been written stays.
RequestFails(r) ==
    /\ request[r].phase \in {"issue", "mail", "clear"}
    /\ FaultLeft
    /\ OneFault
    /\ End(r)
    /\ UNCHANGED <<queueInTransaction, tables, provider, webhook, clock>>

\* A provider user completes the to-do, or the execution is abandoned.
CloseElsewhere(how) ==
    /\ todo.status = "open"
    /\ todo' = IF how = "completed"
               THEN [status |-> "completed", failed |-> FALSE,
                     correction |-> Null, by |-> Null]
               ELSE [todo EXCEPT !.status = "abandoned", !.failed = TRUE]
    /\ UNCHANGED <<queueInTransaction, recipient, attempt, mail, provider, clock,
                   request, webhook, budget>>

\* restartExecution clears the failure; a person's to-do gets no new invitation.
\* It lists failed to-dos first and clears them by id later: on a to-do closed in
\* between that changes nothing that is read, so one step stands for both.
Restart ==
    /\ todo.status = "open" /\ todo.failed
    /\ budget.restarts < MaxRestarts
    /\ budget' = [budget EXCEPT !.restarts = @ + 1]
    /\ todo' = [todo EXCEPT !.failed = FALSE]
    /\ UNCHANGED <<queueInTransaction, recipient, attempt, mail, provider, clock,
                   request, webhook>>

-----------------------------------------------------------------------------
\* The notification-delivery handler and the mail provider.

\* The handler mails an invitation; nobody looks whether it is still wanted.
SendInvitation(a) ==
    /\ a \in mail
    /\ mail' = mail \ {a}
    /\ sent' = sent \cup {a}
    /\ UNCHANGED <<queueInTransaction, todo, recipient, attempt, clock, request,
                   reported, unanswered, webhook, budget>>

\* The provider reports a delivery, a failure, or a failure after a delivery.
Report(e) ==
    /\ e.attempt \in sent
    /\ e \notin reported
    /\ Cardinality(reported) < MaxReports
    /\ \A f \in reported : f.attempt = e.attempt => f.kind = "delivered"
    /\ reported' = reported \cup {e}
    /\ unanswered' = unanswered \cup {e}
    /\ UNCHANGED <<queueInTransaction, tables, sent, clock, request, webhook,
                   budget>>

-----------------------------------------------------------------------------
\* applyPublicCompletionDeliveryCallback.

Proceed(c, phase, jobs) ==
    callback' = [callback EXCEPT ![c].phase = phase, ![c].jobs = jobs]

\* A webhook call: a first delivery, a repetition of an unanswered one, or one
\* of an answered one whose answer was lost.
Receive(c, e) ==
    /\ callback[c].phase = "idle"
    /\ e \in reported
    /\ IF e \in unanswered
       THEN UNCHANGED budget
       ELSE /\ budget.repeats < MaxRepeats
            /\ budget' = [budget EXCEPT !.repeats = @ + 1]
    /\ unanswered' = unanswered \cup {e}
    /\ callback' = [callback EXCEPT ![c] =
                       [phase |-> IF e.kind = "delivered" \/ queueInTransaction
                                  THEN "apply" ELSE "leftover",
                        event |-> e, jobs |-> {}]]
    /\ UNCHANGED <<queueInTransaction, tables, sent, reported, clock, request,
                   outbox, published, outcomes>>

LeftoverForgotten(c) ==
    /\ callback[c].phase = "leftover"
    /\ Proceed(c, "apply", {})
    /\ UNCHANGED <<queueInTransaction, tables, provider, clock, request, outbox,
                   budget, published, outcomes>>

\* drainExternalDispatch before the transaction: jobs an earlier call left.
Leftover(c) ==
    LET jobs == outbox[callback[c].event] IN
    /\ callback[c].phase = "leftover"
    /\ IF jobs = {} THEN Proceed(c, "apply", {}) ELSE Proceed(c, "send", jobs)
    /\ UNCHANGED <<queueInTransaction, tables, provider, clock, request, outbox,
                   budget, published, outcomes>>

\* The call is for a stale attempt or a to-do that does not wait, or records a
\* delivery: the to-do stays as it is.
Record(c) ==
    LET e == callback[c].event IN
    /\ callback[c].phase = "apply"
    /\ ~CallbackTarget(e.attempt) \/ e.kind = "delivered"
    /\ attempt' = IF CallbackTarget(e.attempt)
                  THEN [attempt EXCEPT ![e.attempt].delivery = "delivered"]
                  ELSE attempt
    /\ Proceed(c, "answer", {})
    /\ UNCHANGED <<queueInTransaction, todo, recipient, mail, provider, clock,
                   request, outbox, budget, published, outcomes>>

PublishAfterwards(c, e) ==
    /\ UNCHANGED <<outbox, published>>
    /\ Proceed(c, "send", FollowUps)

\* The follow-up jobs, in the failure's own transaction.
FollowUp(c, e) ==
    IF queueInTransaction
    THEN /\ published' = [published EXCEPT ![e] = FollowUps]
         /\ Proceed(c, "answer", {})
         /\ UNCHANGED outbox
    ELSE /\ outbox' = [outbox EXCEPT ![e] = FollowUps]
         /\ Proceed(c, "list", {})
         /\ UNCHANGED published

\* A bounce of the latest invitation: correction if the address was refused,
\* else the to-do fails.
Fail(c) ==
    LET e == callback[c].event IN
    /\ callback[c].phase = "apply"
    /\ CallbackTarget(e.attempt) /\ e.kind # "delivered"
    /\ attempt' = [attempt EXCEPT ![e.attempt].delivery = "failed"]
    /\ todo' = IF e.kind = "address"
               THEN [todo EXCEPT !.correction = e.attempt]
               ELSE [todo EXCEPT !.failed = TRUE]
    /\ FollowUp(c, e)
    /\ outcomes' = [outcomes EXCEPT ![e] = @ + 1]
    /\ UNCHANGED <<queueInTransaction, recipient, mail, provider, clock, request,
                   budget>>

\* drainExternalDispatch after the commit reads the rows again.
ListJobs(c) ==
    /\ callback[c].phase = "list"
    /\ Proceed(c, "send", outbox[callback[c].event])
    /\ UNCHANGED <<queueInTransaction, tables, provider, clock, request, outbox,
                   budget, published, outcomes>>

NextJob(c) ==
    CHOOSE j \in callback[c].jobs : \A k \in callback[c].jobs : j <= k

\* A job is enqueued, then its row deleted.
SendJob(c) ==
    LET e == callback[c].event IN
    /\ callback[c].phase = "send"
    /\ callback[c].jobs # {}
    /\ published' = [published EXCEPT ![e] = @ \cup {NextJob(c)}]
    /\ Proceed(c, "delete", callback[c].jobs)
    /\ UNCHANGED <<queueInTransaction, tables, provider, clock, request, outbox,
                   budget, outcomes>>

DeleteJob(c) ==
    LET e == callback[c].event IN
    /\ callback[c].phase = "delete"
    /\ outbox' = [outbox EXCEPT ![e] = @ \ {NextJob(c)}]
    /\ Proceed(c, "send", callback[c].jobs \ {NextJob(c)})
    /\ UNCHANGED <<queueInTransaction, tables, provider, clock, request, budget,
                   published, outcomes>>

\* 200: the provider does not repeat the event.
Answer(c) ==
    /\ \/ callback[c].phase = "answer"
       \/ callback[c].phase = "send" /\ callback[c].jobs = {}
    /\ unanswered' = unanswered \ {callback[c].event}
    /\ callback' = [callback EXCEPT ![c] = Listening]
    /\ UNCHANGED <<queueInTransaction, tables, sent, reported, clock, request,
                   outbox, budget, published, outcomes>>

\* An error or the end of the process: the provider repeats the event.
CallbackFails(c) ==
    /\ callback[c].phase # "idle"
    /\ FaultLeft
    /\ OneFault
    /\ callback' = [callback EXCEPT ![c] = Listening]
    /\ UNCHANGED <<queueInTransaction, tables, provider, clock, request, outbox,
                   published, outcomes>>

-----------------------------------------------------------------------------
RequestStep(r) ==
    \/ Validate(r)
    \/ Complete(r)
    \/ LoadState(r)
    \/ ReadCorrection(r)
    \/ IssueInTransaction(r)
    \/ ApplyInTransaction(r)
    \/ WriteState(r)
    \/ InsertAttempt(r)
    \/ EnqueueMail(r)
    \/ ClearCorrection(r)

CallbackStep(c) ==
    Leftover(c) \/ Record(c) \/ Fail(c) \/ ListJobs(c) \/ SendJob(c)
        \/ DeleteJob(c) \/ Answer(c)

Next ==
    \/ \E r \in Requests :
          \/ \E kind \in {"complete", "fresh", "correct"}, email \in Addresses :
                Begin(r, kind, email)
          \/ RequestStep(r)
          \/ RequestFails(r)
    \/ \E how \in {"completed", "abandoned"} : CloseElsewhere(how)
    \/ Restart
    \/ \E a \in AttemptIds : SendInvitation(a)
    \/ \E e \in Events : Report(e)
    \/ \E c \in Callbacks :
          \/ \E e \in Events : Receive(c, e)
          \/ CallbackStep(c)
          \/ CallbackFails(c)

Spec == Init /\ [][Next]_vars

-----------------------------------------------------------------------------
\* Properties.

\* Every variable keeps its type; rows and jobs name attempts that exist.
TypeOK ==
    /\ queueInTransaction \in QueueModes
    /\ todo \in [status : {"open", "completed", "abandoned"}, failed : BOOLEAN,
                 correction : DOMAIN attempt \cup {Null},
                 by : Addresses \cup {Null}]
    /\ recipient \in Addresses
    /\ attempt \in Seq([email : Addresses, time : 0 .. clock,
                        delivery : {"none", "delivered", "failed"}])
    /\ mail \subseteq DOMAIN attempt
    /\ sent \subseteq DOMAIN attempt
    /\ reported \subseteq {e \in Events : e.attempt \in sent}
    /\ unanswered \subseteq reported
    /\ \A c \in Callbacks : callback[c].event \in reported \cup {Null}
    /\ \A e \in Events :
          outbox[e] \cup published[e] # {} => e \in reported /\ outcomes[e] > 0

\* A to-do in correction names the attempt that bounced, and it is not failed at
\* the same time, whatever callbacks, fresh links and completions came together.
CorrectionHasCause ==
    todo.status = "open" /\ todo.correction # Null =>
        /\ ~todo.failed
        /\ attempt[todo.correction].delivery = "failed"
        /\ \E e \in Events : /\ e.attempt = todo.correction /\ e.kind = "address"
                            /\ outcomes[e] > 0

\* A failure that has been committed keeps its follow-up jobs: each is in the
\* queue or waits in the outbox, also when the callback dies in between.
FollowUpsKept ==
    \A e \in Events :
        outcomes[e] > 0 => FollowUps \subseteq outbox[e] \cup published[e]

\* Somebody comes back for the follow-up jobs a call has left in the outbox: as
\* long as there are some the provider has no answer and repeats the event, and
\* the repetition sends them.  (Of calls that do not overlap: of two calls for
\* one event the second may answer after the first has died.)
LeftoversAreRepeated ==
    Cardinality(Callbacks) = 1 =>
        \A e \in Events : outbox[e] # {} => e \in unanswered

\* Invitations inserted after a, though their request began before a's: a is
\* still the latest, their links and callbacks are refused.
Overtaken(a) ==
    {b \in DOMAIN attempt : a < b /\ attempt[b].time < attempt[a].time}

\* A reported event changes the to-do at most once, however often, late or
\* concurrently it is delivered; a restart makes room for one more, and so does
\* a correction that mailed an overtaken invitation.
AppliedOnce ==
    queueInTransaction =>
        \A e \in Events :
            outcomes[e] <= 1 + budget.restarts + Cardinality(Overtaken(e.attempt))

\* The provider has reported a failure of every invitation that was mailed and
\* has been answered, and no other invitation or request is on its way.
AllBounced ==
    /\ mail = {} /\ sent # {}
    /\ \A a \in sent :
          \E e \in reported \ unanswered : e.attempt = a /\ e.kind # "delivered"
    /\ \A r \in Requests : request[r].phase \in {"idle", "done"}

\* If nobody was reached, somebody knows: when every invitation that was mailed
\* has bounced the to-do does not just go on waiting for its recipient.
BounceIsNoticed == AllBounced /\ budget.restarts = 0 => ~Waiting

\* The same with a queue that is part of the transaction, when the requests
\* that mailed invitations did so in the order they began.
BounceIsNoticedInTransaction ==
    queueInTransaction /\ (\A a \in DOMAIN attempt : Overtaken(a) = {})
        => BounceIsNoticed

\* With a queue that is part of the transaction the process state and the
\* invitations agree: the state's address has an invitation of its own.
StateIsInvited ==
    queueInTransaction => \E a \in DOMAIN attempt : attempt[a].email = recipient

\* A to-do that is completed stays as it is: no callback, correction or second
\* completion that was under way touches it any more.
CompletedIsFinal == [][todo.status = "completed" => todo' = todo]_vars
=============================================================================
