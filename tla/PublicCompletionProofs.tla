----------------------- MODULE PublicCompletionProofs -----------------------
(***************************************************************************)
(* Proofs about PublicCompletion for any number of requests, callbacks,    *)
(* addresses and reports, any faults and restarts, and both queue modes.   *)
(***************************************************************************)
EXTENDS PublicCompletion, SequenceTheorems, FiniteSetTheorems, TLAPS

-----------------------------------------------------------------------------
\* The inductive invariant.

Phases == {"idle", "begun", "load", "complete", "apply", "issue", "mail",
           "clear", "done"}

CallbackPhases == {"idle", "leftover", "apply", "list", "send", "delete", "answer"}

TodoRow == [status : {"open", "completed", "abandoned"}, failed : BOOLEAN,
            correction : Nat \cup {Null}, by : Addresses \cup {Null}]

AttemptRow == [email : Addresses, time : Nat,
               delivery : {"none", "delivered", "failed"}]

Request == [kind : {"none", "complete", "fresh", "correct"}, phase : Phases,
            time : Nat, email : Addresses \cup {Null}, attempt : Nat]

Callback == [phase : CallbackPhases, event : Events \cup {Null},
             jobs : SUBSET FollowUps]

\* The types of the variables.
Types ==
    /\ queueInTransaction \in BOOLEAN
    /\ queueInTransaction \in QueueModes
    /\ todo \in TodoRow
    /\ recipient \in Addresses
    /\ attempt \in Seq(AttemptRow)
    /\ clock \in Nat
    /\ request \in [Requests -> Request]
    /\ callback \in [Callbacks -> Callback]
    /\ outbox \in [Events -> SUBSET FollowUps]
    /\ published \in [Events -> SUBSET FollowUps]
    /\ outcomes \in [Events -> Nat]
    /\ budget \in [faults : Nat, repeats : Nat, restarts : Nat]

\* What the rows, the requests and the provider name exists.
RowNames ==
    /\ todo.correction # Null => todo.correction \in DOMAIN attempt
    /\ mail \subseteq DOMAIN attempt
    /\ sent \subseteq DOMAIN attempt
    /\ reported \subseteq Events
    /\ \A e \in reported : e.attempt \in sent
    /\ unanswered \subseteq reported
    /\ \A a \in DOMAIN attempt : attempt[a].time <= clock

RequestNames ==
    \A r \in Requests :
        /\ request[r].phase # "idle" =>
              request[r].email \in Addresses /\ request[r].time <= clock
        /\ request[r].phase = "mail" => request[r].attempt \in DOMAIN attempt

Names == RowNames /\ RequestNames

\* What callbacks work on: events that were reported, jobs of failures that were
\* committed, and a deleted job has been sent.
CallbackWork ==
    \A c \in Callbacks :
        /\ callback[c].event \in reported \cup {Null}
        /\ callback[c].phase # "idle" => callback[c].event \in reported
        /\ callback[c].jobs # {} =>
              /\ callback[c].phase # "idle"
              /\ outcomes[callback[c].event] > 0
        /\ callback[c].phase = "delete" =>
              /\ callback[c].jobs # {}
              /\ NextJob(c) \in published[callback[c].event]

FailureWork ==
    \A e \in Events :
        /\ outbox[e] # {} => outcomes[e] > 0
        /\ published[e] # {} => outcomes[e] > 0
        /\ outcomes[e] > 0 => e \in reported /\ e.kind # "delivered"

Work == CallbackWork /\ FailureWork

\* A request waits for an external queue only where there is one.
Modes ==
    queueInTransaction =>
        /\ \A r \in Requests : request[r].phase \notin {"mail", "clear"}
        /\ \A e \in Events : outbox[e] = {}

IInv == Types /\ Names /\ Work /\ Modes /\ CorrectionHasCause /\ FollowUpsKept
            /\ StateIsInvited

-----------------------------------------------------------------------------
\* Helpers.

\* What the proofs use of the assumption about the constants.
LEMMA Constants ==
  /\ First \in Addresses /\ Null \notin Addresses /\ Null \notin Nat
  /\ QueueModes \subseteq BOOLEAN
  BY PublicCompletionAssumption

\* A function on 1 .. n is a sequence.
LEMMA FunctionIsSeq ==
  ASSUME NEW S, NEW n \in Nat, NEW s \in [1 .. n -> S]
  PROVE  s \in Seq(S)
<1>1. [1 .. n -> S] \subseteq UNION {[1 .. m -> S] : m \in Nat}
  BY Zenon
<1> QED BY <1>1, SeqDef, Zenon

\* Attempts are numbered from one.
LEMMA AttemptsAreNumbered ==
  AttemptIds \subseteq Nat \ {0}
<1>1. Cardinality(Requests) \in Nat
  BY PublicCompletionAssumption, FS_CardinalityType
<1> QED BY <1>1 DEF AttemptIds

\* An inserted attempt is the last row, the others stay.
LEMMA Inserted ==
  ASSUME attempt \in Seq(AttemptRow), request \in [Requests -> Request],
         NEW r \in Requests, request[r].email \in Addresses, Insert(r)
  PROVE  /\ attempt' \in Seq(AttemptRow)
         /\ Len(attempt) \in Nat
         /\ Len(attempt') = Len(attempt) + 1
         /\ DOMAIN attempt = 1 .. Len(attempt)
         /\ DOMAIN attempt' = 1 .. Len(attempt) + 1
         /\ Len(attempt) + 1 \notin DOMAIN attempt
         /\ \A a \in DOMAIN attempt : attempt'[a] = attempt[a]
         /\ attempt'[Len(attempt) + 1].email = request[r].email
         /\ attempt'[Len(attempt) + 1].time = request[r].time
<1>1. Attempt(request[r].email, request[r].time) \in AttemptRow
  BY DEF Attempt, AttemptRow, Request
<1>2. attempt' = Append(attempt, Attempt(request[r].email, request[r].time))
  BY DEF Insert
<1> HIDE DEF Insert
<1> QED BY <1>1, <1>2 DEF Attempt

\* A new delivery result leaves the rows and their other columns alone.
LEMMA Delivered ==
  ASSUME attempt \in Seq(AttemptRow), NEW a \in DOMAIN attempt,
         NEW result \in {"none", "delivered", "failed"},
         attempt' = [attempt EXCEPT ![a].delivery = result]
  PROVE  /\ attempt' \in Seq(AttemptRow)
         /\ DOMAIN attempt' = DOMAIN attempt
         /\ attempt'[a].delivery = result
         /\ \A b \in DOMAIN attempt : /\ attempt'[b].time = attempt[b].time
                                      /\ attempt'[b].email = attempt[b].email
         /\ \A b \in DOMAIN attempt : b # a => attempt'[b] = attempt[b]
<1>1. attempt[a] \in AttemptRow
  BY ElementOfSeq, LenProperties
<1>2. [attempt[a] EXCEPT !.delivery = result] \in AttemptRow
  BY <1>1 DEF AttemptRow
<1>3. DOMAIN attempt = 1 .. Len(attempt)
  BY LenProperties
<1>4. attempt' \in Seq(AttemptRow)
  BY <1>2, <1>3, ExceptSeq
<1>5. attempt'[a] = [attempt[a] EXCEPT !.delivery = result]
  OBVIOUS
<1> QED BY <1>1, <1>4, <1>5 DEF AttemptRow

\* The job sent next is one of the claimed ones.
LEMMA NextJobIsClaimed ==
  ASSUME callback \in [Callbacks -> Callback], NEW c \in Callbacks,
         callback[c].jobs # {}
  PROVE  NextJob(c) \in callback[c].jobs
<1>1. callback[c].jobs \subseteq {1, 2}
  BY DEF Callback, FollowUps
<1>2. \E j \in callback[c].jobs : \A k \in callback[c].jobs : j <= k
  <2>1. CASE 1 \in callback[c].jobs
    BY <1>1, <2>1
  <2>2. CASE 1 \notin callback[c].jobs
    BY <1>1, <2>2
  <2> QED BY <2>1, <2>2
<1> QED BY <1>2 DEF NextJob

\* The job sent next depends on the callback alone.
LEMMA SameNextJob ==
  ASSUME NEW c \in Callbacks, callback'[c].jobs = callback[c].jobs
  PROVE  NextJob(c)' = NextJob(c)
  BY DEF NextJob

\* A request goes to another phase.
LEMMA Moved ==
  ASSUME request \in [Requests -> Request], NEW r \in Requests,
         NEW some \in SUBSET Phases, \E phase \in some : Goto(r, phase)
  PROVE  /\ request' \in [Requests -> Request]
         /\ request'[r].phase \in some
         /\ \A q \in Requests : q # r => request'[q] = request[q]
         /\ request'[r].email = request[r].email
         /\ request'[r].time = request[r].time
         /\ request'[r].attempt = request[r].attempt
<1>1. PICK phase \in some : request' = [request EXCEPT ![r].phase = phase]
  BY DEF Goto
<1> QED BY <1>1 DEF Request

\* A callback goes to another phase with some of the follow-up jobs.
LEMMA Proceeded ==
  ASSUME callback \in [Callbacks -> Callback], NEW c \in Callbacks,
         NEW phase \in CallbackPhases, NEW jobs \in SUBSET FollowUps,
         Proceed(c, phase, jobs)
  PROVE  /\ callback' \in [Callbacks -> Callback]
         /\ \A d \in Callbacks : d # c => callback'[d] = callback[d]
         /\ callback'[c].phase = phase
         /\ callback'[c].event = callback[c].event
         /\ callback'[c].jobs = jobs
  BY DEF Proceed, Callback

\* A counter of the budget goes up by one.
LEMMA Counted ==
  ASSUME budget \in [faults : Nat, repeats : Nat, restarts : Nat],
         \/ budget' = [budget EXCEPT !.faults = @ + 1]
         \/ budget' = [budget EXCEPT !.repeats = @ + 1]
         \/ budget' = [budget EXCEPT !.restarts = @ + 1]
  PROVE  budget' \in [faults : Nat, repeats : Nat, restarts : Nat]
  OBVIOUS

-----------------------------------------------------------------------------
\* Every step keeps the invariant.

\* A call of an entry point begins; the clock moves on, so no row is newer than it.
LEMMA BeginStep ==
  ASSUME IInv, NEW r \in Requests, NEW kind \in {"complete", "fresh", "correct"},
          NEW email \in Addresses, Begin(r, kind, email)
  PROVE  IInv'
<1>t. Types /\ Names /\ Work
  BY DEF IInv
<1>a. \A a \in DOMAIN attempt : attempt[a] \in AttemptRow
  BY <1>t, ElementOfSeq, LenProperties DEF Types
<1>b. \A a \in DOMAIN attempt : attempt[a].time \in Nat
  BY <1>a DEF AttemptRow
<1>c. clock' = clock + 1 /\ attempt' = attempt
  BY DEF Begin, tables
<1>d. \A a \in DOMAIN attempt' : attempt'[a].time <= clock'
  BY <1>t, <1>c, <1>b DEF Types, Names, RowNames
<1>1. Types'
  BY Constants, <1>t, <1>a, <1>b, <1>c, <1>d
  DEF Types, Begin, Fresh, TodoRow, Request, Phases, Callback, CallbackPhases,
     tables, provider, webhook
<1>2. Names'
  <2>1. RowNames'
    BY Constants, <1>t, <1>a, <1>b, <1>c, <1>d, <1>1
    DEF Types, Names, RowNames, Begin, Fresh, TodoRow, tables, provider, webhook
  <2>2. RequestNames'
    <3> SUFFICES ASSUME NEW q \in Requests
                 PROVE  /\ request'[q].phase # "idle" =>
                              request'[q].email \in Addresses /\ request'[q].time <= clock'
                        /\ request'[q].phase = "mail" => request'[q].attempt \in DOMAIN attempt'
      BY DEF RequestNames
    <3>1. CASE q = r
      BY Constants, <1>t, <1>a, <1>b, <1>c, <1>d, <1>1, <3>1
      DEF Types, Names, RequestNames, Begin, Fresh, Request, tables, provider,
         webhook
    <3>2. CASE q # r
      BY <1>t, <1>a, <1>b, <1>c, <1>d, <1>1, <3>2
      DEF Types, Names, RequestNames, Begin, Fresh, Request, tables, provider,
         webhook
    <3> QED BY <3>1, <3>2
  <2> QED BY <2>1, <2>2 DEF Names
<1>3. \A d \in Callbacks : callback'[d].jobs = callback[d].jobs
                            => NextJob(d)' = NextJob(d)
  BY SameNextJob
<1>4. Work'
  <2>1. CallbackWork'
    BY <1>t, <1>3 DEF Work, CallbackWork, Begin, provider, webhook
  <2>2. FailureWork'
    BY <1>t DEF Work, FailureWork, Begin, provider, webhook
  <2> QED BY <2>1, <2>2 DEF Work
<1>5. Modes'
  BY <1>t, <1>a, <1>b, <1>c, <1>d, <1>1
  DEF IInv, Types, Modes, Begin, Fresh, Request, tables, provider, webhook
<1>6. CorrectionHasCause'
  BY DEF IInv, CorrectionHasCause, Begin, tables, webhook
<1>7. FollowUpsKept'
  BY DEF IInv, FollowUpsKept, Begin, webhook
<1>8. StateIsInvited'
  BY DEF IInv, StateIsInvited, Begin, tables
<1> QED BY <1>1, <1>2, <1>4, <1>5, <1>6, <1>7, <1>8 DEF IInv

\* The capability check reads and moves the request only.
LEMMA ValidateStep ==
  ASSUME IInv, NEW r \in Requests, Validate(r)
  PROVE  IInv'
<1>t. Types /\ Names /\ Work
  BY DEF IInv
<1>a. \E phase \in {"load", "complete", "done"} : Goto(r, phase)
  BY DEF Validate, End, Goto
<1>b. /\ request' \in [Requests -> Request]
      /\ request'[r].phase \in {"load", "complete", "done"}
      /\ \A q \in Requests : q # r => request'[q] = request[q]
      /\ request'[r].email = request[r].email
      /\ request'[r].time = request[r].time
      /\ request'[r].attempt = request[r].attempt
  BY <1>t, <1>a, Moved DEF Types, Phases
<1>1. Types'
  BY Constants, <1>t, <1>a, <1>b
  DEF Types, Validate, TodoRow, Callback, CallbackPhases, tables, provider, webhook
<1>2. Names'
  <2>1. RowNames'
    BY <1>t DEF Names, RowNames, Validate, tables, provider
  <2>2. RequestNames'
    <3> SUFFICES ASSUME NEW q \in Requests
                 PROVE  /\ request'[q].phase # "idle" =>
                              request'[q].email \in Addresses /\ request'[q].time <= clock'
                        /\ request'[q].phase = "mail" => request'[q].attempt \in DOMAIN attempt'
      BY DEF RequestNames
    <3>1. CASE q = r
      BY Constants, <1>t, <1>a, <1>b, <1>1, <3>1
      DEF Types, Names, RequestNames, Validate, tables, provider, webhook
    <3>2. CASE q # r
      BY <1>t, <1>a, <1>b, <1>1, <3>2
      DEF Types, Names, RequestNames, Validate, tables, provider, webhook
    <3> QED BY <3>1, <3>2
  <2> QED BY <2>1, <2>2 DEF Names
<1>3. \A d \in Callbacks : callback'[d].jobs = callback[d].jobs
                            => NextJob(d)' = NextJob(d)
  BY SameNextJob
<1>4. Work'
  <2>1. CallbackWork'
    BY <1>t, <1>3 DEF Work, CallbackWork, Validate, provider, webhook
  <2>2. FailureWork'
    BY <1>t DEF Work, FailureWork, Validate, provider, webhook
  <2> QED BY <2>1, <2>2 DEF Work
<1>5. Modes'
  BY <1>t, <1>a, <1>b, <1>1
  DEF IInv, Types, Modes, Validate, tables, provider, webhook
<1>6. CorrectionHasCause'
  BY DEF IInv, CorrectionHasCause, Validate, tables, webhook
<1>7. FollowUpsKept'
  BY DEF IInv, FollowUpsKept, Validate, webhook
<1>8. StateIsInvited'
  BY DEF IInv, StateIsInvited, Validate, tables
<1> QED BY <1>1, <1>2, <1>4, <1>5, <1>6, <1>7, <1>8 DEF IInv

\* The completion changes the to-do and, first of all, asks that it is open.
LEMMA CompleteStep ==
  ASSUME IInv, NEW r \in Requests, Complete(r)
  PROVE  IInv'
<1>t. Types /\ Names /\ Work
  BY DEF IInv
<1>a. \E phase \in {"done"} : Goto(r, phase)
  BY DEF Complete, End, Goto
<1>b. /\ request' \in [Requests -> Request]
      /\ request'[r].phase \in {"done"}
      /\ \A q \in Requests : q # r => request'[q] = request[q]
      /\ request'[r].email = request[r].email
      /\ request'[r].time = request[r].time
      /\ request'[r].attempt = request[r].attempt
  BY <1>t, <1>a, Moved DEF Types, Phases
<1>c. request[r].email \in Addresses
  BY <1>t DEF Types, Names, RequestNames, Complete
<1>d. todo' \in TodoRow
  BY <1>t, <1>c DEF Types, Complete, TodoRow
<1>1. Types'
  BY Constants, <1>t, <1>a, <1>b, <1>c, <1>d
  DEF Types, Complete, Callback, CallbackPhases, provider, webhook
<1>2. Names'
  <2>1. RowNames'
    BY Constants, <1>t, <1>a, <1>b, <1>c, <1>d, <1>1
    DEF Types, Names, RowNames, Complete, TodoRow, provider, webhook
  <2>2. RequestNames'
    <3> SUFFICES ASSUME NEW q \in Requests
                 PROVE  /\ request'[q].phase # "idle" =>
                              request'[q].email \in Addresses /\ request'[q].time <= clock'
                        /\ request'[q].phase = "mail" => request'[q].attempt \in DOMAIN attempt'
      BY DEF RequestNames
    <3>1. CASE q = r
      BY Constants, <1>t, <1>a, <1>b, <1>c, <1>d, <1>1, <3>1
      DEF Types, Names, RequestNames, Complete, provider, webhook
    <3>2. CASE q # r
      BY <1>t, <1>a, <1>b, <1>c, <1>d, <1>1, <3>2
      DEF Types, Names, RequestNames, Complete, provider, webhook
    <3> QED BY <3>1, <3>2
  <2> QED BY <2>1, <2>2 DEF Names
<1>3. \A d \in Callbacks : callback'[d].jobs = callback[d].jobs
                            => NextJob(d)' = NextJob(d)
  BY SameNextJob
<1>4. Work'
  <2>1. CallbackWork'
    BY <1>t, <1>3 DEF Work, CallbackWork, Complete, provider, webhook
  <2>2. FailureWork'
    BY <1>t DEF Work, FailureWork, Complete, provider, webhook
  <2> QED BY <2>1, <2>2 DEF Work
<1>5. Modes'
  BY <1>t, <1>a, <1>b, <1>c, <1>d, <1>1
  DEF IInv, Types, Modes, Complete, provider, webhook
<1>6. CorrectionHasCause'
  BY <1>t, <1>a, <1>b, <1>c, <1>d, <1>1, <1>2
  DEF IInv, Types, Names, RowNames, CorrectionHasCause, Complete, TodoRow, provider,
     webhook
<1>7. FollowUpsKept'
  BY DEF IInv, FollowUpsKept, Complete, webhook
<1>8. StateIsInvited'
  BY DEF IInv, StateIsInvited, Complete
<1> QED BY <1>1, <1>2, <1>4, <1>5, <1>6, <1>7, <1>8 DEF IInv

\* The request's address comes from the process state.
LEMMA LoadStateStep ==
  ASSUME IInv, NEW r \in Requests, LoadState(r)
  PROVE  IInv'
<1>t. Types /\ Names /\ Work
  BY DEF IInv
<1>a. /\ request' \in [Requests -> Request]
      /\ request'[r].phase = "issue"
      /\ \A q \in Requests : q # r => request'[q] = request[q]
      /\ request'[r].email = recipient
      /\ request'[r].time = request[r].time
  BY <1>t, ZenonT(60) DEF Types, LoadState, Request, Phases
<1>1. Types'
  BY Constants, <1>t, <1>a
  DEF Types, LoadState, TodoRow, Callback, CallbackPhases, tables, provider, webhook
<1>2. Names'
  <2>1. RowNames'
    BY <1>t DEF Names, RowNames, LoadState, tables, provider
  <2>2. RequestNames'
    <3> SUFFICES ASSUME NEW q \in Requests
                 PROVE  /\ request'[q].phase # "idle" =>
                              request'[q].email \in Addresses /\ request'[q].time <= clock'
                        /\ request'[q].phase = "mail" => request'[q].attempt \in DOMAIN attempt'
      BY DEF RequestNames
    <3>1. CASE q = r
      BY Constants, <1>t, <1>a, <1>1, <3>1
      DEF Types, Names, RequestNames, LoadState, tables, provider, webhook
    <3>2. CASE q # r
      BY <1>t, <1>a, <1>1, <3>2
      DEF Types, Names, RequestNames, LoadState, tables, provider, webhook
    <3> QED BY <3>1, <3>2
  <2> QED BY <2>1, <2>2 DEF Names
<1>3. \A d \in Callbacks : callback'[d].jobs = callback[d].jobs
                            => NextJob(d)' = NextJob(d)
  BY SameNextJob
<1>4. Work'
  <2>1. CallbackWork'
    BY <1>t, <1>3 DEF Work, CallbackWork, LoadState, provider, webhook
  <2>2. FailureWork'
    BY <1>t DEF Work, FailureWork, LoadState, provider, webhook
  <2> QED BY <2>1, <2>2 DEF Work
<1>5. Modes'
  BY <1>t, <1>a, <1>1 DEF IInv, Types, Modes, LoadState, tables, provider, webhook
<1>6. CorrectionHasCause'
  BY DEF IInv, CorrectionHasCause, LoadState, tables, webhook
<1>7. FollowUpsKept'
  BY DEF IInv, FollowUpsKept, LoadState, webhook
<1>8. StateIsInvited'
  BY DEF IInv, StateIsInvited, LoadState, tables
<1> QED BY <1>1, <1>2, <1>4, <1>5, <1>6, <1>7, <1>8 DEF IInv

\* The request remembers the attempt a correction refers to.
LEMMA ReadCorrectionStep ==
  ASSUME IInv, NEW r \in Requests, ReadCorrection(r)
  PROVE  IInv'
<1>t. Types /\ Names /\ Work
  BY DEF IInv
<1>a. \E phase \in {"apply", "done"} : Goto(r, phase)
  BY DEF ReadCorrection, End, Goto
<1>b. /\ request' \in [Requests -> Request]
      /\ request'[r].phase \in {"apply", "done"}
      /\ \A q \in Requests : q # r => request'[q] = request[q]
      /\ request'[r].email = request[r].email
      /\ request'[r].time = request[r].time
      /\ request'[r].attempt = request[r].attempt
  BY <1>t, <1>a, Moved DEF Types, Phases
<1>1. Types'
  BY Constants, <1>t, <1>a, <1>b
  DEF Types, ReadCorrection, TodoRow, Callback, CallbackPhases, tables, provider,
     webhook
<1>2. Names'
  <2>1. RowNames'
    BY <1>t DEF Names, RowNames, ReadCorrection, tables, provider
  <2>2. RequestNames'
    <3> SUFFICES ASSUME NEW q \in Requests
                 PROVE  /\ request'[q].phase # "idle" =>
                              request'[q].email \in Addresses /\ request'[q].time <= clock'
                        /\ request'[q].phase = "mail" => request'[q].attempt \in DOMAIN attempt'
      BY DEF RequestNames
    <3>1. CASE q = r
      BY Constants, <1>t, <1>a, <1>b, <1>1, <3>1
      DEF Types, Names, RequestNames, ReadCorrection, tables, provider, webhook
    <3>2. CASE q # r
      BY <1>t, <1>a, <1>b, <1>1, <3>2
      DEF Types, Names, RequestNames, ReadCorrection, tables, provider, webhook
    <3> QED BY <3>1, <3>2
  <2> QED BY <2>1, <2>2 DEF Names
<1>3. \A d \in Callbacks : callback'[d].jobs = callback[d].jobs
                            => NextJob(d)' = NextJob(d)
  BY SameNextJob
<1>4. Work'
  <2>1. CallbackWork'
    BY <1>t, <1>3 DEF Work, CallbackWork, ReadCorrection, provider, webhook
  <2>2. FailureWork'
    BY <1>t DEF Work, FailureWork, ReadCorrection, provider, webhook
  <2> QED BY <2>1, <2>2 DEF Work
<1>5. Modes'
  BY <1>t, <1>a, <1>b, <1>1
  DEF IInv, Types, Modes, ReadCorrection, tables, provider, webhook
<1>6. CorrectionHasCause'
  BY DEF IInv, CorrectionHasCause, ReadCorrection, tables, webhook
<1>7. FollowUpsKept'
  BY DEF IInv, FollowUpsKept, ReadCorrection, webhook
<1>8. StateIsInvited'
  BY DEF IInv, StateIsInvited, ReadCorrection, tables
<1> QED BY <1>1, <1>2, <1>4, <1>5, <1>6, <1>7, <1>8 DEF IInv

\* Attempt, invitation and state of a fresh link are committed together.
LEMMA IssueInTransactionStep ==
  ASSUME IInv, NEW r \in Requests, IssueInTransaction(r)
  PROVE  IInv'
<1>t. Types /\ Names /\ Work
  BY DEF IInv
<1>a. \E phase \in {"done"} : Goto(r, phase)
  BY DEF IssueInTransaction, End, Goto
<1>b. /\ request' \in [Requests -> Request]
      /\ request'[r].phase \in {"done"}
      /\ \A q \in Requests : q # r => request'[q] = request[q]
      /\ request'[r].email = request[r].email
      /\ request'[r].time = request[r].time
      /\ request'[r].attempt = request[r].attempt
  BY <1>t, <1>a, Moved DEF Types, Phases
<1>c. request[r].email \in Addresses /\ request[r].time <= clock
  BY <1>t DEF Types, Names, RequestNames, IssueInTransaction
<1>d. /\ attempt' \in Seq(AttemptRow)
      /\ Len(attempt) \in Nat
      /\ DOMAIN attempt = 1 .. Len(attempt)
      /\ DOMAIN attempt' = 1 .. Len(attempt) + 1
      /\ \A a \in DOMAIN attempt : attempt'[a] = attempt[a]
      /\ attempt'[Len(attempt) + 1].email = request[r].email
      /\ attempt'[Len(attempt) + 1].time = request[r].time
  BY <1>t, <1>c, Inserted DEF Types, IssueInTransaction
<1>e. \A a \in DOMAIN attempt' : attempt'[a].time <= clock'
  BY <1>t, <1>d, <1>c DEF Types, Names, RowNames, IssueInTransaction
<1>f. DOMAIN attempt \subseteq DOMAIN attempt' /\ mail' \subseteq DOMAIN attempt'
  BY <1>t, <1>d DEF Types, Names, RowNames, IssueInTransaction
<1>1. Types'
  BY Constants, <1>t, <1>a, <1>b, <1>c, <1>d, <1>e, <1>f
  DEF Types, IssueInTransaction, TodoRow, Callback, CallbackPhases, provider,
     webhook
<1>2. Names'
  <2>1. RowNames'
    BY Constants, <1>t, <1>a, <1>b, <1>c, <1>d, <1>e, <1>f, <1>1
    DEF Types, Names, RowNames, IssueInTransaction, TodoRow, provider, webhook
  <2>2. RequestNames'
    <3> SUFFICES ASSUME NEW q \in Requests
                 PROVE  /\ request'[q].phase # "idle" =>
                              request'[q].email \in Addresses /\ request'[q].time <= clock'
                        /\ request'[q].phase = "mail" => request'[q].attempt \in DOMAIN attempt'
      BY DEF RequestNames
    <3>1. CASE q = r
      BY Constants, <1>t, <1>a, <1>b, <1>c, <1>d, <1>e, <1>f, <1>1, <3>1
      DEF Types, Names, RequestNames, IssueInTransaction, provider, webhook
    <3>2. CASE q # r
      BY <1>t, <1>a, <1>b, <1>c, <1>d, <1>e, <1>f, <1>1, <3>2
      DEF Types, Names, RequestNames, IssueInTransaction, provider, webhook
    <3> QED BY <3>1, <3>2
  <2> QED BY <2>1, <2>2 DEF Names
<1>3. \A d \in Callbacks : callback'[d].jobs = callback[d].jobs
                            => NextJob(d)' = NextJob(d)
  BY SameNextJob
<1>4. Work'
  <2>1. CallbackWork'
    BY <1>t, <1>3 DEF Work, CallbackWork, IssueInTransaction, provider, webhook
  <2>2. FailureWork'
    BY <1>t DEF Work, FailureWork, IssueInTransaction, provider, webhook
  <2> QED BY <2>1, <2>2 DEF Work
<1>5. Modes'
  BY <1>t, <1>a, <1>b, <1>c, <1>d, <1>e, <1>f, <1>1
  DEF IInv, Types, Modes, IssueInTransaction, provider, webhook
<1>6. CorrectionHasCause'
  BY <1>t, <1>a, <1>b, <1>c, <1>d, <1>e, <1>f, <1>1, <1>2
  DEF IInv, Types, Names, RowNames, CorrectionHasCause, IssueInTransaction, TodoRow,
     provider, webhook
<1>7. FollowUpsKept'
  BY DEF IInv, FollowUpsKept, IssueInTransaction, webhook
<1>8. StateIsInvited'
  BY <1>t, <1>a, <1>b, <1>c, <1>d, <1>e, <1>f, <1>1
  DEF IInv, Types, StateIsInvited, IssueInTransaction, provider, webhook
<1> QED BY <1>1, <1>2, <1>4, <1>5, <1>6, <1>7, <1>8 DEF IInv

\* Attempt, invitation, state and cleared correction are committed together.
LEMMA ApplyInTransactionStep ==
  ASSUME IInv, NEW r \in Requests, ApplyInTransaction(r)
  PROVE  IInv'
<1>t. Types /\ Names /\ Work
  BY DEF IInv
<1>a. \E phase \in {"done"} : Goto(r, phase)
  BY DEF ApplyInTransaction, End, Goto
<1>b. /\ request' \in [Requests -> Request]
      /\ request'[r].phase \in {"done"}
      /\ \A q \in Requests : q # r => request'[q] = request[q]
      /\ request'[r].email = request[r].email
      /\ request'[r].time = request[r].time
      /\ request'[r].attempt = request[r].attempt
  BY <1>t, <1>a, Moved DEF Types, Phases
<1>c. request[r].email \in Addresses /\ request[r].time <= clock
  BY <1>t DEF Types, Names, RequestNames, ApplyInTransaction
<1>d. OpenForCorrection =>
      /\ attempt' \in Seq(AttemptRow)
      /\ Len(attempt) \in Nat
      /\ DOMAIN attempt = 1 .. Len(attempt)
      /\ DOMAIN attempt' = 1 .. Len(attempt) + 1
      /\ \A a \in DOMAIN attempt : attempt'[a] = attempt[a]
      /\ attempt'[Len(attempt) + 1].email = request[r].email
      /\ attempt'[Len(attempt) + 1].time = request[r].time
  BY <1>t, <1>c, Inserted DEF Types, ApplyInTransaction
<1>e. clock' = clock /\ (~OpenForCorrection => attempt' = attempt /\ mail' = mail)
  BY DEF ApplyInTransaction, tables
<1>f. \A a \in DOMAIN attempt' : attempt'[a].time <= clock'
  <2>1. \A a \in DOMAIN attempt : attempt[a].time <= clock
    BY <1>t DEF Names, RowNames
  <2>2. CASE OpenForCorrection
    <3> SUFFICES ASSUME NEW a \in DOMAIN attempt'
                 PROVE  attempt'[a].time <= clock
      BY <1>e
    <3>1. CASE a \in DOMAIN attempt
      BY <1>d, <2>1, <2>2, <3>1
    <3>2. CASE a \notin DOMAIN attempt
      <4>1. a = Len(attempt) + 1
        BY <1>d, <2>2, <3>2
      <4> QED BY <1>c, <1>d, <2>2, <4>1
    <3> QED BY <3>1, <3>2
  <2>3. CASE ~OpenForCorrection
    BY <1>e, <2>1, <2>3
  <2> QED BY <2>2, <2>3
<1>g. DOMAIN attempt \subseteq DOMAIN attempt' /\ mail' \subseteq DOMAIN attempt'
  BY <1>t, <1>e, <1>d DEF Types, Names, RowNames, ApplyInTransaction
<1>1. Types'
  BY Constants, <1>t, <1>a, <1>b, <1>c, <1>d, <1>e, <1>f, <1>g
  DEF Types, ApplyInTransaction, OpenForCorrection, TodoRow, Callback,
     CallbackPhases, tables, provider, webhook
<1>2. Names'
  <2>1. RowNames'
    BY Constants, <1>t, <1>a, <1>b, <1>c, <1>d, <1>e, <1>f, <1>g, <1>1
    DEF Types, Names, RowNames, ApplyInTransaction, OpenForCorrection, TodoRow,
       tables, provider, webhook
  <2>2. RequestNames'
    <3> SUFFICES ASSUME NEW q \in Requests
                 PROVE  /\ request'[q].phase # "idle" =>
                              request'[q].email \in Addresses /\ request'[q].time <= clock'
                        /\ request'[q].phase = "mail" => request'[q].attempt \in DOMAIN attempt'
      BY DEF RequestNames
    <3>1. CASE q = r
      BY Constants, <1>t, <1>a, <1>b, <1>c, <1>d, <1>e, <1>f, <1>g, <1>1, <3>1
      DEF Types, Names, RequestNames, ApplyInTransaction, OpenForCorrection, tables,
         provider, webhook
    <3>2. CASE q # r
      BY <1>t, <1>a, <1>b, <1>c, <1>d, <1>e, <1>f, <1>g, <1>1, <3>2
      DEF Types, Names, RequestNames, ApplyInTransaction, OpenForCorrection, tables,
         provider, webhook
    <3> QED BY <3>1, <3>2
  <2> QED BY <2>1, <2>2 DEF Names
<1>3. \A d \in Callbacks : callback'[d].jobs = callback[d].jobs
                            => NextJob(d)' = NextJob(d)
  BY SameNextJob
<1>4. Work'
  <2>1. CallbackWork'
    BY <1>t, <1>3 DEF Work, CallbackWork, ApplyInTransaction, provider, webhook
  <2>2. FailureWork'
    BY <1>t DEF Work, FailureWork, ApplyInTransaction, provider, webhook
  <2> QED BY <2>1, <2>2 DEF Work
<1>5. Modes'
  BY <1>t, <1>a, <1>b, <1>c, <1>d, <1>e, <1>f, <1>g, <1>1
  DEF IInv, Types, Modes, ApplyInTransaction, OpenForCorrection, tables, provider,
     webhook
<1>6. CorrectionHasCause'
  BY <1>t, <1>a, <1>b, <1>c, <1>d, <1>e, <1>f, <1>g, <1>1, <1>2
  DEF IInv, Types, Names, RowNames, CorrectionHasCause, ApplyInTransaction,
     OpenForCorrection, TodoRow, tables, provider, webhook
<1>7. FollowUpsKept'
  BY DEF IInv, FollowUpsKept, ApplyInTransaction, webhook
<1>8. StateIsInvited'
  BY <1>t, <1>a, <1>b, <1>c, <1>d, <1>e, <1>f, <1>g, <1>1
  DEF IInv, Types, StateIsInvited, ApplyInTransaction, OpenForCorrection, tables,
     provider, webhook
<1> QED BY <1>1, <1>2, <1>4, <1>5, <1>6, <1>7, <1>8 DEF IInv

\* With an external queue the correction's address is written first.
LEMMA WriteStateStep ==
  ASSUME IInv, NEW r \in Requests, WriteState(r)
  PROVE  IInv'
<1>t. Types /\ Names /\ Work
  BY DEF IInv
<1>a. request[r].email \in Addresses
  BY <1>t DEF Types, Names, RequestNames, WriteState
<1>b. \E phase \in {"issue"} : Goto(r, phase)
  BY DEF WriteState
<1>c. /\ request' \in [Requests -> Request]
      /\ request'[r].phase \in {"issue"}
      /\ \A q \in Requests : q # r => request'[q] = request[q]
      /\ request'[r].email = request[r].email
      /\ request'[r].time = request[r].time
      /\ request'[r].attempt = request[r].attempt
  BY <1>t, <1>b, Moved DEF Types, Phases
<1>1. Types'
  BY Constants, <1>t, <1>a, <1>b, <1>c
  DEF Types, WriteState, TodoRow, Callback, CallbackPhases, provider, webhook
<1>2. Names'
  <2>1. RowNames'
    BY <1>t DEF Names, RowNames, WriteState, provider
  <2>2. RequestNames'
    <3> SUFFICES ASSUME NEW q \in Requests
                 PROVE  /\ request'[q].phase # "idle" =>
                              request'[q].email \in Addresses /\ request'[q].time <= clock'
                        /\ request'[q].phase = "mail" => request'[q].attempt \in DOMAIN attempt'
      BY DEF RequestNames
    <3>1. CASE q = r
      BY Constants, <1>t, <1>a, <1>b, <1>c, <1>1, <3>1
      DEF Types, Names, RequestNames, WriteState, provider, webhook
    <3>2. CASE q # r
      BY <1>t, <1>a, <1>b, <1>c, <1>1, <3>2
      DEF Types, Names, RequestNames, WriteState, provider, webhook
    <3> QED BY <3>1, <3>2
  <2> QED BY <2>1, <2>2 DEF Names
<1>3. \A d \in Callbacks : callback'[d].jobs = callback[d].jobs
                            => NextJob(d)' = NextJob(d)
  BY SameNextJob
<1>4. Work'
  <2>1. CallbackWork'
    BY <1>t, <1>3 DEF Work, CallbackWork, WriteState, provider, webhook
  <2>2. FailureWork'
    BY <1>t DEF Work, FailureWork, WriteState, provider, webhook
  <2> QED BY <2>1, <2>2 DEF Work
<1>5. Modes'
  BY <1>t, <1>a, <1>b, <1>c, <1>1
  DEF IInv, Types, Modes, WriteState, provider, webhook
<1>6. CorrectionHasCause'
  BY DEF IInv, CorrectionHasCause, WriteState, webhook
<1>7. FollowUpsKept'
  BY DEF IInv, FollowUpsKept, WriteState, webhook
<1>8. StateIsInvited'
  BY <1>t, <1>a, <1>b, <1>c, <1>1
  DEF IInv, Types, StateIsInvited, WriteState, provider, webhook
<1> QED BY <1>1, <1>2, <1>4, <1>5, <1>6, <1>7, <1>8 DEF IInv

\* With an external queue the attempt is inserted in a transaction of its own.
LEMMA InsertAttemptStep ==
  ASSUME IInv, NEW r \in Requests, InsertAttempt(r)
  PROVE  IInv'
<1>t. Types /\ Names /\ Work
  BY DEF IInv
<1>a. request[r].email \in Addresses /\ request[r].time <= clock
  BY <1>t DEF Types, Names, RequestNames, InsertAttempt
<1>b. /\ attempt' \in Seq(AttemptRow)
      /\ Len(attempt) \in Nat
      /\ DOMAIN attempt = 1 .. Len(attempt)
      /\ DOMAIN attempt' = 1 .. Len(attempt) + 1
      /\ \A a \in DOMAIN attempt : attempt'[a] = attempt[a]
      /\ attempt'[Len(attempt) + 1].email = request[r].email
      /\ attempt'[Len(attempt) + 1].time = request[r].time
  BY <1>t, <1>a, Inserted DEF Types, InsertAttempt
<1>c. \A a \in DOMAIN attempt' : attempt'[a].time <= clock'
  BY <1>t, <1>b, <1>a DEF Types, Names, RowNames, InsertAttempt
<1>d. DOMAIN attempt \subseteq DOMAIN attempt' /\ mail' \subseteq DOMAIN attempt'
  BY <1>t, <1>b DEF Types, Names, RowNames, InsertAttempt
<1>e. request' = [request EXCEPT ![r].phase = "mail", ![r].attempt = Len(attempt) + 1]
  BY DEF InsertAttempt
<1>f. Len(attempt) + 1 \in Nat
  BY <1>t, LenProperties DEF Types
<1>g. /\ request' \in [Requests -> Request]
      /\ request'[r].phase = "mail"
      /\ \A q \in Requests : q # r => request'[q] = request[q]
      /\ request'[r].email = request[r].email
      /\ request'[r].attempt = Len(attempt) + 1
      /\ request'[r].time = request[r].time
  BY <1>t, <1>f, <1>e DEF Types, Request, Phases
<1>1. Types'
  BY Constants, <1>t, <1>a, <1>b, <1>c, <1>d, <1>e, <1>f, <1>g
  DEF Types, InsertAttempt, TodoRow, Callback, CallbackPhases, provider, webhook
<1>2. Names'
  <2>1. RowNames'
    BY Constants, <1>t, <1>a, <1>b, <1>c, <1>d, <1>e, <1>f, <1>g, <1>1
    DEF Types, Names, RowNames, InsertAttempt, TodoRow, provider, webhook
  <2>2. RequestNames'
    <3> SUFFICES ASSUME NEW q \in Requests
                 PROVE  /\ request'[q].phase # "idle" =>
                              request'[q].email \in Addresses /\ request'[q].time <= clock'
                        /\ request'[q].phase = "mail" => request'[q].attempt \in DOMAIN attempt'
      BY DEF RequestNames
    <3>1. CASE q = r
      BY Constants, <1>t, <1>a, <1>b, <1>c, <1>d, <1>e, <1>f, <1>g, <1>1, <3>1
      DEF Types, Names, RequestNames, InsertAttempt, provider, webhook
    <3>2. CASE q # r
      BY <1>t, <1>a, <1>b, <1>c, <1>d, <1>e, <1>f, <1>g, <1>1, <3>2
      DEF Types, Names, RequestNames, InsertAttempt, provider, webhook
    <3> QED BY <3>1, <3>2
  <2> QED BY <2>1, <2>2 DEF Names
<1>3. \A d \in Callbacks : callback'[d].jobs = callback[d].jobs
                            => NextJob(d)' = NextJob(d)
  BY SameNextJob
<1>4. Work'
  <2>1. CallbackWork'
    BY <1>t, <1>3 DEF Work, CallbackWork, InsertAttempt, provider, webhook
  <2>2. FailureWork'
    BY <1>t DEF Work, FailureWork, InsertAttempt, provider, webhook
  <2> QED BY <2>1, <2>2 DEF Work
<1>5. Modes'
  BY <1>t, <1>a, <1>b, <1>c, <1>d, <1>e, <1>f, <1>g, <1>1
  DEF IInv, Types, Modes, InsertAttempt, provider, webhook
<1>6. CorrectionHasCause'
  BY <1>t, <1>a, <1>b, <1>c, <1>d, <1>e, <1>f, <1>g, <1>1, <1>2
  DEF IInv, Types, Names, RowNames, CorrectionHasCause, InsertAttempt, TodoRow,
     provider, webhook
<1>7. FollowUpsKept'
  BY DEF IInv, FollowUpsKept, InsertAttempt, webhook
<1>8. StateIsInvited'
  BY <1>t, <1>a, <1>b, <1>c, <1>d, <1>e, <1>f, <1>g, <1>1
  DEF IInv, Types, StateIsInvited, InsertAttempt, provider, webhook
<1> QED BY <1>1, <1>2, <1>4, <1>5, <1>6, <1>7, <1>8 DEF IInv

\* The external queue accepts the invitation of an attempt that exists.
LEMMA EnqueueMailStep ==
  ASSUME IInv, NEW r \in Requests, EnqueueMail(r)
  PROVE  IInv'
<1>t. Types /\ Names /\ Work
  BY DEF IInv
<1>a. \E phase \in {"clear", "done"} : Goto(r, phase)
  BY DEF EnqueueMail
<1>b. /\ request' \in [Requests -> Request]
      /\ request'[r].phase \in {"clear", "done"}
      /\ \A q \in Requests : q # r => request'[q] = request[q]
      /\ request'[r].email = request[r].email
      /\ request'[r].time = request[r].time
      /\ request'[r].attempt = request[r].attempt
  BY <1>t, <1>a, Moved DEF Types, Phases
<1>c. request[r].attempt \in DOMAIN attempt
  BY <1>t DEF Types, Names, RequestNames, EnqueueMail
<1>1. Types'
  BY Constants, <1>t, <1>a, <1>b, <1>c
  DEF Types, EnqueueMail, TodoRow, Callback, CallbackPhases, provider, webhook
<1>2. Names'
  <2>1. RowNames'
    BY Constants, <1>t, <1>a, <1>b, <1>c, <1>1
    DEF Types, Names, RowNames, EnqueueMail, TodoRow, provider, webhook
  <2>2. RequestNames'
    <3> SUFFICES ASSUME NEW q \in Requests
                 PROVE  /\ request'[q].phase # "idle" =>
                              request'[q].email \in Addresses /\ request'[q].time <= clock'
                        /\ request'[q].phase = "mail" => request'[q].attempt \in DOMAIN attempt'
      BY DEF RequestNames
    <3>1. CASE q = r
      BY Constants, <1>t, <1>a, <1>b, <1>c, <1>1, <3>1
      DEF Types, Names, RequestNames, EnqueueMail, provider, webhook
    <3>2. CASE q # r
      BY <1>t, <1>a, <1>b, <1>c, <1>1, <3>2
      DEF Types, Names, RequestNames, EnqueueMail, provider, webhook
    <3> QED BY <3>1, <3>2
  <2> QED BY <2>1, <2>2 DEF Names
<1>3. \A d \in Callbacks : callback'[d].jobs = callback[d].jobs
                            => NextJob(d)' = NextJob(d)
  BY SameNextJob
<1>4. Work'
  <2>1. CallbackWork'
    BY <1>t, <1>3 DEF Work, CallbackWork, EnqueueMail, provider, webhook
  <2>2. FailureWork'
    BY <1>t DEF Work, FailureWork, EnqueueMail, provider, webhook
  <2> QED BY <2>1, <2>2 DEF Work
<1>5. Modes'
  BY <1>t, <1>a, <1>b, <1>c, <1>1
  DEF IInv, Types, Modes, EnqueueMail, provider, webhook
<1>6. CorrectionHasCause'
  BY DEF IInv, CorrectionHasCause, EnqueueMail, webhook
<1>7. FollowUpsKept'
  BY DEF IInv, FollowUpsKept, EnqueueMail, webhook
<1>8. StateIsInvited'
  BY DEF IInv, StateIsInvited, EnqueueMail
<1> QED BY <1>1, <1>2, <1>4, <1>5, <1>6, <1>7, <1>8 DEF IInv

\* The correction is cleared after the external queue has accepted the mail.
LEMMA ClearCorrectionStep ==
  ASSUME IInv, NEW r \in Requests, ClearCorrection(r)
  PROVE  IInv'
<1>t. Types /\ Names /\ Work
  BY DEF IInv
<1>a. \E phase \in {"done"} : Goto(r, phase)
  BY DEF ClearCorrection, End, Goto
<1>b. /\ request' \in [Requests -> Request]
      /\ request'[r].phase \in {"done"}
      /\ \A q \in Requests : q # r => request'[q] = request[q]
      /\ request'[r].email = request[r].email
      /\ request'[r].time = request[r].time
      /\ request'[r].attempt = request[r].attempt
  BY <1>t, <1>a, Moved DEF Types, Phases
<1>1. Types'
  BY Constants, <1>t, <1>a, <1>b
  DEF Types, ClearCorrection, OpenForCorrection, TodoRow, Callback, CallbackPhases,
     provider, webhook
<1>2. Names'
  <2>1. RowNames'
    BY Constants, <1>t, <1>a, <1>b, <1>1
    DEF Types, Names, RowNames, ClearCorrection, OpenForCorrection, TodoRow,
       provider, webhook
  <2>2. RequestNames'
    <3> SUFFICES ASSUME NEW q \in Requests
                 PROVE  /\ request'[q].phase # "idle" =>
                              request'[q].email \in Addresses /\ request'[q].time <= clock'
                        /\ request'[q].phase = "mail" => request'[q].attempt \in DOMAIN attempt'
      BY DEF RequestNames
    <3>1. CASE q = r
      BY Constants, <1>t, <1>a, <1>b, <1>1, <3>1
      DEF Types, Names, RequestNames, ClearCorrection, OpenForCorrection, provider,
         webhook
    <3>2. CASE q # r
      BY <1>t, <1>a, <1>b, <1>1, <3>2
      DEF Types, Names, RequestNames, ClearCorrection, OpenForCorrection, provider,
         webhook
    <3> QED BY <3>1, <3>2
  <2> QED BY <2>1, <2>2 DEF Names
<1>3. \A d \in Callbacks : callback'[d].jobs = callback[d].jobs
                            => NextJob(d)' = NextJob(d)
  BY SameNextJob
<1>4. Work'
  <2>1. CallbackWork'
    BY <1>t, <1>3 DEF Work, CallbackWork, ClearCorrection, provider, webhook
  <2>2. FailureWork'
    BY <1>t DEF Work, FailureWork, ClearCorrection, provider, webhook
  <2> QED BY <2>1, <2>2 DEF Work
<1>5. Modes'
  BY <1>t, <1>a, <1>b, <1>1
  DEF IInv, Types, Modes, ClearCorrection, OpenForCorrection, provider, webhook
<1>6. CorrectionHasCause'
  BY <1>t, <1>a, <1>b, <1>1, <1>2
  DEF IInv, Types, Names, RowNames, CorrectionHasCause, ClearCorrection,
     OpenForCorrection, TodoRow, provider, webhook
<1>7. FollowUpsKept'
  BY DEF IInv, FollowUpsKept, ClearCorrection, webhook
<1>8. StateIsInvited'
  BY DEF IInv, StateIsInvited, ClearCorrection
<1> QED BY <1>1, <1>2, <1>4, <1>5, <1>6, <1>7, <1>8 DEF IInv

\* A request that fails leaves what it has committed.
LEMMA RequestFailsStep ==
  ASSUME IInv, NEW r \in Requests, RequestFails(r)
  PROVE  IInv'
<1>t. Types /\ Names /\ Work
  BY DEF IInv
<1>a. \E phase \in {"done"} : Goto(r, phase)
  BY DEF RequestFails, End, Goto
<1>b. /\ request' \in [Requests -> Request]
      /\ request'[r].phase \in {"done"}
      /\ \A q \in Requests : q # r => request'[q] = request[q]
      /\ request'[r].email = request[r].email
      /\ request'[r].time = request[r].time
      /\ request'[r].attempt = request[r].attempt
  BY <1>t, <1>a, Moved DEF Types, Phases
<1>c. budget' \in [faults : Nat, repeats : Nat, restarts : Nat]
  BY <1>t, Counted DEF Types, RequestFails, OneFault
<1>1. Types'
  BY Constants, <1>t, <1>a, <1>b, <1>c
  DEF Types, RequestFails, OneFault, TodoRow, Callback, CallbackPhases, tables,
     provider, webhook
<1>2. Names'
  <2>1. RowNames'
    BY <1>t DEF Names, RowNames, RequestFails, tables, provider
  <2>2. RequestNames'
    <3> SUFFICES ASSUME NEW q \in Requests
                 PROVE  /\ request'[q].phase # "idle" =>
                              request'[q].email \in Addresses /\ request'[q].time <= clock'
                        /\ request'[q].phase = "mail" => request'[q].attempt \in DOMAIN attempt'
      BY DEF RequestNames
    <3>1. CASE q = r
      BY Constants, <1>t, <1>a, <1>b, <1>c, <1>1, <3>1
      DEF Types, Names, RequestNames, RequestFails, OneFault, tables, provider,
         webhook
    <3>2. CASE q # r
      BY <1>t, <1>a, <1>b, <1>c, <1>1, <3>2
      DEF Types, Names, RequestNames, RequestFails, OneFault, tables, provider,
         webhook
    <3> QED BY <3>1, <3>2
  <2> QED BY <2>1, <2>2 DEF Names
<1>3. \A d \in Callbacks : callback'[d].jobs = callback[d].jobs
                            => NextJob(d)' = NextJob(d)
  BY SameNextJob
<1>4. Work'
  <2>1. CallbackWork'
    BY <1>t, <1>3 DEF Work, CallbackWork, RequestFails, provider, webhook
  <2>2. FailureWork'
    BY <1>t DEF Work, FailureWork, RequestFails, provider, webhook
  <2> QED BY <2>1, <2>2 DEF Work
<1>5. Modes'
  BY <1>t, <1>a, <1>b, <1>c, <1>1
  DEF IInv, Types, Modes, RequestFails, OneFault, tables, provider, webhook
<1>6. CorrectionHasCause'
  BY DEF IInv, CorrectionHasCause, RequestFails, tables, webhook
<1>7. FollowUpsKept'
  BY DEF IInv, FollowUpsKept, RequestFails, webhook
<1>8. StateIsInvited'
  BY DEF IInv, StateIsInvited, RequestFails, tables
<1> QED BY <1>1, <1>2, <1>4, <1>5, <1>6, <1>7, <1>8 DEF IInv

\* The to-do is completed or abandoned by somebody else.
LEMMA CloseElsewhereStep ==
  ASSUME IInv, NEW how \in {"completed", "abandoned"}, CloseElsewhere(how)
  PROVE  IInv'
<1>t. Types /\ Names /\ Work
  BY DEF IInv
<1>1. Types'
  BY Constants, <1>t
  DEF Types, CloseElsewhere, TodoRow, Request, Phases, Callback, CallbackPhases,
     provider, webhook
<1>2. Names'
  <2>1. RowNames'
    BY Constants, <1>t, <1>1
    DEF Types, Names, RowNames, CloseElsewhere, TodoRow, provider, webhook
  <2>2. RequestNames'
    BY <1>t DEF Names, RequestNames, CloseElsewhere
  <2> QED BY <2>1, <2>2 DEF Names
<1>3. \A d \in Callbacks : callback'[d].jobs = callback[d].jobs
                            => NextJob(d)' = NextJob(d)
  BY SameNextJob
<1>4. Work'
  <2>1. CallbackWork'
    BY <1>t, <1>3 DEF Work, CallbackWork, CloseElsewhere, provider, webhook
  <2>2. FailureWork'
    BY <1>t DEF Work, FailureWork, CloseElsewhere, provider, webhook
  <2> QED BY <2>1, <2>2 DEF Work
<1>5. Modes'
  BY DEF IInv, Modes, CloseElsewhere, webhook
<1>6. CorrectionHasCause'
  BY <1>t, <1>1, <1>2
  DEF IInv, Types, Names, RowNames, CorrectionHasCause, CloseElsewhere, TodoRow,
     provider, webhook
<1>7. FollowUpsKept'
  BY DEF IInv, FollowUpsKept, CloseElsewhere, webhook
<1>8. StateIsInvited'
  BY DEF IInv, StateIsInvited, CloseElsewhere
<1> QED BY <1>1, <1>2, <1>4, <1>5, <1>6, <1>7, <1>8 DEF IInv

\* The flags of a failed to-do are cleared.
LEMMA RestartStep ==
  ASSUME IInv, Restart
  PROVE  IInv'
<1>t. Types /\ Names /\ Work
  BY DEF IInv
<1>a. budget' \in [faults : Nat, repeats : Nat, restarts : Nat]
  BY <1>t, Counted DEF Types, Restart
<1>b. todo' \in TodoRow
  BY <1>t DEF Types, Restart, TodoRow
<1>1. Types'
  BY Constants, <1>t, <1>a, <1>b
  DEF Types, Restart, Request, Phases, Callback, CallbackPhases, provider, webhook
<1>2. Names'
  <2>1. RowNames'
    BY Constants, <1>t, <1>a, <1>b, <1>1
    DEF Types, Names, RowNames, Restart, TodoRow, provider, webhook
  <2>2. RequestNames'
    BY <1>t DEF Names, RequestNames, Restart
  <2> QED BY <2>1, <2>2 DEF Names
<1>3. \A d \in Callbacks : callback'[d].jobs = callback[d].jobs
                            => NextJob(d)' = NextJob(d)
  BY SameNextJob
<1>4. Work'
  <2>1. CallbackWork'
    BY <1>t, <1>3 DEF Work, CallbackWork, Restart, provider, webhook
  <2>2. FailureWork'
    BY <1>t DEF Work, FailureWork, Restart, provider, webhook
  <2> QED BY <2>1, <2>2 DEF Work
<1>5. Modes'
  BY DEF IInv, Modes, Restart, webhook
<1>6. CorrectionHasCause'
  BY <1>t, <1>a, <1>b, <1>1, <1>2
  DEF IInv, Types, Names, RowNames, CorrectionHasCause, Restart, TodoRow, provider,
     webhook
<1>7. FollowUpsKept'
  BY DEF IInv, FollowUpsKept, Restart, webhook
<1>8. StateIsInvited'
  BY DEF IInv, StateIsInvited, Restart
<1> QED BY <1>1, <1>2, <1>4, <1>5, <1>6, <1>7, <1>8 DEF IInv

\* The provider takes an invitation out of the queue.
LEMMA SendInvitationStep ==
  ASSUME IInv, NEW a \in AttemptIds, SendInvitation(a)
  PROVE  IInv'
<1>t. Types /\ Names /\ Work
  BY DEF IInv
<1>1. Types'
  BY Constants, <1>t
  DEF Types, SendInvitation, TodoRow, Request, Phases, Callback, CallbackPhases,
     webhook
<1>2. Names'
  <2>1. RowNames'
    BY Constants, <1>t, <1>1
    DEF Types, Names, RowNames, SendInvitation, TodoRow, webhook
  <2>2. RequestNames'
    BY <1>t DEF Names, RequestNames, SendInvitation
  <2> QED BY <2>1, <2>2 DEF Names
<1>3. \A d \in Callbacks : callback'[d].jobs = callback[d].jobs
                            => NextJob(d)' = NextJob(d)
  BY SameNextJob
<1>4. Work'
  <2>1. CallbackWork'
    BY <1>t, <1>3 DEF Work, CallbackWork, SendInvitation, webhook
  <2>2. FailureWork'
    BY <1>t DEF Work, FailureWork, SendInvitation, webhook
  <2> QED BY <2>1, <2>2 DEF Work
<1>5. Modes'
  BY DEF IInv, Modes, SendInvitation, webhook
<1>6. CorrectionHasCause'
  BY DEF IInv, CorrectionHasCause, SendInvitation, webhook
<1>7. FollowUpsKept'
  BY DEF IInv, FollowUpsKept, SendInvitation, webhook
<1>8. StateIsInvited'
  BY DEF IInv, StateIsInvited, SendInvitation
<1> QED BY <1>1, <1>2, <1>4, <1>5, <1>6, <1>7, <1>8 DEF IInv

\* The provider reports on an invitation it has sent.
LEMMA ReportStep ==
  ASSUME IInv, NEW e \in Events, Report(e)
  PROVE  IInv'
<1>t. Types /\ Names /\ Work
  BY DEF IInv
<1>1. Types'
  BY Constants, <1>t
  DEF Types, Report, TodoRow, Request, Phases, Callback, CallbackPhases, tables,
     webhook
<1>2. Names'
  <2>1. RowNames'
    BY Constants, <1>t, <1>1
    DEF Types, Names, RowNames, Report, TodoRow, tables, webhook
  <2>2. RequestNames'
    BY <1>t DEF Names, RequestNames, Report, tables
  <2> QED BY <2>1, <2>2 DEF Names
<1>3. \A d \in Callbacks : callback'[d].jobs = callback[d].jobs
                            => NextJob(d)' = NextJob(d)
  BY SameNextJob
<1>4. Work'
  <2>1. CallbackWork'
    BY <1>t, <1>1, <1>3
    DEF Types, Names, RowNames, Work, CallbackWork, Report, tables, webhook
  <2>2. FailureWork'
    BY <1>t, <1>1
    DEF Types, Names, RowNames, Work, FailureWork, Report, Callback, tables, webhook
  <2> QED BY <2>1, <2>2 DEF Work
<1>5. Modes'
  BY DEF IInv, Modes, Report, webhook
<1>6. CorrectionHasCause'
  BY DEF IInv, CorrectionHasCause, Report, tables, webhook
<1>7. FollowUpsKept'
  BY DEF IInv, FollowUpsKept, Report, webhook
<1>8. StateIsInvited'
  BY DEF IInv, StateIsInvited, Report, tables
<1> QED BY <1>1, <1>2, <1>4, <1>5, <1>6, <1>7, <1>8 DEF IInv

\* A callback starts on an event that was reported.
LEMMA ReceiveStep ==
  ASSUME IInv, NEW c \in Callbacks, NEW e \in Events, Receive(c, e)
  PROVE  IInv'
<1>t. Types /\ Names /\ Work
  BY DEF IInv
<1>a. budget' \in [faults : Nat, repeats : Nat, restarts : Nat]
  BY <1>t, Counted DEF Types, Receive
<1>1. Types'
  BY Constants, <1>t, <1>a
  DEF Types, Receive, TodoRow, Request, Phases, Callback, CallbackPhases, tables
<1>2. Names'
  <2>1. RowNames'
    BY Constants, <1>t, <1>a, <1>1
    DEF Types, Names, RowNames, Receive, TodoRow, tables
  <2>2. RequestNames'
    BY <1>t DEF Names, RequestNames, Receive, tables
  <2> QED BY <2>1, <2>2 DEF Names
<1>3. \A d \in Callbacks : callback'[d].jobs = callback[d].jobs
                            => NextJob(d)' = NextJob(d)
  BY SameNextJob
<1>4. Work'
  <2>1. CallbackWork'
    <3> SUFFICES ASSUME NEW d \in Callbacks
                 PROVE  /\ callback'[d].event \in reported' \cup {Null}
                        /\ callback'[d].phase # "idle" => callback'[d].event \in reported'
                        /\ callback'[d].jobs # {} =>
                              /\ callback'[d].phase # "idle"
                              /\ outcomes'[callback'[d].event] > 0
                        /\ callback'[d].phase = "delete" =>
                              /\ callback'[d].jobs # {}
                              /\ NextJob(d)' \in published'[callback'[d].event]
      BY DEF CallbackWork
    <3>1. CASE d = c
      BY <1>t, <1>a, <1>1, <1>3, <3>1
      DEF Types, Names, RowNames, Work, CallbackWork, FailureWork, Receive,
         Callback, tables
    <3>2. CASE d # c
      <4>1. callback'[d] = callback[d] /\ NextJob(d)' = NextJob(d)
        BY <1>t, <1>a, <1>3, <3>2 DEF Types, Receive
      <4> QED
        BY <1>t, <1>a, <1>1, <4>1
        DEF Types, Names, RowNames, Work, CallbackWork, Receive, tables
    <3> QED BY <3>1, <3>2
  <2>2. FailureWork'
    BY <1>t DEF Work, FailureWork, Receive
  <2> QED BY <2>1, <2>2 DEF Work
<1>5. Modes'
  BY DEF IInv, Modes, Receive
<1>6. CorrectionHasCause'
  BY DEF IInv, CorrectionHasCause, Receive, tables
<1>7. FollowUpsKept'
  BY DEF IInv, FollowUpsKept, Receive
<1>8. StateIsInvited'
  BY DEF IInv, StateIsInvited, Receive, tables
<1> QED BY <1>1, <1>2, <1>4, <1>5, <1>6, <1>7, <1>8 DEF IInv

\* Jobs in the outbox belong to a failure that was committed.
LEMMA LeftoverStep ==
  ASSUME IInv, NEW c \in Callbacks, Leftover(c)
  PROVE  IInv'
<1>t. Types /\ Names /\ Work
  BY DEF IInv
<1>a. callback[c].event \in reported /\ callback[c].event \in Events
      /\ callback[c].event.attempt \in DOMAIN attempt
  BY <1>t DEF Types, Names, RowNames, Work, CallbackWork, Leftover
<1>b. outbox[callback[c].event] \in SUBSET FollowUps
  BY <1>t, <1>a DEF Types
<1>c. \E phase \in {"apply", "send"} : Proceed(c, phase, outbox[callback[c].event])
  BY DEF Leftover
<1>d. /\ callback' \in [Callbacks -> Callback]
      /\ \A d \in Callbacks : d # c => callback'[d] = callback[d]
      /\ callback'[c].phase \in {"apply", "send"}
      /\ callback'[c].event = callback[c].event
      /\ callback'[c].jobs = outbox[callback[c].event]
  BY <1>t, <1>c, <1>b, Proceeded DEF Types, CallbackPhases
<1>1. Types'
  BY Constants, <1>t, <1>a, <1>b, <1>c, <1>d
  DEF Types, Leftover, TodoRow, Request, Phases, tables, provider
<1>2. Names'
  <2>1. RowNames'
    BY <1>t DEF Names, RowNames, Leftover, tables, provider
  <2>2. RequestNames'
    BY <1>t DEF Names, RequestNames, Leftover, tables
  <2> QED BY <2>1, <2>2 DEF Names
<1>3. \A d \in Callbacks : callback'[d].jobs = callback[d].jobs
                            => NextJob(d)' = NextJob(d)
  BY SameNextJob
<1>4. Work'
  <2>1. CallbackWork'
    <3> SUFFICES ASSUME NEW d \in Callbacks
                 PROVE  /\ callback'[d].event \in reported' \cup {Null}
                        /\ callback'[d].phase # "idle" => callback'[d].event \in reported'
                        /\ callback'[d].jobs # {} =>
                              /\ callback'[d].phase # "idle"
                              /\ outcomes'[callback'[d].event] > 0
                        /\ callback'[d].phase = "delete" =>
                              /\ callback'[d].jobs # {}
                              /\ NextJob(d)' \in published'[callback'[d].event]
      BY DEF CallbackWork
    <3>1. CASE d = c
      BY <1>t, <1>a, <1>b, <1>c, <1>d, <1>1, <1>3, <3>1
      DEF Types, Names, RowNames, Work, CallbackWork, FailureWork, Leftover, tables,
         provider
    <3>2. CASE d # c
      <4>1. callback'[d] = callback[d] /\ NextJob(d)' = NextJob(d)
        BY <1>t, <1>a, <1>b, <1>c, <1>d, <1>3, <3>2 DEF Types, Leftover
      <4> QED
        BY <1>t, <1>a, <1>b, <1>c, <1>d, <1>1, <4>1
        DEF Types, Names, RowNames, Work, CallbackWork, Leftover, tables, provider
    <3> QED BY <3>1, <3>2
  <2>2. FailureWork'
    BY <1>t DEF Work, FailureWork, Leftover, provider
  <2> QED BY <2>1, <2>2 DEF Work
<1>5. Modes'
  BY DEF IInv, Modes, Leftover
<1>6. CorrectionHasCause'
  BY DEF IInv, CorrectionHasCause, Leftover, tables
<1>7. FollowUpsKept'
  BY DEF IInv, FollowUpsKept, Leftover
<1>8. StateIsInvited'
  BY DEF IInv, StateIsInvited, Leftover, tables
<1> QED BY <1>1, <1>2, <1>4, <1>5, <1>6, <1>7, <1>8 DEF IInv

\* A delivery result or an ignored event goes to an attempt that exists.
LEMMA RecordStep ==
  ASSUME IInv, NEW c \in Callbacks, Record(c)
  PROVE  IInv'
<1>t. Types /\ Names /\ Work
  BY DEF IInv
<1>a. callback[c].event \in reported /\ callback[c].event \in Events
      /\ callback[c].event.attempt \in DOMAIN attempt
  BY <1>t DEF Types, Names, RowNames, Work, CallbackWork, Record
<1>b. {} \in SUBSET FollowUps
  OBVIOUS
<1>c. Proceed(c, "answer", {})
  BY DEF Record
<1>d. /\ callback' \in [Callbacks -> Callback]
      /\ \A d \in Callbacks : d # c => callback'[d] = callback[d]
      /\ callback'[c].phase = "answer"
      /\ callback'[c].event = callback[c].event
      /\ callback'[c].jobs = {}
  BY <1>t, <1>c, <1>b, Proceeded DEF Types, CallbackPhases
<1>e. attempt' # attempt =>
      /\ Waiting
      /\ attempt' \in Seq(AttemptRow)
      /\ DOMAIN attempt' = DOMAIN attempt
      /\ \A b \in DOMAIN attempt : /\ attempt'[b].time = attempt[b].time
                                   /\ attempt'[b].email = attempt[b].email
  BY <1>t, <1>a, Delivered DEF Types, Record, CallbackTarget
<1>1. Types'
  BY Constants, <1>t, <1>a, <1>b, <1>c, <1>d, <1>e
  DEF Types, Record, Waiting, TodoRow, Request, Phases, provider
<1>2. Names'
  <2>1. RowNames'
    BY Constants, <1>t, <1>a, <1>b, <1>c, <1>d, <1>e, <1>1
    DEF Types, Names, RowNames, Record, Waiting, TodoRow, provider
  <2>2. RequestNames'
    BY <1>t, <1>a, <1>b, <1>c, <1>d, <1>e, <1>1
    DEF Types, Names, RequestNames, Record, Waiting, provider
  <2> QED BY <2>1, <2>2 DEF Names
<1>3. \A d \in Callbacks : callback'[d].jobs = callback[d].jobs
                            => NextJob(d)' = NextJob(d)
  BY SameNextJob
<1>4. Work'
  <2>1. CallbackWork'
    <3> SUFFICES ASSUME NEW d \in Callbacks
                 PROVE  /\ callback'[d].event \in reported' \cup {Null}
                        /\ callback'[d].phase # "idle" => callback'[d].event \in reported'
                        /\ callback'[d].jobs # {} =>
                              /\ callback'[d].phase # "idle"
                              /\ outcomes'[callback'[d].event] > 0
                        /\ callback'[d].phase = "delete" =>
                              /\ callback'[d].jobs # {}
                              /\ NextJob(d)' \in published'[callback'[d].event]
      BY DEF CallbackWork
    <3>1. CASE d = c
      BY <1>t, <1>a, <1>b, <1>c, <1>d, <1>e, <1>1, <1>3, <3>1
      DEF Types, Names, RowNames, Work, CallbackWork, FailureWork, Record, Waiting,
         provider
    <3>2. CASE d # c
      <4>1. callback'[d] = callback[d] /\ NextJob(d)' = NextJob(d)
        BY <1>t, <1>a, <1>b, <1>c, <1>d, <1>e, <1>3, <3>2 DEF Types, Record, Waiting
      <4> QED
        BY <1>t, <1>a, <1>b, <1>c, <1>d, <1>e, <1>1, <4>1
        DEF Types, Names, RowNames, Work, CallbackWork, Record, Waiting, provider
    <3> QED BY <3>1, <3>2
  <2>2. FailureWork'
    BY <1>t DEF Work, FailureWork, Record, provider
  <2> QED BY <2>1, <2>2 DEF Work
<1>5. Modes'
  BY DEF IInv, Modes, Record
<1>6. CorrectionHasCause'
  BY <1>t, <1>a, <1>b, <1>c, <1>d, <1>e, <1>1, <1>2
  DEF IInv, Types, Names, RowNames, CorrectionHasCause, Record, Waiting, TodoRow,
     provider
<1>7. FollowUpsKept'
  BY DEF IInv, FollowUpsKept, Record
<1>8. StateIsInvited'
  BY <1>t, <1>a, <1>b, <1>c, <1>d, <1>e, <1>1
  DEF IInv, Types, StateIsInvited, Record, Waiting, provider
<1> QED BY <1>1, <1>2, <1>4, <1>5, <1>6, <1>7, <1>8 DEF IInv

\* The failure and its follow-up jobs are committed together.
LEMMA FailStep ==
  ASSUME IInv, NEW c \in Callbacks, Fail(c)
  PROVE  IInv'
<1>t. Types /\ Names /\ Work
  BY DEF IInv
<1>a. callback[c].event \in reported /\ callback[c].event \in Events
      /\ callback[c].event.attempt \in DOMAIN attempt
  BY <1>t DEF Types, Names, RowNames, Work, CallbackWork, Fail
<1>b. callback[c].event.attempt = Latest /\ Waiting
  BY DEF Fail, CallbackTarget
<1>c. attempt' = [attempt EXCEPT ![callback[c].event.attempt].delivery = "failed"]
  BY DEF Fail
<1>d. /\ attempt' \in Seq(AttemptRow)
      /\ DOMAIN attempt' = DOMAIN attempt
      /\ attempt'[callback[c].event.attempt].delivery = "failed"
      /\ \A b \in DOMAIN attempt : /\ attempt'[b].time = attempt[b].time
                                   /\ attempt'[b].email = attempt[b].email
  BY <1>t, <1>c, <1>a, Delivered DEF Types
<1>e. callback[c].event.attempt \in Nat
  BY <1>t, <1>a, LenProperties DEF Types
<1>f. todo' \in TodoRow
  BY <1>t, <1>e DEF Types, Fail, TodoRow
<1>g. outcomes' = [outcomes EXCEPT ![callback[c].event] = @ + 1]
  BY DEF Fail
<1>h. outcomes' \in [Events -> Nat]
  BY <1>t, <1>a, <1>g DEF Types
<1>i. outbox' \in [Events -> SUBSET FollowUps] /\ published' \in [Events -> SUBSET FollowUps]
  BY <1>t, <1>a, ZenonT(60) DEF Types, Fail, FollowUp
<1>j. \A e \in Events : outcomes[e] > 0 => outcomes'[e] > 0
  BY <1>t, <1>a, <1>g DEF Types
<1>k. outcomes'[callback[c].event] > 0
  BY <1>t, <1>a, <1>g DEF Types
<1>l. todo'.status = "open" /\ todo'.correction # Null =>
      /\ todo'.correction = callback[c].event.attempt
      /\ ~todo'.failed
      /\ callback[c].event.kind = "address"
  BY <1>t, <1>b DEF Types, Fail, Waiting, TodoRow
<1>m. \A e \in Events : published[e] \subseteq published'[e]
  BY <1>t, <1>a DEF Types, Fail, FollowUp
<1>n. \E phase \in {"answer", "list"} : Proceed(c, phase, {})
  BY DEF Fail, FollowUp
<1>o. /\ callback' \in [Callbacks -> Callback]
      /\ \A d \in Callbacks : d # c => callback'[d] = callback[d]
      /\ callback'[c].phase \in {"answer", "list"}
      /\ callback'[c].event = callback[c].event
      /\ callback'[c].jobs = {}
  BY <1>t, <1>n, Proceeded DEF Types, CallbackPhases
<1>1. Types'
  BY Constants, <1>t, <1>a, <1>b, <1>c, <1>d, <1>e, <1>f, <1>g, <1>h, <1>i, <1>j,
     <1>k, <1>l, <1>m, <1>n, <1>o
  DEF Types, Fail, FollowUp, Waiting, Request, Phases, provider
<1>2. Names'
  <2>1. RowNames'
    BY Constants, <1>t, <1>a, <1>b, <1>c, <1>d, <1>e, <1>f, <1>g, <1>h, <1>i, <1>j,
       <1>k, <1>l, <1>m, <1>n, <1>o, <1>1
    DEF Types, Names, RowNames, Fail, FollowUp, Waiting, TodoRow, provider
  <2>2. RequestNames'
    BY <1>t, <1>a, <1>b, <1>c, <1>d, <1>e, <1>f, <1>g, <1>h, <1>i, <1>j, <1>k, <1>l,
       <1>m, <1>n, <1>o, <1>1
    DEF Types, Names, RequestNames, Fail, FollowUp, Waiting, provider
  <2> QED BY <2>1, <2>2 DEF Names
<1>3. \A d \in Callbacks : callback'[d].jobs = callback[d].jobs
                            => NextJob(d)' = NextJob(d)
  BY SameNextJob
<1>4. Work'
  <2>1. CallbackWork'
    <3> SUFFICES ASSUME NEW d \in Callbacks
                 PROVE  /\ callback'[d].event \in reported' \cup {Null}
                        /\ callback'[d].phase # "idle" => callback'[d].event \in reported'
                        /\ callback'[d].jobs # {} =>
                              /\ callback'[d].phase # "idle"
                              /\ outcomes'[callback'[d].event] > 0
                        /\ callback'[d].phase = "delete" =>
                              /\ callback'[d].jobs # {}
                              /\ NextJob(d)' \in published'[callback'[d].event]
      BY DEF CallbackWork
    <3>1. CASE d = c
      BY <1>t, <1>a, <1>b, <1>c, <1>d, <1>e, <1>f, <1>g, <1>h, <1>i, <1>j, <1>k,
         <1>l, <1>m, <1>n, <1>o, <1>1, <1>3, <3>1
      DEF Types, Names, RowNames, Work, CallbackWork, FailureWork, Fail, FollowUp,
         Waiting, provider
    <3>2. CASE d # c
      <4>1. callback'[d] = callback[d] /\ NextJob(d)' = NextJob(d)
        BY <1>t, <1>a, <1>b, <1>c, <1>d, <1>e, <1>f, <1>g, <1>h, <1>i, <1>j, <1>k,
           <1>l, <1>m, <1>n, <1>o, <1>3, <3>2
        DEF Types, Fail, FollowUp, Waiting
      <4> QED
        BY <1>t, <1>a, <1>b, <1>c, <1>d, <1>e, <1>f, <1>g, <1>h, <1>i, <1>j, <1>k,
           <1>l, <1>m, <1>n, <1>o, <1>1, <4>1
        DEF Types, Names, RowNames, Work, CallbackWork, Fail, FollowUp, Waiting,
           provider
    <3> QED BY <3>1, <3>2
  <2>2. FailureWork'
    BY <1>t, <1>a, <1>b, <1>c, <1>d, <1>e, <1>f, <1>g, <1>h, <1>i, <1>j, <1>k, <1>l,
       <1>m, <1>n, <1>o, <1>1
    DEF Types, Names, RowNames, Work, FailureWork, Fail, FollowUp, Waiting, provider
  <2> QED BY <2>1, <2>2 DEF Work
<1>5. Modes'
  BY <1>t, <1>a, <1>b, <1>c, <1>d, <1>e, <1>f, <1>g, <1>h, <1>i, <1>j, <1>k, <1>l,
     <1>m, <1>n, <1>o, <1>1
  DEF IInv, Types, Modes, Fail, FollowUp, Waiting, Request, provider
<1>6. CorrectionHasCause'
  BY <1>t, <1>a, <1>b, <1>c, <1>d, <1>e, <1>f, <1>g, <1>h, <1>i, <1>j, <1>k, <1>l,
     <1>m, <1>n, <1>o
  DEF CorrectionHasCause
<1>7. FollowUpsKept'
  BY <1>t, <1>a, <1>b, <1>c, <1>d, <1>e, <1>f, <1>g, <1>h, <1>i, <1>j, <1>k, <1>l,
     <1>m, <1>n, <1>o, <1>1
  DEF IInv, Types, FollowUpsKept, Fail, FollowUp, Waiting, provider
<1>8. StateIsInvited'
  BY <1>t, <1>a, <1>b, <1>c, <1>d, <1>e, <1>f, <1>g, <1>h, <1>i, <1>j, <1>k, <1>l,
     <1>m, <1>n, <1>o, <1>1
  DEF IInv, Types, StateIsInvited, Fail, FollowUp, Waiting, provider
<1> QED BY <1>1, <1>2, <1>4, <1>5, <1>6, <1>7, <1>8 DEF IInv

\* The callback takes the jobs that are in the outbox.
LEMMA ListJobsStep ==
  ASSUME IInv, NEW c \in Callbacks, ListJobs(c)
  PROVE  IInv'
<1>t. Types /\ Names /\ Work
  BY DEF IInv
<1>a. callback[c].event \in reported /\ callback[c].event \in Events
      /\ callback[c].event.attempt \in DOMAIN attempt
  BY <1>t DEF Types, Names, RowNames, Work, CallbackWork, ListJobs
<1>b. outbox[callback[c].event] \in SUBSET FollowUps
  BY <1>t, <1>a DEF Types
<1>c. Proceed(c, "send", outbox[callback[c].event])
  BY DEF ListJobs
<1>d. /\ callback' \in [Callbacks -> Callback]
      /\ \A d \in Callbacks : d # c => callback'[d] = callback[d]
      /\ callback'[c].phase = "send"
      /\ callback'[c].event = callback[c].event
      /\ callback'[c].jobs = outbox[callback[c].event]
  BY <1>t, <1>c, <1>b, Proceeded DEF Types, CallbackPhases
<1>1. Types'
  BY Constants, <1>t, <1>a, <1>b, <1>c, <1>d
  DEF Types, ListJobs, TodoRow, Request, Phases, tables, provider
<1>2. Names'
  <2>1. RowNames'
    BY <1>t DEF Names, RowNames, ListJobs, tables, provider
  <2>2. RequestNames'
    BY <1>t DEF Names, RequestNames, ListJobs, tables
  <2> QED BY <2>1, <2>2 DEF Names
<1>3. \A d \in Callbacks : callback'[d].jobs = callback[d].jobs
                            => NextJob(d)' = NextJob(d)
  BY SameNextJob
<1>4. Work'
  <2>1. CallbackWork'
    <3> SUFFICES ASSUME NEW d \in Callbacks
                 PROVE  /\ callback'[d].event \in reported' \cup {Null}
                        /\ callback'[d].phase # "idle" => callback'[d].event \in reported'
                        /\ callback'[d].jobs # {} =>
                              /\ callback'[d].phase # "idle"
                              /\ outcomes'[callback'[d].event] > 0
                        /\ callback'[d].phase = "delete" =>
                              /\ callback'[d].jobs # {}
                              /\ NextJob(d)' \in published'[callback'[d].event]
      BY DEF CallbackWork
    <3>1. CASE d = c
      BY <1>t, <1>a, <1>b, <1>c, <1>d, <1>1, <1>3, <3>1
      DEF Types, Names, RowNames, Work, CallbackWork, FailureWork, ListJobs, tables,
         provider
    <3>2. CASE d # c
      <4>1. callback'[d] = callback[d] /\ NextJob(d)' = NextJob(d)
        BY <1>t, <1>a, <1>b, <1>c, <1>d, <1>3, <3>2 DEF Types, ListJobs
      <4> QED
        BY <1>t, <1>a, <1>b, <1>c, <1>d, <1>1, <4>1
        DEF Types, Names, RowNames, Work, CallbackWork, ListJobs, tables, provider
    <3> QED BY <3>1, <3>2
  <2>2. FailureWork'
    BY <1>t DEF Work, FailureWork, ListJobs, provider
  <2> QED BY <2>1, <2>2 DEF Work
<1>5. Modes'
  BY DEF IInv, Modes, ListJobs
<1>6. CorrectionHasCause'
  BY DEF IInv, CorrectionHasCause, ListJobs, tables
<1>7. FollowUpsKept'
  BY DEF IInv, FollowUpsKept, ListJobs
<1>8. StateIsInvited'
  BY DEF IInv, StateIsInvited, ListJobs, tables
<1> QED BY <1>1, <1>2, <1>4, <1>5, <1>6, <1>7, <1>8 DEF IInv

\* The external queue accepts one of the callback's jobs.
LEMMA SendJobStep ==
  ASSUME IInv, NEW c \in Callbacks, SendJob(c)
  PROVE  IInv'
<1>t. Types /\ Names /\ Work
  BY DEF IInv
<1>a. callback[c].event \in reported /\ callback[c].event \in Events
      /\ callback[c].event.attempt \in DOMAIN attempt
  BY <1>t DEF Types, Names, RowNames, Work, CallbackWork, SendJob
<1>b. callback[c].jobs \in SUBSET FollowUps
  BY <1>t DEF Types, Callback
<1>c. Proceed(c, "delete", callback[c].jobs)
  BY DEF SendJob
<1>d. /\ callback' \in [Callbacks -> Callback]
      /\ \A d \in Callbacks : d # c => callback'[d] = callback[d]
      /\ callback'[c].phase = "delete"
      /\ callback'[c].event = callback[c].event
      /\ callback'[c].jobs = callback[c].jobs
  BY <1>t, <1>c, <1>b, Proceeded DEF Types, CallbackPhases
<1>e. NextJob(c) \in callback[c].jobs /\ NextJob(c) \in FollowUps
  BY <1>t, <1>b, NextJobIsClaimed DEF Types, SendJob
<1>f. published' = [published EXCEPT ![callback[c].event] = @ \cup {NextJob(c)}]
  BY DEF SendJob
<1>g. published' \in [Events -> SUBSET FollowUps]
  BY <1>t, <1>f, <1>e DEF Types
<1>h. \A e \in Events : published[e] \subseteq published'[e]
  BY <1>t, <1>a, <1>f DEF Types
<1>i. outcomes[callback[c].event] > 0
  BY <1>t DEF Types, Work, CallbackWork, SendJob
<1>1. Types'
  BY Constants, <1>t, <1>a, <1>b, <1>c, <1>d, <1>e, <1>f, <1>g, <1>h, <1>i
  DEF Types, SendJob, TodoRow, Request, Phases, tables, provider
<1>2. Names'
  <2>1. RowNames'
    BY <1>t DEF Names, RowNames, SendJob, tables, provider
  <2>2. RequestNames'
    BY <1>t DEF Names, RequestNames, SendJob, tables
  <2> QED BY <2>1, <2>2 DEF Names
<1>3. \A d \in Callbacks : callback'[d].jobs = callback[d].jobs
                            => NextJob(d)' = NextJob(d)
  BY SameNextJob
<1>4. Work'
  <2>1. CallbackWork'
    <3> SUFFICES ASSUME NEW d \in Callbacks
                 PROVE  /\ callback'[d].event \in reported' \cup {Null}
                        /\ callback'[d].phase # "idle" => callback'[d].event \in reported'
                        /\ callback'[d].jobs # {} =>
                              /\ callback'[d].phase # "idle"
                              /\ outcomes'[callback'[d].event] > 0
                        /\ callback'[d].phase = "delete" =>
                              /\ callback'[d].jobs # {}
                              /\ NextJob(d)' \in published'[callback'[d].event]
      BY DEF CallbackWork
    <3>1. CASE d = c
      BY <1>t, <1>a, <1>b, <1>c, <1>d, <1>e, <1>f, <1>g, <1>h, <1>i, <1>1, <1>3,
         <3>1
      DEF Types, Names, RowNames, Work, CallbackWork, FailureWork, SendJob, tables,
         provider
    <3>2. CASE d # c
      <4>1. callback'[d] = callback[d] /\ NextJob(d)' = NextJob(d)
        BY <1>t, <1>a, <1>b, <1>c, <1>d, <1>e, <1>f, <1>g, <1>h, <1>i, <1>3, <3>2
        DEF Types, SendJob
      <4> QED
        BY <1>t, <1>a, <1>b, <1>c, <1>d, <1>e, <1>f, <1>g, <1>h, <1>i, <1>1, <4>1
        DEF Types, Names, RowNames, Work, CallbackWork, SendJob, tables, provider
    <3> QED BY <3>1, <3>2
  <2>2. FailureWork'
    BY <1>t, <1>a, <1>b, <1>c, <1>d, <1>e, <1>f, <1>g, <1>h, <1>i, <1>1
    DEF Types, Names, RowNames, Work, FailureWork, SendJob, tables, provider
  <2> QED BY <2>1, <2>2 DEF Work
<1>5. Modes'
  BY DEF IInv, Modes, SendJob
<1>6. CorrectionHasCause'
  BY DEF IInv, CorrectionHasCause, SendJob, tables
<1>7. FollowUpsKept'
  BY <1>t, <1>a, <1>b, <1>c, <1>d, <1>e, <1>f, <1>g, <1>h, <1>i, <1>1
  DEF IInv, Types, FollowUpsKept, SendJob, tables, provider
<1>8. StateIsInvited'
  BY DEF IInv, StateIsInvited, SendJob, tables
<1> QED BY <1>1, <1>2, <1>4, <1>5, <1>6, <1>7, <1>8 DEF IInv

\* A job leaves the outbox after it has been accepted.
LEMMA DeleteJobStep ==
  ASSUME IInv, NEW c \in Callbacks, DeleteJob(c)
  PROVE  IInv'
<1>t. Types /\ Names /\ Work
  BY DEF IInv
<1>a. callback[c].event \in reported /\ callback[c].event \in Events
      /\ callback[c].event.attempt \in DOMAIN attempt
  BY <1>t DEF Types, Names, RowNames, Work, CallbackWork, DeleteJob
<1>b. (callback[c].jobs \ {NextJob(c)}) \in SUBSET FollowUps
  BY <1>t DEF Types, Callback
<1>c. Proceed(c, "send", (callback[c].jobs \ {NextJob(c)}))
  BY DEF DeleteJob
<1>d. /\ callback' \in [Callbacks -> Callback]
      /\ \A d \in Callbacks : d # c => callback'[d] = callback[d]
      /\ callback'[c].phase = "send"
      /\ callback'[c].event = callback[c].event
      /\ callback'[c].jobs = (callback[c].jobs \ {NextJob(c)})
  BY <1>t, <1>c, <1>b, Proceeded DEF Types, CallbackPhases
<1>e. outbox' = [outbox EXCEPT ![callback[c].event] = @ \ {NextJob(c)}]
  BY DEF DeleteJob
<1>f. outbox' \in [Events -> SUBSET FollowUps]
  BY <1>t, <1>e DEF Types
<1>g. NextJob(c) \in published[callback[c].event]
  BY <1>t DEF Types, Work, CallbackWork, DeleteJob
<1>1. Types'
  BY Constants, <1>t, <1>a, <1>b, <1>c, <1>d, <1>e, <1>f, <1>g
  DEF Types, DeleteJob, TodoRow, Request, Phases, tables, provider
<1>2. Names'
  <2>1. RowNames'
    BY <1>t DEF Names, RowNames, DeleteJob, tables, provider
  <2>2. RequestNames'
    BY <1>t DEF Names, RequestNames, DeleteJob, tables
  <2> QED BY <2>1, <2>2 DEF Names
<1>3. \A d \in Callbacks : callback'[d].jobs = callback[d].jobs
                            => NextJob(d)' = NextJob(d)
  BY SameNextJob
<1>4. Work'
  <2>1. CallbackWork'
    <3> SUFFICES ASSUME NEW d \in Callbacks
                 PROVE  /\ callback'[d].event \in reported' \cup {Null}
                        /\ callback'[d].phase # "idle" => callback'[d].event \in reported'
                        /\ callback'[d].jobs # {} =>
                              /\ callback'[d].phase # "idle"
                              /\ outcomes'[callback'[d].event] > 0
                        /\ callback'[d].phase = "delete" =>
                              /\ callback'[d].jobs # {}
                              /\ NextJob(d)' \in published'[callback'[d].event]
      BY DEF CallbackWork
    <3>1. CASE d = c
      BY <1>t, <1>a, <1>b, <1>c, <1>d, <1>e, <1>f, <1>g, <1>1, <1>3, <3>1
      DEF Types, Names, RowNames, Work, CallbackWork, FailureWork, DeleteJob,
         tables, provider
    <3>2. CASE d # c
      <4>1. callback'[d] = callback[d] /\ NextJob(d)' = NextJob(d)
        BY <1>t, <1>a, <1>b, <1>c, <1>d, <1>e, <1>f, <1>g, <1>3, <3>2
        DEF Types, DeleteJob
      <4> QED
        BY <1>t, <1>a, <1>b, <1>c, <1>d, <1>e, <1>f, <1>g, <1>1, <4>1
        DEF Types, Names, RowNames, Work, CallbackWork, DeleteJob, tables, provider
    <3> QED BY <3>1, <3>2
  <2>2. FailureWork'
    BY <1>t, <1>a, <1>b, <1>c, <1>d, <1>e, <1>f, <1>g, <1>1
    DEF Types, Names, RowNames, Work, FailureWork, DeleteJob, tables, provider
  <2> QED BY <2>1, <2>2 DEF Work
<1>5. Modes'
  BY <1>t, <1>a, <1>b, <1>c, <1>d, <1>e, <1>f, <1>g, <1>1
  DEF IInv, Types, Modes, DeleteJob, Request, tables, provider
<1>6. CorrectionHasCause'
  BY DEF IInv, CorrectionHasCause, DeleteJob, tables
<1>7. FollowUpsKept'
  BY <1>t, <1>a, <1>b, <1>c, <1>d, <1>e, <1>f, <1>g, <1>1
  DEF IInv, Types, FollowUpsKept, DeleteJob, tables, provider
<1>8. StateIsInvited'
  BY DEF IInv, StateIsInvited, DeleteJob, tables
<1> QED BY <1>1, <1>2, <1>4, <1>5, <1>6, <1>7, <1>8 DEF IInv

\* The provider gets its answer.
LEMMA AnswerStep ==
  ASSUME IInv, NEW c \in Callbacks, Answer(c)
  PROVE  IInv'
<1>t. Types /\ Names /\ Work
  BY DEF IInv
<1>1. Types'
  BY Constants, <1>t
  DEF Types, Answer, Listening, TodoRow, Request, Phases, Callback, CallbackPhases,
     tables
<1>2. Names'
  <2>1. RowNames'
    BY Constants, <1>t, <1>1
    DEF Types, Names, RowNames, Answer, Listening, TodoRow, tables
  <2>2. RequestNames'
    BY <1>t DEF Names, RequestNames, Answer, tables
  <2> QED BY <2>1, <2>2 DEF Names
<1>3. \A d \in Callbacks : callback'[d].jobs = callback[d].jobs
                            => NextJob(d)' = NextJob(d)
  BY SameNextJob
<1>4. Work'
  <2>1. CallbackWork'
    <3> SUFFICES ASSUME NEW d \in Callbacks
                 PROVE  /\ callback'[d].event \in reported' \cup {Null}
                        /\ callback'[d].phase # "idle" => callback'[d].event \in reported'
                        /\ callback'[d].jobs # {} =>
                              /\ callback'[d].phase # "idle"
                              /\ outcomes'[callback'[d].event] > 0
                        /\ callback'[d].phase = "delete" =>
                              /\ callback'[d].jobs # {}
                              /\ NextJob(d)' \in published'[callback'[d].event]
      BY DEF CallbackWork
    <3>1. CASE d = c
      BY <1>t, <1>1, <1>3, <3>1
      DEF Types, Names, RowNames, Work, CallbackWork, FailureWork, Answer,
         Listening, Callback, tables
    <3>2. CASE d # c
      <4>1. callback'[d] = callback[d] /\ NextJob(d)' = NextJob(d)
        BY <1>t, <1>3, <3>2 DEF Types, Answer, Listening
      <4> QED
        BY <1>t, <1>1, <4>1
        DEF Types, Names, RowNames, Work, CallbackWork, Answer, Listening, tables
    <3> QED BY <3>1, <3>2
  <2>2. FailureWork'
    BY <1>t DEF Work, FailureWork, Answer
  <2> QED BY <2>1, <2>2 DEF Work
<1>5. Modes'
  BY DEF IInv, Modes, Answer
<1>6. CorrectionHasCause'
  BY DEF IInv, CorrectionHasCause, Answer, tables
<1>7. FollowUpsKept'
  BY DEF IInv, FollowUpsKept, Answer
<1>8. StateIsInvited'
  BY DEF IInv, StateIsInvited, Answer, tables
<1> QED BY <1>1, <1>2, <1>4, <1>5, <1>6, <1>7, <1>8 DEF IInv

\* A callback that dies leaves the outbox as it is.
LEMMA CallbackFailsStep ==
  ASSUME IInv, NEW c \in Callbacks, CallbackFails(c)
  PROVE  IInv'
<1>t. Types /\ Names /\ Work
  BY DEF IInv
<1>a. budget' \in [faults : Nat, repeats : Nat, restarts : Nat]
  BY <1>t, Counted DEF Types, CallbackFails, OneFault
<1>1. Types'
  BY Constants, <1>t, <1>a
  DEF Types, CallbackFails, OneFault, Listening, TodoRow, Request, Phases, Callback,
     CallbackPhases, tables, provider
<1>2. Names'
  <2>1. RowNames'
    BY <1>t DEF Names, RowNames, CallbackFails, tables, provider
  <2>2. RequestNames'
    BY <1>t DEF Names, RequestNames, CallbackFails, tables
  <2> QED BY <2>1, <2>2 DEF Names
<1>3. \A d \in Callbacks : callback'[d].jobs = callback[d].jobs
                            => NextJob(d)' = NextJob(d)
  BY SameNextJob
<1>4. Work'
  <2>1. CallbackWork'
    <3> SUFFICES ASSUME NEW d \in Callbacks
                 PROVE  /\ callback'[d].event \in reported' \cup {Null}
                        /\ callback'[d].phase # "idle" => callback'[d].event \in reported'
                        /\ callback'[d].jobs # {} =>
                              /\ callback'[d].phase # "idle"
                              /\ outcomes'[callback'[d].event] > 0
                        /\ callback'[d].phase = "delete" =>
                              /\ callback'[d].jobs # {}
                              /\ NextJob(d)' \in published'[callback'[d].event]
      BY DEF CallbackWork
    <3>1. CASE d = c
      BY <1>t, <1>a, <1>1, <1>3, <3>1
      DEF Types, Names, RowNames, Work, CallbackWork, FailureWork, CallbackFails,
         OneFault, Listening, Callback, tables, provider
    <3>2. CASE d # c
      <4>1. callback'[d] = callback[d] /\ NextJob(d)' = NextJob(d)
        BY <1>t, <1>a, <1>3, <3>2 DEF Types, CallbackFails, OneFault, Listening
      <4> QED
        BY <1>t, <1>a, <1>1, <4>1
        DEF Types, Names, RowNames, Work, CallbackWork, CallbackFails, OneFault,
           Listening, tables, provider
    <3> QED BY <3>1, <3>2
  <2>2. FailureWork'
    BY <1>t DEF Work, FailureWork, CallbackFails, provider
  <2> QED BY <2>1, <2>2 DEF Work
<1>5. Modes'
  BY DEF IInv, Modes, CallbackFails
<1>6. CorrectionHasCause'
  BY DEF IInv, CorrectionHasCause, CallbackFails, tables
<1>7. FollowUpsKept'
  BY DEF IInv, FollowUpsKept, CallbackFails
<1>8. StateIsInvited'
  BY DEF IInv, StateIsInvited, CallbackFails, tables
<1> QED BY <1>1, <1>2, <1>4, <1>5, <1>6, <1>7, <1>8 DEF IInv

-----------------------------------------------------------------------------
\* The invariant holds.

\* The invariant holds of the first invitation.
LEMMA InitInv == Init => IInv
<1> SUFFICES ASSUME Init PROVE IInv
  OBVIOUS
<1>1. Attempt(First, 0) \in AttemptRow
  BY Constants DEF Attempt, AttemptRow
<1>2. /\ attempt \in Seq(AttemptRow)
      /\ DOMAIN attempt = {1}
      /\ attempt[1].email = First /\ attempt[1].time = 0
  BY <1>1 DEF Init, Attempt
<1>3. Types
  BY Constants, <1>2 DEF Init, Types, TodoRow, Request, Phases, NoRequest, Callback,
     CallbackPhases, Listening
<1>4. Names
  BY <1>2 DEF Init, Names, RowNames, RequestNames, NoRequest
<1>5. Work
  BY DEF Init, Work, CallbackWork, FailureWork, Listening
<1>6. Modes /\ CorrectionHasCause /\ FollowUpsKept
  BY DEF Init, Modes, NoRequest, CorrectionHasCause, FollowUpsKept
<1>7. StateIsInvited
  BY <1>2 DEF Init, StateIsInvited
<1> QED BY <1>3, <1>4, <1>5, <1>6, <1>7 DEF IInv

\* A step that changes nothing keeps the invariant.
LEMMA StutterStep ==
  ASSUME IInv, UNCHANGED vars
  PROVE  IInv'
<1>1. \A c \in Callbacks : NextJob(c)' = NextJob(c)
  BY SameNextJob DEF vars
<1>2. Types' /\ Names' /\ Modes'
  BY DEF IInv, Types, Names, RowNames, RequestNames, Modes, vars
<1>3. Work'
  BY <1>1 DEF IInv, Work, CallbackWork, FailureWork, vars
<1>4. CorrectionHasCause' /\ FollowUpsKept' /\ StateIsInvited'
  BY DEF IInv, CorrectionHasCause, FollowUpsKept, StateIsInvited, vars
<1> QED BY <1>2, <1>3, <1>4 DEF IInv

\* Every step keeps the invariant: one lemma for each action.
LEMMA NextInv ==
  ASSUME IInv, [Next]_vars
  PROVE  IInv'
<1>1. ASSUME NEW r \in Requests, RequestStep(r)
      PROVE  IInv'
  BY <1>1, ValidateStep, CompleteStep, LoadStateStep, ReadCorrectionStep,
     IssueInTransactionStep, ApplyInTransactionStep, WriteStateStep,
     InsertAttemptStep, EnqueueMailStep, ClearCorrectionStep DEF RequestStep
<1>2. ASSUME NEW c \in Callbacks, CallbackStep(c)
      PROVE  IInv'
  BY <1>2, LeftoverStep, RecordStep, FailStep, ListJobsStep, SendJobStep,
     DeleteJobStep, AnswerStep DEF CallbackStep
<1> QED
  BY <1>1, <1>2, BeginStep, RequestFailsStep, CloseElsewhereStep, RestartStep,
     SendInvitationStep, ReportStep, ReceiveStep, CallbackFailsStep, StutterStep
  DEF Next

\* The invariant holds in every reachable state.
LEMMA Invariance == Spec => []IInv
<1>1. IInv /\ [Next]_vars => IInv'
  BY NextInv
<1> QED BY InitInv, <1>1, PTL DEF Spec

\* Every variable keeps its type, and rows, callbacks and jobs name attempts that
\* exist, however requests, callbacks and faults interleave.
THEOREM TypeCorrect == Spec => []TypeOK
<1>1. IInv => TypeOK
  <2> SUFFICES ASSUME IInv PROVE TypeOK
    OBVIOUS
  <2>1. Types /\ Names /\ Work
    BY DEF IInv
  <2>2. todo \in [status : {"open", "completed", "abandoned"}, failed : BOOLEAN,
                  correction : DOMAIN attempt \cup {Null},
                  by : Addresses \cup {Null}]
    BY <2>1 DEF Types, Names, RowNames, TodoRow
  <2>3. ASSUME NEW i \in 1 .. Len(attempt)
        PROVE  attempt[i] \in [email : Addresses, time : 0 .. clock,
                               delivery : {"none", "delivered", "failed"}]
    <3>1. attempt[i] \in AttemptRow /\ i \in DOMAIN attempt
      BY <2>1, ElementOfSeq, LenProperties DEF Types
    <3>2. attempt[i].time \in 0 .. clock
      BY <2>1, <3>1 DEF Types, Names, RowNames, AttemptRow
    <3> QED BY <3>1, <3>2 DEF AttemptRow
  <2>4. attempt \in Seq([email : Addresses, time : 0 .. clock,
                         delivery : {"none", "delivered", "failed"}])
    <3>1. Len(attempt) \in Nat /\ attempt \in [1 .. Len(attempt) -> AttemptRow]
      BY <2>1, LenProperties DEF Types
    <3>2. attempt \in [1 .. Len(attempt) ->
                          [email : Addresses, time : 0 .. clock,
                           delivery : {"none", "delivered", "failed"}]]
      BY <2>3, <3>1
    <3> QED BY <3>1, <3>2, FunctionIsSeq
  <2>5. /\ reported \subseteq {e \in Events : e.attempt \in sent}
        /\ \A c \in Callbacks : callback[c].event \in reported \cup {Null}
    BY <2>1 DEF Names, RowNames, Work, CallbackWork
  <2>6. \A e \in Events : outbox[e] \cup published[e] # {} =>
                             e \in reported /\ outcomes[e] > 0
    BY <2>1 DEF Work, FailureWork
  <2> QED
    BY <2>1, <2>2, <2>4, <2>5, <2>6 DEF TypeOK, Types, Names, RowNames
<1> QED BY <1>1, Invariance, PTL

\* A to-do in correction names the attempt that bounced and is not failed at the
\* same time, whatever callbacks, fresh links and completions came together.
THEOREM CorrectionsHaveCauses == Spec => []CorrectionHasCause
<1>1. IInv => CorrectionHasCause
  BY DEF IInv
<1> QED BY <1>1, Invariance, PTL

\* A committed failure keeps its follow-up jobs, in the queue or in the outbox,
\* through failing enqueues, dying callbacks and repeated deliveries.
THEOREM NoFollowUpIsLost == Spec => []FollowUpsKept
<1>1. IInv => FollowUpsKept
  BY DEF IInv
<1> QED BY <1>1, Invariance, PTL

\* With a queue that is part of the transaction the address in the process state
\* always has an invitation of its own.
THEOREM StatesAreInvited == Spec => []StateIsInvited
<1>1. IInv => StateIsInvited
  BY DEF IInv
<1> QED BY <1>1, Invariance, PTL

\* A completed to-do is never touched again: not by a callback, a correction or a
\* second completion that was under way when it was completed.
THEOREM CompletionsAreFinal == Spec => CompletedIsFinal
<1>1. ASSUME todo.status = "completed", [Next]_vars
      PROVE  todo' = todo
  <2>1. ASSUME NEW r \in Requests, RequestStep(r)
        PROVE  todo' = todo
    BY <1>1, <2>1 DEF RequestStep, Validate, Complete, LoadState, ReadCorrection,
       IssueInTransaction, ApplyInTransaction, WriteState, InsertAttempt, EnqueueMail,
       ClearCorrection, OpenForCorrection, tables
  <2>2. ASSUME NEW c \in Callbacks, CallbackStep(c)
        PROVE  todo' = todo
    BY <1>1, <2>2 DEF CallbackStep, Leftover, Record, Fail, CallbackTarget, Waiting,
       ListJobs, SendJob, DeleteJob, Answer, tables
  <2>3. ASSUME \/ Restart
               \/ \E how \in {"completed", "abandoned"} : CloseElsewhere(how)
        PROVE  todo' = todo
    BY <1>1, <2>3 DEF Restart, CloseElsewhere
  <2>4. ASSUME \/ \E r \in Requests :
                     \/ \E kind \in {"complete", "fresh", "correct"},
                           email \in Addresses : Begin(r, kind, email)
                     \/ RequestFails(r)
               \/ \E a \in AttemptIds : SendInvitation(a)
               \/ \E e \in Events : Report(e)
               \/ \E c \in Callbacks : (\E e \in Events : Receive(c, e))
                                          \/ CallbackFails(c)
        PROVE  todo' = todo
    BY <2>4 DEF Begin, RequestFails, SendInvitation, Report, Receive, CallbackFails,
       tables
  <2> QED BY <1>1, <2>1, <2>2, <2>3, <2>4 DEF Next, vars
<1>2. [Next]_vars => [todo.status = "completed" => todo' = todo]_vars
  BY <1>1
<1> QED BY <1>2, PTL DEF Spec, CompletedIsFinal

-----------------------------------------------------------------------------
\* Leftovers.

Single == Cardinality(Callbacks) = 1

\* Where the one webhook call is, and what the outbox still holds of its event.
CallInv ==
    /\ \A c \in Callbacks :
          /\ callback[c].phase # "idle" => callback[c].event \in unanswered
          /\ callback[c].phase \in {"apply", "answer"} =>
                outbox[callback[c].event] = {}
          /\ callback[c].phase \in {"send", "delete"} =>
                outbox[callback[c].event] \subseteq callback[c].jobs
    /\ \A e \in Events : outbox[e] # {} => e \in unanswered

\* With one callback any two are the same.
LEMMA OneCallback ==
  ASSUME Single, NEW c \in Callbacks, NEW d \in Callbacks
  PROVE  c = d
<1>1. \E x : Callbacks = {x}
  BY PublicCompletionAssumption, FS_Singleton DEF Single
<1> QED BY <1>1

\* At first no call is running and the outbox is empty.
LEMMA InitCalls == Init => CallInv
  BY DEF Init, CallInv, Listening

\* Steps that leave the calls and the outbox alone.
LEMMA OtherSteps ==
  ASSUME CallInv, callback' = callback, outbox' = outbox, unanswered \subseteq unanswered'
  PROVE  CallInv'
  BY DEF CallInv

\* A step of the call itself.
LEMMA CallSteps ==
  ASSUME IInv, Single, CallInv, NEW c \in Callbacks,
         \/ CallbackStep(c)
         \/ CallbackFails(c)
         \/ \E e \in Events : Receive(c, e)
  PROVE  CallInv'
<1>0. /\ Types /\ Names /\ Work /\ Modes
      /\ \A d \in Callbacks : d = c
      /\ callback[c] \in Callback
  BY OneCallback DEF IInv, Types
<1>1. ASSUME Leftover(c)
      PROVE  CallInv'
  <2>1. callback[c].event \in Events
    BY <1>0, <1>1 DEF Names, RowNames, Work, CallbackWork, Leftover
  <2>2. CASE outbox[callback[c].event] = {}
    <3>1. Proceed(c, "apply", {}) /\ outbox' = outbox /\ unanswered' = unanswered
      BY <1>1, <2>2 DEF Leftover, provider
    <3> QED BY <1>0, <1>1, <2>2, <3>1, Proceeded DEF Types, CallInv, CallbackPhases, Leftover
  <2>3. CASE outbox[callback[c].event] # {}
    <3>1. /\ Proceed(c, "send", outbox[callback[c].event])
          /\ outbox' = outbox /\ unanswered' = unanswered
      BY <1>1, <2>3 DEF Leftover, provider
    <3> QED BY <1>0, <1>1, <2>1, <3>1, Proceeded
            DEF Types, CallInv, CallbackPhases, Leftover
  <2> QED BY <2>2, <2>3
<1>2. ASSUME Record(c)
      PROVE  CallInv'
  <2>1. Proceed(c, "answer", {}) /\ outbox' = outbox /\ unanswered' = unanswered
    BY <1>2 DEF Record, provider
  <2> QED BY <1>0, <1>2, <2>1, Proceeded, ZenonT(60)
          DEF Types, CallInv, CallbackPhases, Record
<1>3. ASSUME Fail(c)
      PROVE  CallInv'
  <2>1. callback[c].event \in Events
    BY <1>0, <1>3 DEF Names, RowNames, Work, CallbackWork, Fail
  <2>2. CASE queueInTransaction
    <3>1. Proceed(c, "answer", {}) /\ outbox' = outbox /\ unanswered' = unanswered
      BY <1>3, <2>2 DEF Fail, FollowUp, provider
    <3> QED BY <1>0, <1>3, <2>1, <2>2, <3>1, Proceeded
            DEF Types, Modes, CallInv, CallbackPhases, Fail
  <2>3. CASE ~queueInTransaction
    <3>1. /\ Proceed(c, "list", {})
          /\ outbox' = [outbox EXCEPT ![callback[c].event] = FollowUps]
          /\ unanswered' = unanswered
      BY <1>3, <2>3 DEF Fail, FollowUp, provider
    <3> QED BY <1>0, <1>3, <2>1, <3>1, Proceeded DEF Types, CallInv, CallbackPhases, Fail
  <2> QED BY <2>2, <2>3
<1>4. ASSUME ListJobs(c)
      PROVE  CallInv'
  <2>1. callback[c].event \in Events
    BY <1>0, <1>4 DEF Names, RowNames, Work, CallbackWork, ListJobs
  <2>2. /\ Proceed(c, "send", outbox[callback[c].event])
        /\ outbox' = outbox /\ unanswered' = unanswered
    BY <1>4 DEF ListJobs, provider
  <2> QED BY <1>0, <1>4, <2>1, <2>2, Proceeded DEF Types, CallInv, CallbackPhases, ListJobs
<1>5. ASSUME SendJob(c)
      PROVE  CallInv'
  <2>1. /\ Proceed(c, "delete", callback[c].jobs)
        /\ outbox' = outbox /\ unanswered' = unanswered
    BY <1>5 DEF SendJob, provider
  <2>2. callback[c].jobs \in SUBSET FollowUps
    BY <1>0 DEF Callback
  <2> QED BY <1>0, <1>5, <2>1, <2>2, Proceeded DEF Types, CallInv, CallbackPhases, SendJob
<1>6. ASSUME DeleteJob(c)
      PROVE  CallInv'
  <2>1. callback[c].event \in Events
    BY <1>0, <1>6 DEF Names, RowNames, Work, CallbackWork, DeleteJob
  <2>2. /\ Proceed(c, "send", callback[c].jobs \ {NextJob(c)})
        /\ outbox' = [outbox EXCEPT ![callback[c].event] = @ \ {NextJob(c)}]
        /\ unanswered' = unanswered
    BY <1>6 DEF DeleteJob, provider
  <2>3. callback[c].jobs \ {NextJob(c)} \in SUBSET FollowUps
    BY <1>0 DEF Callback
  <2>4. /\ callback'[c].phase = "send"
        /\ callback'[c].event = callback[c].event
        /\ callback'[c].jobs = callback[c].jobs \ {NextJob(c)}
    BY <1>0, <2>2, <2>3, Proceeded DEF Types, CallbackPhases
  <2>5. /\ outbox'[callback[c].event] = outbox[callback[c].event] \ {NextJob(c)}
        /\ \A e \in Events : outbox'[e] \subseteq outbox[e]
    BY <1>0, <2>1, <2>2 DEF Types
  <2> QED BY <1>0, <1>6, <2>1, <2>2, <2>4, <2>5 DEF CallInv, DeleteJob
<1>7. ASSUME Answer(c)
      PROVE  CallInv'
  <2>1. callback'[c].phase = "idle"
    BY <1>0, <1>7 DEF Types, Answer, Listening
  <2>2. outbox[callback[c].event] = {}
    BY <1>0, <1>7 DEF CallInv, Answer
  <2>3. outbox' = outbox /\ unanswered' = unanswered \ {callback[c].event}
    BY <1>7 DEF Answer
  <2> QED BY <1>0, <2>1, <2>2, <2>3 DEF CallInv
<1>8. ASSUME CallbackFails(c)
      PROVE  CallInv'
  <2>1. callback'[c].phase = "idle"
    BY <1>0, <1>8 DEF Types, CallbackFails, Listening
  <2>2. outbox' = outbox /\ unanswered' = unanswered
    BY <1>8 DEF CallbackFails, provider
  <2> QED BY <1>0, <2>1, <2>2 DEF CallInv
<1>9. ASSUME NEW e \in Events, Receive(c, e)
      PROVE  CallInv'
  <2>1. /\ callback'[c].phase \in {"apply", "leftover"}
        /\ callback'[c].event = e
        /\ callback'[c].phase = "apply" => e.kind = "delivered" \/ queueInTransaction
    BY <1>0, <1>9 DEF Types, Receive
  <2>2. outbox' = outbox /\ unanswered' = unanswered \cup {e}
    BY <1>9 DEF Receive
  <2>3. e.kind = "delivered" \/ queueInTransaction => outbox[e] = {}
    BY <1>0 DEF Work, FailureWork, Modes
  <2> QED BY <1>0, <2>1, <2>2, <2>3 DEF CallInv
<1> QED BY <1>1, <1>2, <1>3, <1>4, <1>5, <1>6, <1>7, <1>8, <1>9 DEF CallbackStep

\* Jobs a call has left in the outbox are sent by a repetition: as long as there
\* are some the provider has no answer, if its calls do not overlap.
THEOREM LeftoversComeBack == Spec => []LeftoversAreRepeated
<1>1. ASSUME IInv, Single => CallInv, [Next]_vars
      PROVE  (Single => CallInv)'
  <2> SUFFICES ASSUME Single, CallInv PROVE CallInv'
    BY <1>1 DEF Single
  <2>1. ASSUME NEW r \in Requests, RequestStep(r)
        PROVE  CallInv'
    BY <2>1, OtherSteps DEF RequestStep, Validate, Complete, LoadState, ReadCorrection,
       IssueInTransaction, ApplyInTransaction, WriteState, InsertAttempt, EnqueueMail,
       ClearCorrection, provider, webhook
  <2>2. ASSUME \/ \E r \in Requests :
                     \/ \E kind \in {"complete", "fresh", "correct"},
                           email \in Addresses : Begin(r, kind, email)
                     \/ RequestFails(r)
               \/ Restart
               \/ \E how \in {"completed", "abandoned"} : CloseElsewhere(how)
               \/ UNCHANGED vars
        PROVE  CallInv'
    BY <2>2, OtherSteps DEF Begin, RequestFails, Restart, CloseElsewhere, provider,
       webhook, vars
  <2>3. ASSUME \/ \E a \in AttemptIds : SendInvitation(a)
               \/ \E e \in Events : Report(e)
        PROVE  CallInv'
    BY <2>3, OtherSteps DEF SendInvitation, Report, webhook
  <2>4. ASSUME NEW c \in Callbacks,
               \/ CallbackStep(c)
               \/ CallbackFails(c)
               \/ \E e \in Events : Receive(c, e)
        PROVE  CallInv'
    BY <1>1, <2>4, CallSteps
  <2> QED BY <1>1, <2>1, <2>2, <2>3, <2>4 DEF Next
<1>2. (Single => CallInv) => LeftoversAreRepeated
  BY DEF CallInv, LeftoversAreRepeated, Single
<1>3. Init => (Single => CallInv)
  BY InitCalls
<1> QED BY <1>1, <1>2, <1>3, Invariance, PTL DEF Spec

-----------------------------------------------------------------------------
\* Times and the latest attempt.

\* A request in one of these phases has not inserted an attempt yet.
Unused == {"begun", "load", "complete", "apply", "issue"}

\* One attempt is the latest; no time is used twice.
FreshTimes ==
    /\ \E a \in DOMAIN attempt :
          \A b \in DOMAIN attempt : attempt[b].time <= attempt[a].time
    /\ \A a, b \in DOMAIN attempt : attempt[a].time = attempt[b].time => a = b
    /\ \A r \in Requests : request[r].phase \in Unused =>
          \A a \in DOMAIN attempt : attempt[a].time # request[r].time
    /\ \A q, r \in Requests :
          /\ request[q].phase \in Unused /\ request[r].phase \in Unused
          /\ request[q].time = request[r].time
          => q = r

\* An event that may be applied once more has been applied once less.
AppliedInv ==
    queueInTransaction =>
        \A e \in Events :
            /\ outcomes[e] <= 1 + budget.restarts + Cardinality(Overtaken(e.attempt))
            /\ Waiting /\ e.attempt = Latest =>
                  outcomes[e] <= budget.restarts + Cardinality(Overtaken(e.attempt))

SameRows ==
    /\ DOMAIN attempt' = DOMAIN attempt
    /\ \A a \in DOMAIN attempt : attempt'[a].time = attempt[a].time

\* Creation times are natural numbers.
LEMMA TimesAreNumbers ==
  ASSUME Types
  PROVE  /\ \A a \in DOMAIN attempt : a \in Nat /\ attempt[a].time \in Nat
         /\ \A r \in Requests : request[r].time \in Nat
         /\ IsFiniteSet(DOMAIN attempt)
<1>1. /\ Len(attempt) \in Nat
      /\ DOMAIN attempt = 1 .. Len(attempt)
      /\ \A a \in DOMAIN attempt : attempt[a] \in AttemptRow
  BY LenProperties, ElementOfSeq DEF Types
<1>2. IsFiniteSet(1 .. Len(attempt))
  BY <1>1, FS_Interval
<1> QED BY <1>1, <1>2 DEF Types, AttemptRow, Request

\* The latest attempt is a row, and no row is later.
LEMMA LatestIs ==
  ASSUME FreshTimes, Types
  PROVE  /\ Latest \in DOMAIN attempt
         /\ \A b \in DOMAIN attempt : attempt[b].time <= attempt[Latest].time
  BY DEF FreshTimes, Latest

\* The same of the next state.
LEMMA LatestIsNext ==
  ASSUME FreshTimes', Types'
  PROVE  /\ Latest' \in DOMAIN attempt'
         /\ \A b \in DOMAIN attempt' : attempt'[b].time <= attempt'[Latest'].time
  BY DEF FreshTimes, Latest

\* The overtaken attempts can be counted.
LEMMA OvertakenIsFinite ==
  ASSUME Types, NEW a
  PROVE  IsFiniteSet(Overtaken(a)) /\ Cardinality(Overtaken(a)) \in Nat
<1>1. Overtaken(a) \in SUBSET DOMAIN attempt
  BY DEF Overtaken
<1>2. IsFiniteSet(DOMAIN attempt)
  BY TimesAreNumbers
<1>3. IsFiniteSet(Overtaken(a))
  BY <1>1, <1>2, FS_Subset
<1> QED BY <1>3, FS_CardinalityType

\* Creation times of the next state are natural numbers.
LEMMA TimesAreNumbersNext ==
  ASSUME Types'
  PROVE  /\ \A a \in DOMAIN attempt' : a \in Nat /\ attempt'[a].time \in Nat
         /\ IsFiniteSet(DOMAIN attempt')
<1>1. /\ Len(attempt') \in Nat
      /\ DOMAIN attempt' = 1 .. Len(attempt')
      /\ \A a \in DOMAIN attempt' : attempt'[a] \in AttemptRow
  BY LenProperties, ElementOfSeq DEF Types
<1>2. IsFiniteSet(1 .. Len(attempt'))
  BY <1>1, FS_Interval
<1> QED BY <1>1, <1>2 DEF AttemptRow

\* The overtaken attempts of the next state can be counted.
LEMMA OvertakenIsFiniteNext ==
  ASSUME Types', NEW a
  PROVE  IsFiniteSet(Overtaken(a)') /\ Cardinality(Overtaken(a)') \in Nat
<1>1. Overtaken(a)' \in SUBSET DOMAIN attempt'
  BY DEF Overtaken
<1>2. IsFiniteSet(DOMAIN attempt')
  BY TimesAreNumbersNext
<1>3. IsFiniteSet(Overtaken(a)')
  BY <1>1, <1>2, FS_Subset
<1> QED BY <1>3, FS_CardinalityType

\* Steps that insert nothing and begin nothing.
LEMMA TimesKept ==
  ASSUME FreshTimes, SameRows,
         \A r \in Requests : request'[r].phase \in Unused =>
            request[r].phase \in Unused /\ request'[r].time = request[r].time
  PROVE  FreshTimes'
  BY DEF FreshTimes, SameRows

\* What is inserted carries the unused time of its request.
LEMMA TimesInsert ==
  ASSUME Types, FreshTimes, NEW r \in Requests, request[r].phase \in Unused,
         request[r].email \in Addresses, Insert(r), request'[r].phase \notin Unused,
         \A q \in Requests : q # r => request'[q] = request[q]
  PROVE  FreshTimes'
<1>1. /\ Len(attempt) \in Nat
      /\ DOMAIN attempt = 1 .. Len(attempt)
      /\ DOMAIN attempt' = 1 .. Len(attempt) + 1
      /\ \A a \in DOMAIN attempt : attempt'[a] = attempt[a]
      /\ attempt'[Len(attempt) + 1].time = request[r].time
  BY Inserted DEF Types
<1>2. DOMAIN attempt' = DOMAIN attempt \cup {Len(attempt) + 1}
  BY <1>1
<1>3. PICK m \in DOMAIN attempt :
         \A b \in DOMAIN attempt : attempt[b].time <= attempt[m].time
  BY DEF FreshTimes
<1>4. \E a \in DOMAIN attempt' :
         \A b \in DOMAIN attempt' : attempt'[b].time <= attempt'[a].time
  <2>1. request[r].time \in Nat /\ attempt[m].time \in Nat
        /\ \A b \in DOMAIN attempt : attempt[b].time \in Nat
    BY TimesAreNumbers
  <2>2. CASE request[r].time <= attempt[m].time
    BY <1>1, <1>2, <1>3, <2>1, <2>2
  <2>3. CASE ~(request[r].time <= attempt[m].time)
    <3>1. \A b \in DOMAIN attempt' : attempt'[b].time <= attempt'[Len(attempt) + 1].time
      BY <1>1, <1>2, <1>3, <2>1, <2>3
    <3> QED BY <1>2, <3>1
  <2> QED BY <2>2, <2>3
<1>5. \A a, b \in DOMAIN attempt' : attempt'[a].time = attempt'[b].time => a = b
  BY <1>1, <1>2 DEF FreshTimes
<1>6. ASSUME NEW q \in Requests, request'[q].phase \in Unused
      PROVE  \A a \in DOMAIN attempt' : attempt'[a].time # request'[q].time
  <2>1. q # r /\ request'[q] = request[q]
    BY <1>6
  <2>2. request[q].time # request[r].time
    BY <1>6, <2>1 DEF FreshTimes
  <2> QED BY <1>1, <1>2, <1>6, <2>1, <2>2 DEF FreshTimes
<1>7. \A q, s \in Requests :
         /\ request'[q].phase \in Unused /\ request'[s].phase \in Unused
         /\ request'[q].time = request'[s].time
         => q = s
  BY DEF FreshTimes
<1> QED BY <1>4, <1>5, <1>6, <1>7 DEF FreshTimes

\* A call takes a time nobody had before.
LEMMA TimesBegin ==
  ASSUME Types, Names, FreshTimes, NEW r \in Requests,
         NEW kind \in {"complete", "fresh", "correct"}, NEW email \in Addresses,
         Begin(r, kind, email)
  PROVE  FreshTimes'
<1>1. /\ request'[r].time = clock + 1
      /\ \A q \in Requests : q # r => request'[q] = request[q]
      /\ attempt' = attempt
  BY DEF Types, Begin, Fresh, tables
<1>2. \A a \in DOMAIN attempt : attempt[a].time \in Nat /\ attempt[a].time <= clock
  BY TimesAreNumbers DEF Names, RowNames
<1>3. \A q \in Requests : request[q].phase \in Unused =>
                             request[q].time \in Nat /\ request[q].time <= clock
  BY TimesAreNumbers DEF Names, RequestNames, Unused
<1>4. clock \in Nat
  BY DEF Types
<1>5. \A q \in Requests : request'[q].phase \in Unused =>
         \A a \in DOMAIN attempt' : attempt'[a].time # request'[q].time
  BY <1>1, <1>2, <1>4 DEF FreshTimes
<1>6. \A q, s \in Requests :
         /\ request'[q].phase \in Unused /\ request'[s].phase \in Unused
         /\ request'[q].time = request'[s].time
         => q = s
  BY <1>1, <1>3, <1>4 DEF FreshTimes
<1> QED BY <1>1, <1>5, <1>6 DEF FreshTimes

\* At first the only time is that of the first attempt.
LEMMA InitTimes == Init => FreshTimes /\ AppliedInv
<1> SUFFICES ASSUME Init PROVE FreshTimes /\ AppliedInv
  OBVIOUS
<1>1. IInv
  BY InitInv
<1>2. DOMAIN attempt = {1}
  BY DEF Init
<1>3. attempt[1].time <= attempt[1].time
  BY <1>1, <1>2, TimesAreNumbers DEF IInv
<1>4. FreshTimes
  BY <1>2, <1>3 DEF Init, FreshTimes, NoRequest, Unused
<1>5. \A e \in Events : outcomes[e] = 0 /\ budget.restarts = 0
  BY DEF Init
<1>6. \A a : Cardinality(Overtaken(a)) \in Nat
  BY <1>1, OvertakenIsFinite DEF IInv
<1> QED BY <1>4, <1>5, <1>6 DEF AppliedInv

\* A request moves on without inserting anything.
LEMMA MovedTimes ==
  ASSUME Types, FreshTimes, NEW r \in Requests, request[r].phase \in Unused,
         NEW phase \in Phases, Goto(r, phase), SameRows
  PROVE  FreshTimes'
<1>1. /\ request'[r].time = request[r].time
      /\ \A q \in Requests : q # r => request'[q] = request[q]
  BY Moved DEF Types
<1> QED BY <1>1, TimesKept

\* Every step keeps the times apart.
LEMMA NextTimes ==
  ASSUME IInv, FreshTimes, [Next]_vars
  PROVE  FreshTimes'
<1>0. Types /\ Names
  BY DEF IInv
<1>1. ASSUME NEW r \in Requests, RequestStep(r)
      PROVE  FreshTimes'
  <2>1. CASE IssueInTransaction(r) \/ (ApplyInTransaction(r) /\ OpenForCorrection)
    <3>1. request[r].phase \in Unused /\ Insert(r) /\ Goto(r, "done")
      BY <2>1 DEF IssueInTransaction, ApplyInTransaction, Unused, End, Goto
    <3>2. request[r].email \in Addresses
      BY <1>0, <3>1 DEF Names, RequestNames, Unused
    <3>3. /\ request'[r].phase = "done"
          /\ \A q \in Requests : q # r => request'[q] = request[q]
      <4>1. {"done"} \in SUBSET Phases /\ \E phase \in {"done"} : Goto(r, phase)
        BY <3>1 DEF Phases
      <4> QED BY <1>0, <4>1, Moved DEF Types
    <3> QED BY <1>0, <3>1, <3>2, <3>3, TimesInsert DEF Unused
  <2>2. CASE InsertAttempt(r)
    <3>1. request[r].phase \in Unused /\ Insert(r)
      BY <2>2 DEF InsertAttempt, Unused
    <3>2. request[r].email \in Addresses
      BY <1>0, <3>1 DEF Names, RequestNames, Unused
    <3>3. /\ request'[r].phase = "mail"
          /\ \A q \in Requests : q # r => request'[q] = request[q]
      BY <1>0, <2>2 DEF Types, InsertAttempt, Request
    <3> QED BY <1>0, <3>1, <3>2, <3>3, TimesInsert DEF Unused
  <2>3. CASE LoadState(r)
    <3>1. /\ request[r].phase \in Unused
          /\ request'[r].time = request[r].time
          /\ \A q \in Requests : q # r => request'[q] = request[q]
      BY <1>0, <2>3 DEF Types, LoadState, Request, Unused
    <3>2. SameRows
      BY <2>3 DEF LoadState, SameRows, tables
    <3> QED BY <3>1, <3>2, TimesKept
  <2>4. CASE \/ Validate(r) \/ Complete(r) \/ ReadCorrection(r) \/ WriteState(r)
             \/ (ApplyInTransaction(r) /\ ~OpenForCorrection)
    <3>1. /\ request[r].phase \in Unused
          /\ \E phase \in Phases : Goto(r, phase)
      BY <2>4 DEF Validate, Complete, ReadCorrection, WriteState, ApplyInTransaction,
         End, Goto, Unused, Phases
    <3>2. SameRows
      BY <2>4 DEF Validate, Complete, ReadCorrection, WriteState, ApplyInTransaction,
         SameRows, tables
    <3> QED BY <1>0, <3>1, <3>2, MovedTimes
  <2>5. CASE EnqueueMail(r) \/ ClearCorrection(r)
    <3>1. \E phase \in {"clear", "done"} : Goto(r, phase)
      BY <2>5 DEF EnqueueMail, ClearCorrection, End, Goto
    <3>2. /\ request'[r].phase \in {"clear", "done"}
          /\ \A q \in Requests : q # r => request'[q] = request[q]
      <4>1. {"clear", "done"} \in SUBSET Phases
        BY DEF Phases
      <4> QED BY <1>0, <3>1, <4>1, Moved DEF Types
    <3>3. SameRows
      BY <2>5 DEF EnqueueMail, ClearCorrection, SameRows
    <3> QED BY <3>2, <3>3, TimesKept DEF Unused
  <2> QED BY <1>1, <2>1, <2>2, <2>3, <2>4, <2>5 DEF RequestStep
<1>2. ASSUME NEW r \in Requests, RequestFails(r)
      PROVE  FreshTimes'
  <2>1. Goto(r, "done") /\ SameRows
    BY <1>2 DEF RequestFails, End, Goto, SameRows, tables
  <2>2. /\ request'[r].phase = "done"
        /\ \A q \in Requests : q # r => request'[q] = request[q]
    <3>1. {"done"} \in SUBSET Phases /\ \E phase \in {"done"} : Goto(r, phase)
      BY <2>1 DEF Phases
    <3> QED BY <1>0, <3>1, Moved DEF Types
  <2> QED BY <2>1, <2>2, TimesKept DEF Unused
<1>3. ASSUME NEW c \in Callbacks, Fail(c) \/ Record(c)
      PROVE  FreshTimes'
  <2>1. callback[c].event.attempt \in DOMAIN attempt
    BY <1>3 DEF IInv, Names, RowNames, Work, CallbackWork, Fail, Record
  <2>2. SameRows
    <3>1. CASE attempt' = attempt
      BY <3>1 DEF SameRows
    <3>2. CASE attempt' # attempt
      <4>1. \E result \in {"delivered", "failed"} :
               attempt' = [attempt EXCEPT ![callback[c].event.attempt].delivery = result]
        BY <1>3, <3>2 DEF Fail, Record
      <4> QED BY <1>0, <2>1, <4>1, Delivered DEF Types, SameRows
    <3> QED BY <3>1, <3>2
  <2>3. request' = request
    BY <1>3 DEF Fail, Record
  <2> QED BY <2>2, <2>3, TimesKept
<1>4. ASSUME SameRows, request' = request
      PROVE  FreshTimes'
  BY <1>4, TimesKept
<1>5. ASSUME NEW c \in Callbacks, CallbackStep(c)
      PROVE  FreshTimes'
  <2>1. CASE Fail(c) \/ Record(c)
    BY <1>3, <2>1
  <2>2. CASE ~(Fail(c) \/ Record(c))
    BY <1>4, <1>5, <2>2 DEF CallbackStep, Leftover, ListJobs, SendJob, DeleteJob, Answer,
       SameRows, tables
  <2> QED BY <2>1, <2>2
<1>6. ASSUME \/ Restart
             \/ \E how \in {"completed", "abandoned"} : CloseElsewhere(how)
             \/ \E a \in AttemptIds : SendInvitation(a)
             \/ \E e \in Events : Report(e)
             \/ \E c \in Callbacks : (\E e \in Events : Receive(c, e)) \/ CallbackFails(c)
             \/ UNCHANGED vars
      PROVE  FreshTimes'
  BY <1>4, <1>6 DEF Restart, CloseElsewhere, SendInvitation, Report, Receive,
     CallbackFails, SameRows, tables, vars
<1>7. ASSUME \E r \in Requests, kind \in {"complete", "fresh", "correct"},
                email \in Addresses : Begin(r, kind, email)
      PROVE  FreshTimes'
  BY <1>0, <1>7, TimesBegin
<1> QED BY <1>1, <1>2, <1>5, <1>6, <1>7 DEF Next


-----------------------------------------------------------------------------
\* How often an event is applied.

\* Steps that apply nothing, and make a to-do wait again only by a restart.
LEMMA BoundKept ==
  ASSUME IInv, IInv', FreshTimes, FreshTimes', AppliedInv, SameRows,
         queueInTransaction' = queueInTransaction, outcomes' = outcomes,
         budget'.restarts >= budget.restarts,
         Waiting' => Waiting \/ budget'.restarts >= budget.restarts + 1
  PROVE  AppliedInv'
<1>0. Types /\ Types' /\ Names /\ Work
  BY DEF IInv
<1> SUFFICES ASSUME queueInTransaction, NEW e \in Events
             PROVE  /\ outcomes'[e] <= 1 + budget'.restarts
                                          + Cardinality(Overtaken(e.attempt)')
                    /\ Waiting' /\ e.attempt = Latest' =>
                          outcomes'[e] <= budget'.restarts
                                             + Cardinality(Overtaken(e.attempt)')
  BY DEF AppliedInv
<1>1. /\ budget.restarts \in Nat /\ budget'.restarts \in Nat
      /\ outcomes[e] \in Nat
      /\ Cardinality(Overtaken(e.attempt)) \in Nat
      /\ Cardinality(Overtaken(e.attempt)') \in Nat
  BY <1>0, OvertakenIsFinite, OvertakenIsFiniteNext DEF Types
<1>2. CASE e.attempt \notin DOMAIN attempt
  <2>1. outcomes[e] = 0
    BY <1>0, <1>1, <1>2 DEF Work, FailureWork, Names, RowNames
  <2> QED BY <1>1, <2>1
<1>3. CASE e.attempt \in DOMAIN attempt
  <2>1. Overtaken(e.attempt)' = Overtaken(e.attempt)
    BY <1>3 DEF Overtaken, SameRows
  <2>2. Latest' = Latest
    <3>1. /\ Latest \in DOMAIN attempt /\ Latest' \in DOMAIN attempt
          /\ attempt[Latest'].time <= attempt[Latest].time
          /\ attempt[Latest].time <= attempt[Latest'].time
      BY <1>0, LatestIs, LatestIsNext DEF SameRows
    <3>2. attempt[Latest'].time = attempt[Latest].time
      BY <1>0, <3>1, TimesAreNumbers
    <3> QED BY <3>1, <3>2 DEF FreshTimes
  <2>3. /\ outcomes[e] <= 1 + budget.restarts + Cardinality(Overtaken(e.attempt))
        /\ Waiting /\ e.attempt = Latest =>
              outcomes[e] <= budget.restarts + Cardinality(Overtaken(e.attempt))
    BY DEF AppliedInv
  <2> QED BY <1>1, <2>1, <2>2, <2>3
<1> QED BY <1>2, <1>3

\* A failure is applied to the latest attempt of a to-do that waited.
LEMMA BoundFail ==
  ASSUME IInv, IInv', FreshTimes, AppliedInv, SameRows, NEW c \in Callbacks, Fail(c)
  PROVE  AppliedInv'
<1>0. Types /\ Types' /\ Names /\ Work
  BY DEF IInv
<1> DEFINE ev == callback[c].event
<1>1. /\ ev \in Events /\ ev.attempt = Latest /\ Waiting
      /\ outcomes' = [outcomes EXCEPT ![ev] = @ + 1]
      /\ budget' = budget /\ queueInTransaction' = queueInTransaction
      /\ ev.attempt \in DOMAIN attempt
  BY <1>0 DEF Names, RowNames, Work, CallbackWork, Fail, CallbackTarget
<1>2. ~Waiting'
  <2>1. ev.attempt \in Nat
    BY <1>0, <1>1, TimesAreNumbers
  <2> QED BY <1>0, <2>1, Constants DEF Types, TodoRow, Fail, Waiting
<1> SUFFICES ASSUME queueInTransaction, NEW e \in Events
             PROVE  outcomes'[e] <= 1 + budget'.restarts
                                       + Cardinality(Overtaken(e.attempt)')
  BY <1>1, <1>2 DEF AppliedInv
<1> HIDE DEF ev
<1>3. /\ budget.restarts \in Nat /\ outcomes[e] \in Nat
      /\ Cardinality(Overtaken(e.attempt)) \in Nat
      /\ Cardinality(Overtaken(e.attempt)') \in Nat
  BY <1>0, OvertakenIsFinite, OvertakenIsFiniteNext DEF Types
<1>4. CASE e.attempt \notin DOMAIN attempt
  <2>1. outcomes[e] = 0 /\ e # ev
    BY <1>0, <1>1, <1>3, <1>4 DEF Work, FailureWork, Names, RowNames
  <2>2. outcomes'[e] = outcomes[e]
    BY <1>0, <1>1, <2>1 DEF Types
  <2> QED BY <1>1, <1>3, <2>1, <2>2
<1>5. CASE e.attempt \in DOMAIN attempt
  <2>1. Overtaken(e.attempt)' = Overtaken(e.attempt)
    BY <1>5 DEF Overtaken, SameRows
  <2>2. CASE e = ev
    <3>1. outcomes[e] <= budget.restarts + Cardinality(Overtaken(e.attempt))
      BY <1>1, <2>2 DEF AppliedInv
    <3>2. outcomes'[e] = outcomes[e] + 1
      BY <1>0, <1>1, <2>2 DEF Types
    <3> QED BY <1>1, <1>3, <2>1, <3>1, <3>2
  <2>3. CASE e # ev
    <3>1. outcomes[e] <= 1 + budget.restarts + Cardinality(Overtaken(e.attempt))
      BY DEF AppliedInv
    <3>2. outcomes'[e] = outcomes[e]
      BY <1>0, <1>1, <2>3 DEF Types
    <3> QED BY <1>1, <1>3, <2>1, <3>1, <3>2
  <2> QED BY <2>2, <2>3
<1> QED BY <1>4, <1>5

\* An attempt is inserted: it is the latest, or the latest one is overtaken by it.
LEMMA BoundInsert ==
  ASSUME IInv, IInv', FreshTimes, FreshTimes', AppliedInv,
         NEW r \in Requests, request[r].phase \in Unused, Insert(r),
         queueInTransaction' = queueInTransaction, outcomes' = outcomes,
         budget' = budget
  PROVE  AppliedInv'
<1>0. Types /\ Types' /\ Names /\ Work /\ request[r].email \in Addresses
  BY DEF IInv, Names, RequestNames, Unused
<1> DEFINE n == Len(attempt) + 1
<1>1. /\ DOMAIN attempt' = DOMAIN attempt \cup {n}
      /\ n \notin DOMAIN attempt
      /\ \A a \in DOMAIN attempt : attempt'[a] = attempt[a]
      /\ \A a \in DOMAIN attempt : a < n
  <2>1. /\ Len(attempt) \in Nat
        /\ DOMAIN attempt = 1 .. Len(attempt)
        /\ DOMAIN attempt' = 1 .. Len(attempt) + 1
        /\ \A a \in DOMAIN attempt : attempt'[a] = attempt[a]
    BY <1>0, Inserted DEF Types
  <2> QED BY <2>1
<1> HIDE DEF n
<1> SUFFICES ASSUME queueInTransaction, NEW e \in Events
             PROVE  /\ outcomes'[e] <= 1 + budget'.restarts
                                          + Cardinality(Overtaken(e.attempt)')
                    /\ Waiting' /\ e.attempt = Latest' =>
                          outcomes'[e] <= budget'.restarts
                                             + Cardinality(Overtaken(e.attempt)')
  BY DEF AppliedInv
<1>2. /\ budget.restarts \in Nat /\ outcomes[e] \in Nat
      /\ IsFiniteSet(Overtaken(e.attempt))
      /\ Cardinality(Overtaken(e.attempt)) \in Nat
      /\ IsFiniteSet(Overtaken(e.attempt)')
      /\ Cardinality(Overtaken(e.attempt)') \in Nat
  BY <1>0, OvertakenIsFinite, OvertakenIsFiniteNext DEF Types
<1>3. CASE e.attempt \notin DOMAIN attempt
  <2>1. outcomes[e] = 0
    BY <1>0, <1>2, <1>3 DEF Work, FailureWork, Names, RowNames
  <2> QED BY <1>2, <2>1
<1>4. CASE e.attempt \in DOMAIN attempt
  <2>1. outcomes[e] <= 1 + budget.restarts + Cardinality(Overtaken(e.attempt))
    BY DEF AppliedInv
  <2>2. Overtaken(e.attempt) \in SUBSET Overtaken(e.attempt)'
    BY <1>1, <1>4 DEF Overtaken
  <2>3. Cardinality(Overtaken(e.attempt)) <= Cardinality(Overtaken(e.attempt)')
    BY <1>2, <2>2, FS_Subset
  <2>4. ASSUME e.attempt = Latest'
        PROVE  Cardinality(Overtaken(e.attempt)')
                  >= Cardinality(Overtaken(e.attempt)) + 1
    <3>1. /\ n \in DOMAIN attempt'
          /\ attempt'[n].time <= attempt'[e.attempt].time
          /\ attempt'[n].time # attempt'[e.attempt].time
      BY <1>0, <1>1, <1>4, <2>4, LatestIsNext DEF FreshTimes
    <3>2. attempt'[n].time < attempt'[e.attempt].time
      BY <1>0, <1>1, <1>4, <3>1, TimesAreNumbersNext
    <3>3. /\ n \in Overtaken(e.attempt)'
          /\ n \notin Overtaken(e.attempt)
      BY <1>1, <1>4, <3>1, <3>2 DEF Overtaken
    <3>4. Overtaken(e.attempt) \cup {n} \in SUBSET Overtaken(e.attempt)'
      BY <2>2, <3>3
    <3>5. /\ IsFiniteSet(Overtaken(e.attempt) \cup {n})
          /\ Cardinality(Overtaken(e.attempt) \cup {n})
                = Cardinality(Overtaken(e.attempt)) + 1
      BY <1>2, <3>3, FS_AddElement
    <3>6. Cardinality(Overtaken(e.attempt) \cup {n})
             <= Cardinality(Overtaken(e.attempt)')
      BY <1>2, <3>4, FS_Subset
    <3> QED BY <1>2, <3>5, <3>6
  <2> QED BY <1>2, <2>1, <2>3, <2>4
<1> QED BY <1>3, <1>4

\* Every step keeps the count of applied events right.
LEMMA NextApplied ==
  ASSUME IInv, IInv', FreshTimes, FreshTimes', AppliedInv, [Next]_vars
  PROVE  AppliedInv'
<1>0. Types /\ Names /\ Modes /\ budget.restarts \in Nat
  BY DEF IInv, Types
<1>1. ASSUME SameRows, queueInTransaction' = queueInTransaction, outcomes' = outcomes,
             budget'.restarts = budget.restarts, Waiting' => Waiting
      PROVE  AppliedInv'
  BY <1>0, <1>1, BoundKept
<1>2. ASSUME NEW r \in Requests, RequestStep(r)
      PROVE  AppliedInv'
  <2>1. CASE IssueInTransaction(r) \/ (ApplyInTransaction(r) /\ OpenForCorrection)
    <3>1. /\ request[r].phase \in Unused /\ Insert(r)
          /\ queueInTransaction' = queueInTransaction /\ outcomes' = outcomes
          /\ budget' = budget
      BY <2>1 DEF IssueInTransaction, ApplyInTransaction, Unused, webhook
    <3> QED BY <3>1, BoundInsert
  <2>2. CASE WriteState(r) \/ InsertAttempt(r) \/ EnqueueMail(r) \/ ClearCorrection(r)
    <3>1. ~queueInTransaction /\ queueInTransaction' = queueInTransaction
      BY <1>0, <2>2 DEF Modes, WriteState, InsertAttempt, EnqueueMail, ClearCorrection
    <3> QED BY <3>1 DEF AppliedInv
  <2>3. CASE \/ Validate(r) \/ Complete(r) \/ LoadState(r) \/ ReadCorrection(r)
             \/ (ApplyInTransaction(r) /\ ~OpenForCorrection)
    <3>1. /\ SameRows /\ queueInTransaction' = queueInTransaction
          /\ outcomes' = outcomes /\ budget' = budget
          /\ Waiting' => Waiting
      BY <2>3 DEF Validate, Complete, LoadState, ReadCorrection, ApplyInTransaction,
         SameRows, Waiting, tables, webhook
    <3> QED BY <1>1, <3>1
  <2> QED BY <1>2, <2>1, <2>2, <2>3 DEF RequestStep
<1>3. ASSUME NEW c \in Callbacks, Fail(c) \/ Record(c)
      PROVE  SameRows
  <2>1. callback[c].event.attempt \in DOMAIN attempt
    BY <1>3 DEF IInv, Names, RowNames, Work, CallbackWork, Fail, Record
  <2>2. CASE attempt' = attempt
    BY <2>2 DEF SameRows
  <2>3. CASE attempt' # attempt
    <3>1. \E result \in {"delivered", "failed"} :
             attempt' = [attempt EXCEPT ![callback[c].event.attempt].delivery = result]
      BY <1>3, <2>3 DEF Fail, Record
    <3> QED BY <1>0, <2>1, <3>1, Delivered DEF Types, SameRows
  <2> QED BY <2>2, <2>3
<1>4. ASSUME NEW c \in Callbacks, CallbackStep(c)
      PROVE  AppliedInv'
  <2>1. CASE Fail(c)
    BY <1>3, <2>1, BoundFail
  <2>2. CASE Record(c)
    <3>1. /\ queueInTransaction' = queueInTransaction /\ outcomes' = outcomes
          /\ budget' = budget
          /\ Waiting' => Waiting
      BY <2>2 DEF Record, Waiting
    <3> QED BY <1>1, <1>3, <2>2, <3>1
  <2>3. CASE Leftover(c) \/ ListJobs(c) \/ SendJob(c) \/ DeleteJob(c) \/ Answer(c)
    <3>1. /\ SameRows /\ queueInTransaction' = queueInTransaction
          /\ outcomes' = outcomes /\ budget' = budget
          /\ Waiting' => Waiting
      BY <2>3 DEF Leftover, ListJobs, SendJob, DeleteJob, Answer, SameRows, Waiting, tables
    <3> QED BY <1>1, <3>1
  <2> QED BY <1>4, <2>1, <2>2, <2>3 DEF CallbackStep
<1>5. ASSUME Restart
      PROVE  AppliedInv'
  <2>1. /\ SameRows /\ queueInTransaction' = queueInTransaction /\ outcomes' = outcomes
        /\ budget'.restarts = budget.restarts + 1
    BY <1>0, <1>5 DEF Types, Restart, SameRows, webhook
  <2> QED BY <1>0, <2>1, BoundKept
<1>6. ASSUME \/ \E r \in Requests : RequestFails(r)
             \/ \E c \in Callbacks : (\E e \in Events : Receive(c, e)) \/ CallbackFails(c)
      PROVE  AppliedInv'
  <2>1. /\ SameRows /\ queueInTransaction' = queueInTransaction /\ outcomes' = outcomes
        /\ Waiting' => Waiting
    BY <1>6 DEF RequestFails, Receive, CallbackFails, SameRows, Waiting, tables, webhook
  <2>2. budget'.restarts = budget.restarts
    BY <1>0, <1>6 DEF Types, RequestFails, Receive, CallbackFails, OneFault
  <2> QED BY <1>1, <2>1, <2>2
<1>7. ASSUME SameRows, todo' = todo, queueInTransaction' = queueInTransaction,
             outcomes' = outcomes, budget' = budget
      PROVE  AppliedInv'
  BY <1>1, <1>7 DEF Waiting
<1>8. ASSUME NEW r \in Requests, NEW kind \in {"complete", "fresh", "correct"},
             NEW email \in Addresses, Begin(r, kind, email)
      PROVE  AppliedInv'
  BY <1>7, <1>8 DEF Begin, SameRows, tables, webhook
<1>9. ASSUME \/ \E a \in AttemptIds : SendInvitation(a)
             \/ \E e \in Events : Report(e)
             \/ UNCHANGED vars
      PROVE  AppliedInv'
  BY <1>7, <1>9 DEF SendInvitation, Report, SameRows, tables, webhook, vars
<1>10. ASSUME NEW how \in {"completed", "abandoned"}, CloseElsewhere(how)
       PROVE  AppliedInv'
  <2>1. /\ SameRows /\ queueInTransaction' = queueInTransaction
        /\ outcomes' = outcomes /\ budget' = budget
        /\ Waiting' => Waiting
    BY <1>10 DEF CloseElsewhere, SameRows, Waiting, webhook
  <2> QED BY <1>1, <2>1
<1> QED BY <1>2, <1>4, <1>5, <1>6, <1>8, <1>9, <1>10 DEF Next

\* With a queue that is part of the transaction a reported event changes the to-do
\* once: again only after a restart, or when a correction begun earlier inserted
\* its attempt later.
THEOREM EventsAreAppliedOnce == Spec => []AppliedOnce
<1>1. Init => FreshTimes /\ AppliedInv
  BY InitTimes
<1>2. IInv /\ IInv' /\ FreshTimes /\ AppliedInv /\ [Next]_vars
         => FreshTimes' /\ AppliedInv'
  BY NextTimes, NextApplied
<1>3. AppliedInv => AppliedOnce
  BY DEF AppliedInv, AppliedOnce
<1> QED BY <1>1, <1>2, <1>3, Invariance, PTL DEF Spec

-----------------------------------------------------------------------------
\* A bounce is noticed.

NoneOvertaken == \A a \in DOMAIN attempt : Overtaken(a) = {}

\* A webhook call has dealt with the event and answers it, or has answered it.
Told(e) ==
    \/ e \in reported \ unanswered
    \/ \E c \in Callbacks : callback[c].phase = "answer" /\ callback[c].event = e

\* What the provider was told about the latest invitation has stopped the wait.
NoticeInv ==
    queueInTransaction =>
        /\ DOMAIN attempt \subseteq mail \cup sent
        /\ \A c \in Callbacks : callback[c].phase \in {"idle", "apply", "answer"}
        /\ budget.restarts = 0 /\ NoneOvertaken =>
              \A e \in Events : Told(e) /\ e.attempt = Latest /\ e.kind # "delivered"
                                    => ~Waiting

\* Only an insertion changes which attempt is the latest.
LEMMA SameLatest ==
  ASSUME Types, Types', FreshTimes, FreshTimes', SameRows
  PROVE  Latest' = Latest
<1>1. /\ Latest \in DOMAIN attempt /\ Latest' \in DOMAIN attempt
      /\ attempt[Latest'].time <= attempt[Latest].time
      /\ attempt[Latest].time <= attempt[Latest'].time
  BY LatestIs, LatestIsNext DEF SameRows
<1>2. attempt[Latest'].time = attempt[Latest].time
  BY <1>1, TimesAreNumbers
<1> QED BY <1>1, <1>2 DEF FreshTimes

\* Steps that insert nothing, and make a to-do wait again only by a restart.
LEMMA NoticeKept ==
  ASSUME IInv, IInv', FreshTimes, FreshTimes', NoticeInv, SameRows,
         queueInTransaction' = queueInTransaction,
         queueInTransaction =>
             /\ mail' \cup sent' = mail \cup sent
             /\ \A c \in Callbacks : callback'[c].phase \in {"idle", "apply", "answer"},
         budget'.restarts = 0 =>
             /\ budget.restarts = 0
             /\ Waiting' => Waiting
             /\ \A e \in Events : Told(e)' => \/ Told(e) \/ ~Waiting'
                                              \/ e.attempt # Latest
                                              \/ e.kind = "delivered"
  PROVE  NoticeInv'
<1>1. Types /\ Types'
  BY DEF IInv
<1>2. Latest' = Latest
  BY <1>1, SameLatest
<1>3. NoneOvertaken' => NoneOvertaken
  BY DEF NoneOvertaken, Overtaken, SameRows
<1>4. DOMAIN attempt' = DOMAIN attempt
  BY DEF SameRows
<1>5. ASSUME queueInTransaction
      PROVE  /\ DOMAIN attempt' \subseteq mail' \cup sent'
             /\ \A c \in Callbacks : callback'[c].phase \in {"idle", "apply", "answer"}
  BY <1>4, <1>5 DEF NoticeInv
<1>6. ASSUME queueInTransaction, budget'.restarts = 0, NoneOvertaken', NEW e \in Events,
             Told(e)', e.attempt = Latest', e.kind # "delivered"
      PROVE  ~Waiting'
  BY <1>2, <1>3, <1>6 DEF NoticeInv
<1> QED BY <1>5, <1>6 DEF NoticeInv

\* The inserted attempt is the latest, unless it is overtaken, and nothing has been
\* reported about it.
LEMMA NoticeInsert ==
  ASSUME IInv, IInv', FreshTimes, FreshTimes', NoticeInv,
         NEW r \in Requests, request[r].phase \in Unused, Insert(r),
         mail' = mail \cup {Len(attempt) + 1}, UNCHANGED <<provider, webhook, budget>>,
         queueInTransaction' = queueInTransaction
  PROVE  NoticeInv'
<1>0. Types /\ Types' /\ Names /\ Work /\ request[r].email \in Addresses
  BY DEF IInv, Names, RequestNames, Unused
<1>1. PICK n : n = Len(attempt) + 1
  OBVIOUS
<1>2. /\ DOMAIN attempt' = DOMAIN attempt \cup {n}
      /\ n \notin DOMAIN attempt
      /\ \A a \in DOMAIN attempt : attempt'[a] = attempt[a]
      /\ \A a \in DOMAIN attempt : a < n
  <2>1. /\ Len(attempt) \in Nat
        /\ DOMAIN attempt = 1 .. Len(attempt)
        /\ DOMAIN attempt' = 1 .. Len(attempt) + 1
        /\ \A a \in DOMAIN attempt : attempt'[a] = attempt[a]
    BY <1>0, Inserted DEF Types
  <2> QED BY <1>1, <2>1
<1>3. ASSUME NoneOvertaken' PROVE Latest' = n
  <2>1. PICK m \in DOMAIN attempt' : /\ m = Latest'
                                     /\ attempt'[n].time <= attempt'[m].time
    BY <1>0, <1>2, LatestIsNext
  <2> SUFFICES ASSUME m # n PROVE FALSE
    BY <2>1
  <2>2. m < n /\ attempt'[n].time # attempt'[m].time
    BY <1>2, <2>1 DEF FreshTimes
  <2>3. attempt'[n].time < attempt'[m].time
    BY <1>0, <1>2, <2>1, <2>2, TimesAreNumbersNext
  <2>4. n \in Overtaken(m)'
    BY <1>2, <2>2, <2>3 DEF Overtaken
  <2> QED BY <1>3, <2>1, <2>4 DEF NoneOvertaken
<1>4. ASSUME NEW e \in Events, Told(e)' PROVE e.attempt # n
  <2>1. UNCHANGED <<sent, reported, unanswered, callback>>
    BY DEF provider, webhook
  <2>2. e \in reported
    <3>1. CASE e \in reported \ unanswered
      BY <3>1
    <3>2. CASE \E c \in Callbacks : callback[c].phase = "answer"
                                        /\ callback[c].event = e
      BY <1>0, <3>2 DEF Work, CallbackWork
    <3> QED BY <1>4, <2>1, <3>1, <3>2 DEF Told
  <2> QED BY <1>0, <1>2, <2>2 DEF Names, RowNames
<1>5. ASSUME queueInTransaction
      PROVE  /\ DOMAIN attempt' \subseteq mail' \cup sent'
             /\ \A c \in Callbacks : callback'[c].phase \in {"idle", "apply", "answer"}
  BY <1>1, <1>2, <1>5 DEF NoticeInv, provider, webhook
<1> QED BY <1>3, <1>4, <1>5 DEF NoticeInv

\* Calls of the webhook: who answers for a failure finds that the to-do does not wait.
LEMMA NoticeCall ==
  ASSUME IInv, IInv', FreshTimes, FreshTimes', NoticeInv, queueInTransaction,
         NEW c \in Callbacks,
         \/ CallbackStep(c) \/ CallbackFails(c)
         \/ \E e \in Events : Receive(c, e)
  PROVE  NoticeInv'
<1>0. Types /\ Names /\ Work /\ budget.restarts \in Nat
  BY DEF IInv, Types
<1>1. \A d \in Callbacks : callback[d].phase \in {"idle", "apply", "answer"}
  BY DEF NoticeInv
<1>2. ASSUME Fail(c) \/ Record(c) PROVE SameRows
  <2>1. callback[c].event.attempt \in DOMAIN attempt
    BY <1>2 DEF IInv, Names, RowNames, Work, CallbackWork, Fail, Record
  <2>2. CASE attempt' = attempt
    BY <2>2 DEF SameRows
  <2>3. CASE attempt' # attempt
    <3>1. \E result \in {"delivered", "failed"} :
             attempt' = [attempt EXCEPT ![callback[c].event.attempt].delivery = result]
      BY <1>2, <2>3 DEF Fail, Record
    <3> QED BY <1>0, <2>1, <3>1, Delivered DEF Types, SameRows
  <2> QED BY <2>2, <2>3
<1>3. ASSUME NEW e \in Events, Receive(c, e) PROVE NoticeInv'
  <2>1. /\ SameRows /\ UNCHANGED <<queueInTransaction, todo, mail, sent, reported>>
        /\ unanswered \subseteq unanswered'
        /\ budget'.restarts = budget.restarts
    BY <1>0, <1>3 DEF Receive, SameRows, tables, Types
  <2>2. /\ \A d \in Callbacks : d # c => callback'[d] = callback[d]
        /\ callback'[c].phase = "apply"
    BY <1>0, <1>3 DEF Receive, Types
  <2>3. \A f \in Events : Told(f)' => Told(f)
    BY <2>1, <2>2 DEF Told
  <2>4. Waiting' => Waiting
    BY <2>1 DEF Waiting
  <2>5. \A d \in Callbacks : callback'[d].phase \in {"idle", "apply", "answer"}
    BY <1>1, <2>2
  <2> QED BY <2>1, <2>3, <2>4, <2>5, NoticeKept
<1>4. CASE Fail(c)
  <2>1. ~Waiting'
    <3>1. callback[c].event.attempt \in Nat
      BY <1>0, <1>4, TimesAreNumbers DEF Names, RowNames, Work, CallbackWork, Fail
    <3> QED BY <1>0, <1>4, <3>1, Constants DEF Types, TodoRow, Fail, Waiting
  <2>2. /\ \A d \in Callbacks : d # c => callback'[d] = callback[d]
        /\ callback'[c].phase = "answer"
    BY <1>0, <1>4, Proceeded DEF Fail, FollowUp, Types, CallbackPhases
  <2>3. UNCHANGED <<queueInTransaction, mail, sent, budget>>
    BY <1>4 DEF Fail, provider
  <2>4. \A d \in Callbacks : callback'[d].phase \in {"idle", "apply", "answer"}
    BY <1>1, <2>2
  <2> QED BY <1>2, <1>4, <2>1, <2>3, <2>4, NoticeKept
<1>5. CASE Record(c)
  <2>1. /\ UNCHANGED <<queueInTransaction, todo, mail, sent, reported, unanswered, budget>>
        /\ ~CallbackTarget(callback[c].event.attempt)
           \/ callback[c].event.kind = "delivered"
    BY <1>5 DEF Record, provider
  <2>2. /\ \A d \in Callbacks : d # c => callback'[d] = callback[d]
        /\ callback'[c].phase = "answer" /\ callback'[c].event = callback[c].event
    BY <1>0, <1>5, Proceeded DEF Record, Types, CallbackPhases
  <2>3. Waiting' <=> Waiting
    BY <2>1 DEF Waiting
  <2>4. ASSUME NEW f \in Events, Told(f)'
        PROVE  Told(f) \/ ~Waiting' \/ f.attempt # Latest \/ f.kind = "delivered"
    <3>1. CASE f = callback[c].event
      BY <2>1, <2>3, <3>1 DEF CallbackTarget
    <3>2. CASE f # callback[c].event
      BY <2>1, <2>2, <2>4, <3>2 DEF Told
    <3> QED BY <3>1, <3>2
  <2>5. \A d \in Callbacks : callback'[d].phase \in {"idle", "apply", "answer"}
    BY <1>1, <2>2
  <2> QED BY <1>2, <1>5, <2>1, <2>3, <2>4, <2>5, NoticeKept
<1>6. CASE Answer(c) \/ CallbackFails(c)
  <2>1. /\ SameRows /\ UNCHANGED <<queueInTransaction, todo, mail, sent, reported>>
        /\ budget'.restarts = budget.restarts
    BY <1>0, <1>6 DEF Answer, CallbackFails, OneFault, SameRows, tables, provider, Types
  <2>2. /\ \A d \in Callbacks : d # c => callback'[d] = callback[d]
        /\ callback'[c].phase = "idle"
    <3>1. callback' = [callback EXCEPT ![c] = Listening]
      BY <1>6 DEF Answer, CallbackFails
    <3>2. Listening.phase = "idle"
      BY DEF Listening
    <3> QED BY <1>0, <3>1, <3>2 DEF Types
  <2>3. unanswered \ unanswered' \subseteq
            IF callback[c].phase = "answer" THEN {callback[c].event} ELSE {}
    BY <1>1, <1>6 DEF Answer, CallbackFails, provider
  <2>4. \A f \in Events : Told(f)' => Told(f)
    BY <2>1, <2>2, <2>3 DEF Told
  <2>5. Waiting' => Waiting
    BY <2>1 DEF Waiting
  <2>6. \A d \in Callbacks : callback'[d].phase \in {"idle", "apply", "answer"}
    BY <1>1, <2>2
  <2> QED BY <2>1, <2>4, <2>5, <2>6, NoticeKept
<1>7. ~(Leftover(c) \/ ListJobs(c) \/ SendJob(c) \/ DeleteJob(c))
  BY <1>1 DEF Leftover, ListJobs, SendJob, DeleteJob
<1> QED BY <1>3, <1>4, <1>5, <1>6, <1>7 DEF CallbackStep

\* Every step keeps it.
LEMMA NextNotice ==
  ASSUME IInv, IInv', FreshTimes, FreshTimes', NoticeInv, [Next]_vars
  PROVE  NoticeInv'
<1>0. Types /\ Names /\ Modes /\ budget.restarts \in Nat
  BY DEF IInv, Types
<1>q. queueInTransaction' = queueInTransaction
  BY DEF Next, Begin, RequestStep, RequestFails, Validate, Complete, LoadState,
     ReadCorrection, IssueInTransaction, ApplyInTransaction, WriteState,
     InsertAttempt, EnqueueMail, ClearCorrection, CloseElsewhere, Restart,
     SendInvitation, Report, Receive, CallbackStep, CallbackFails, Leftover,
     Record, Fail, ListJobs, SendJob, DeleteJob, Answer, vars
<1>1. CASE ~queueInTransaction
  BY <1>q, <1>1 DEF NoticeInv
<1> SUFFICES ASSUME queueInTransaction PROVE NoticeInv'
  BY <1>1
<1>2. ASSUME SameRows, UNCHANGED <<callback, reported, unanswered>>,
             mail' \cup sent' = mail \cup sent,
             budget'.restarts = 0 => budget.restarts = 0 /\ (Waiting' => Waiting)
      PROVE  NoticeInv'
  <2>1. \A e \in Events : Told(e)' => Told(e)
    BY <1>2 DEF Told
  <2>2. \A c \in Callbacks : callback'[c].phase \in {"idle", "apply", "answer"}
    BY <1>2 DEF NoticeInv
  <2> QED BY <1>q, <1>2, <2>1, <2>2, NoticeKept
<1>3. ASSUME NEW r \in Requests, RequestStep(r)
      PROVE  NoticeInv'
  <2>1. CASE IssueInTransaction(r) \/ (ApplyInTransaction(r) /\ OpenForCorrection)
    <3>1. /\ request[r].phase \in Unused /\ Insert(r)
          /\ mail' = mail \cup {Len(attempt) + 1}
          /\ UNCHANGED <<provider, webhook, budget>>
      BY <2>1 DEF IssueInTransaction, ApplyInTransaction, Unused
    <3> QED BY <1>q, <3>1, NoticeInsert
  <2>2. ~(WriteState(r) \/ InsertAttempt(r) \/ EnqueueMail(r) \/ ClearCorrection(r))
    BY <1>0 DEF Modes, WriteState, InsertAttempt, EnqueueMail, ClearCorrection
  <2>3. CASE \/ Validate(r) \/ Complete(r) \/ LoadState(r) \/ ReadCorrection(r)
             \/ (ApplyInTransaction(r) /\ ~OpenForCorrection)
    <3>1. SameRows /\ UNCHANGED <<mail, sent, callback, reported, unanswered, budget>>
      BY <2>3 DEF Validate, Complete, LoadState, ReadCorrection, ApplyInTransaction,
         SameRows, tables, provider, webhook
    <3>2. Waiting' => Waiting
      <4>1. CASE Complete(r)
        BY <4>1 DEF Complete, Waiting
      <4>2. CASE todo' = todo
        BY <4>2 DEF Waiting
      <4> QED BY <2>3, <4>1, <4>2 DEF Validate, LoadState, ReadCorrection,
              ApplyInTransaction, tables
    <3> QED BY <1>2, <3>1, <3>2
  <2> QED BY <1>3, <2>1, <2>2, <2>3 DEF RequestStep
<1>4. ASSUME NEW c \in Callbacks,
             \/ CallbackStep(c) \/ CallbackFails(c)
             \/ \E e \in Events : Receive(c, e)
      PROVE  NoticeInv'
  BY <1>4, NoticeCall
<1>5. CASE Restart
  <2>1. /\ SameRows /\ UNCHANGED <<mail, sent, callback, reported, unanswered>>
        /\ budget'.restarts # 0
    BY <1>0, <1>5 DEF Types, Restart, SameRows, provider, webhook
  <2> QED BY <1>2, <2>1
<1>6. ASSUME NEW r \in Requests, RequestFails(r)
      PROVE  NoticeInv'
  <2>1. /\ SameRows /\ UNCHANGED <<todo, mail, sent, callback, reported, unanswered>>
        /\ budget'.restarts = budget.restarts
    BY <1>0, <1>6 DEF Types, RequestFails, OneFault, SameRows, tables, provider, webhook
  <2>2. Waiting' => Waiting
    BY <2>1 DEF Waiting
  <2> QED BY <1>2, <2>1, <2>2
<1>7. ASSUME NEW r \in Requests, NEW kind \in {"complete", "fresh", "correct"},
             NEW email \in Addresses, Begin(r, kind, email)
      PROVE  NoticeInv'
  <2>1. /\ SameRows /\ UNCHANGED <<todo, mail, sent, callback, reported, unanswered, budget>>
    BY <1>7 DEF Begin, SameRows, tables, provider, webhook
  <2>2. Waiting' => Waiting
    BY <2>1 DEF Waiting
  <2> QED BY <1>2, <2>1, <2>2
<1>8. ASSUME NEW how \in {"completed", "abandoned"}, CloseElsewhere(how)
      PROVE  NoticeInv'
  <2>1. /\ SameRows /\ UNCHANGED <<mail, sent, callback, reported, unanswered, budget>>
        /\ Waiting' => Waiting
    BY <1>8 DEF CloseElsewhere, SameRows, Waiting, provider, webhook
  <2> QED BY <1>2, <2>1
<1>9. ASSUME NEW a \in AttemptIds, SendInvitation(a)
      PROVE  NoticeInv'
  <2>1. /\ SameRows /\ UNCHANGED <<todo, callback, reported, unanswered, budget>>
        /\ mail' \cup sent' = mail \cup sent
    BY <1>9 DEF SendInvitation, SameRows, webhook
  <2>2. Waiting' => Waiting
    BY <2>1 DEF Waiting
  <2> QED BY <1>2, <2>1, <2>2
<1>10. ASSUME NEW e \in Events, Report(e)
       PROVE  NoticeInv'
  <2>1. /\ SameRows /\ UNCHANGED <<todo, mail, sent, callback, budget>>
        /\ reported' \ unanswered' \subseteq reported \ unanswered
    BY <1>10 DEF Report, SameRows, tables, webhook
  <2>2. \A f \in Events : Told(f)' => Told(f)
    BY <2>1 DEF Told
  <2>3. Waiting' => Waiting
    BY <2>1 DEF Waiting
  <2>4. \A c \in Callbacks : callback'[c].phase \in {"idle", "apply", "answer"}
    BY <2>1 DEF NoticeInv
  <2> QED BY <1>q, <2>1, <2>2, <2>3, <2>4, NoticeKept
<1>11. CASE UNCHANGED vars
  <2>1. /\ SameRows
        /\ UNCHANGED <<todo, mail, sent, callback, reported, unanswered, budget>>
    BY <1>11 DEF vars, SameRows
  <2>2. Waiting' => Waiting
    BY <2>1 DEF Waiting
  <2> QED BY <1>2, <2>1, <2>2
<1> QED BY <1>3, <1>4, <1>5, <1>6, <1>7, <1>8, <1>9, <1>10, <1>11 DEF Next

\* With a queue that is part of the transaction, and requests that mail their
\* invitations in the order they began, the bounce of every invitation stops the
\* to-do's wait, whatever callbacks, corrections and fresh links came together and
\* however often a call died (applyPublicCompletionDeliveryCallback).
THEOREM BouncesAreNoticed == Spec => []BounceIsNoticedInTransaction
<1>1. Init => NoticeInv
  <2> SUFFICES ASSUME Init PROVE NoticeInv
    OBVIOUS
  <2>1. DOMAIN attempt = {1} /\ mail = {1}
    BY DEF Init
  <2>2. \A c \in Callbacks : callback[c].phase = "idle"
    BY DEF Init, Listening
  <2>3. \A e \in Events : ~Told(e)
    BY <2>2 DEF Init, Told
  <2> QED BY <2>1, <2>2, <2>3 DEF NoticeInv
<1>2. ASSUME IInv, FreshTimes, NoticeInv PROVE BounceIsNoticedInTransaction
  <2> SUFFICES ASSUME queueInTransaction, NoneOvertaken, AllBounced,
                      budget.restarts = 0
               PROVE  ~Waiting
    BY DEF BounceIsNoticedInTransaction, BounceIsNoticed, NoneOvertaken
  <2>1. Latest \in DOMAIN attempt
    BY <1>2, LatestIs DEF IInv
  <2>2. Latest \in sent
    BY <1>2, <2>1 DEF NoticeInv, AllBounced
  <2>3. PICK e \in reported \ unanswered : e.attempt = Latest /\ e.kind # "delivered"
    BY <2>2 DEF AllBounced
  <2>4. e \in Events /\ Told(e)
    BY <1>2, <2>3 DEF IInv, Names, RowNames, Told
  <2> QED BY <1>2, <2>3, <2>4 DEF NoticeInv
<1>3. Init => FreshTimes
  BY InitTimes
<1>4. IInv /\ IInv' /\ FreshTimes /\ NoticeInv /\ [Next]_vars
         => FreshTimes' /\ NoticeInv'
  BY NextTimes, NextNotice
<1> QED BY <1>1, <1>2, <1>3, <1>4, Invariance, PTL DEF Spec
=============================================================================
