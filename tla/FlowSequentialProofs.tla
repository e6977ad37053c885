------------------------ MODULE FlowSequentialProofs ------------------------
(***************************************************************************)
(* Proofs about FlowExecution on a process that never takes two branches   *)
(* at once, with one administrator at a time: the execution is in one      *)
(* place, so that a barrier's step has no other to-dos, nothing is         *)
(* stranded, and what is completed is done.                                *)
(***************************************************************************)
EXTENDS FlowStrandingProofs

\* No error flow, and whatever the conditions and schedules say at most one
\* flow leaves a step.
OneBranch ==
    /\ \A f \in Flows : Kind[f] # "onError"
    /\ \A flow \in FlowRow : \A o \in Outcomes(flow, Null) :
          \A f, g \in o.execute \cup o.defer : f = g

\* Where the execution is: at one scheduled flow, at the to-dos of one barrier,
\* or at one to-do of its own.
InOnePlace ==
    /\ \A s, r \in DOMAIN scheduledFlow : s = r
    /\ \A s \in DOMAIN scheduledFlow, t \in ActiveTodos : toDo[t].barrier = s
    /\ \A t, u \in ActiveTodos :
          t = u \/ (toDo[t].barrier = toDo[u].barrier /\ toDo[t].barrier # Null)

\* The execution's one token: it is in one place until it is abandoned, and a
\* to-do that has gone has been completed.
Token ==
    /\ execution.abandonedAt => ActiveTodos = {}
    /\ ~execution.abandonedAt =>
          InOnePlace /\ \A t \in DOMAIN toDo : toDo[t].deleted => completions[t] > 0
    /\ Status = "Completed" => DOMAIN scheduledFlow = {}

\* A route takes one branch at most.
LEMMA BranchesAreOne ==
  ASSUME OneBranch, NEW flow \in FlowRow, NEW onError \in Errors \cup {Null},
         NEW o \in Outcomes(flow, onError)
  PROVE  \A f, g \in o.execute \cup o.defer : f = g
<1>1. CASE onError # Null
  <2>1. FlowsFor(flow, onError) = {}
    BY <1>1 DEF OneBranch, FlowsFor, MatchingOnErrorFlows
  <2>2. o.execute \subseteq FlowsFor(flow, onError)
    BY DEF Outcomes
  <2>3. o.defer \subseteq FlowsFor(flow, onError)
    BY DEF Outcomes
  <2> QED BY <2>1, <2>2, <2>3
<1>2. CASE onError = Null
  <2>1. o \in Outcomes(flow, Null)
    BY <1>2
  <2> QED BY <2>1 DEF OneBranch
<1> QED BY <1>1, <1>2

\* Steps that schedule nothing and create no to-do.
LEMMA TokenKept ==
  ASSUME Token,
         DOMAIN scheduledFlow' \subseteq DOMAIN scheduledFlow,
         DOMAIN toDo' = DOMAIN toDo,
         \A t \in DOMAIN toDo :
            /\ toDo'[t].barrier = toDo[t].barrier
            /\ toDo[t].deleted => toDo'[t].deleted
            /\ toDo'[t].deleted => toDo[t].deleted \/ completions'[t] > 0
            /\ completions[t] > 0 => completions'[t] > 0,
         execution'.abandonedAt = execution.abandonedAt,
         Status' = "Completed" => Status = "Completed" \/ DOMAIN scheduledFlow' = {}
  PROVE  Token'
<1>1. \A t \in ActiveTodos' : t \in ActiveTodos /\ t \in DOMAIN toDo
  BY DEF ActiveTodos
<1>2. execution'.abandonedAt => ActiveTodos' = {}
  BY <1>1 DEF Token
<1>3. ~execution'.abandonedAt => InOnePlace'
  BY <1>1 DEF Token, InOnePlace
<1>4. ~execution'.abandonedAt =>
         \A t \in DOMAIN toDo' : toDo'[t].deleted => completions'[t] > 0
  BY DEF Token
<1>5. Status' = "Completed" => DOMAIN scheduledFlow' = {}
  BY DEF Token
<1> QED BY <1>2, <1>3, <1>4, <1>5 DEF Token

\* Steps that leave the rows alone.
LEMMA QuietToken ==
  ASSUME Token, UNCHANGED <<execution, scheduledFlow, toDo, completions>>
  PROVE  Token'
<1>1. Status' = Status
  BY DEF Status
<1> QED BY <1>1, TokenKept

\* Completing to-do t: the token moves on to a scheduled flow, or waits for the
\* barrier's other to-dos.
LEMMA CompletionToken ==
  ASSUME IInv, Token, NEW t \in DOMAIN toDo, NEW fresh \in Ids, Continue(t, fresh),
         UNCHANGED execution, execution.abandonedAt \/ t \in ActiveTodos
  PROVE  Token'
<1>1. PICK s : Continues(t, s)
  BY ContinueRows DEF IInv, RowInv
<1>2. /\ DOMAIN toDo' = DOMAIN toDo /\ DOMAIN completions = DOMAIN toDo
      /\ \A u \in DOMAIN toDo :
            /\ toDo'[u].barrier = toDo[u].barrier
            /\ u # t => toDo'[u] = toDo[u] /\ completions'[u] = completions[u]
      /\ toDo'[t].deleted
      /\ completions[t] \in Nat /\ completions'[t] = completions[t] + 1
  BY <1>1 DEF Continues, IInv, RowInv, TableTypes, RowNames
<1>3. completions'[t] > 0
  BY <1>2
<1>4. Status' = Status /\ execution' = execution
  BY DEF Status
<1>5. CASE execution.abandonedAt \/ UNCHANGED scheduledFlow
  <2>1. CASE UNCHANGED scheduledFlow
    BY <1>2, <1>3, <1>4, <2>1, TokenKept
  <2>2. CASE execution.abandonedAt
    <3>1. ActiveTodos' = {}
      BY <1>2, <2>2 DEF Token, ActiveTodos
    <3>2. Status # "Completed"
      BY <2>2 DEF Status
    <3> QED BY <1>4, <2>2, <3>1, <3>2 DEF Token
  <2> QED BY <1>5, <2>1, <2>2
<1>6. CASE ~execution.abandonedAt /\ ~UNCHANGED scheduledFlow
  <2>1. toDo[t].barrier = Null /\ Schedules({s})
    BY <1>1, <1>6 DEF Continues
  <2>2. t \in ActiveTodos /\ InOnePlace
    BY <1>6 DEF Token
  <2>3. DOMAIN scheduledFlow = {}
    <3>1. Null \notin DOMAIN scheduledFlow
      BY Constants DEF IInv, RowInv, RowNames, TableTypes
    <3> QED BY <2>1, <2>2, <3>1 DEF InOnePlace
  <2>4. DOMAIN scheduledFlow' = {s}
    BY <2>1, <2>3 DEF Schedules
  <2>5. ActiveTodos = {t}
    BY <2>1, <2>2 DEF InOnePlace
  <2>6. ActiveTodos' = {}
    BY <1>2, <2>5 DEF ActiveTodos
  <2>7. InOnePlace'
    BY <2>4, <2>6 DEF InOnePlace
  <2>8. \A u \in DOMAIN toDo' : toDo'[u].deleted => completions'[u] > 0
    BY <1>2, <1>3, <1>6 DEF Token
  <2>9. Status # "Completed"
    BY <2>5 DEF IInv, RowInv, Closing, CompletedHasNoToDo
  <2> QED BY <1>4, <1>6, <2>7, <2>8, <2>9 DEF Token
<1> QED BY <1>5, <1>6

\* A system step that is completed has not been completed before.
LEMMA CompleteSystemStepToken ==
  ASSUME IInv, Completing, Token, NEW w \in Workers, CompleteSystemStep(w)
  PROVE  Token'
<1>1. PICK t, fresh : t = Payload(w).ref /\ fresh = Id(Null, 0)
  OBVIOUS
<1>2. /\ worker[w].phase \in SystemPhases /\ MayMark(w)
      /\ Continue(t, fresh)
      /\ UNCHANGED execution
  BY <1>1 DEF CompleteSystemStep, SystemPhases
<1>3. t \in DOMAIN toDo /\ ~AllMarked(t)
  BY <1>1, <1>2, UnmarkedJob DEF AllMarked
<1>4. fresh \in Ids
  BY <1>1, IdsAreNew DEF IInv, RowInv, TableTypes, NewId
<1>5. execution.abandonedAt \/ t \in ActiveTodos
  BY <1>3 DEF Token, Completing, ActiveTodos
<1> QED BY <1>2, <1>3, <1>4, <1>5, CompletionToken

\* A person completes an open to-do.
LEMMA CompleteToDoToken ==
  ASSUME IInv, Token, NEW t \in DOMAIN toDo, CompleteToDo(t)
  PROVE  Token'
<1>1. t \in ActiveTodos /\ Continue(t, t) /\ UNCHANGED execution
  BY DEF CompleteToDo
<1>2. t \in Ids
  BY DEF IInv, RowInv, TableTypes
<1> QED BY <1>1, <1>2, CompletionToken

\* A failure changes no to-do but its failed column, and completes nothing.
LEMMA FailureToken ==
  ASSUME OneBranch, IInv, Token, NEW w \in Workers,
         FailSystemStep(w) \/ RecordSystemFailure(w)
  PROVE  Token'
<1>1. /\ UNCHANGED <<scheduledFlow, completions>>
      /\ SetProcessExecutionFailed \/ UNCHANGED execution
  <2>1. \A step, error : MatchingOnErrorFlows(step, error) = {}
    BY DEF OneBranch, MatchingOnErrorFlows
  <2>2. CASE FailSystemStep(w)
    BY <2>1, <2>2 DEF FailSystemStep
  <2>3. CASE RecordSystemFailure(w)
    BY <2>3 DEF RecordSystemFailure, history
  <2> QED BY <2>2, <2>3
<1>2. /\ DOMAIN toDo' = DOMAIN toDo
      /\ \A t \in DOMAIN toDo :
            /\ toDo'[t].barrier = toDo[t].barrier
            /\ toDo'[t].deleted = toDo[t].deleted
  <2>1. CASE UNCHANGED toDo
    BY <2>1
  <2>2. CASE Fails(Payload(w).ref)
    BY <2>2 DEF Fails
  <2>3. UNCHANGED toDo \/ Fails(Payload(w).ref)
    BY FailSystemStepRows, RecordSystemFailureRows DEF RecordSystemFailure, FailsAndRoutes
  <2> QED BY <2>1, <2>2, <2>3
<1>3. /\ execution'.abandonedAt = execution.abandonedAt
      /\ Status' = "Completed" => Status = "Completed"
  <2>1. execution \in Columns
    BY DEF IInv, RowInv, TableTypes
  <2>2. CASE UNCHANGED execution
    BY <2>2 DEF Status
  <2>3. CASE execution' = [execution EXCEPT !.finishedAt = TRUE, !.failed = TRUE]
    BY <2>1, <2>3 DEF Columns, Status
  <2> QED BY <1>1, <2>2, <2>3 DEF SetProcessExecutionFailed
<1> QED BY <1>1, <1>2, <1>3, TokenKept

\* A flow is consumed without being routed; an execution it finishes is done.
LEMMA ConsumptionToken ==
  ASSUME IInv, Token, NEW w \in Workers, SkipClosed(w) \/ RecordFlowFailure(w)
  PROVE  Token'
<1>1. PICK s : s = Payload(w).ref
  OBVIOUS
<1>2. UNCHANGED <<toDo, completions>>
  BY DEF SkipClosed, RecordFlowFailure, history
<1>3. /\ DOMAIN scheduledFlow' \subseteq DOMAIN scheduledFlow
      /\ execution'.abandonedAt = execution.abandonedAt
      /\ Status' = "Completed" => Status = "Completed" \/ DOMAIN scheduledFlow' = {}
  <2>1. CASE SkipClosed(w)
    <3>1. DOMAIN scheduledFlow' \subseteq DOMAIN scheduledFlow
      BY <2>1 DEF SkipClosed, Delete
    <3>2. UNCHANGED execution
      BY <2>1 DEF SkipClosed
    <3> QED BY <3>1, <3>2 DEF Status
  <2>2. CASE UNCHANGED <<scheduledFlow, execution>>
    BY <2>2 DEF Status
  <2>3. CASE RecordFlowFailure(w) /\ worker[w].job \notin completedJob
    <3>1. /\ scheduledFlow' = Delete(scheduledFlow, {s})
          /\ execution' = [execution EXCEPT !.finishedAt =
                              @ \/ (s \in DOMAIN scheduledFlow /\ Open /\ MayFinish)]
      BY <1>1, <2>3 DEF RecordFlowFailure
    <3>2. DOMAIN scheduledFlow' = DOMAIN scheduledFlow \ {s}
      BY <3>1 DEF Delete
    <3>3. execution \in Columns
      BY DEF IInv, RowInv, TableTypes
    <3>4. execution'.abandonedAt = execution.abandonedAt
      BY <3>1, <3>3 DEF Columns
    <3>5. CASE s \in DOMAIN scheduledFlow /\ Open
      <4>1. InOnePlace
        BY <3>5 DEF Open, Token
      <4>2. DOMAIN scheduledFlow' = {}
        BY <3>2, <3>5, <4>1 DEF InOnePlace
      <4> QED BY <3>2, <3>4, <4>2
    <3>6. CASE ~(s \in DOMAIN scheduledFlow /\ Open)
      <4>1. execution' = execution
        BY <3>1, <3>3, <3>6 DEF Columns
      <4> QED BY <3>2, <4>1 DEF Status
    <3> QED BY <3>5, <3>6
  <2> QED BY <2>1, <2>2, <2>3 DEF RecordFlowFailure
<1> QED BY <1>2, <1>3, TokenKept

\* A route moves the token on to what it schedules or creates.
LEMMA RouteToken ==
  ASSUME OneBranch, IInv, Token, NEW w \in Workers, Route(w)
  PROVE  Token'
<1>1. PICK ref : ref = Payload(w).ref
  OBVIOUS
<1>0. PICK outcome \in Outcomes(worker[w].flow, Payload(w).onError) :
        \E new, flows :
           /\ RoutesTo(ref, new, flows)
           /\ RoutesBranches(outcome.execute \cup outcome.defer, new, flows)
  BY <1>1, RouteIs
<1>2. PICK new, flows :
         /\ RoutesTo(ref, new, flows)
         /\ RoutesBranches(outcome.execute \cup outcome.defer, new, flows)
  BY <1>0
<1>3. PICK branches : branches = outcome.execute \cup outcome.defer
  OBVIOUS
<1>4. \A f, g \in branches : f = g
  <2>1. worker[w].phase = "commit"
    BY DEF Route
  <2>2. worker[w].flow \in FlowRow /\ Payload(w) \in PayloadRow
    BY <2>1 DEF IInv, Others, DeliveryNames, Payload
  <2>3. Payload(w).onError \in Errors \cup {Null}
    BY <2>2 DEF PayloadRow
  <2> QED BY <1>3, <2>2, <2>3, BranchesAreOne
<1>5. /\ ref \in DOMAIN scheduledFlow /\ Open
      /\ \A t \in DOMAIN toDo :
           toDo[t].barrier # Null /\ toDo[t].barrier = ref => toDo[t].deleted
  BY <1>1, RouteIs
<1>6. InOnePlace /\ ~execution.abandonedAt
  BY <1>5 DEF Token, Open
<1>7. DOMAIN scheduledFlow = {ref} /\ ActiveTodos = {}
  <2>1. ref # Null
    BY <1>5, Constants DEF IInv, RowInv, RowNames, TableTypes
  <2> QED BY <1>5, <1>6, <2>1 DEF InOnePlace, ActiveTodos
<1>8. /\ DOMAIN toDo' = DOMAIN toDo \cup new
      /\ \A t \in DOMAIN toDo : t \notin new => toDo'[t] = toDo[t]
      /\ \A t \in new : ~toDo'[t].deleted
      /\ \A t \in new : toDo'[t].barrier = Null \/ toDo'[t].barrier \in flows
      /\ \A i \in new \cup flows : NewId(i)
      /\ \A i \in flows : i.item = 0
      /\ DOMAIN completions = DOMAIN toDo
      /\ \A t \in DOMAIN toDo : t \notin new => completions'[t] = completions[t]
      /\ DOMAIN scheduledFlow' = flows
  BY <1>2, <1>7 DEF RoutesTo, IInv, RowInv, RowNames
<1>9. /\ \A i \in new \cup flows : i.flow \in branches
      /\ \A t \in new : toDo'[t].barrier = Null => t.item = 1
      /\ \A t \in new, s \in flows : t.flow = s.flow => toDo'[t].barrier = s
      /\ execution' = execution \/ flows = {}
  BY <1>2, <1>3 DEF RoutesBranches
<1>10. ActiveTodos' = new
  BY <1>7, <1>8 DEF ActiveTodos
<1>11. \A i, j \in new \cup flows : i.flow = j.flow /\ (i.item = j.item => i = j)
  BY <1>4, <1>8, <1>9 DEF NewId, Ids
<1>12. InOnePlace'
  <2>1. \A s, r \in DOMAIN scheduledFlow' : s = r
    BY <1>8, <1>11
  <2>2. \A s \in DOMAIN scheduledFlow', t \in ActiveTodos' : toDo'[t].barrier = s
    BY <1>8, <1>9, <1>10, <1>11
  <2>3. \A t, u \in new :
           t = u \/ (toDo'[t].barrier = toDo'[u].barrier /\ toDo'[t].barrier # Null)
    <3> SUFFICES ASSUME NEW t \in new, NEW u \in new, t # u
                 PROVE  toDo'[t].barrier = toDo'[u].barrier /\ toDo'[t].barrier # Null
      OBVIOUS
    <3>1. ~(toDo'[t].barrier = Null /\ toDo'[u].barrier = Null)
      BY <1>9, <1>11
    <3>2. PICK s : s \in flows
      BY <1>8, <3>1
    <3>3. toDo'[t].barrier = s /\ toDo'[u].barrier = s
      BY <1>9, <1>11, <3>2
    <3> QED BY <3>1, <3>3
  <2> QED BY <1>10, <2>1, <2>2, <2>3 DEF InOnePlace
<1>13. \A t \in DOMAIN toDo' : toDo'[t].deleted => completions'[t] > 0
  BY <1>6, <1>8 DEF Token
<1>14. Status' = "Completed" => DOMAIN scheduledFlow' = {}
  <2>1. CASE execution' = execution
    <3>1. Status' = Status /\ Status # "Completed"
      BY <1>5, <2>1 DEF Status, Open
    <3> QED BY <3>1
  <2>2. CASE flows = {}
    BY <1>8, <2>2
  <2> QED BY <1>9, <2>1, <2>2
<1>15. ~execution'.abandonedAt
  <2>1. \/ execution' = execution
        \/ execution' = [execution EXCEPT !.finishedAt = TRUE]
    BY <1>2 DEF RoutesTo
  <2>2. execution \in Columns
    BY DEF IInv, RowInv, TableTypes
  <2> QED BY <1>6, <2>1, <2>2 DEF Columns
<1> QED BY <1>12, <1>13, <1>14, <1>15 DEF Token

\* An abandoned execution has nobody left; a restarted one is where it was.
LEMMA AdminToken ==
  ASSUME IInv, Token, NEW a \in Admins, Abandon(a) \/ Restart(a)
  PROVE  Token'
<1>1. CASE Abandon(a)
  <2>1. Abandons
    BY <1>1, AbandonRows DEF IInv, RowInv
  <2>2. ActiveTodos' = {} /\ execution'.abandonedAt /\ DOMAIN scheduledFlow' = {}
    BY <2>1 DEF Abandons, ActiveTodos
  <2> QED BY <2>2 DEF Token
<1>2. CASE Restart(a)
  <2>1. admin[a].todos \in SUBSET Ids
    BY DEF IInv, Others, AdminTypes, AdminRow
  <2>2. Restarts(admin[a].todos)
    BY <1>2, <2>1, RestartRows DEF IInv, RowInv
  <2>3. /\ UNCHANGED <<scheduledFlow, completions>>
        /\ execution' = [execution EXCEPT !.finishedAt = FALSE, !.failed = FALSE]
    BY <1>2 DEF Restart, history
  <2>4. /\ execution'.abandonedAt = execution.abandonedAt
        /\ Status' # "Completed"
    BY <2>3 DEF Status, IInv, RowInv, TableTypes, Columns
  <2>5. /\ DOMAIN toDo' = DOMAIN toDo
        /\ \A t \in DOMAIN toDo :
              /\ toDo'[t].barrier = toDo[t].barrier
              /\ toDo'[t].deleted = toDo[t].deleted
    BY <2>2 DEF Restarts
  <2> QED BY <2>3, <2>4, <2>5, TokenKept
<1> QED BY <1>1, <1>2

\* At first the execution is at its start.
LEMMA InitToken == Init => Token
<1> SUFFICES ASSUME Init
             PROVE  Token
  OBVIOUS
<1>1. DOMAIN scheduledFlow = {StartId} /\ DOMAIN toDo = {}
  BY DEF Init
<1>2. ~execution.abandonedAt /\ Status # "Completed"
  BY DEF Init, Status
<1> QED BY <1>1, <1>2 DEF Token, InOnePlace, ActiveTodos

\* Every step keeps it.
LEMMA NextToken ==
  ASSUME OneBranch, IInv, Completing, Token, [Next]_vars
  PROVE  Token'
<1>1. ASSUME NEW w \in Workers, NEW j \in DOMAIN queue, Claim(w, j)
      PROVE  Token'
  BY <1>1, QuietToken DEF Claim, history
<1>2. ASSUME NEW w \in Workers, FlowStep(w)
      PROVE  Token'
  <2>1. CASE ReadScheduledFlow(w) \/ CountSiblings(w) \/ SkipClaimed(w)
    BY <2>1, QuietToken DEF ReadScheduledFlow, CountSiblings, SkipClaimed, tables, history
  <2> QED BY <1>2, <2>1, RouteToken, ConsumptionToken DEF FlowStep
<1>3. ASSUME NEW w \in Workers, SystemStep(w)
      PROVE  Token'
  <2>1. ASSUME NEW outcome, Execute(w, outcome)
        PROVE  Token'
    BY <2>1, QuietToken DEF Execute, tables, history
  <2>2. CASE TodoNotFound(w) \/ SkipMissing(w)
    BY <2>2, QuietToken DEF TodoNotFound, SkipMissing, tables, history
  <2> QED BY <1>3, <2>1, <2>2, CompleteSystemStepToken, FailureToken DEF SystemStep
<1>4. ASSUME NEW w \in Workers, HandlerStep(w)
      PROVE  Token'
  <2>1. CASE ReadMarker(w) \/ CommitConflict(w) \/ Acknowledge(w)
    BY <2>1, QuietToken DEF ReadMarker, CommitConflict, Acknowledge, tables, history
  <2> QED BY <1>2, <1>3, <1>4, <2>1 DEF HandlerStep
<1>5. ASSUME NEW w \in Workers, Fault(w) \/ RecordingFails(w) \/ Crash(w)
      PROVE  Token'
  BY <1>5, QuietToken DEF Fault, RecordingFails, Crash, tables, history
<1>6. ASSUME NEW t \in DOMAIN toDo, CompleteToDo(t)
      PROVE  Token'
  BY <1>6, CompleteToDoToken
<1>7. ASSUME NEW a \in Admins, AbandonRequest(a) \/ RestartRequest(a)
      PROVE  Token'
  BY <1>7, QuietToken DEF AbandonRequest, RestartRequest, tables, history
<1>8. ASSUME NEW a \in Admins, Abandon(a) \/ Restart(a)
      PROVE  Token'
  BY <1>8, AdminToken
<1>9. CASE UNCHANGED vars
  BY <1>9, QuietToken DEF vars
<1> QED BY <1>1, <1>4, <1>5, <1>6, <1>7, <1>8, <1>9 DEF Next

\* The invariant of a process that takes one branch at a time.
LEMMA TokenInvariant ==
  ASSUME OneAdmin, OneBranch
  PROVE  Spec => [](IInv /\ Token)
<1>1. Init => IInv /\ Completing /\ Token
  BY InitIInv, InitCompleting, InitToken
<1>2. IInv /\ Completing /\ Token /\ [Next]_vars => (IInv /\ Completing /\ Token)'
  BY NextIInv, NextCompleting, NextToken
<1> QED BY <1>1, <1>2, PTL DEF Spec

-----------------------------------------------------------------------------
\* The theorems.

\* While a barrier is there, countActiveTodosForStep counts the barrier's own
\* to-dos: nobody else is at work in a process that takes one branch at a time.
THEOREM BarriersStayApart ==
  ASSUME OneAdmin, OneBranch
  PROVE  Spec => []BarriersApart
<1>1. IInv /\ Token => BarriersApart
  BY DEF Token, InOnePlace, BarriersApart
<1> QED BY <1>1, TokenInvariant, PTL

\* Nothing of such a process is stranded, whatever errors, redeliveries,
\* failures, restarts and abandonments there are, as long as no job is given up.
THEOREM NothingIsStrandedInSequence ==
  ASSUME OneAdmin, OneBranch
  PROVE  Spec => []NothingStranded
  BY BarriersStayApart, NothingIsStranded, PTL

\* checkAndMarkProcessFinished asks for the to-dos and the pending jobs, not for
\* the scheduled flows; in such a process none is left when it says yes.
THEOREM CompletedMeansDone ==
  ASSUME OneAdmin, OneBranch
  PROVE  Spec => []CompletedIsDone
<1>1. IInv /\ Token => CompletedIsDone
  <2> SUFFICES ASSUME IInv, Token, Status = "Completed"
               PROVE  scheduledFlow = << >>
    BY DEF CompletedIsDone
  <2>1. DOMAIN scheduledFlow = {}
    BY DEF Token
  <2>2. scheduledFlow \in [DOMAIN scheduledFlow -> FlowRow]
    BY DEF IInv, RowInv, TableTypes
  <2> QED BY <2>1, <2>2
<1> QED BY <1>1, TokenInvariant, PTL
=============================================================================
