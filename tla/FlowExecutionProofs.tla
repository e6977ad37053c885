------------------------- MODULE FlowExecutionProofs -------------------------
(***************************************************************************)
(* Proofs about FlowExecution for every process graph, any number of       *)
(* workers, attempts, items, errors, crashes and requests; RoutedOnce for  *)
(* one administrator at a time.                                            *)
(***************************************************************************)
EXTENDS FlowExecution, FunctionTheorems, FiniteSetTheorems, TLAPS

-----------------------------------------------------------------------------
\* The inductive invariant.

Queues == {"flow-execution", "system-step-execution"}

FlowRow == [sourceStepId : Steps, targetStepId : Steps \cup {Null},
            forEachBarrier : BOOLEAN]

ToDoRow == [step : Steps, barrier : Ids \cup {Null}, deleted : BOOLEAN,
            failed : BOOLEAN]

JobRow == [queue : Queues, ref : Ids, onError : Errors \cup {Null},
           attempts : 0 .. MaxAttempts, executionId : BOOLEAN]

PayloadRow == [queue : Queues, ref : Ids, onError : Errors \cup {Null}]

Delivery(jobs) ==
    [phase : Phases, job : jobs, receipt : Nat, payload : PayloadRow \cup {Null},
     completed : BOOLEAN, flow : FlowRow \cup {Null}]

AdminRow == [phase : {"idle", "abandon", "restart"}, todos : SUBSET Ids]

\* The types of the tables.
TableTypes ==
    /\ execution \in Columns
    /\ scheduledFlow \in [DOMAIN scheduledFlow -> FlowRow]
    /\ toDo \in [DOMAIN toDo -> ToDoRow]
    /\ queue \in [DOMAIN queue -> JobRow]
    /\ txCount \in Nat
    /\ routed \in [DOMAIN routed -> Nat]
    /\ completions \in [DOMAIN completions -> Nat]
    /\ DOMAIN routed \subseteq Ids
    /\ DOMAIN toDo \subseteq Ids

\* The types of what workers and administrators know; a job's id may be anything.
WorkerTypes == \E jobs : worker \in [Workers -> Delivery(jobs)]

AdminTypes == admin \in [Admins -> AdminRow]

\* Scheduled flows and to-dos that are named have been inserted, by a
\* transaction that has been counted; a to-do is numbered from one.
RowNames ==
    /\ DOMAIN scheduledFlow \subseteq DOMAIN routed
    /\ DOMAIN toDo = DOMAIN completions
    /\ \A s \in DOMAIN routed : s.tx <= txCount
    /\ \A t \in DOMAIN toDo :
          /\ t.tx <= txCount
          /\ t.item # 0
          /\ toDo[t].barrier \in DOMAIN routed \cup {Null}
          /\ toDo[t].failed => toDo[t].deleted \/ toDo[t].step \in System

\* A job of this kind refers to a row there has been.
Refers(kind, ref) ==
    IF kind = "flow-execution"
    THEN ref \in DOMAIN routed
    ELSE ref \in DOMAIN toDo /\ toDo[ref].step \in System

JobNames == \A j \in DOMAIN queue : Refers(queue[j].queue, queue[j].ref)

FlowPhases == {"flow", "siblings", "commit"}

SystemPhases == {"execute", "missing", "complete", "fail"}

\* What a delivery knows in each phase.
DeliveryNames ==
    \A w \in Workers : worker[w].phase # "idle" =>
        /\ worker[w].payload \in PayloadRow
        /\ Refers(worker[w].payload.queue, worker[w].payload.ref)
        /\ worker[w].phase \in FlowPhases =>
              worker[w].payload.queue = "flow-execution"
        /\ worker[w].phase \in SystemPhases =>
              /\ worker[w].payload.queue = "system-step-execution"
              /\ ~worker[w].completed
        /\ worker[w].phase \in {"siblings", "commit"} => worker[w].flow \in FlowRow

\* What an administrator restarts.
AdminNames ==
    \A a \in Admins : \A t \in admin[a].todos :
        /\ admin[a].phase = "restart"
        /\ Refers("system-step-execution", t)

\* A failed execution is a closed one, a completed one has no to-do left.
Closing ==
    /\ execution.failed => execution.finishedAt
    /\ CompletedHasNoToDo

\* A flow that is still scheduled has not been routed.
Routing ==
    \A s \in DOMAIN routed :
        /\ routed[s] <= 1
        /\ s \in DOMAIN scheduledFlow => routed[s] = 0

\* A barrier is a row of its to-dos' step, and taken after they are done.
RowBarriers ==
    \A t \in DOMAIN toDo : LET b == toDo[t].barrier IN
        b # Null =>
            /\ b.item = 0
            /\ b \in DOMAIN scheduledFlow =>
                  /\ scheduledFlow[b].forEachBarrier
                  /\ scheduledFlow[b].sourceStepId = toDo[t].step
            /\ routed[b] > 0 => toDo[t].deleted

\* A delivery that has read a barrier counts the to-dos of its step, and they
\* are done when it is about to take it.
DeliveryBarriers ==
    \A w \in Workers, t \in DOMAIN toDo :
        toDo[t].barrier # Null /\ worker[w].payload.ref = toDo[t].barrier =>
            /\ worker[w].phase = "siblings" =>
                  worker[w].flow.sourceStepId = toDo[t].step
            /\ worker[w].phase = "commit" => toDo[t].deleted

RowInv == TableTypes /\ RowNames /\ JobNames /\ Closing /\ Routing /\ RowBarriers

Others == WorkerTypes /\ AdminTypes /\ DeliveryNames /\ AdminNames /\ DeliveryBarriers

IInv == RowInv /\ Others

\* A job, in the queue or with a worker, that runs to-do t.
IsJobOf(j, t) ==
    \/ /\ j \in DOMAIN queue
       /\ queue[j].queue = "system-step-execution" /\ queue[j].ref = t
    \/ \E w \in Workers :
          /\ worker[w].phase # "idle" /\ worker[w].job = j
          /\ worker[w].payload.queue = "system-step-execution"
          /\ worker[w].payload.ref = t

AllMarked(t) == \A j : IsJobOf(j, t) => j \in completedJob

\* One administrator at a time.
OneAdmin == \A a, b \in Admins : a = b

\* At most one job of a to-do can still complete it, and none once it is
\* completed, failed, or about to be restarted.
Completing ==
    /\ \A t \in DOMAIN toDo :
          /\ completions[t] <= 1
          /\ ~toDo[t].deleted => completions[t] = 0
          /\ completions[t] > 0 => AllMarked(t)
          /\ \A j, k : /\ IsJobOf(j, t) /\ j \notin completedJob
                       /\ IsJobOf(k, t) /\ k \notin completedJob
                       => j = k
          /\ ~toDo[t].deleted /\ toDo[t].failed => AllMarked(t)
    /\ \A a \in Admins : \A t \in admin[a].todos :
          completions[t] = 0 /\ AllMarked(t)

-----------------------------------------------------------------------------
\* Helpers.

\* Insert and Delete, row by row.
LEMMA Inserted ==
  ASSUME NEW table, NEW rows
  PROVE  /\ DOMAIN Insert(table, rows) = DOMAIN table \cup DOMAIN rows
         /\ \A i \in DOMAIN rows : Insert(table, rows)[i] = rows[i]
         /\ \A i \in DOMAIN table : i \notin DOMAIN rows =>
               Insert(table, rows)[i] = table[i]
  BY DEF Insert

\* Inserting rows of a type keeps the type.
LEMMA InsertedType ==
  ASSUME NEW S, NEW table, NEW rows,
         table \in [DOMAIN table -> S], rows \in [DOMAIN rows -> S]
  PROVE  Insert(table, rows) \in [DOMAIN Insert(table, rows) -> S]
  BY DEF Insert

\* What deleting leaves.
LEMMA Deleted ==
  ASSUME NEW table, NEW ids
  PROVE  /\ DOMAIN Delete(table, ids) = DOMAIN table \ ids
         /\ \A i \in DOMAIN table \ ids : Delete(table, ids)[i] = table[i]
  BY DEF Delete

\* Deleting keeps the type.
LEMMA DeletedType ==
  ASSUME NEW S, NEW table, NEW ids, table \in [DOMAIN table -> S]
  PROVE  Delete(table, ids) \in [DOMAIN Delete(table, ids) -> S]
  BY DEF Delete

\* Worker w goes to phase p and remembers the rest; nobody else moves.
Moves(w, p) ==
    /\ \A v \in Workers : v # w => worker'[v] = worker[v]
    /\ worker'[w].phase = p
    /\ p # "idle" =>
          /\ worker'[w].job = worker[w].job
          /\ worker'[w].receipt = worker[w].receipt
          /\ worker'[w].payload = worker[w].payload
          /\ worker'[w].completed => worker[w].completed
    /\ p \notin {"idle", "record", "acknowledge"} =>
          /\ worker'[w].completed = worker[w].completed
          /\ worker'[w].flow = worker[w].flow

\* Replacing what one worker knows.
LEMMA WorkerSet ==
  ASSUME WorkerTypes, NEW w \in Workers, NEW d,
         worker' = [worker EXCEPT ![w] = d],
         \E jobs : d \in Delivery(jobs)
  PROVE  /\ WorkerTypes'
         /\ worker'[w] = d
         /\ \A v \in Workers : v # w => worker'[v] = worker[v]
<1>1. PICK jobs : worker \in [Workers -> Delivery(jobs)]
  BY DEF WorkerTypes
<1>2. PICK more : d \in Delivery(more)
  OBVIOUS
<1>3. /\ Delivery(jobs) \subseteq Delivery(jobs \cup more)
      /\ Delivery(more) \subseteq Delivery(jobs \cup more)
  BY DEF Delivery
<1>4. worker' \in [Workers -> Delivery(jobs \cup more)]
  BY <1>1, <1>2, <1>3
<1> QED BY <1>1, <1>4 DEF WorkerTypes

\* An idle worker is of the type.
LEMMA IdleType == Idle \in Delivery({Null})
  BY DEF Idle, Delivery, Phases

\* A worker goes to another phase.
LEMMA GoToMoves ==
  ASSUME WorkerTypes, NEW w \in Workers, NEW p \in Phases, GoTo(w, p)
  PROVE  WorkerTypes' /\ Moves(w, p)
<1>1. PICK jobs : worker \in [Workers -> Delivery(jobs)]
  BY DEF WorkerTypes
<1> DEFINE over == [worker[w] EXCEPT !.phase = p, !.completed = FALSE, !.flow = Null]
           on == [worker[w] EXCEPT !.phase = p]
<1>2. CASE p \in {"record", "acknowledge"}
  <2>1. worker' = [worker EXCEPT ![w] = over]
    BY <1>1, <1>2 DEF GoTo
  <2>2. over \in Delivery(jobs)
    BY <1>1 DEF Delivery
  <2>3. /\ worker'[w] = over /\ WorkerTypes'
        /\ \A v \in Workers : v # w => worker'[v] = worker[v]
    BY <2>1, <2>2, WorkerSet
  <2> QED BY <1>1, <1>2, <2>3 DEF Moves, Delivery
<1>3. CASE p \notin {"record", "acknowledge"}
  <2>1. worker' = [worker EXCEPT ![w] = on]
    BY <1>1, <1>3 DEF GoTo
  <2>2. on \in Delivery(jobs)
    BY <1>1 DEF Delivery
  <2>3. /\ worker'[w] = on /\ WorkerTypes'
        /\ \A v \in Workers : v # w => worker'[v] = worker[v]
    BY <2>1, <2>2, WorkerSet
  <2> QED BY <1>1, <2>3 DEF Moves, Delivery
<1> QED BY <1>2, <1>3

\* A worker becomes idle.
LEMMA IdleMoves ==
  ASSUME WorkerTypes, NEW w \in Workers, worker' = [worker EXCEPT ![w] = Idle]
  PROVE  WorkerTypes' /\ Moves(w, "idle")
<1>1. /\ WorkerTypes' /\ worker'[w] = Idle
      /\ \A v \in Workers : v # w => worker'[v] = worker[v]
  BY WorkerSet, IdleType
<1> QED BY <1>1 DEF Moves, Idle

\* A handler's error leaves the job to a later claim, or goes to record it.
LEMMA ErrorMoves ==
  ASSUME WorkerTypes, NEW w \in Workers, HandlerError(w)
  PROVE  /\ WorkerTypes'
         /\ (Moves(w, "idle") /\ ~IsLastAttempt(w)) \/ Moves(w, "record")
<1>1. PICK jobs : worker \in [Workers -> Delivery(jobs)]
  BY DEF WorkerTypes
<1>2. CASE IsLastAttempt(w)
  <2>1. GoTo(w, "record")
    BY <1>2 DEF HandlerError
  <2> QED BY <2>1, GoToMoves DEF Phases
<1>3. CASE ~IsLastAttempt(w)
  <2>1. worker' = [worker EXCEPT ![w] = Idle]
    BY <1>1, <1>3 DEF HandlerError
  <2> QED BY <1>3, <2>1, IdleMoves
<1> QED BY <1>2, <1>3

\* What is assumed of the constants.
LEMMA Constants ==
  /\ Start \in Steps /\ ForEach \subseteq Steps /\ System \subseteq Steps
  /\ Source \in [Flows -> Steps] /\ Target \in [Flows -> Steps]
  /\ Kind \in [Flows -> Kinds]
  /\ Items \subseteq Nat
  /\ MaxAttempts \in Nat \ {0}
  /\ Null \notin Steps /\ Null \notin Flows /\ Null \notin Ids
  /\ IsFiniteSet(Flows)
  BY FlowAssumption

-----------------------------------------------------------------------------
\* What Route does, row by row.

\* An id of the transaction that is being made.
NewId(i) == i \in Ids /\ i.tx = txCount + 1

\* Ids of a transaction's rows are new.
LEMMA IdsAreNew ==
  ASSUME txCount \in Nat, NEW f \in Flows \cup {Null}, NEW k \in Nat
  PROVE  NewId(Id(f, k)) /\ Id(f, k).flow = f /\ Id(f, k).item = k
  BY DEF NewId, Id, Ids

\* New to-dos, new scheduled flows, and what routing `ref' makes of the tables.
RoutesTo(ref, new, flows) ==
    /\ \A i \in new : NewId(i) /\ i.item # 0
    /\ \A i \in flows : NewId(i) /\ i.item = 0
    /\ DOMAIN toDo' = DOMAIN toDo \cup new
    /\ \A t \in DOMAIN toDo : t \notin new => toDo'[t] = toDo[t]
    /\ \A t \in new :
          /\ toDo'[t] \in ToDoRow
          /\ ~toDo'[t].deleted /\ ~toDo'[t].failed
          /\ \/ toDo'[t].barrier = Null
             \/ /\ toDo'[t].barrier \in flows
                /\ scheduledFlow'[toDo'[t].barrier].forEachBarrier
                /\ scheduledFlow'[toDo'[t].barrier].sourceStepId = toDo'[t].step
    /\ DOMAIN scheduledFlow' = (DOMAIN scheduledFlow \ {ref}) \cup flows
    /\ \A s \in DOMAIN scheduledFlow \ {ref} :
          s \notin flows => scheduledFlow'[s] = scheduledFlow[s]
    /\ \A s \in flows : scheduledFlow'[s] \in FlowRow
    /\ \A j \in DOMAIN queue' :
          \/ j \in DOMAIN queue /\ queue'[j] = queue[j]
          \/ /\ queue'[j] \in JobRow
             /\ queue'[j].queue = "flow-execution"
             /\ queue'[j].ref \in flows
          \/ /\ queue'[j] \in JobRow
             /\ queue'[j].queue = "system-step-execution"
             /\ queue'[j].ref = j /\ j \in new
             /\ toDo'[j].step \in System
    /\ DOMAIN completions' = DOMAIN completions \cup new
    /\ \A t \in new : completions'[t] = 0
    /\ \A t \in DOMAIN completions : t \notin new => completions'[t] = completions[t]
    /\ DOMAIN routed' = DOMAIN routed \cup flows
    /\ \A s \in flows : s # ref => routed'[s] = 0
    /\ \A s \in DOMAIN routed : s \notin flows /\ s # ref => routed'[s] = routed[s]
    /\ ref \in DOMAIN routed /\ ref \notin flows => routed'[ref] = routed[ref] + 1
    /\ txCount' = txCount + 1
    /\ \/ execution' = execution
       \/ /\ execution' = [execution EXCEPT !.finishedAt = TRUE]
          /\ new = {} /\ MayFinish

\* What the new rows and jobs have to do with the branches that are taken: a new
\* scheduled flow has a job of its own or is the barrier of a new to-do, a system
\* step has a job, and an execution is finished only if there is nothing new.
RoutesBranches(branches, new, flows) ==
    /\ DOMAIN queue \subseteq DOMAIN queue'
    /\ \A j \in DOMAIN queue' : j \in DOMAIN queue \/ NewId(j)
    /\ \A j \in DOMAIN queue : ~NewId(j) => queue'[j] = queue[j]
    /\ \A s \in flows :
          \/ s \in DOMAIN queue' /\ queue'[s] = FlowJob(s, Null)
          \/ \E t \in new : toDo'[t].barrier = s
    /\ \A t \in new :
          toDo'[t].step \in System => t \in DOMAIN queue' /\ queue'[t] = SystemJob(t)
    /\ execution' = execution \/ flows = {}
    /\ IsFiniteSet(new)
    /\ \A i \in new \cup flows : i.flow \in branches
    /\ \A t \in new : toDo'[t].barrier = Null => t.item = 1
    /\ \A t \in new, s \in flows : t.flow = s.flow => toDo'[t].barrier = s

\* The tables that routing changes are still functions.
IsTable(table) == table = [i \in DOMAIN table |-> table[i]]

RoutedTables ==
    IsTable(toDo') /\ IsTable(scheduledFlow') /\ IsTable(queue')
        /\ IsTable(completions') /\ IsTable(routed')

\* Outcomes: what is executed and what is deferred are different flows.
LEMMA OutcomesAreFlows ==
  ASSUME NEW flow, NEW onError, NEW outcome \in Outcomes(flow, onError)
  PROVE  /\ outcome.execute \subseteq Flows
         /\ outcome.defer \subseteq Flows
         /\ outcome.execute \cap outcome.defer = {}
  BY DEF Outcomes, FlowsFor

\* Route, row by row.
LEMMA RouteRows ==
  ASSUME TableTypes, NEW w, NEW execute \in SUBSET Flows, NEW defer \in SUBSET Flows,
         execute \cap defer = {},
         NEW items \in [{f \in execute : Target[f] \in ForEach} -> Items],
         RouteTo(w, execute, defer, items)
  PROVE  /\ \E new, flows : /\ RoutesTo(Payload(w).ref, new, flows)
                            /\ RoutesBranches(execute \cup defer, new, flows)
         /\ RoutedTables
<1> DEFINE Each(f) == IF Target[f] \in ForEach THEN items[f] ELSE 1
           barriers == {f \in execute : Target[f] \in ForEach /\ Each(f) > 0}
           passThrough == {f \in execute : Each(f) = 0}
           newToDos == UNION {{Id(f, k) : k \in 1 .. Each(f)} : f \in execute}
           continuing == {Id(f, 0) : f \in passThrough \cup defer}
           newFlows == continuing \cup {Id(f, 0) : f \in barriers}
           newSystem == {t \in newToDos : Target[t.flow] \in System}
           toDoRows == [t \in newToDos |->
                   [step |-> Target[t.flow],
                    barrier |-> IF t.flow \in barriers THEN Id(t.flow, 0)
                                                       ELSE Null,
                    deleted |-> FALSE, failed |-> FALSE]]
           flowRows == [s \in newFlows |->
                      IF s.flow \in defer
                      THEN ScheduledFlow(Source[s.flow], Target[s.flow], FALSE)
                      ELSE ScheduledFlow(Target[s.flow], Null,
                                         s.flow \in barriers)]
           jobRows == [j \in continuing \cup newSystem |->
                   IF j \in continuing THEN FlowJob(j, Null)
                                       ELSE SystemJob(j)]
           ref == Payload(w).ref
<1>1. /\ toDo' = Insert(toDo, toDoRows)
      /\ scheduledFlow' = Insert(Delete(scheduledFlow, {ref}), flowRows)
      /\ queue' = Insert(queue, jobRows)
      /\ execution' = [execution EXCEPT !.finishedAt =
                        @ \/ (NothingFollows(newToDos, continuing) /\ MayFinish)]
      /\ completions' = Insert(completions, [t \in newToDos |-> 0])
      /\ routed' = [Insert(routed, [s \in newFlows |-> 0]) EXCEPT ![ref] = @ + 1]
      /\ txCount' = txCount + 1
  BY DEF RouteTo
<1>2. \A f \in Flows : f \in execute => Each(f) \in Nat
  BY Constants
<1>3. \A t \in newToDos :
         /\ NewId(t) /\ t.item # 0
         /\ t.flow \in execute /\ Each(t.flow) # 0
  <2>1. SUFFICES ASSUME NEW f \in execute, NEW k \in 1 .. Each(f)
                 PROVE  /\ NewId(Id(f, k)) /\ Id(f, k).item # 0
                        /\ Id(f, k).flow \in execute /\ Each(Id(f, k).flow) # 0
    <3> HIDE DEF Each
    <3> QED BY <2>1
  <2>2. Each(f) \in Nat
    BY <1>2
  <2> HIDE DEF Each
  <2>3. k \in Nat /\ k # 0 /\ Each(f) # 0
    BY <2>2
  <2>4. /\ NewId(Id(f, k)) /\ Id(f, k).item = k /\ Id(f, k).flow = f
    BY <2>3, IdsAreNew DEF TableTypes
  <2> QED BY <2>3, <2>4
<1>4. \A s \in newFlows :
         /\ NewId(s) /\ s.item = 0
         /\ s = Id(s.flow, 0)
         /\ s.flow \in passThrough \cup defer \cup barriers
  <2>1. SUFFICES ASSUME NEW f \in passThrough \cup defer \cup barriers
                 PROVE  /\ NewId(Id(f, 0)) /\ Id(f, 0).item = 0 /\ Id(f, 0).flow = f
    <3> HIDE DEF passThrough, barriers
    <3> QED BY <2>1
  <2> QED BY IdsAreNew DEF TableTypes
<1>5. \A f \in barriers : Id(f, 0) \in newFlows
  OBVIOUS
<1>6. \A f \in barriers : f \notin defer
  OBVIOUS
<1>7. \A t \in newToDos : t.flow \in barriers => Id(t.flow, 0).flow = t.flow
  BY <1>3, IdsAreNew DEF TableTypes
<1>8. \A t \in newToDos : t \notin newFlows
  BY <1>3, <1>4
<1>21. \A s \in newFlows : s \in continuing \/ s.flow \in barriers
  <2>1. \A f \in barriers : Id(f, 0).flow = f
    BY IdsAreNew DEF TableTypes
  <2> HIDE DEF barriers, continuing
  <2> QED BY <2>1
<1>22. \A f \in barriers : \E t \in newToDos : t.flow = f
  <2> SUFFICES ASSUME NEW f \in barriers PROVE \E t \in newToDos : t.flow = f
    OBVIOUS
  <2>1. Each(f) \in Nat /\ Each(f) > 0 /\ f \in execute /\ f \in Flows
    BY <1>2
  <2>2. Id(f, 1) \in {Id(f, k) : k \in 1 .. Each(f)}
    <3> HIDE DEF Each
    <3>1. 1 \in 1 .. Each(f)
      BY <2>1
    <3> QED BY <3>1
  <2>3. Id(f, 1).flow = f
    BY <2>1, IdsAreNew DEF TableTypes
  <2> HIDE DEF Each
  <2> QED BY <2>1, <2>2, <2>3
<1>23. \A t \in newToDos : t.flow \notin passThrough /\ t.flow \notin defer
  BY <1>3
<1>24. \A t \in newToDos : t.flow \notin barriers => t.item = 1
  <2> SUFFICES ASSUME NEW f \in execute, f \notin barriers, NEW k \in 1 .. Each(f)
               PROVE  Id(f, k).item = 1
    <3>1. \A f \in execute : \A k \in 1 .. Each(f) : Id(f, k).flow = f
      <4> SUFFICES ASSUME NEW f \in execute, NEW k \in 1 .. Each(f)
                   PROVE  Id(f, k).flow = f
        OBVIOUS
      <4>1. Each(f) \in Nat
        BY <1>2
      <4> HIDE DEF Each
      <4>2. k \in Nat
        BY <4>1
      <4> QED BY <4>2, IdsAreNew DEF TableTypes
    <3> HIDE DEF Each, barriers
    <3> QED BY <3>1
  <2>1. Each(f) \in Nat /\ ~(Target[f] \in ForEach /\ Each(f) > 0)
    BY <1>2
  <2>2. Target[f] \in ForEach => Each(f) = 0
    <3> HIDE DEF Each
    <3> QED BY <2>1
  <2>3. Target[f] \notin ForEach => Each(f) = 1
    OBVIOUS
  <2> HIDE DEF Each
  <2>4. k = 1
    BY <2>1, <2>2, <2>3
  <2> QED BY <2>4, IdsAreNew DEF TableTypes
<1>25. IsFiniteSet(newToDos)
  <2> DEFINE Row(f) == {Id(f, k) : k \in 1 .. Each(f)}
             rows == {Row(f) : f \in execute}
  <2>1. IsFiniteSet(execute)
    BY Constants, FS_Subset
  <2>2. IsFiniteSet(rows)
    <3> DEFINE g == [f \in execute |-> Row(f)]
    <3>1. g \in Surjection(execute, rows)
      <4> HIDE DEF Row
      <4> QED BY DEF Surjection
    <3> QED BY <2>1, <3>1, FS_Surjection
  <2>3. ASSUME NEW f \in execute
        PROVE  IsFiniteSet(Row(f))
    <3> DEFINE g == [k \in 1 .. Each(f) |-> Id(f, k)]
    <3>1. Each(f) \in Nat
      BY <1>2
    <3> HIDE DEF Each
    <3>2. g \in Surjection(1 .. Each(f), Row(f))
      BY DEF Surjection
    <3>3. IsFiniteSet(1 .. Each(f))
      BY <3>1, FS_Interval
    <3> HIDE DEF g, Row
    <3> QED BY <3>2, <3>3, FS_Surjection
  <2>4. newToDos = UNION rows
    OBVIOUS
  <2>5. \A T \in rows : IsFiniteSet(T)
    <3> HIDE DEF Row
    <3> QED BY <2>3
  <2> HIDE DEF rows
  <2> QED BY <2>2, <2>4, <2>5, FS_UNION
<1> HIDE DEF Each, barriers, passThrough, newToDos, continuing, newFlows
<1>9. \A t \in newToDos :
         /\ toDoRows[t] \in ToDoRow
         /\ ~toDoRows[t].deleted /\ ~toDoRows[t].failed
         /\ toDoRows[t].step = Target[t.flow]
         /\ toDoRows[t].barrier = IF t.flow \in barriers THEN Id(t.flow, 0) ELSE Null
  <2> SUFFICES ASSUME NEW t \in newToDos
               PROVE  /\ toDoRows[t] \in ToDoRow
                      /\ ~toDoRows[t].deleted /\ ~toDoRows[t].failed
                      /\ toDoRows[t].step = Target[t.flow]
                      /\ toDoRows[t].barrier =
                            IF t.flow \in barriers THEN Id(t.flow, 0) ELSE Null
    OBVIOUS
  <2>1. Target[t.flow] \in Steps
    BY <1>3, Constants
  <2>2. t.flow \in barriers => Id(t.flow, 0) \in Ids
    BY <1>4, <1>5 DEF NewId
  <2> QED BY <2>1, <2>2 DEF ToDoRow
<1>10. \A s \in newFlows :
          /\ flowRows[s] \in FlowRow
          /\ s.flow \in barriers =>
                /\ flowRows[s].forEachBarrier
                /\ flowRows[s].sourceStepId = Target[s.flow]
  <2> SUFFICES ASSUME NEW s \in newFlows
               PROVE  /\ flowRows[s] \in FlowRow
                      /\ s.flow \in barriers =>
                            /\ flowRows[s].forEachBarrier
                            /\ flowRows[s].sourceStepId = Target[s.flow]
    OBVIOUS
  <2>1. s.flow \in Flows
    BY <1>4 DEF passThrough, barriers
  <2>2. Target[s.flow] \in Steps /\ Source[s.flow] \in Steps
    BY <2>1, Constants
  <2>3. CASE s.flow \in defer
    <3>1. flowRows[s] = ScheduledFlow(Source[s.flow], Target[s.flow], FALSE)
      BY <2>3
    <3> QED BY <2>2, <2>3, <3>1, <1>6 DEF ScheduledFlow, FlowRow
  <2>4. CASE s.flow \notin defer
    <3>1. CASE s.flow \in barriers
      <4>1. flowRows[s] = ScheduledFlow(Target[s.flow], Null, TRUE)
        BY <2>4, <3>1
      <4> HIDE DEF flowRows
      <4> QED BY <2>2, <4>1 DEF ScheduledFlow, FlowRow
    <3>2. CASE s.flow \notin barriers
      <4>0. (s.flow \in barriers) = FALSE
        BY <3>2
      <4>1. flowRows[s] = ScheduledFlow(Target[s.flow], Null, FALSE)
        BY <2>4, <4>0
      <4> HIDE DEF flowRows
      <4> QED BY <2>2, <3>2, <4>1 DEF ScheduledFlow, FlowRow
    <3> QED BY <3>1, <3>2
  <2> QED BY <2>3, <2>4
<1>11. \A j \in continuing \cup newSystem :
          /\ jobRows[j] \in JobRow /\ jobRows[j].ref = j
          /\ \/ jobRows[j].queue = "flow-execution" /\ j \in newFlows
             \/ /\ jobRows[j].queue = "system-step-execution" /\ j \in newToDos
                /\ Target[j.flow] \in System
  <2> SUFFICES ASSUME NEW j \in continuing \cup newSystem
               PROVE  /\ jobRows[j] \in JobRow /\ jobRows[j].ref = j
                      /\ \/ jobRows[j].queue = "flow-execution" /\ j \in newFlows
                         \/ /\ jobRows[j].queue = "system-step-execution"
                            /\ j \in newToDos
                            /\ Target[j.flow] \in System
    OBVIOUS
  <2>1. 0 \in 0 .. MaxAttempts
    BY Constants
  <2>2. CASE j \in continuing
    <3>1. j \in newFlows
      BY <2>2 DEF newFlows
    <3>2. j \in Ids
      BY <3>1, <1>4 DEF NewId
    <3>3. jobRows[j] = FlowJob(j, Null)
      BY <2>2
    <3> HIDE DEF jobRows
    <3> QED BY <2>1, <3>1, <3>2, <3>3 DEF FlowJob, JobRow, Queues
  <2>3. CASE j \notin continuing
    <3>1. j \in newToDos /\ Target[j.flow] \in System
      BY <2>3
    <3>2. j \in Ids
      BY <3>1, <1>3 DEF NewId
    <3>3. jobRows[j] = SystemJob(j)
      BY <2>3
    <3> HIDE DEF jobRows
    <3> QED BY <2>1, <3>1, <3>2, <3>3 DEF SystemJob, JobRow, Queues
  <2> QED BY <2>2, <2>3
<1>12. /\ DOMAIN toDoRows = newToDos /\ DOMAIN flowRows = newFlows
       /\ DOMAIN jobRows = continuing \cup newSystem
  OBVIOUS
<1> HIDE DEF toDoRows, flowRows, jobRows, newSystem
<1>13. /\ DOMAIN toDo' = DOMAIN toDo \cup newToDos
       /\ \A t \in DOMAIN toDo : t \notin newToDos => toDo'[t] = toDo[t]
       /\ \A t \in newToDos : toDo'[t] = toDoRows[t]
       /\ IsTable(toDo')
  BY <1>1, <1>12, Inserted DEF IsTable, Insert
<1>14. /\ DOMAIN scheduledFlow' = (DOMAIN scheduledFlow \ {ref}) \cup newFlows
       /\ \A s \in DOMAIN scheduledFlow \ {ref} :
             s \notin newFlows => scheduledFlow'[s] = scheduledFlow[s]
       /\ \A s \in newFlows : scheduledFlow'[s] = flowRows[s]
       /\ IsTable(scheduledFlow')
  BY <1>1, <1>12 DEF IsTable, Insert, Delete
<1>15. /\ \A j \in DOMAIN queue' :
             \/ j \in DOMAIN queue /\ queue'[j] = queue[j]
             \/ j \in continuing \cup newSystem /\ queue'[j] = jobRows[j]
       /\ IsTable(queue')
  BY <1>1, <1>12 DEF IsTable, Insert
<1>16. /\ DOMAIN completions' = DOMAIN completions \cup newToDos
       /\ \A t \in newToDos : completions'[t] = 0
       /\ \A t \in DOMAIN completions :
             t \notin newToDos => completions'[t] = completions[t]
       /\ IsTable(completions')
  BY <1>1 DEF IsTable, Insert
<1>17. /\ DOMAIN routed' = DOMAIN routed \cup newFlows
       /\ \A s \in newFlows : s # ref => routed'[s] = 0
       /\ \A s \in DOMAIN routed :
             s \notin newFlows /\ s # ref => routed'[s] = routed[s]
       /\ ref \in DOMAIN routed /\ ref \notin newFlows =>
             routed'[ref] = routed[ref] + 1
       /\ IsTable(routed')
  <2> HIDE DEF ref
  <2> QED BY <1>1 DEF IsTable, Insert
<1>18. \/ execution' = execution
       \/ /\ execution' = [execution EXCEPT !.finishedAt = TRUE]
          /\ newToDos = {} /\ MayFinish
  <2>1. CASE NothingFollows(newToDos, continuing) /\ MayFinish
    <3>1. execution' = [execution EXCEPT !.finishedAt = @ \/ TRUE]
      BY <1>1, <2>1
    <3> QED BY <2>1, <3>1 DEF NothingFollows
  <2>2. CASE ~(NothingFollows(newToDos, continuing) /\ MayFinish)
    <3>1. execution' = [execution EXCEPT !.finishedAt = @ \/ FALSE]
      BY <1>1, <2>2
    <3> QED BY <3>1 DEF TableTypes, Columns
  <2> QED BY <2>1, <2>2
<1>19. RoutesTo(ref, newToDos, newFlows)
  <2>1. \A t \in newToDos :
           \/ toDo'[t].barrier = Null
           \/ /\ toDo'[t].barrier \in newFlows
              /\ scheduledFlow'[toDo'[t].barrier].forEachBarrier
              /\ scheduledFlow'[toDo'[t].barrier].sourceStepId = toDo'[t].step
    <3> SUFFICES ASSUME NEW t \in newToDos, t.flow \in barriers
                 PROVE  /\ Id(t.flow, 0) \in newFlows
                        /\ scheduledFlow'[Id(t.flow, 0)].forEachBarrier
                        /\ scheduledFlow'[Id(t.flow, 0)].sourceStepId = Target[t.flow]
      BY <1>9, <1>13
    <3>1. Id(t.flow, 0) \in newFlows /\ Id(t.flow, 0).flow = t.flow
      BY <1>5, <1>7
    <3> QED BY <1>10, <1>14, <3>1
  <2>2. \A j \in continuing \cup newSystem :
           jobRows[j].queue = "system-step-execution" => toDo'[j].step \in System
    BY <1>9, <1>11, <1>13
  <2>3. \A j \in DOMAIN queue' :
           \/ j \in DOMAIN queue /\ queue'[j] = queue[j]
           \/ /\ queue'[j] \in JobRow
              /\ queue'[j].queue = "flow-execution"
              /\ queue'[j].ref \in newFlows
           \/ /\ queue'[j] \in JobRow
              /\ queue'[j].queue = "system-step-execution"
              /\ queue'[j].ref = j /\ j \in newToDos
              /\ toDo'[j].step \in System
    BY <1>11, <1>15, <2>2, Zenon
  <2>4. \A t \in newToDos :
           toDo'[t] \in ToDoRow /\ ~toDo'[t].deleted /\ ~toDo'[t].failed
    BY <1>9, <1>13
  <2>5. \A s \in newFlows : scheduledFlow'[s] \in FlowRow
    BY <1>10, <1>14
  <2>6. txCount' = txCount + 1
    BY <1>1
  <2> HIDE DEF ref
  <2> QED BY <1>3, <1>4, <1>13, <1>14, <1>16, <1>17, <1>18, <2>1, <2>3, <2>4, <2>5,
             <2>6, Zenon DEF RoutesTo
<1>20. RoutesBranches(execute \cup defer, newToDos, newFlows)
  <2>1. /\ DOMAIN queue' = DOMAIN queue \cup (continuing \cup newSystem)
        /\ \A j \in DOMAIN queue :
              j \notin continuing \cup newSystem => queue'[j] = queue[j]
        /\ \A j \in continuing \cup newSystem : queue'[j] = jobRows[j]
    BY <1>1, <1>12 DEF Insert
  <2>2. \A j \in continuing \cup newSystem : NewId(j)
    BY <1>3, <1>4, <1>11
  <2>3. \A s \in newFlows :
           \/ s \in DOMAIN queue' /\ queue'[s] = FlowJob(s, Null)
           \/ \E t \in newToDos : toDo'[t].barrier = s
    <3> SUFFICES ASSUME NEW s \in newFlows
                 PROVE  \/ s \in DOMAIN queue' /\ queue'[s] = FlowJob(s, Null)
                        \/ \E t \in newToDos : toDo'[t].barrier = s
      OBVIOUS
    <3>1. CASE s \in continuing
      <4>1. jobRows[s] = FlowJob(s, Null)
        BY <3>1 DEF jobRows
      <4> QED BY <2>1, <3>1, <4>1
    <3>2. CASE s.flow \in barriers
      <4>1. PICK t \in newToDos : t.flow = s.flow
        BY <1>22, <3>2
      <4>2. toDo'[t].barrier = s
        BY <1>4, <1>9, <1>13, <3>2, <4>1
      <4> QED BY <4>2
    <3> QED BY <1>21, <3>1, <3>2
  <2>4. ASSUME NEW t \in newToDos, toDo'[t].step \in System
        PROVE  t \in DOMAIN queue' /\ queue'[t] = SystemJob(t)
    <3>1. t \in newSystem
      BY <1>9, <1>13, <2>4 DEF newSystem
    <3>2. t \notin continuing
      BY <1>8 DEF newFlows
    <3>3. jobRows[t] = SystemJob(t)
      BY <3>1, <3>2 DEF jobRows
    <3> QED BY <2>1, <3>1, <3>3
  <2>5. execution' = execution \/ newFlows = {}
    <3>1. CASE NothingFollows(newToDos, continuing)
      <4>1. newToDos = {} /\ continuing = {}
        BY <3>1 DEF NothingFollows
      <4> QED BY <1>21, <1>22, <4>1
    <3>2. CASE ~NothingFollows(newToDos, continuing)
      <4>1. execution' = [execution EXCEPT !.finishedAt = @ \/ FALSE]
        BY <1>1, <3>2
      <4> QED BY <4>1 DEF TableTypes, Columns
    <3> QED BY <3>1, <3>2
  <2>6. \A i \in newToDos \cup newFlows : i.flow \in execute \cup defer
    BY <1>3, <1>4 DEF passThrough, barriers
  <2>7. \A t \in newToDos : toDo'[t].barrier = Null => t.item = 1
    <3>1. ASSUME NEW t \in newToDos, t.flow \in barriers
          PROVE  toDo'[t].barrier # Null
      <4>1. Id(t.flow, 0) \in Ids
        BY <1>4, <1>5, <3>1 DEF NewId
      <4> QED BY <1>9, <1>13, <3>1, <4>1, Constants
    <3> QED BY <1>24, <3>1
  <2>8. \A t \in newToDos, s \in newFlows :
           t.flow = s.flow => toDo'[t].barrier = s
    BY <1>4, <1>9, <1>13, <1>23
  <2>9. /\ DOMAIN queue \subseteq DOMAIN queue'
        /\ \A j \in DOMAIN queue' : j \in DOMAIN queue \/ NewId(j)
        /\ \A j \in DOMAIN queue : ~NewId(j) => queue'[j] = queue[j]
    BY <2>1, <2>2
  <2> QED BY <1>25, <2>3, <2>4, <2>5, <2>6, <2>7, <2>8, <2>9, Zenon DEF RoutesBranches
<1>26. \E new, flows : /\ RoutesTo(ref, new, flows)
                       /\ RoutesBranches(execute \cup defer, new, flows)
  BY <1>19, <1>20
<1> QED BY <1>13, <1>14, <1>15, <1>16, <1>17, <1>26 DEF RoutedTables

-----------------------------------------------------------------------------
\* What the other transactions do, row by row.

\* Flows `new' are scheduled, what was routed stays.
Schedules(new) ==
    /\ DOMAIN scheduledFlow' = DOMAIN scheduledFlow \cup new
    /\ \A s \in DOMAIN scheduledFlow \ new : scheduledFlow'[s] = scheduledFlow[s]
    /\ \A s \in new : scheduledFlow'[s] \in FlowRow
    /\ DOMAIN routed' = DOMAIN routed \cup new
    /\ \A s \in DOMAIN routed \ new : routed'[s] = routed[s]
    /\ \A s \in new : routed'[s] = 0
    /\ IsTable(scheduledFlow') /\ IsTable(routed')

\* Jobs are kept, those that are added run scheduled flow s.
AddsFlowJob(s) ==
    /\ \A j \in DOMAIN queue' :
          \/ j \in DOMAIN queue /\ queue'[j] = queue[j]
          \/ /\ queue'[j] \in JobRow
             /\ queue'[j].queue = "flow-execution"
             /\ queue'[j].ref = s
    /\ IsTable(queue')

\* Scheduling one flow.
LEMMA SchedulesOne ==
  ASSUME NEW s, NEW row \in FlowRow,
         scheduledFlow' = Insert(scheduledFlow, [i \in {s} |-> row]),
         routed' = Insert(routed, [i \in {s} |-> 0])
  PROVE  Schedules({s})
  BY DEF Schedules, Insert, IsTable

\* Adding one job.
LEMMA AddsOne ==
  ASSUME NEW s \in Ids, NEW i, NEW e \in Errors \cup {Null},
         queue' = Insert(queue, [j \in {i} |-> FlowJob(s, e)])
  PROVE  AddsFlowJob(s)
<1>1. FlowJob(s, e) \in JobRow
  BY Constants DEF FlowJob, JobRow, Queues
<1>2. FlowJob(s, e).queue = "flow-execution" /\ FlowJob(s, e).ref = s
  BY DEF FlowJob
<1> QED BY <1>1, <1>2 DEF AddsFlowJob, Insert, IsTable

\* Completing to-do t schedules s, or names the barrier s.
Continues(t, s) ==
    /\ DOMAIN toDo' = DOMAIN toDo
    /\ \A u \in DOMAIN toDo : u # t => toDo'[u] = toDo[u]
    /\ toDo'[t] \in ToDoRow
    /\ toDo'[t].step = toDo[t].step /\ toDo'[t].barrier = toDo[t].barrier
    /\ toDo'[t].deleted /\ ~toDo'[t].failed
    /\ \/ /\ s = toDo[t].barrier /\ s # Null
          /\ UNCHANGED <<scheduledFlow, routed>>
       \/ /\ toDo[t].barrier = Null
          /\ Schedules({s})
    /\ AddsFlowJob(s)
    /\ DOMAIN completions' = DOMAIN completions
    /\ \A u \in DOMAIN completions : u # t => completions'[u] = completions[u]
    /\ completions'[t] = completions[t] + 1
    /\ txCount' = txCount + 1
    /\ IsTable(toDo') /\ IsTable(completions')

\* Continue, row by row.
LEMMA ContinueRows ==
  ASSUME TableTypes, RowNames, NEW t \in DOMAIN toDo, NEW fresh \in Ids,
         Continue(t, fresh)
  PROVE  \E s : Continues(t, s) /\ s \in {toDo[t].barrier, fresh}
               /\ (s # fresh => s # Null)
<1> DEFINE s == IF toDo[t].barrier # Null THEN toDo[t].barrier ELSE fresh
<1>1. /\ toDo[t] \in ToDoRow /\ toDo \in [DOMAIN toDo -> ToDoRow]
      /\ completions \in [DOMAIN completions -> Nat] /\ DOMAIN toDo = DOMAIN completions
  BY DEF TableTypes, RowNames
<1>2. s \in Ids
  BY <1>1 DEF ToDoRow
<1>3. /\ DOMAIN toDo' = DOMAIN toDo
      /\ \A u \in DOMAIN toDo : u # t => toDo'[u] = toDo[u]
      /\ toDo'[t] = [toDo[t] EXCEPT !.deleted = TRUE, !.failed = FALSE]
      /\ IsTable(toDo')
  BY <1>1 DEF Continue, IsTable, ToDoRow
<1>4. /\ DOMAIN completions' = DOMAIN completions
      /\ \A u \in DOMAIN completions : u # t => completions'[u] = completions[u]
      /\ completions'[t] = completions[t] + 1
      /\ IsTable(completions')
  BY <1>1 DEF Continue, IsTable
<1>5. queue' = Insert(queue, [i \in {Id(Null, 0)} |-> FlowJob(s, Null)])
  BY DEF Continue
<1>6. AddsFlowJob(s)
  <2> HIDE DEF s
  <2> QED BY <1>2, <1>5, AddsOne
<1>7. \/ /\ s = toDo[t].barrier /\ s # Null
         /\ UNCHANGED <<scheduledFlow, routed>>
      \/ /\ toDo[t].barrier = Null
         /\ Schedules({s})
  <2>1. CASE toDo[t].barrier # Null
    BY <2>1 DEF Continue
  <2>2. CASE toDo[t].barrier = Null
    <3>1. /\ scheduledFlow' = Insert(scheduledFlow,
                  [i \in {s} |-> ScheduledFlow(toDo[t].step, Null, FALSE)])
          /\ routed' = Insert(routed, [i \in {s} |-> 0])
      BY <2>2 DEF Continue
    <3>2. ScheduledFlow(toDo[t].step, Null, FALSE) \in FlowRow
      BY <1>1 DEF ScheduledFlow, FlowRow, ToDoRow
    <3> HIDE DEF s
    <3> QED BY <2>2, <3>1, <3>2, SchedulesOne
  <2> QED BY <2>1, <2>2
<1>8. txCount' = txCount + 1
  BY DEF Continue
<1>9. /\ toDo'[t] \in ToDoRow
      /\ toDo'[t].step = toDo[t].step /\ toDo'[t].barrier = toDo[t].barrier
      /\ toDo'[t].deleted /\ ~toDo'[t].failed
  BY <1>1, <1>3 DEF ToDoRow
<1>10. s \in {toDo[t].barrier, fresh} /\ (s # fresh => s # Null)
  OBVIOUS
<1> HIDE DEF s
<1>11. Continues(t, s)
  BY <1>3, <1>4, <1>6, <1>7, <1>8, <1>9, Zenon DEF Continues
<1> QED BY <1>10, <1>11

\* failToDo: only an open to-do is marked as failed.
Fails(t) ==
    /\ DOMAIN toDo' = DOMAIN toDo
    /\ \A u \in DOMAIN toDo : u # t => toDo'[u] = toDo[u]
    /\ toDo'[t] \in ToDoRow
    /\ toDo'[t].step = toDo[t].step /\ toDo'[t].barrier = toDo[t].barrier
    /\ toDo'[t].deleted = toDo[t].deleted
    /\ toDo'[t].failed => toDo[t].failed \/ ~toDo[t].deleted
    /\ IsTable(toDo')

\* FailToDo, row by row.
LEMMA FailRows ==
  ASSUME TableTypes, NEW t \in DOMAIN toDo, FailToDo(t)
  PROVE  Fails(t)
<1>1. toDo[t] \in ToDoRow /\ toDo \in [DOMAIN toDo -> ToDoRow]
  BY DEF TableTypes
<1>2. /\ DOMAIN toDo' = DOMAIN toDo
      /\ \A u \in DOMAIN toDo : u # t => toDo'[u] = toDo[u]
      /\ toDo'[t] = [toDo[t] EXCEPT !.failed = @ \/ ~toDo[t].deleted]
      /\ IsTable(toDo')
  BY <1>1 DEF FailToDo, IsTable, ToDoRow
<1>3. /\ toDo'[t] \in ToDoRow
      /\ toDo'[t].step = toDo[t].step /\ toDo'[t].barrier = toDo[t].barrier
      /\ toDo'[t].deleted = toDo[t].deleted
      /\ toDo'[t].failed => toDo[t].failed \/ ~toDo[t].deleted
  <2>1. CASE toDo[t].failed \/ ~toDo[t].deleted
    <3>1. toDo'[t] = [toDo[t] EXCEPT !.failed = TRUE]
      BY <1>1, <1>2, <2>1 DEF ToDoRow
    <3> QED BY <1>1, <2>1, <3>1 DEF ToDoRow
  <2>2. CASE ~(toDo[t].failed \/ ~toDo[t].deleted)
    <3>1. toDo'[t] = [toDo[t] EXCEPT !.failed = FALSE]
      BY <1>1, <1>2, <2>2 DEF ToDoRow
    <3> QED BY <1>1, <2>2, <3>1 DEF ToDoRow
  <2> QED BY <2>1, <2>2
<1> QED BY <1>2, <1>3, Zenon DEF Fails

\* Abandoning deletes every to-do and every scheduled flow.
Abandons ==
    /\ DOMAIN toDo' = DOMAIN toDo
    /\ \A t \in DOMAIN toDo :
          /\ toDo'[t] \in ToDoRow
          /\ toDo'[t].step = toDo[t].step /\ toDo'[t].barrier = toDo[t].barrier
          /\ toDo'[t].deleted
    /\ DOMAIN scheduledFlow' = {}
    /\ execution' \in Columns
    /\ execution'.finishedAt /\ execution'.abandonedAt
    /\ IsTable(toDo') /\ IsTable(scheduledFlow')

\* Abandon, row by row.
LEMMA AbandonRows ==
  ASSUME TableTypes, NEW a \in Admins, Abandon(a)
  PROVE  Abandons
<1>1. toDo \in [DOMAIN toDo -> ToDoRow]
  BY DEF TableTypes
<1>2. /\ DOMAIN toDo' = DOMAIN toDo
      /\ \A t \in DOMAIN toDo :
            toDo'[t] = IF toDo[t].deleted THEN toDo[t]
                       ELSE [toDo[t] EXCEPT !.deleted = TRUE, !.failed = TRUE]
      /\ IsTable(toDo')
  BY DEF Abandon, IsTable
<1>3. \A t \in DOMAIN toDo :
         /\ toDo'[t] \in ToDoRow
         /\ toDo'[t].step = toDo[t].step /\ toDo'[t].barrier = toDo[t].barrier
         /\ toDo'[t].deleted
  BY <1>1, <1>2 DEF ToDoRow
<1>4. DOMAIN scheduledFlow' = {} /\ IsTable(scheduledFlow')
  <2>1. scheduledFlow' = << >>
    BY DEF Abandon
  <2>2. DOMAIN << >> = {}
    OBVIOUS
  <2>3. << >> = [i \in DOMAIN << >> |-> << >>[i]]
    OBVIOUS
  <2> QED BY <2>1, <2>2, <2>3 DEF IsTable
<1>5. /\ execution' \in Columns
      /\ execution'.finishedAt /\ execution'.abandonedAt
  BY DEF Abandon, TableTypes, Columns
<1> QED BY <1>2, <1>3, <1>4, <1>5 DEF Abandons

\* Restarting clears the failures and adds jobs of the to-dos.
Restarts(todos) ==
    /\ DOMAIN toDo' = DOMAIN toDo
    /\ \A t \in DOMAIN toDo :
          /\ toDo'[t] \in ToDoRow
          /\ toDo'[t].step = toDo[t].step /\ toDo'[t].barrier = toDo[t].barrier
          /\ toDo'[t].deleted = toDo[t].deleted
          /\ toDo'[t].failed => toDo[t].failed /\ t \notin todos
    /\ \A j \in DOMAIN queue' :
          \/ j \in DOMAIN queue /\ queue'[j] = queue[j]
          \/ /\ queue'[j] \in JobRow
             /\ queue'[j].queue = "system-step-execution"
             /\ queue'[j].ref \in todos
    /\ \A j, k \in DOMAIN queue' :
          /\ ~(j \in DOMAIN queue /\ queue'[j] = queue[j])
          /\ ~(k \in DOMAIN queue /\ queue'[k] = queue[k])
          /\ queue'[j].ref = queue'[k].ref
          => j = k
    /\ execution' \in Columns
    /\ ~execution'.finishedAt /\ ~execution'.failed
    /\ txCount' = txCount + 1
    /\ IsTable(toDo') /\ IsTable(queue')

\* Restart, row by row: one new job for every to-do.
LEMMA RestartRows ==
  ASSUME TableTypes, NEW a \in Admins, admin[a].todos \in SUBSET Ids, Restart(a)
  PROVE  Restarts(admin[a].todos)
<1> DEFINE todos == admin[a].todos
           nth == CHOOSE r \in [todos -> 1 .. Cardinality(todos)] :
                  \A t, u \in todos : r[t] = r[u] => t = u
           jobs == {Id(Null, nth[t]) : t \in todos}
           Ref(j) == CHOOSE t \in todos : nth[t] = j.item
           rows == [j \in jobs |-> SystemJob(Ref(j))]
<1>1. toDo \in [DOMAIN toDo -> ToDoRow]
  BY DEF TableTypes
<1>2. /\ DOMAIN toDo' = DOMAIN toDo
      /\ \A t \in DOMAIN toDo :
            toDo'[t] = IF t \in todos THEN [toDo[t] EXCEPT !.failed = FALSE]
                                     ELSE toDo[t]
      /\ IsTable(toDo')
  BY DEF Restart, IsTable
<1>3. \A t \in DOMAIN toDo :
         /\ toDo'[t] \in ToDoRow
         /\ toDo'[t].step = toDo[t].step /\ toDo'[t].barrier = toDo[t].barrier
         /\ toDo'[t].deleted = toDo[t].deleted
         /\ toDo'[t].failed => toDo[t].failed /\ t \notin todos
  BY <1>1, <1>2 DEF ToDoRow
<1>4. queue' = Insert(queue, rows)
  BY DEF Restart
<1> HIDE DEF nth
<1>5. \A j \in jobs :
         /\ Ref(j) \in todos /\ nth[Ref(j)] = j.item
         /\ j = Id(Null, j.item)
  BY DEF Id
<1> HIDE DEF Ref
<1>6. \A j \in jobs :
         /\ rows[j] \in JobRow
         /\ rows[j].queue = "system-step-execution"
         /\ rows[j].ref = Ref(j)
  BY <1>5, Constants DEF SystemJob, JobRow, Queues
<1>7. \A j, k \in jobs : Ref(j) = Ref(k) => j = k
  BY <1>5, Zenon
<1>8. DOMAIN rows = jobs
  OBVIOUS
<1> HIDE DEF rows, jobs
<1>9. /\ \A j \in DOMAIN queue' :
            \/ j \in DOMAIN queue /\ queue'[j] = queue[j]
            \/ j \in jobs /\ queue'[j] = rows[j]
      /\ IsTable(queue')
  BY <1>4, <1>8 DEF Insert, IsTable
<1>10. \A j \in DOMAIN queue' :
          \/ j \in DOMAIN queue /\ queue'[j] = queue[j]
          \/ /\ queue'[j] \in JobRow
             /\ queue'[j].queue = "system-step-execution"
             /\ queue'[j].ref \in todos
  BY <1>5, <1>6, <1>9
<1>11. \A j, k \in DOMAIN queue' :
          /\ ~(j \in DOMAIN queue /\ queue'[j] = queue[j])
          /\ ~(k \in DOMAIN queue /\ queue'[k] = queue[k])
          /\ queue'[j].ref = queue'[k].ref
          => j = k
  <2> SUFFICES ASSUME NEW j \in DOMAIN queue', NEW k \in DOMAIN queue',
                      ~(j \in DOMAIN queue /\ queue'[j] = queue[j]),
                      ~(k \in DOMAIN queue /\ queue'[k] = queue[k]),
                      queue'[j].ref = queue'[k].ref
               PROVE  j = k
    OBVIOUS
  <2>1. /\ j \in jobs /\ queue'[j] = rows[j]
        /\ k \in jobs /\ queue'[k] = rows[k]
    BY <1>9
  <2>2. Ref(j) = Ref(k)
    BY <1>6, <2>1
  <2> QED BY <1>7, <2>1, <2>2
<1>12. /\ execution' \in Columns
       /\ ~execution'.finishedAt /\ ~execution'.failed
       /\ txCount' = txCount + 1
  BY DEF Restart, TableTypes, Columns
<1> QED BY <1>2, <1>3, <1>9, <1>10, <1>11, <1>12, Zenon DEF Restarts

\* checkAndMarkProcessFinished or not: at most finishedAt changes, and then
\* there is nothing to do.
MayClose ==
    \/ execution' = execution
    \/ execution' = [execution EXCEPT !.finishedAt = TRUE] /\ MayFinish

\* A deletion of a scheduled flow.
Unschedules(s) ==
    /\ DOMAIN scheduledFlow' = DOMAIN scheduledFlow \ {s}
    /\ \A i \in DOMAIN scheduledFlow \ {s} : scheduledFlow'[i] = scheduledFlow[i]
    /\ IsTable(scheduledFlow')

\* Deleting one scheduled flow.
LEMMA UnschedulesOne ==
  ASSUME NEW s, scheduledFlow' = Delete(scheduledFlow, {s})
  PROVE  Unschedules(s)
  BY DEF Unschedules, Delete, IsTable

-----------------------------------------------------------------------------
\* Type correctness.

\* Tables whose rows keep their types.
LEMMA TablesKeepTypes ==
  ASSUME execution' \in Columns,
         txCount' \in Nat,
         IsTable(scheduledFlow'), \A s \in DOMAIN scheduledFlow' : scheduledFlow'[s] \in FlowRow,
         IsTable(toDo'), \A t \in DOMAIN toDo' : toDo'[t] \in ToDoRow,
         IsTable(queue'), \A j \in DOMAIN queue' : queue'[j] \in JobRow,
         IsTable(routed'), \A s \in DOMAIN routed' : routed'[s] \in Nat,
         IsTable(completions'), \A t \in DOMAIN completions' : completions'[t] \in Nat,
         DOMAIN routed' \subseteq Ids, DOMAIN toDo' \subseteq Ids
  PROVE  TableTypes'
<1>1. scheduledFlow' \in [DOMAIN scheduledFlow' -> FlowRow]
  BY DEF IsTable
<1>2. toDo' \in [DOMAIN toDo' -> ToDoRow]
  BY DEF IsTable
<1>3. queue' \in [DOMAIN queue' -> JobRow]
  BY DEF IsTable
<1>4. routed' \in [DOMAIN routed' -> Nat]
  BY DEF IsTable
<1>5. completions' \in [DOMAIN completions' -> Nat]
  BY DEF IsTable
<1> QED BY <1>1, <1>2, <1>3, <1>4, <1>5 DEF TableTypes

\* The rows of typed tables.
LEMMA TypedRows ==
  ASSUME TableTypes
  PROVE  /\ IsTable(scheduledFlow) /\ \A s \in DOMAIN scheduledFlow : scheduledFlow[s] \in FlowRow
         /\ IsTable(toDo) /\ \A t \in DOMAIN toDo : toDo[t] \in ToDoRow
         /\ IsTable(queue) /\ \A j \in DOMAIN queue : queue[j] \in JobRow
         /\ IsTable(routed) /\ \A s \in DOMAIN routed : routed[s] \in Nat
         /\ IsTable(completions) /\ \A t \in DOMAIN completions : completions[t] \in Nat
  BY DEF TableTypes, IsTable

-----------------------------------------------------------------------------
\* What every step keeps of the rows.

\* Rows stay, a to-do keeps its step and barrier and is not reopened, and a new
\* to-do has a new barrier.
Grow ==
    /\ DOMAIN routed \subseteq DOMAIN routed'
    /\ \A t \in DOMAIN toDo :
          /\ t \in DOMAIN toDo'
          /\ toDo'[t].step = toDo[t].step /\ toDo'[t].barrier = toDo[t].barrier
          /\ toDo[t].deleted => toDo'[t].deleted
    /\ \A t \in DOMAIN toDo' : t \notin DOMAIN toDo =>
          \/ toDo'[t].barrier = Null
          \/ toDo'[t].barrier \notin DOMAIN routed

RefersNext(kind, ref) ==
    IF kind = "flow-execution"
    THEN ref \in DOMAIN routed'
    ELSE ref \in DOMAIN toDo' /\ toDo'[ref].step \in System

\* What a job refers to stays.
LEMMA RefersKept ==
  ASSUME Grow, NEW kind, NEW ref, Refers(kind, ref)
  PROVE  RefersNext(kind, ref)
  BY DEF Grow, Refers, RefersNext

\* Completed, in columns.
LEMMA CompletedColumns ==
  ASSUME execution \in Columns
  PROVE  Status = "Completed" <=>
            execution.finishedAt /\ ~execution.abandonedAt /\ ~execution.failed
  BY DEF Status, Columns

\* The same of the next state.
LEMMA CompletedColumnsNext ==
  ASSUME execution' \in Columns
  PROVE  Status' = "Completed" <=>
            execution'.finishedAt /\ ~execution'.abandonedAt /\ ~execution'.failed
  BY DEF Status, Columns

\* Names in the queue are kept while jobs are only taken away, or changed in
\* other columns.
LEMMA JobsKept ==
  ASSUME JobNames, Grow,
         \A j \in DOMAIN queue' :
            \/ /\ j \in DOMAIN queue
               /\ queue'[j].queue = queue[j].queue /\ queue'[j].ref = queue[j].ref
            \/ RefersNext(queue'[j].queue, queue'[j].ref)
  PROVE  JobNames'
<1>1. \A j \in DOMAIN queue' : RefersNext(queue'[j].queue, queue'[j].ref)
  BY RefersKept DEF JobNames
<1> QED BY <1>1 DEF JobNames, Refers, RefersNext

\* The rows are as they were, and jobs are only taken away or claimed.
Quiet ==
    /\ UNCHANGED <<execution, scheduledFlow, toDo, txCount, routed, completions>>
    /\ \A j \in DOMAIN queue' :
          /\ j \in DOMAIN queue /\ queue'[j] \in JobRow
          /\ queue'[j].queue = queue[j].queue /\ queue'[j].ref = queue[j].ref
    /\ IsTable(queue')

\* Quiet steps keep the rows.
LEMMA QuietRows ==
  ASSUME RowInv, Quiet
  PROVE  RowInv' /\ Grow
<1>1. Grow
  BY DEF Quiet, Grow
<1>2. TableTypes'
  <2>1. queue' \in [DOMAIN queue' -> JobRow]
    BY DEF Quiet, IsTable
  <2> QED BY <2>1 DEF RowInv, TableTypes, Quiet
<1>3. JobNames'
  BY <1>1, JobsKept DEF RowInv, Quiet
<1>4. RowNames' /\ Closing' /\ Routing' /\ RowBarriers'
  BY DEF RowInv, Quiet, RowNames, Closing, CompletedHasNoToDo, Status, ActiveTodos,
         Routing, RowBarriers
<1> QED BY <1>1, <1>2, <1>3, <1>4 DEF RowInv

\* A scheduled flow is consumed without being routed.
Consumes(s) ==
    /\ Unschedules(s)
    /\ MayClose
    /\ UNCHANGED <<toDo, queue, txCount, routed, completions>>

\* A consumed flow keeps the rows, and an execution it closes has nothing to do.
LEMMA ConsumeRows ==
  ASSUME RowInv, NEW s, Consumes(s)
  PROVE  RowInv' /\ Grow
<1>1. Grow
  BY DEF Consumes, Grow
<1>2. execution' \in Columns /\ execution'.failed = execution.failed
      /\ execution'.abandonedAt = execution.abandonedAt
      /\ (execution.finishedAt => execution'.finishedAt)
      /\ (execution' = execution \/ ActiveTodos = {})
  BY DEF RowInv, TableTypes, Consumes, MayClose, MayFinish, Columns
<1>3. TableTypes'
  <2>1. scheduledFlow' \in [DOMAIN scheduledFlow' -> FlowRow]
    BY DEF RowInv, TableTypes, Consumes, Unschedules, IsTable
  <2> QED BY <1>2, <2>1 DEF RowInv, TableTypes, Consumes
<1>4. JobNames'
  BY DEF RowInv, JobNames, Refers, Consumes
<1>5. RowNames' /\ Routing' /\ RowBarriers'
  BY DEF RowInv, RowNames, Routing, RowBarriers, Consumes, Unschedules
<1>6. Closing'
  <2>1. ActiveTodos' = ActiveTodos
    BY DEF Consumes, ActiveTodos
  <2>2. CASE execution' = execution
    BY <2>1, <2>2 DEF RowInv, Closing, CompletedHasNoToDo, Status
  <2>3. CASE ActiveTodos = {}
    BY <1>2, <2>1, <2>3 DEF RowInv, Closing, CompletedHasNoToDo
  <2> QED BY <1>2, <2>2, <2>3
<1> QED BY <1>1, <1>3, <1>4, <1>5, <1>6 DEF RowInv

\* Ids of a transaction are not those of rows there have been.
LEMMA NewIdsDiffer ==
  ASSUME RowInv, NEW i, NewId(i)
  PROVE  i \notin DOMAIN routed /\ i \notin DOMAIN toDo
<1>1. /\ txCount \in Nat
      /\ \A s \in DOMAIN routed : s.tx <= txCount
      /\ \A t \in DOMAIN toDo : t.tx <= txCount
  BY DEF RowInv, TableTypes, RowNames
<1>2. i.tx = txCount + 1
  BY DEF NewId
<1>3. ~(txCount + 1 <= txCount)
  BY <1>1
<1> QED BY <1>1, <1>2, <1>3

\* A route whose barrier's to-dos are done, of an open execution.
LEMMA RouteKeepsRows ==
  ASSUME RowInv, NEW ref \in DOMAIN scheduledFlow, NEW new, NEW flows,
         RoutesTo(ref, new, flows), RoutedTables, Open,
         \A t \in DOMAIN toDo :
            toDo[t].barrier # Null /\ toDo[t].barrier = ref => toDo[t].deleted
  PROVE  RowInv' /\ Grow
<1>1. /\ \A i \in new : i \notin DOMAIN toDo /\ i \in Ids /\ i.tx = txCount + 1
      /\ \A i \in flows : i \notin DOMAIN routed /\ i \in Ids /\ i.tx = txCount + 1
  BY NewIdsDiffer DEF RoutesTo, NewId
<1>2. /\ ref \in DOMAIN routed /\ ref \notin flows
      /\ DOMAIN scheduledFlow \subseteq DOMAIN routed
      /\ DOMAIN toDo = DOMAIN completions
      /\ txCount \in Nat
  BY <1>1 DEF RowInv, RowNames, TableTypes
<1>3. /\ DOMAIN routed' = DOMAIN routed \cup flows
      /\ \A s \in flows : routed'[s] = 0
      /\ \A s \in DOMAIN routed : s # ref => routed'[s] = routed[s]
      /\ routed'[ref] = 1
  <2>1. routed[ref] = 0
    BY <1>2 DEF RowInv, Routing
  <2> QED BY <1>1, <1>2, <2>1 DEF RoutesTo
<1>4. /\ DOMAIN toDo' = DOMAIN toDo \cup new
      /\ \A t \in DOMAIN toDo : toDo'[t] = toDo[t]
      /\ \A t \in new :
            /\ toDo'[t] \in ToDoRow
            /\ ~toDo'[t].deleted /\ ~toDo'[t].failed
            /\ \/ toDo'[t].barrier = Null
               \/ /\ toDo'[t].barrier \in flows
                  /\ scheduledFlow'[toDo'[t].barrier].forEachBarrier
                  /\ scheduledFlow'[toDo'[t].barrier].sourceStepId = toDo'[t].step
  BY <1>1 DEF RoutesTo
<1>5. /\ DOMAIN scheduledFlow' = (DOMAIN scheduledFlow \ {ref}) \cup flows
      /\ \A s \in DOMAIN scheduledFlow \ {ref} : scheduledFlow'[s] = scheduledFlow[s]
      /\ \A s \in flows : scheduledFlow'[s] \in FlowRow
  BY <1>1, <1>2 DEF RoutesTo
<1>6. /\ DOMAIN completions' = DOMAIN completions \cup new
      /\ \A t \in new : completions'[t] = 0
      /\ \A t \in DOMAIN completions : completions'[t] = completions[t]
      /\ txCount' = txCount + 1
  BY <1>1, <1>2 DEF RoutesTo
<1>7. /\ execution' \in Columns /\ execution'.failed = execution.failed
      /\ execution'.abandonedAt = execution.abandonedAt
      /\ \/ execution' = execution
         \/ execution'.finishedAt /\ new = {} /\ ActiveTodos = {}
  BY DEF RowInv, TableTypes, Columns, RoutesTo, MayFinish
<1>8. Grow
  BY <1>1, <1>3, <1>4 DEF Grow
<1>9. \A j \in DOMAIN queue' :
         /\ queue'[j] \in JobRow
         /\ \/ j \in DOMAIN queue /\ queue'[j] = queue[j]
            \/ RefersNext(queue'[j].queue, queue'[j].ref)
  BY <1>3, <1>4 DEF RoutesTo, RefersNext, RowInv, TableTypes
<1>10. TableTypes'
  <2>1. /\ \A t \in DOMAIN toDo' : toDo'[t] \in ToDoRow
        /\ \A s \in DOMAIN scheduledFlow' : scheduledFlow'[s] \in FlowRow
    BY <1>4, <1>5, TypedRows DEF RowInv
  <2>2. /\ \A s \in DOMAIN routed' : routed'[s] \in Nat
        /\ \A t \in DOMAIN completions' : completions'[t] \in Nat
    BY <1>3, <1>6, TypedRows DEF RowInv
  <2>3. DOMAIN routed' \subseteq Ids /\ DOMAIN toDo' \subseteq Ids
    BY <1>1, <1>3, <1>4 DEF RowInv, TableTypes
  <2>4. txCount' \in Nat
    BY <1>2, <1>6
  <2> QED BY <1>7, <1>9, <2>1, <2>2, <2>3, <2>4, TablesKeepTypes DEF RoutedTables
<1>11. JobNames'
  BY <1>8, <1>9, JobsKept DEF RowInv
<1>12. RowNames'
  <2>1. DOMAIN scheduledFlow' \subseteq DOMAIN routed' /\ DOMAIN toDo' = DOMAIN completions'
    BY <1>2, <1>3, <1>4, <1>5, <1>6
  <2>2. \A s \in DOMAIN routed' : s.tx <= txCount'
    <3>1. \A s \in DOMAIN routed : s.tx <= txCount + 1
      BY <1>2 DEF RowInv, RowNames, TableTypes, Ids
    <3> QED BY <1>1, <1>2, <1>3, <1>6, <3>1
  <2>3. \A t \in DOMAIN toDo' : t.tx <= txCount'
    <3>1. \A t \in DOMAIN toDo : t.tx <= txCount + 1
      BY <1>2 DEF RowInv, RowNames, TableTypes, Ids
    <3> QED BY <1>1, <1>2, <1>4, <1>6, <3>1
  <2>4. \A t \in DOMAIN toDo' :
           /\ t.item # 0
           /\ toDo'[t].barrier \in DOMAIN routed' \cup {Null}
           /\ toDo'[t].failed => toDo'[t].deleted \/ toDo'[t].step \in System
    <3>1. \A t \in new : t.item # 0
      BY DEF RoutesTo
    <3> QED BY <1>3, <1>4, <3>1 DEF RowInv, RowNames
  <2> QED BY <2>1, <2>2, <2>3, <2>4 DEF RowNames
<1>13. Closing'
  <2>1. CASE execution' = execution
    <3>1. ~execution.finishedAt /\ ~execution'.finishedAt /\ ~execution'.failed
      BY <2>1 DEF Open, RowInv, Closing
    <3> QED BY <1>7, <3>1, CompletedColumnsNext DEF Closing, CompletedHasNoToDo
  <2>2. CASE execution'.finishedAt /\ new = {} /\ ActiveTodos = {}
    <3>1. ActiveTodos' = {}
      BY <1>4, <2>2 DEF ActiveTodos
    <3> QED BY <2>2, <3>1 DEF Closing, CompletedHasNoToDo
  <2> QED BY <1>7, <2>1, <2>2
<1>14. Routing'
  BY <1>1, <1>2, <1>3, <1>5 DEF RowInv, Routing
<1>15. RowBarriers'
  <2> SUFFICES ASSUME NEW t \in DOMAIN toDo', toDo'[t].barrier # Null
               PROVE  LET b == toDo'[t].barrier IN
                      /\ b.item = 0
                      /\ b \in DOMAIN scheduledFlow' =>
                            /\ scheduledFlow'[b].forEachBarrier
                            /\ scheduledFlow'[b].sourceStepId = toDo'[t].step
                      /\ routed'[b] > 0 => toDo'[t].deleted
    BY DEF RowBarriers
  <2>1. CASE t \in new
    <3>1. toDo'[t].barrier \in flows
      BY <1>4, <2>1
    <3>2. toDo'[t].barrier.item = 0 /\ routed'[toDo'[t].barrier] = 0
      BY <1>3, <3>1 DEF RoutesTo
    <3> QED BY <1>4, <2>1, <3>2
  <2>2. CASE t \in DOMAIN toDo
    <3>1. /\ toDo'[t] = toDo[t]
          /\ toDo[t].barrier \in DOMAIN routed /\ toDo[t].barrier \notin flows
      BY <1>1, <1>4, <2>2 DEF RowInv, RowNames
    <3>2. /\ toDo[t].barrier.item = 0
          /\ toDo[t].barrier \in DOMAIN scheduledFlow =>
                /\ scheduledFlow[toDo[t].barrier].forEachBarrier
                /\ scheduledFlow[toDo[t].barrier].sourceStepId = toDo[t].step
          /\ routed[toDo[t].barrier] > 0 => toDo[t].deleted
      BY <2>2, <3>1 DEF RowInv, RowBarriers
    <3>3. toDo[t].barrier = ref => toDo[t].deleted
      BY <2>2, <3>1
    <3> QED BY <1>3, <1>5, <3>1, <3>2, <3>3
  <2> QED BY <1>4, <2>1, <2>2
<1> QED BY <1>8, <1>10, <1>11, <1>12, <1>13, <1>14, <1>15 DEF RowInv

\* Scheduling a flow that is no barrier of a to-do.
LEMMA ScheduleKeeps ==
  ASSUME RowInv, NEW s \in Ids, Schedules({s}), s.tx <= txCount + 1,
         txCount' = txCount + 1,
         \A t \in DOMAIN toDo : toDo[t].barrier # Null => toDo[t].barrier # s
  PROVE  /\ \A i \in DOMAIN routed' : i \in Ids /\ i.tx <= txCount' /\ routed'[i] \in Nat
         /\ DOMAIN routed \subseteq DOMAIN routed' /\ s \in DOMAIN routed'
         /\ DOMAIN scheduledFlow' \subseteq DOMAIN routed'
         /\ \A i \in DOMAIN scheduledFlow' : scheduledFlow'[i] \in FlowRow
         /\ Routing'
         /\ \A t \in DOMAIN toDo : LET b == toDo[t].barrier IN
               b # Null =>
                  /\ b \in DOMAIN scheduledFlow' =>
                        b \in DOMAIN scheduledFlow /\ scheduledFlow'[b] = scheduledFlow[b]
                  /\ routed'[b] = routed[b]
<1>1. /\ \A i \in DOMAIN routed : i \in Ids /\ i.tx <= txCount + 1 /\ routed[i] \in Nat
      /\ \A i \in DOMAIN scheduledFlow : scheduledFlow[i] \in FlowRow
      /\ DOMAIN scheduledFlow \subseteq DOMAIN routed
  BY TypedRows DEF RowInv, TableTypes, RowNames, Ids
<1>2. Routing'
  BY <1>1 DEF RowInv, Routing, Schedules
<1>3. \A t \in DOMAIN toDo : toDo[t].barrier # Null => toDo[t].barrier \in DOMAIN routed
  BY DEF RowInv, RowNames
<1> QED BY <1>1, <1>2, <1>3 DEF Schedules

\* A completion of a to-do.
LEMMA ContinueKeepsRows ==
  ASSUME RowInv, NEW t \in DOMAIN toDo, NEW s \in Ids, Continues(t, s),
         s.tx <= txCount + 1,
         toDo[t].barrier = Null =>
            \A u \in DOMAIN toDo : toDo[u].barrier # Null => toDo[u].barrier # s,
         UNCHANGED execution
  PROVE  RowInv' /\ Grow
<1>1. /\ DOMAIN toDo' = DOMAIN toDo /\ DOMAIN completions' = DOMAIN completions
      /\ DOMAIN toDo = DOMAIN completions
      /\ \A u \in DOMAIN toDo :
            /\ toDo'[u] \in ToDoRow
            /\ toDo'[u].step = toDo[u].step /\ toDo'[u].barrier = toDo[u].barrier
            /\ toDo[u].deleted => toDo'[u].deleted
            /\ toDo'[u].failed => toDo[u].failed /\ toDo'[u] = toDo[u]
      /\ txCount' = txCount + 1 /\ txCount \in Nat
      /\ \A u \in DOMAIN completions : completions'[u] \in Nat
  <2>1. \A u \in DOMAIN toDo : toDo[u] \in ToDoRow /\ completions[u] \in Nat
    BY TypedRows DEF RowInv, RowNames
  <2> QED BY <2>1 DEF RowInv, RowNames, TableTypes, Continues
<1>2. /\ \A i \in DOMAIN routed' : i \in Ids /\ i.tx <= txCount' /\ routed'[i] \in Nat
      /\ DOMAIN routed \subseteq DOMAIN routed' /\ s \in DOMAIN routed'
      /\ DOMAIN scheduledFlow' \subseteq DOMAIN routed'
      /\ \A i \in DOMAIN scheduledFlow' : scheduledFlow'[i] \in FlowRow
      /\ Routing'
      /\ \A u \in DOMAIN toDo : LET b == toDo[u].barrier IN
            b # Null =>
               /\ b \in DOMAIN scheduledFlow' =>
                     b \in DOMAIN scheduledFlow /\ scheduledFlow'[b] = scheduledFlow[b]
               /\ routed'[b] = routed[b]
      /\ IsTable(scheduledFlow') /\ IsTable(routed')
  <2>1. CASE toDo[t].barrier = Null /\ Schedules({s})
    BY <1>1, <2>1, ScheduleKeeps DEF Schedules
  <2>2. CASE s = toDo[t].barrier /\ s # Null /\ UNCHANGED <<scheduledFlow, routed>>
    <3>1. \A i \in DOMAIN routed : i \in Ids /\ i.tx <= txCount + 1 /\ routed[i] \in Nat
      BY <1>1, TypedRows DEF RowInv, TableTypes, RowNames, Ids
    <3>2. s \in DOMAIN routed
      BY <2>2 DEF RowInv, RowNames
    <3> QED BY <1>1, <2>2, <3>1, <3>2, TypedRows DEF RowInv, RowNames, Routing
  <2> QED BY <2>1, <2>2 DEF Continues
<1>3. Grow
  BY <1>1, <1>2 DEF Grow
<1>4. \A j \in DOMAIN queue' :
         /\ queue'[j] \in JobRow
         /\ \/ j \in DOMAIN queue /\ queue'[j] = queue[j]
            \/ RefersNext(queue'[j].queue, queue'[j].ref)
  <2>1. \A j \in DOMAIN queue : queue[j] \in JobRow
    BY TypedRows DEF RowInv
  <2> QED BY <1>2, <2>1 DEF Continues, AddsFlowJob, RefersNext
<1>5. TableTypes'
  <2>1. DOMAIN toDo' \subseteq Ids /\ execution' \in Columns /\ txCount' \in Nat
    BY <1>1 DEF RowInv, TableTypes
  <2> QED BY <1>1, <1>2, <1>4, <2>1, TablesKeepTypes DEF Continues, AddsFlowJob
<1>6. JobNames'
  BY <1>3, <1>4, JobsKept DEF RowInv
<1>7. RowNames'
  <2>1. \A u \in DOMAIN toDo : u.tx <= txCount + 1
    BY <1>1 DEF RowInv, RowNames, TableTypes, Ids
  <2> QED BY <1>1, <1>2, <2>1 DEF RowInv, RowNames
<1>8. Closing'
  <2>1. ActiveTodos' \subseteq ActiveTodos
    BY <1>1 DEF ActiveTodos
  <2> QED BY <2>1 DEF RowInv, Closing, CompletedHasNoToDo, Status
<1>9. RowBarriers'
  BY <1>1, <1>2 DEF RowInv, RowBarriers
<1> QED BY <1>2, <1>3, <1>5, <1>6, <1>7, <1>8, <1>9 DEF RowInv

\* A system step's to-do fails: its error flow is scheduled, or not.
FailsAndRoutes(t, s) ==
    /\ Fails(t)
    /\ UNCHANGED completions
    /\ \/ /\ NewId(s)
          /\ Schedules({s})
          /\ AddsFlowJob(s)
          /\ txCount' = txCount + 1
          /\ UNCHANGED execution
       \/ /\ UNCHANGED <<scheduledFlow, queue, routed, txCount>>
          /\ SetProcessExecutionFailed \/ UNCHANGED execution

\* A failure keeps the rows.
LEMMA FailKeepsRows ==
  ASSUME RowInv, NEW t \in DOMAIN toDo, toDo[t].step \in System, NEW s,
         FailsAndRoutes(t, s)
  PROVE  RowInv' /\ Grow
<1>1. /\ DOMAIN toDo' = DOMAIN toDo /\ DOMAIN toDo = DOMAIN completions
      /\ \A u \in DOMAIN toDo :
            /\ toDo'[u] \in ToDoRow
            /\ toDo'[u].step = toDo[u].step /\ toDo'[u].barrier = toDo[u].barrier
            /\ toDo'[u].deleted = toDo[u].deleted
            /\ toDo'[u].failed => toDo[u].failed \/ toDo'[u].step \in System
      /\ IsTable(toDo')
  BY TypedRows DEF RowInv, RowNames, FailsAndRoutes, Fails
<1>2. Closing' /\ execution' \in Columns
  <2>1. ActiveTodos' = ActiveTodos
    BY <1>1 DEF ActiveTodos
  <2>2. CASE UNCHANGED execution
    BY <2>1, <2>2 DEF RowInv, TableTypes, Closing, CompletedHasNoToDo, Status
  <2>3. CASE execution' = [execution EXCEPT !.finishedAt = TRUE, !.failed = TRUE]
    <3>1. execution' \in Columns /\ execution'.failed /\ execution'.finishedAt
      BY <2>3 DEF RowInv, TableTypes, Columns
    <3> QED BY <3>1, CompletedColumnsNext DEF Closing, CompletedHasNoToDo
  <2> QED BY <2>2, <2>3 DEF FailsAndRoutes, SetProcessExecutionFailed
<1>3. CASE /\ NewId(s) /\ Schedules({s}) /\ AddsFlowJob(s) /\ txCount' = txCount + 1
  <2>1. /\ s \in Ids /\ s.tx <= txCount + 1 /\ txCount \in Nat
        /\ \A u \in DOMAIN toDo : toDo[u].barrier # Null => toDo[u].barrier # s
    BY <1>3, NewIdsDiffer DEF NewId, RowInv, TableTypes, RowNames
  <2>2. /\ \A i \in DOMAIN routed' : i \in Ids /\ i.tx <= txCount' /\ routed'[i] \in Nat
        /\ DOMAIN routed \subseteq DOMAIN routed' /\ s \in DOMAIN routed'
        /\ DOMAIN scheduledFlow' \subseteq DOMAIN routed'
        /\ \A i \in DOMAIN scheduledFlow' : scheduledFlow'[i] \in FlowRow
        /\ Routing'
        /\ \A u \in DOMAIN toDo : LET b == toDo[u].barrier IN
              b # Null =>
                 /\ b \in DOMAIN scheduledFlow' =>
                       b \in DOMAIN scheduledFlow /\ scheduledFlow'[b] = scheduledFlow[b]
                 /\ routed'[b] = routed[b]
    BY <1>3, <2>1, ScheduleKeeps
  <2>3. Grow
    BY <1>1, <2>2 DEF Grow
  <2>4. \A j \in DOMAIN queue' :
           /\ queue'[j] \in JobRow
           /\ \/ j \in DOMAIN queue /\ queue'[j] = queue[j]
              \/ RefersNext(queue'[j].queue, queue'[j].ref)
    <3>1. \A j \in DOMAIN queue : queue[j] \in JobRow
      BY TypedRows DEF RowInv
    <3> QED BY <1>3, <2>2, <3>1 DEF AddsFlowJob, RefersNext
  <2>5. TableTypes'
    <3>1. DOMAIN toDo' \subseteq Ids /\ txCount' \in Nat
      BY <1>1, <1>3, <2>1 DEF RowInv, TableTypes
    <3>2. IsTable(completions') /\ \A u \in DOMAIN completions' : completions'[u] \in Nat
      BY TypedRows DEF RowInv, FailsAndRoutes, IsTable
    <3> QED BY <1>1, <1>2, <1>3, <2>2, <2>4, <3>1, <3>2, TablesKeepTypes
            DEF Schedules, AddsFlowJob
  <2>6. JobNames'
    BY <2>3, <2>4, JobsKept DEF RowInv
  <2>7. RowNames'
    <3>1. \A u \in DOMAIN toDo : u.tx <= txCount + 1
      BY <2>1 DEF RowInv, RowNames, TableTypes, Ids
    <3> QED BY <1>1, <1>3, <2>2, <3>1 DEF RowInv, RowNames, FailsAndRoutes
  <2>8. RowBarriers'
    BY <1>1, <2>2 DEF RowInv, RowBarriers
  <2> QED BY <1>2, <2>2, <2>3, <2>5, <2>6, <2>7, <2>8 DEF RowInv
<1>4. CASE UNCHANGED <<scheduledFlow, queue, routed, txCount>>
  <2>1. Grow
    BY <1>1, <1>4 DEF Grow
  <2>2. TableTypes'
    <3>1. toDo' \in [DOMAIN toDo' -> ToDoRow]
      BY <1>1 DEF IsTable
    <3> QED BY <1>1, <1>2, <1>4, <3>1 DEF RowInv, TableTypes, FailsAndRoutes
  <2>3. JobNames'
    BY <1>1, <1>4 DEF RowInv, JobNames, Refers
  <2>4. RowNames' /\ Routing' /\ RowBarriers'
    BY <1>1, <1>4 DEF RowInv, RowNames, Routing, RowBarriers, FailsAndRoutes
  <2> QED BY <1>2, <2>1, <2>2, <2>3, <2>4 DEF RowInv
<1> QED BY <1>3, <1>4 DEF FailsAndRoutes

\* An abandonment.
LEMMA AbandonKeepsRows ==
  ASSUME RowInv, Abandons, UNCHANGED <<queue, txCount, routed, completions>>
  PROVE  RowInv' /\ Grow
<1>1. Grow
  BY DEF Abandons, Grow
<1>2. TableTypes'
  <2>1. \A s \in DOMAIN scheduledFlow' : scheduledFlow'[s] \in FlowRow
    BY DEF Abandons
  <2>2. scheduledFlow' \in [DOMAIN scheduledFlow' -> FlowRow]
    BY <2>1 DEF Abandons, IsTable
  <2>3. toDo' \in [DOMAIN toDo' -> ToDoRow]
    BY DEF Abandons, IsTable
  <2> QED BY <2>2, <2>3 DEF RowInv, TableTypes, Abandons
<1>3. JobNames'
  BY DEF RowInv, JobNames, Refers, Abandons
<1>4. RowNames' /\ Routing' /\ RowBarriers'
  BY DEF RowInv, RowNames, Routing, RowBarriers, Abandons
<1>5. Closing'
  <2>1. execution' \in Columns /\ execution'.finishedAt /\ execution'.abandonedAt
    BY DEF Abandons
  <2> QED BY <2>1, CompletedColumnsNext DEF Closing, CompletedHasNoToDo
<1> QED BY <1>1, <1>2, <1>3, <1>4, <1>5 DEF RowInv

\* A restart of system steps' to-dos.
LEMMA RestartKeepsRows ==
  ASSUME RowInv, NEW todos, Restarts(todos),
         \A t \in todos : Refers("system-step-execution", t),
         UNCHANGED <<scheduledFlow, routed, completions>>
  PROVE  RowInv' /\ Grow
<1>1. Grow
  BY DEF Restarts, Grow
<1>2. \A j \in DOMAIN queue' :
         /\ queue'[j] \in JobRow
         /\ \/ j \in DOMAIN queue /\ queue'[j] = queue[j]
            \/ RefersNext(queue'[j].queue, queue'[j].ref)
  BY <1>1, TypedRows, RefersKept DEF RowInv, Restarts
<1>3. TableTypes'
  <2>1. queue' \in [DOMAIN queue' -> JobRow]
    BY <1>2 DEF Restarts, IsTable
  <2>2. toDo' \in [DOMAIN toDo' -> ToDoRow]
    BY DEF Restarts, IsTable
  <2> QED BY <2>1, <2>2 DEF RowInv, TableTypes, Restarts
<1>4. JobNames'
  BY <1>1, <1>2, JobsKept DEF RowInv
<1>5. RowNames'
  <2>1. /\ \A s \in DOMAIN routed : s.tx <= txCount + 1
        /\ \A t \in DOMAIN toDo : t.tx <= txCount + 1
    BY DEF RowInv, RowNames, TableTypes, Ids
  <2> QED BY <2>1 DEF RowInv, RowNames, Restarts
<1>6. Routing' /\ RowBarriers'
  BY DEF RowInv, Routing, RowBarriers, Restarts
<1>7. Closing'
  <2>1. execution' \in Columns /\ ~execution'.finishedAt /\ ~execution'.failed
    BY DEF Restarts
  <2> QED BY <2>1, CompletedColumnsNext DEF Closing, CompletedHasNoToDo
<1> QED BY <1>1, <1>3, <1>4, <1>5, <1>6, <1>7 DEF RowInv

-----------------------------------------------------------------------------
\* What every step keeps of the workers and the administrators.

\* Every delivery stays where it is, is over, or about to be.
Ending ==
    \A w \in Workers :
        \/ worker'[w] = worker[w]
        \/ worker'[w].phase = "idle"
        \/ /\ worker'[w].phase \in {"acknowledge", "record"}
           /\ worker[w].phase # "idle"
           /\ worker'[w].payload = worker[w].payload

\* A new to-do's barrier is nobody's.
LEMMA BarriersAreKnown ==
  ASSUME Grow, DeliveryNames, NEW w \in Workers, worker[w].phase \in FlowPhases,
         NEW t \in DOMAIN toDo', toDo'[t].barrier # Null,
         worker[w].payload.ref = toDo'[t].barrier
  PROVE  t \in DOMAIN toDo
<1>1. worker[w].payload.ref \in DOMAIN routed
  BY DEF DeliveryNames, Refers, FlowPhases
<1> QED BY <1>1 DEF Grow

\* Deliveries that end forget nothing that is still needed.
LEMMA EndingKeeps ==
  ASSUME Grow, DeliveryNames, DeliveryBarriers, Ending
  PROVE  DeliveryNames' /\ DeliveryBarriers'
<1>1. DeliveryNames'
  <2> SUFFICES ASSUME NEW w \in Workers, worker'[w].phase # "idle"
               PROVE  /\ worker'[w].payload \in PayloadRow
                      /\ RefersNext(worker'[w].payload.queue, worker'[w].payload.ref)
                      /\ worker'[w].phase \in FlowPhases =>
                            worker'[w].payload.queue = "flow-execution"
                      /\ worker'[w].phase \in SystemPhases =>
                            /\ worker'[w].payload.queue = "system-step-execution"
                            /\ ~worker'[w].completed
                      /\ worker'[w].phase \in {"siblings", "commit"} =>
                            worker'[w].flow \in FlowRow
    BY DEF DeliveryNames, Refers, RefersNext
  <2>1. worker[w].phase # "idle" /\ worker'[w].payload = worker[w].payload
    BY DEF Ending
  <2>2. /\ worker[w].payload \in PayloadRow
        /\ Refers(worker[w].payload.queue, worker[w].payload.ref)
    BY <2>1 DEF DeliveryNames
  <2>3. RefersNext(worker'[w].payload.queue, worker'[w].payload.ref)
    BY <2>1, <2>2, RefersKept
  <2>4. CASE worker'[w] = worker[w]
    BY <2>1, <2>2, <2>3, <2>4 DEF DeliveryNames
  <2>5. CASE worker'[w].phase \in {"acknowledge", "record"}
    BY <2>1, <2>2, <2>3, <2>5 DEF FlowPhases, SystemPhases
  <2> QED BY <2>4, <2>5 DEF Ending
<1>2. DeliveryBarriers'
  <2> SUFFICES ASSUME NEW w \in Workers, NEW t \in DOMAIN toDo',
                      toDo'[t].barrier # Null,
                      worker'[w].payload.ref = toDo'[t].barrier,
                      worker'[w].phase \in {"siblings", "commit"}
               PROVE  /\ worker'[w].phase = "siblings" =>
                            worker'[w].flow.sourceStepId = toDo'[t].step
                      /\ worker'[w].phase = "commit" => toDo'[t].deleted
    BY DEF DeliveryBarriers
  <2>1. worker'[w] = worker[w]
    BY DEF Ending
  <2>2. t \in DOMAIN toDo
    BY <2>1, BarriersAreKnown DEF FlowPhases
  <2> QED BY <2>1, <2>2 DEF DeliveryBarriers, Grow
<1> QED BY <1>1, <1>2

\* A worker that moves to the end.
LEMMA MovesToEnd ==
  ASSUME NEW w \in Workers, worker[w].phase # "idle", NEW p,
         Moves(w, p), p \in {"idle", "acknowledge", "record"}
  PROVE  Ending
  BY DEF Moves, Ending

\* Administrators that are not concerned.
LEMMA AdminsKept ==
  ASSUME Grow, AdminTypes, AdminNames, UNCHANGED admin
  PROVE  AdminTypes' /\ AdminNames'
<1>1. \A t : Refers("system-step-execution", t) => RefersNext("system-step-execution", t)
  BY RefersKept
<1> QED BY <1>1 DEF AdminTypes, AdminNames, Refers, RefersNext

\* What a delivery has to know where it arrives.
Arrives(w) ==
    /\ worker'[w].payload \in PayloadRow
    /\ RefersNext(worker'[w].payload.queue, worker'[w].payload.ref)
    /\ worker'[w].phase \in FlowPhases => worker'[w].payload.queue = "flow-execution"
    /\ worker'[w].phase \in SystemPhases =>
          /\ worker'[w].payload.queue = "system-step-execution"
          /\ ~worker'[w].completed
    /\ worker'[w].phase \in {"siblings", "commit"} => worker'[w].flow \in FlowRow
    /\ \A t \in DOMAIN toDo :
          toDo[t].barrier # Null /\ worker'[w].payload.ref = toDo[t].barrier =>
             /\ worker'[w].phase = "siblings" =>
                   worker'[w].flow.sourceStepId = toDo[t].step
             /\ worker'[w].phase = "commit" => toDo[t].deleted

\* A step of one worker that only reads.
LEMMA ArrivingKeeps ==
  ASSUME Quiet, DeliveryNames, DeliveryBarriers, NEW w \in Workers,
         \A v \in Workers : v # w => worker'[v] = worker[v],
         worker'[w].phase = "idle" \/ Arrives(w)
  PROVE  DeliveryNames' /\ DeliveryBarriers'
<1>1. \A kind, ref : RefersNext(kind, ref) <=> Refers(kind, ref)
  BY DEF Quiet, Refers, RefersNext
<1>2. DeliveryNames'
  <2>1. \A v \in Workers : worker'[v].phase # "idle" =>
           /\ worker'[v].payload \in PayloadRow
           /\ RefersNext(worker'[v].payload.queue, worker'[v].payload.ref)
           /\ worker'[v].phase \in FlowPhases =>
                 worker'[v].payload.queue = "flow-execution"
           /\ worker'[v].phase \in SystemPhases =>
                 /\ worker'[v].payload.queue = "system-step-execution"
                 /\ ~worker'[v].completed
           /\ worker'[v].phase \in {"siblings", "commit"} => worker'[v].flow \in FlowRow
    <3> SUFFICES ASSUME NEW v \in Workers, worker'[v].phase # "idle"
                 PROVE  /\ worker'[v].payload \in PayloadRow
                        /\ RefersNext(worker'[v].payload.queue, worker'[v].payload.ref)
                        /\ worker'[v].phase \in FlowPhases =>
                              worker'[v].payload.queue = "flow-execution"
                        /\ worker'[v].phase \in SystemPhases =>
                              /\ worker'[v].payload.queue = "system-step-execution"
                              /\ ~worker'[v].completed
                        /\ worker'[v].phase \in {"siblings", "commit"} =>
                              worker'[v].flow \in FlowRow
      OBVIOUS
    <3>1. CASE v = w
      BY <3>1 DEF Arrives
    <3>2. CASE v # w
      BY <1>1, <3>2 DEF DeliveryNames
    <3> QED BY <3>1, <3>2
  <2> QED BY <2>1 DEF DeliveryNames, Refers, RefersNext
<1>3. DeliveryBarriers'
  <2> SUFFICES ASSUME NEW v \in Workers, NEW t \in DOMAIN toDo,
                      toDo[t].barrier # Null,
                      worker'[v].payload.ref = toDo[t].barrier
               PROVE  /\ worker'[v].phase = "siblings" =>
                            worker'[v].flow.sourceStepId = toDo[t].step
                      /\ worker'[v].phase = "commit" => toDo[t].deleted
    BY DEF DeliveryBarriers, Quiet
  <2>1. CASE v = w
    BY <2>1 DEF Arrives
  <2>2. CASE v # w
    BY <2>2 DEF DeliveryBarriers
  <2> QED BY <2>1, <2>2
<1> QED BY <1>2, <1>3

\* Steps that leave the rows alone.
LEMMA UnchangedIsQuiet ==
  ASSUME RowInv, UNCHANGED <<execution, scheduledFlow, toDo, queue, txCount, routed,
                             completions>>
  PROVE  Quiet
  BY TypedRows DEF RowInv, Quiet, IsTable

\* What a worker knows of a new claim.
LEMMA ClaimRecord ==
  ASSUME NEW j, NEW r, NEW p
  PROVE  [Idle EXCEPT !.phase = "marker", !.job = j, !.receipt = r, !.payload = p]
            \in [phase : {"marker"}, job : {j}, receipt : {r}, payload : {p},
                completed : {FALSE}, flow : {Null}]
  BY DEF Idle

\* A claim.
LEMMA ClaimStep ==
  ASSUME IInv, NEW w \in Workers, NEW j \in DOMAIN queue, Claim(w, j)
  PROVE  IInv'
<1> DEFINE new == [Idle EXCEPT !.phase = "marker", !.job = j,
                               !.receipt = queue[j].attempts + 1,
                               !.payload = [queue |-> queue[j].queue,
                                            ref |-> queue[j].ref,
                                            onError |-> queue[j].onError]]
<1>1. queue[j] \in JobRow /\ Refers(queue[j].queue, queue[j].ref)
      /\ queue \in [DOMAIN queue -> JobRow]
  BY DEF IInv, RowInv, TableTypes, JobNames
<1>2. queue[j].attempts \in Nat /\ queue[j].attempts < MaxAttempts
  BY <1>1, Constants DEF Claim, Claimable, JobRow
<1>3. /\ queue' = [queue EXCEPT ![j].attempts = @ + 1]
      /\ worker' = [worker EXCEPT ![w] = new]
      /\ UNCHANGED <<execution, scheduledFlow, toDo, txCount, routed, completions, admin>>
  BY DEF Claim, history
<1>4. Quiet
  <2>1. queue[j].attempts + 1 \in 0 .. MaxAttempts
    BY <1>2, Constants
  <2>2. [queue[j] EXCEPT !.attempts = queue[j].attempts + 1] \in JobRow
    BY <1>1, <2>1 DEF JobRow
  <2>3. /\ DOMAIN queue' = DOMAIN queue /\ IsTable(queue')
        /\ \A i \in DOMAIN queue : i # j => queue'[i] = queue[i]
        /\ queue'[j] = [queue[j] EXCEPT !.attempts = queue[j].attempts + 1]
    BY <1>1, <1>3 DEF IsTable, JobRow
  <2>4. /\ queue'[j].queue = queue[j].queue /\ queue'[j].ref = queue[j].ref
        /\ \A i \in DOMAIN queue : queue[i] \in JobRow
    BY <1>1, <2>3 DEF JobRow
  <2> QED BY <1>3, <2>2, <2>3, <2>4 DEF Quiet
<1>5. RowInv' /\ Grow
  BY <1>4, QuietRows DEF IInv
<1>6. new \in Delivery({j}) /\ new.phase = "marker"
      /\ new.payload \in PayloadRow
      /\ new.payload.queue = queue[j].queue /\ new.payload.ref = queue[j].ref
  <2> DEFINE payload == [queue |-> queue[j].queue, ref |-> queue[j].ref,
                         onError |-> queue[j].onError]
  <2>1. new \in [phase : {"marker"}, job : {j}, receipt : {queue[j].attempts + 1},
                  payload : {payload}, completed : {FALSE}, flow : {Null}]
    BY ClaimRecord
  <2>2. /\ payload \in PayloadRow
        /\ payload.queue = queue[j].queue /\ payload.ref = queue[j].ref
    BY <1>1 DEF JobRow, PayloadRow
  <2>3. queue[j].attempts + 1 \in Nat
    BY <1>2
  <2> HIDE DEF payload, new
  <2>4. new \in Delivery({j}) /\ new.phase = "marker" /\ new.payload = payload
    BY <2>1, <2>2, <2>3 DEF Delivery, Phases
  <2> QED BY <2>2, <2>4
<1> HIDE DEF new
<1>7. WorkerTypes' /\ worker'[w] = new /\ \A v \in Workers : v # w => worker'[v] = worker[v]
  BY <1>3, <1>6, WorkerSet DEF IInv, Others
<1>8. Arrives(w)
  <2>1. RefersNext(queue[j].queue, queue[j].ref)
    BY <1>1, <1>5, RefersKept
  <2> QED BY <1>6, <1>7, <2>1 DEF Arrives, FlowPhases, SystemPhases
<1>9. DeliveryNames' /\ DeliveryBarriers'
  BY <1>4, <1>7, <1>8, ArrivingKeeps DEF IInv, Others
<1> QED BY <1>3, <1>5, <1>7, <1>9, AdminsKept DEF IInv, Others

-----------------------------------------------------------------------------
\* Steps that only read.

\* What deliveries and administrators know, after a delivery is over.
LEMMA OthersKept ==
  ASSUME Others, Grow, WorkerTypes', Ending, UNCHANGED admin
  PROVE  Others'
  BY EndingKeeps, AdminsKept DEF Others

\* A delivery ends and changes no row.
LEMMA QuietEnd ==
  ASSUME IInv, WorkerTypes', Ending,
         UNCHANGED <<execution, scheduledFlow, toDo, queue, txCount, routed,
                     completions, admin>>
  PROVE  IInv'
<1>1. RowInv' /\ Grow
  BY UnchangedIsQuiet, QuietRows DEF IInv
<1> QED BY <1>1, OthersKept DEF IInv

\* A delivery gets further and changes no row.
LEMMA QuietArrival ==
  ASSUME IInv, WorkerTypes', NEW w \in Workers,
         \A v \in Workers : v # w => worker'[v] = worker[v],
         Arrives(w),
         UNCHANGED <<execution, scheduledFlow, toDo, queue, txCount, routed,
                     completions, admin>>
  PROVE  IInv'
<1>1. Quiet
  BY UnchangedIsQuiet DEF IInv
<1>2. RowInv' /\ Grow
  BY <1>1, QuietRows DEF IInv
<1>3. DeliveryNames' /\ DeliveryBarriers'
  BY <1>1, ArrivingKeeps DEF IInv, Others
<1> QED BY <1>2, <1>3, AdminsKept DEF IInv, Others

\* What a busy worker knows.
LEMMA Known ==
  ASSUME IInv, NEW w \in Workers, worker[w].phase # "idle"
  PROVE  /\ WorkerTypes
         /\ Payload(w) \in PayloadRow
         /\ Payload(w).queue = "flow-execution" => Payload(w).ref \in DOMAIN routed
         /\ Payload(w).queue = "system-step-execution" =>
               /\ Payload(w).ref \in DOMAIN toDo
               /\ toDo[Payload(w).ref].step \in System
         /\ worker[w].phase \in FlowPhases => Payload(w).queue = "flow-execution"
         /\ worker[w].phase \in SystemPhases =>
               /\ Payload(w).queue = "system-step-execution"
               /\ ~worker[w].completed
         /\ worker[w].phase \in {"siblings", "commit"} => worker[w].flow \in FlowRow
         /\ worker[w].completed \in BOOLEAN
<1>1. Refers(Payload(w).queue, Payload(w).ref)
  BY DEF IInv, Others, DeliveryNames, Payload
<1>2. worker[w].completed \in BOOLEAN
  BY DEF IInv, Others, WorkerTypes, Delivery
<1> QED BY <1>1, <1>2 DEF IInv, Others, DeliveryNames, Payload, Refers

\* A worker that gets further and remembers what it knows.
LEMMA MovesArrive ==
  ASSUME IInv, NEW w \in Workers, worker[w].phase # "idle", NEW p, Moves(w, p),
         UNCHANGED <<toDo, routed>>, p # "idle",
         p \in FlowPhases => Payload(w).queue = "flow-execution",
         p \in SystemPhases => Payload(w).queue = "system-step-execution" /\ ~worker[w].completed,
         p \in {"siblings", "commit"} => worker[w].flow \in FlowRow,
         \A t \in DOMAIN toDo :
            toDo[t].barrier # Null /\ Payload(w).ref = toDo[t].barrier =>
               /\ p = "siblings" => worker[w].flow.sourceStepId = toDo[t].step
               /\ p = "commit" => toDo[t].deleted
  PROVE  Arrives(w)
<1>1. /\ Payload(w) \in PayloadRow
      /\ RefersNext(Payload(w).queue, Payload(w).ref)
  BY DEF IInv, Others, DeliveryNames, Payload, Refers, RefersNext
<1> QED BY <1>1 DEF Arrives, Moves, Payload, FlowPhases, SystemPhases

\* The marker is read.
LEMMA ReadMarkerStep ==
  ASSUME IInv, NEW w \in Workers, ReadMarker(w)
  PROVE  IInv'
<1> DEFINE completed == worker[w].job \in completedJob
           p == IF IsFlowJob(w) THEN "flow"
                ELSE IF completed THEN "acknowledge" ELSE "execute"
           new == [worker[w] EXCEPT !.completed = completed, !.phase = p]
<1>1. PICK jobs : worker \in [Workers -> Delivery(jobs)]
  BY DEF IInv, Others, WorkerTypes
<1>2. /\ worker[w].phase = "marker"
      /\ worker' = [worker EXCEPT ![w].completed = completed, ![w].phase = p]
      /\ UNCHANGED <<execution, scheduledFlow, toDo, queue, txCount, routed,
                     completions, admin>>
  BY DEF ReadMarker, tables, history
<1>3. /\ new \in Delivery(jobs) /\ new.phase = p /\ new.completed = completed
      /\ new.payload = worker[w].payload
  <2>1. p \in Phases /\ completed \in BOOLEAN
    BY DEF Phases
  <2> HIDE DEF p, completed
  <2> QED BY <1>1, <2>1 DEF Delivery
<1>4. worker' = [worker EXCEPT ![w] = new]
  BY <1>1, <1>2 DEF Delivery
<1> HIDE DEF new, completed
<1>5. /\ WorkerTypes' /\ worker'[w] = new
      /\ \A v \in Workers : v # w => worker'[v] = worker[v]
  BY <1>3, <1>4, WorkerSet DEF IInv, Others
<1>6. Payload(w).queue \in Queues
  BY <1>2, Known DEF PayloadRow
<1>7. /\ worker[w].payload \in PayloadRow
      /\ RefersNext(worker[w].payload.queue, worker[w].payload.ref)
  BY <1>2 DEF IInv, Others, DeliveryNames, Refers, RefersNext
<1>8. Arrives(w)
  BY <1>3, <1>5, <1>6, <1>7 DEF Arrives, FlowPhases, SystemPhases, Queues, IsFlowJob, Payload
<1> QED BY <1>2, <1>5, <1>8, QuietArrival

\* The scheduled flow is read: a barrier's to-dos are of its source step.
LEMMA ReadScheduledFlowStep ==
  ASSUME IInv, NEW w \in Workers, ReadScheduledFlow(w)
  PROVE  IInv'
<1> DEFINE s == Payload(w).ref
           p == IF scheduledFlow[s].forEachBarrier THEN "siblings"
                ELSE IF worker[w].completed THEN "acknowledge" ELSE "commit"
           new == [worker[w] EXCEPT !.flow = scheduledFlow[s], !.phase = p]
<1>1. PICK jobs : worker \in [Workers -> Delivery(jobs)]
  BY DEF IInv, Others, WorkerTypes
<1>2. /\ worker[w].phase = "flow"
      /\ UNCHANGED <<execution, scheduledFlow, toDo, queue, txCount, routed,
                     completions, admin>>
  BY DEF ReadScheduledFlow, tables, history
<1>3. CASE s \in DOMAIN scheduledFlow
  <2>1. worker' = [worker EXCEPT ![w].flow = scheduledFlow[s], ![w].phase = p]
    BY <1>3 DEF ReadScheduledFlow
  <2>2. scheduledFlow[s] \in FlowRow
    BY <1>3 DEF IInv, RowInv, TableTypes
  <2>3. /\ new \in Delivery(jobs) /\ new.phase = p /\ new.flow = scheduledFlow[s]
        /\ new.payload = worker[w].payload /\ new.completed = worker[w].completed
    <3>1. p \in Phases
      BY DEF Phases
    <3> HIDE DEF p
    <3> QED BY <1>1, <2>2, <3>1 DEF Delivery
  <2>4. worker' = [worker EXCEPT ![w] = new]
    BY <1>1, <2>1 DEF Delivery
  <2> HIDE DEF new
  <2>5. /\ WorkerTypes' /\ worker'[w] = new
        /\ \A v \in Workers : v # w => worker'[v] = worker[v]
    BY <2>3, <2>4, WorkerSet DEF IInv, Others
  <2>6. /\ worker[w].payload \in PayloadRow
        /\ RefersNext(worker[w].payload.queue, worker[w].payload.ref)
        /\ worker[w].payload.queue = "flow-execution"
    BY <1>2 DEF IInv, Others, DeliveryNames, Refers, RefersNext, FlowPhases
  <2>7. \A t \in DOMAIN toDo :
          toDo[t].barrier # Null /\ s = toDo[t].barrier =>
             p = "siblings" /\ scheduledFlow[s].sourceStepId = toDo[t].step
    BY <1>3 DEF IInv, RowInv, RowBarriers
  <2>8. p \in {"siblings", "acknowledge", "commit"}
    OBVIOUS
  <2> HIDE DEF p
  <2>9. Arrives(w)
    BY <2>2, <2>3, <2>5, <2>6, <2>7, <2>8 DEF Arrives, FlowPhases, SystemPhases, Payload
  <2> QED BY <1>2, <2>5, <2>9, QuietArrival
<1>4. CASE s \notin DOMAIN scheduledFlow
  <2>1. GoTo(w, "acknowledge") \/ HandlerError(w)
    BY <1>4 DEF ReadScheduledFlow
  <2>2. WorkerTypes' /\ \E q \in {"idle", "acknowledge", "record"} : Moves(w, q)
    <3>1. WorkerTypes
      BY DEF IInv, Others
    <3> QED BY <2>1, <3>1, GoToMoves, ErrorMoves DEF Phases
  <2>3. Ending
    BY <1>2, <2>2, MovesToEnd
  <2> QED BY <1>2, <2>2, <2>3, QuietEnd
<1> QED BY <1>3, <1>4

\* The siblings are counted: none is left when the delivery goes on.
LEMMA CountSiblingsStep ==
  ASSUME IInv, NEW w \in Workers, CountSiblings(w)
  PROVE  IInv'
<1> DEFINE p == IF ActiveTodosForStep(worker[w].flow.sourceStepId) = {}
                THEN "commit" ELSE "acknowledge"
<1>1. /\ worker[w].phase = "siblings"
      /\ GoTo(w, p)
      /\ UNCHANGED <<execution, scheduledFlow, toDo, queue, txCount, routed,
                     completions, admin>>
  BY DEF CountSiblings, tables, history
<1>2. WorkerTypes' /\ Moves(w, p)
  BY <1>1, GoToMoves DEF IInv, Others, Phases
<1>3. \A t \in DOMAIN toDo :
        toDo[t].barrier # Null /\ Payload(w).ref = toDo[t].barrier /\ p = "commit" =>
           toDo[t].deleted
  BY <1>1 DEF IInv, Others, DeliveryBarriers, ActiveTodosForStep, ActiveTodos, Payload
<1>4. p \in {"commit", "acknowledge"}
  OBVIOUS
<1> HIDE DEF p
<1>5. /\ Payload(w).queue = "flow-execution" /\ worker[w].flow \in FlowRow
  BY <1>1, Known DEF FlowPhases
<1>6. Arrives(w)
  BY <1>1, <1>2, <1>3, <1>4, <1>5, MovesArrive DEF FlowPhases, SystemPhases
<1> QED BY <1>1, <1>2, <1>6, QuietArrival DEF Moves

\* A delivery that leaves the rows alone and ends, waits to be acknowledged, or
\* is to be recorded as a failure.
LEMMA EndStep ==
  ASSUME IInv, NEW w \in Workers, worker[w].phase # "idle",
         \/ GoTo(w, "acknowledge")
         \/ HandlerError(w)
         \/ worker' = [worker EXCEPT ![w] = Idle],
         UNCHANGED <<execution, scheduledFlow, toDo, queue, txCount, routed,
                     completions, admin>>
  PROVE  IInv'
<1>1. WorkerTypes
  BY DEF IInv, Others
<1>2. WorkerTypes' /\ \E q \in {"idle", "acknowledge", "record"} : Moves(w, q)
  BY <1>1, GoToMoves, ErrorMoves, IdleMoves DEF Phases
<1>3. Ending
  BY <1>2, MovesToEnd
<1> QED BY <1>2, <1>3, QuietEnd

\* A step runs on the to-do that was read.
LEMMA ExecuteStep ==
  ASSUME IInv, NEW w \in Workers, NEW outcome, Execute(w, outcome)
  PROVE  IInv'
<1>1. /\ worker[w].phase = "execute"
      /\ UNCHANGED <<execution, scheduledFlow, toDo, queue, txCount, routed,
                     completions, admin>>
      /\ \/ \E p \in {"complete", "fail"} : GoTo(w, p)
         \/ worker' = [worker EXCEPT ![w] = Idle]
  BY DEF Execute, tables, history
<1>2. CASE worker' = [worker EXCEPT ![w] = Idle]
  BY <1>1, <1>2, EndStep
<1>3. ASSUME NEW p \in {"complete", "fail"}, GoTo(w, p)
      PROVE  IInv'
  <2>1. WorkerTypes' /\ Moves(w, p)
    BY <1>3, GoToMoves DEF IInv, Others, Phases
  <2>2. Payload(w).queue = "system-step-execution" /\ ~worker[w].completed
    BY <1>1, Known DEF SystemPhases
  <2>3. Arrives(w)
    BY <1>1, <2>1, <2>2, MovesArrive DEF FlowPhases, SystemPhases
  <2> QED BY <1>1, <2>1, <2>3, QuietArrival DEF Moves
<1> QED BY <1>1, <1>2, <1>3

\* The to-do is gone.
LEMMA TodoNotFoundStep ==
  ASSUME IInv, NEW w \in Workers, TodoNotFound(w)
  PROVE  IInv'
<1>1. /\ worker[w].phase = "execute" /\ GoTo(w, "missing")
      /\ UNCHANGED <<execution, scheduledFlow, toDo, queue, txCount, routed,
                     completions, admin>>
  BY DEF TodoNotFound, tables, history
<1>2. WorkerTypes' /\ Moves(w, "missing")
  BY <1>1, GoToMoves DEF IInv, Others, Phases
<1>3. Payload(w).queue = "system-step-execution" /\ ~worker[w].completed
  BY <1>1, Known DEF SystemPhases
<1>4. Arrives(w)
  BY <1>1, <1>2, <1>3, MovesArrive DEF FlowPhases, SystemPhases
<1> QED BY <1>1, <1>2, <1>4, QuietArrival DEF Moves

\* The steps that end a delivery, and change no row.
LEMMA EndingSteps ==
  ASSUME IInv, NEW w \in Workers,
         \/ CommitConflict(w)
         \/ SkipClaimed(w)
         \/ SkipMissing(w)
         \/ Fault(w)
         \/ Crash(w)
  PROVE  IInv'
<1>1. CASE CommitConflict(w)
  BY <1>1, EndStep DEF CommitConflict, tables, history
<1>2. CASE SkipClaimed(w)
  BY <1>2, EndStep DEF SkipClaimed, history
<1>3. CASE SkipMissing(w)
  BY <1>3, EndStep DEF SkipMissing, history
<1>4. CASE Fault(w)
  BY <1>4, EndStep DEF Fault, tables, history
<1>5. CASE Crash(w)
  BY <1>5, EndStep DEF Crash, tables
<1> QED BY <1>1, <1>2, <1>3, <1>4, <1>5

\* A failure to record is acknowledged.
LEMMA RecordingFailsStep ==
  ASSUME IInv, NEW w \in Workers, RecordingFails(w)
  PROVE  IInv'
  BY EndStep DEF RecordingFails, tables

\* The job is taken off the queue if its claim is still the latest.
LEMMA AcknowledgeStep ==
  ASSUME IInv, NEW w \in Workers, Acknowledge(w)
  PROVE  IInv'
<1>1. /\ worker[w].phase = "acknowledge"
      /\ worker' = [worker EXCEPT ![w] = Idle]
      /\ UNCHANGED <<execution, scheduledFlow, toDo, txCount, routed, completions, admin>>
      /\ queue' = queue \/ \E j : queue' = Delete(queue, {j})
  BY DEF Acknowledge, history
<1>2. Quiet
  <2>1. IsTable(queue) /\ \A j \in DOMAIN queue : queue[j] \in JobRow
    BY TypedRows DEF IInv, RowInv
  <2>2. CASE queue' = queue
    BY <1>1, <2>1, <2>2 DEF Quiet, IsTable
  <2>3. ASSUME NEW j, queue' = Delete(queue, {j})
        PROVE  Quiet
    <3>1. /\ DOMAIN queue' = DOMAIN queue \ {j}
          /\ \A i \in DOMAIN queue \ {j} : queue'[i] = queue[i]
      BY <2>3, Deleted
    <3>2. IsTable(queue')
      BY <2>3 DEF Delete, IsTable
    <3> QED BY <1>1, <2>1, <3>1, <3>2 DEF Quiet
  <2> QED BY <1>1, <2>2, <2>3
<1>3. RowInv' /\ Grow
  BY <1>2, QuietRows DEF IInv
<1>4. WorkerTypes' /\ Moves(w, "idle")
  BY <1>1, IdleMoves DEF IInv, Others
<1>5. Ending
  BY <1>1, <1>4, MovesToEnd
<1> QED BY <1>1, <1>3, <1>4, <1>5, OthersKept DEF IInv

-----------------------------------------------------------------------------
\* Steps that change rows.

\* A worker's transaction that keeps the rows right, and is acknowledged.
LEMMA Committed ==
  ASSUME IInv, NEW w \in Workers, worker[w].phase # "idle", GoTo(w, "acknowledge"),
         RowInv', Grow, UNCHANGED admin
  PROVE  IInv'
<1>1. WorkerTypes' /\ Moves(w, "acknowledge")
  BY GoToMoves DEF IInv, Others, Phases
<1>2. Ending
  BY <1>1, MovesToEnd
<1> QED BY <1>1, <1>2, OthersKept DEF IInv

\* The execution is closed.
LEMMA SkipClosedStep ==
  ASSUME IInv, NEW w \in Workers, SkipClosed(w)
  PROVE  IInv'
<1>1. Consumes(Payload(w).ref)
  BY UnschedulesOne DEF SkipClosed, Consumes, MayClose, history
<1>2. RowInv' /\ Grow
  BY <1>1, ConsumeRows DEF IInv
<1> QED BY <1>2, Committed DEF SkipClosed

\* A flow job's failure is recorded.
LEMMA RecordFlowFailureStep ==
  ASSUME IInv, NEW w \in Workers, RecordFlowFailure(w)
  PROVE  IInv'
<1> DEFINE s == Payload(w).ref
           finished == s \in DOMAIN scheduledFlow /\ Open /\ MayFinish
<1>1. /\ worker[w].phase = "record" /\ GoTo(w, "acknowledge")
      /\ UNCHANGED <<toDo, queue, txCount, routed, completions, admin>>
  BY DEF RecordFlowFailure, history
<1>2. CASE worker[w].job \in completedJob
  BY <1>1, <1>2, EndStep DEF RecordFlowFailure
<1>3. CASE worker[w].job \notin completedJob
  <2>1. /\ scheduledFlow' = Delete(scheduledFlow, {s})
        /\ execution' = [execution EXCEPT !.finishedAt = @ \/ finished]
    BY <1>3 DEF RecordFlowFailure
  <2>2. execution \in Columns
    BY DEF IInv, RowInv, TableTypes
  <2>3. MayClose
    <3>1. CASE finished
      <4>1. execution' = [execution EXCEPT !.finishedAt = TRUE]
        BY <2>1, <2>2, <3>1 DEF Columns
      <4> QED BY <3>1, <4>1 DEF MayClose
    <3>2. CASE ~finished
      <4>1. execution' = execution
        <5> HIDE DEF finished
        <5> QED BY <2>1, <2>2, <3>2 DEF Columns
      <4> QED BY <4>1 DEF MayClose
    <3> QED BY <3>1, <3>2
  <2>4. Consumes(s)
    BY <1>1, <2>1, <2>3, UnschedulesOne DEF Consumes
  <2>5. RowInv' /\ Grow
    BY <2>4, ConsumeRows DEF IInv
  <2> QED BY <1>1, <2>5, Committed
<1> QED BY <1>2, <1>3

\* What Route does: the barrier's to-dos are done, the execution is open.
LEMMA RouteIs ==
  ASSUME IInv, NEW w \in Workers, Route(w)
  PROVE  /\ \E new, flows : RoutesTo(Payload(w).ref, new, flows)
         /\ \E outcome \in Outcomes(worker[w].flow, Payload(w).onError) :
            \E new, flows :
               /\ RoutesTo(Payload(w).ref, new, flows)
               /\ RoutesBranches(outcome.execute \cup outcome.defer, new, flows)
         /\ RoutedTables
         /\ Payload(w).ref \in DOMAIN scheduledFlow /\ Open
         /\ \A t \in DOMAIN toDo :
              toDo[t].barrier # Null /\ toDo[t].barrier = Payload(w).ref =>
                 toDo[t].deleted
<1>1. PICK outcome \in Outcomes(worker[w].flow, Payload(w).onError) :
        /\ MayDefer(outcome.defer)
        /\ \E items \in [{f \in outcome.execute : Target[f] \in ForEach} -> Items] :
              RouteTo(w, outcome.execute, outcome.defer, items)
  BY DEF Route
<1>2. PICK items \in [{f \in outcome.execute : Target[f] \in ForEach} -> Items] :
        RouteTo(w, outcome.execute, outcome.defer, items)
  BY <1>1
<1>3. /\ outcome.execute \in SUBSET Flows
      /\ outcome.defer \in SUBSET Flows
      /\ outcome.execute \cap outcome.defer = {}
  BY OutcomesAreFlows
<1>4. /\ \E new, flows :
            /\ RoutesTo(Payload(w).ref, new, flows)
            /\ RoutesBranches(outcome.execute \cup outcome.defer, new, flows)
      /\ RoutedTables
  BY <1>2, <1>3, RouteRows DEF IInv, RowInv
<1>5. /\ Payload(w).ref \in DOMAIN scheduledFlow /\ Open
      /\ worker[w].phase = "commit"
  BY DEF Route
<1>6. \A t \in DOMAIN toDo :
        toDo[t].barrier # Null /\ toDo[t].barrier = Payload(w).ref => toDo[t].deleted
  BY <1>5 DEF IInv, Others, DeliveryBarriers, Payload
<1> QED BY <1>4, <1>5, <1>6

\* A route.
LEMMA RouteStep ==
  ASSUME IInv, NEW w \in Workers, Route(w)
  PROVE  IInv'
<1>1. RowInv' /\ Grow
  BY RouteIs, RouteKeepsRows DEF IInv
<1> QED BY <1>1, Committed DEF Route

\* A completion whose new scheduled flow is no barrier.
LEMMA CompletionKeeps ==
  ASSUME RowInv, NEW t \in DOMAIN toDo, NEW fresh \in Ids, fresh.tx <= txCount + 1,
         \A u \in DOMAIN toDo : toDo[u].barrier # Null => toDo[u].barrier # fresh,
         Continue(t, fresh), UNCHANGED execution
  PROVE  RowInv' /\ Grow
<1>1. PICK s : /\ Continues(t, s) /\ s \in {toDo[t].barrier, fresh}
               /\ (s # fresh => s # Null)
  BY ContinueRows DEF RowInv
<1>2. CASE s = fresh
  BY <1>1, <1>2, ContinueKeepsRows
<1>3. CASE s # fresh
  <2>1. s = toDo[t].barrier /\ s # Null
    BY <1>1, <1>3
  <2>2. s \in DOMAIN routed /\ s \in Ids /\ s.tx <= txCount
    BY <2>1 DEF RowInv, RowNames, TableTypes
  <2>3. s.tx <= txCount + 1
    BY <2>2 DEF RowInv, TableTypes, Ids
  <2> QED BY <1>1, <2>1, <2>2, <2>3, ContinueKeepsRows
<1> QED BY <1>2, <1>3

\* A system step is completed.
LEMMA CompleteSystemStepStep ==
  ASSUME IInv, NEW w \in Workers, CompleteSystemStep(w)
  PROVE  IInv'
<1>1. /\ worker[w].phase = "complete" /\ GoTo(w, "acknowledge")
      /\ Continue(Payload(w).ref, Id(Null, 0))
      /\ UNCHANGED <<execution, admin>>
  BY DEF CompleteSystemStep
<1>2. Payload(w).ref \in DOMAIN toDo
  BY <1>1, Known DEF SystemPhases
<1>3. NewId(Id(Null, 0))
  BY IdsAreNew DEF IInv, RowInv, TableTypes
<1>4. Id(Null, 0) \in Ids /\ Id(Null, 0).tx <= txCount + 1
  BY <1>3 DEF NewId, Ids
<1>5. \A u \in DOMAIN toDo : toDo[u].barrier # Null => toDo[u].barrier # Id(Null, 0)
  BY <1>3, NewIdsDiffer DEF IInv, RowInv, RowNames
<1>6. RowInv' /\ Grow
  BY <1>1, <1>2, <1>4, <1>5, CompletionKeeps DEF IInv
<1> QED BY <1>1, <1>6, Committed

\* A person completes a to-do.
LEMMA CompleteToDoStep ==
  ASSUME IInv, NEW t \in DOMAIN toDo, CompleteToDo(t)
  PROVE  IInv'
<1>1. /\ Continue(t, t)
      /\ UNCHANGED <<execution, worker, admin>>
  BY DEF CompleteToDo
<1>2. t \in Ids /\ t.tx <= txCount + 1
  BY DEF IInv, RowInv, RowNames, TableTypes, Ids
<1>3. \A u \in DOMAIN toDo : toDo[u].barrier # Null => toDo[u].barrier # t
  BY DEF IInv, RowInv, RowNames, RowBarriers
<1>4. RowInv' /\ Grow
  BY <1>1, <1>2, <1>3, CompletionKeeps DEF IInv
<1>5. WorkerTypes' /\ Ending
  BY <1>1 DEF IInv, Others, WorkerTypes, Ending
<1> QED BY <1>1, <1>4, <1>5, OthersKept DEF IInv

\* A system step fails: its to-do, and its error flow or its execution.
LEMMA FailSystemStepRows ==
  ASSUME IInv, NEW w \in Workers, FailSystemStep(w)
  PROVE  /\ Payload(w).ref \in DOMAIN toDo
         /\ toDo[Payload(w).ref].step \in System
         /\ FailsAndRoutes(Payload(w).ref, Id(Null, 0))
<1> DEFINE t == Payload(w).ref
           s == Id(Null, 0)
<1>1. t \in DOMAIN toDo /\ toDo[t].step \in System
  BY Known DEF FailSystemStep, SystemPhases
<1>2. Fails(t)
  BY <1>1, FailRows DEF FailSystemStep, IInv, RowInv
<1>3. UNCHANGED completions
  BY DEF FailSystemStep
<1>4. PICK error \in Errors :
         IF MatchingOnErrorFlows(toDo[t].step, error) # {}
         THEN /\ scheduledFlow' = Insert(scheduledFlow,
                    [i \in {s} |-> ScheduledFlow(toDo[t].step, Null, FALSE)])
              /\ queue' = Insert(queue, [i \in {s} |-> FlowJob(s, error)])
              /\ routed' = Insert(routed, [i \in {s} |-> 0])
              /\ txCount' = txCount + 1
              /\ UNCHANGED execution
         ELSE /\ SetProcessExecutionFailed
              /\ UNCHANGED <<scheduledFlow, queue, routed, txCount>>
  BY DEF FailSystemStep
<1>5. CASE MatchingOnErrorFlows(toDo[t].step, error) # {}
  <2>1. /\ scheduledFlow' = Insert(scheduledFlow,
                  [i \in {s} |-> ScheduledFlow(toDo[t].step, Null, FALSE)])
        /\ queue' = Insert(queue, [i \in {s} |-> FlowJob(s, error)])
        /\ routed' = Insert(routed, [i \in {s} |-> 0])
        /\ txCount' = txCount + 1
        /\ UNCHANGED execution
    BY <1>5, <1>4
  <2>2. NewId(s) /\ s \in Ids
    BY IdsAreNew DEF IInv, RowInv, TableTypes, NewId
  <2>3. ScheduledFlow(toDo[t].step, Null, FALSE) \in FlowRow
    BY <1>1, Constants DEF ScheduledFlow, FlowRow
  <2>4. Schedules({s})
    BY <2>1, <2>3, SchedulesOne
  <2>5. AddsFlowJob(s)
    BY <2>1, <2>2, AddsOne
  <2> QED BY <1>1, <1>2, <1>3, <2>1, <2>2, <2>4, <2>5 DEF FailsAndRoutes
<1>6. CASE ~(MatchingOnErrorFlows(toDo[t].step, error) # {})
  <2>1. SetProcessExecutionFailed /\ UNCHANGED <<scheduledFlow, queue, routed, txCount>>
    BY <1>6, <1>4
  <2> QED BY <1>1, <1>2, <1>3, <2>1 DEF FailsAndRoutes
<1> QED BY <1>5, <1>6

\* A failed system step.
LEMMA FailSystemStepStep ==
  ASSUME IInv, NEW w \in Workers, FailSystemStep(w)
  PROVE  IInv'
<1>1. RowInv' /\ Grow
  BY FailSystemStepRows, FailKeepsRows DEF IInv
<1> QED BY <1>1, Committed DEF FailSystemStep

\* A system job's failure is recorded.
LEMMA RecordSystemFailureRows ==
  ASSUME IInv, NEW w \in Workers, RecordSystemFailure(w), worker[w].job \notin completedJob
  PROVE  /\ Payload(w).ref \in DOMAIN toDo
         /\ toDo[Payload(w).ref].step \in System
         /\ FailsAndRoutes(Payload(w).ref, Null)
<1>1. Payload(w).ref \in DOMAIN toDo /\ toDo[Payload(w).ref].step \in System
  BY Known DEF RecordSystemFailure, IsFlowJob, PayloadRow, Queues
<1>2. Fails(Payload(w).ref)
  BY <1>1, FailRows DEF RecordSystemFailure, IInv, RowInv
<1>3. /\ SetProcessExecutionFailed \/ UNCHANGED execution
      /\ UNCHANGED <<scheduledFlow, queue, routed, txCount, completions>>
  BY DEF RecordSystemFailure, history
<1> QED BY <1>1, <1>2, <1>3 DEF FailsAndRoutes

\* A failure that is recorded, or was before.
LEMMA RecordSystemFailureStep ==
  ASSUME IInv, NEW w \in Workers, RecordSystemFailure(w)
  PROVE  IInv'
<1>1. CASE worker[w].job \in completedJob
  BY <1>1, EndStep DEF RecordSystemFailure, history
<1>2. CASE worker[w].job \notin completedJob
  <2>1. RowInv' /\ Grow
    BY <1>2, RecordSystemFailureRows, FailKeepsRows DEF IInv
  <2> QED BY <2>1, Committed DEF RecordSystemFailure
<1> QED BY <1>1, <1>2

\* An administrator asks to abandon the execution.
LEMMA AbandonRequestStep ==
  ASSUME IInv, NEW a \in Admins, AbandonRequest(a)
  PROVE  IInv'
<1>1. /\ admin[a].phase = "idle"
      /\ admin' = [admin EXCEPT ![a].phase = "abandon"]
      /\ UNCHANGED <<execution, scheduledFlow, toDo, queue, txCount, routed,
                     completions, worker>>
  BY DEF AbandonRequest, tables, history
<1>2. RowInv' /\ Grow
  BY <1>1, UnchangedIsQuiet, QuietRows DEF IInv
<1>3. WorkerTypes' /\ Ending
  BY <1>1 DEF IInv, Others, WorkerTypes, Ending
<1>4. DeliveryNames' /\ DeliveryBarriers'
  BY <1>2, <1>3, EndingKeeps DEF IInv, Others
<1>5. /\ admin \in [Admins -> AdminRow]
      /\ \A t : t \notin admin[a].todos
  BY <1>1 DEF IInv, Others, AdminTypes, AdminNames
<1>6. /\ AdminTypes'
      /\ \A b \in Admins : b # a => admin'[b] = admin[b]
      /\ \A t : t \notin admin'[a].todos
  BY <1>1, <1>5 DEF AdminTypes, AdminRow
<1>7. AdminNames'
  BY <1>1, <1>6 DEF IInv, Others, AdminNames, Refers
<1> QED BY <1>2, <1>3, <1>4, <1>6, <1>7 DEF IInv, Others

\* An administrator who is done.
LEMMA AdminDone ==
  ASSUME IInv, RowInv', Grow, UNCHANGED worker, NEW a \in Admins,
         admin' = [admin EXCEPT ![a] = [phase |-> "idle", todos |-> {}]]
  PROVE  IInv'
<1>1. WorkerTypes' /\ Ending
  BY DEF IInv, Others, WorkerTypes, Ending
<1>2. DeliveryNames' /\ DeliveryBarriers'
  BY <1>1, EndingKeeps DEF IInv, Others
<1>3. /\ AdminTypes'
      /\ \A b \in Admins : b # a => admin'[b] = admin[b]
      /\ admin'[a].todos = {}
  BY DEF IInv, Others, AdminTypes, AdminRow
<1>4. \A t : Refers("system-step-execution", t) => RefersNext("system-step-execution", t)
  BY RefersKept
<1>5. AdminNames'
  BY <1>3, <1>4 DEF IInv, Others, AdminNames, Refers, RefersNext
<1> QED BY <1>1, <1>2, <1>3, <1>5 DEF IInv, Others

\* An abandonment.
LEMMA AbandonStep ==
  ASSUME IInv, NEW a \in Admins, Abandon(a)
  PROVE  IInv'
<1>1. Abandons
  BY AbandonRows DEF IInv, RowInv
<1>2. RowInv' /\ Grow
  BY <1>1, AbandonKeepsRows DEF IInv, Abandon, history
<1> QED BY <1>2, AdminDone DEF Abandon

\* The failed to-dos are system steps'.
LEMMA RestartRequestStep ==
  ASSUME IInv, NEW a \in Admins, RestartRequest(a)
  PROVE  IInv'
<1> DEFINE failed == {t \in ActiveTodos : toDo[t].failed}
<1>1. /\ admin' = [admin EXCEPT ![a] = [phase |-> "restart", todos |-> failed]]
      /\ UNCHANGED <<execution, scheduledFlow, toDo, queue, txCount, routed,
                     completions, worker>>
  BY DEF RestartRequest, tables, history
<1>2. RowInv' /\ Grow
  BY <1>1, UnchangedIsQuiet, QuietRows DEF IInv
<1>3. WorkerTypes' /\ Ending
  BY <1>1 DEF IInv, Others, WorkerTypes, Ending
<1>4. DeliveryNames' /\ DeliveryBarriers'
  BY <1>2, <1>3, EndingKeeps DEF IInv, Others
<1>5. \A t \in failed : t \in Ids /\ Refers("system-step-execution", t)
  BY DEF IInv, RowInv, RowNames, TableTypes, ActiveTodos, Refers
<1> HIDE DEF failed
<1>6. [phase |-> "restart", todos |-> failed] \in AdminRow
  BY <1>5 DEF AdminRow
<1>7. /\ AdminTypes'
      /\ \A b \in Admins : b # a => admin'[b] = admin[b]
      /\ admin'[a].todos = failed /\ admin'[a].phase = "restart"
  BY <1>1, <1>6 DEF IInv, Others, AdminTypes
<1>8. AdminNames'
  BY <1>1, <1>5, <1>7 DEF IInv, Others, AdminNames, Refers
<1> QED BY <1>2, <1>3, <1>4, <1>7, <1>8 DEF IInv, Others

\* A restart.
LEMMA RestartStep ==
  ASSUME IInv, NEW a \in Admins, Restart(a)
  PROVE  IInv'
<1>1. admin[a].todos \in SUBSET Ids
  BY DEF IInv, Others, AdminTypes, AdminRow
<1>2. Restarts(admin[a].todos)
  BY <1>1, RestartRows DEF IInv, RowInv
<1>3. /\ \A t \in admin[a].todos : Refers("system-step-execution", t)
      /\ UNCHANGED <<scheduledFlow, routed, completions>>
  BY DEF IInv, Others, AdminNames, Restart, history
<1>4. RowInv' /\ Grow
  BY <1>2, <1>3, RestartKeepsRows DEF IInv
<1> QED BY <1>4, AdminDone DEF Restart

-----------------------------------------------------------------------------
\* The theorems.

\* The invariant holds at first.
LEMMA InitIInv == Init => IInv
<1> SUFFICES ASSUME Init PROVE IInv
  OBVIOUS
<1>1. /\ execution = [finishedAt |-> FALSE, abandonedAt |-> FALSE, failed |-> FALSE]
      /\ scheduledFlow = [i \in {StartId} |-> ScheduledFlow(Start, Null, FALSE)]
      /\ toDo = << >>
      /\ queue = [i \in {StartId} |-> FlowJob(StartId, Null)]
      /\ worker = [w \in Workers |-> Idle]
      /\ admin = [a \in Admins |-> [phase |-> "idle", todos |-> {}]]
      /\ txCount = 0
      /\ routed = [i \in {StartId} |-> 0]
      /\ completions = << >>
  BY DEF Init
<1>2. StartId \in Ids /\ StartId.tx = 0
  BY DEF StartId, Ids
<1>3. DOMAIN toDo = {} /\ DOMAIN completions = {}
  BY <1>1
<1>4. ScheduledFlow(Start, Null, FALSE) \in FlowRow
  BY Constants DEF ScheduledFlow, FlowRow
<1>5. FlowJob(StartId, Null) \in JobRow /\ FlowJob(StartId, Null).ref = StartId
      /\ FlowJob(StartId, Null).queue = "flow-execution"
  BY <1>2, Constants DEF FlowJob, JobRow, Queues
<1>6. TableTypes
  <2>1. execution \in Columns
    BY <1>1 DEF Columns
  <2>2. IsTable(toDo) /\ IsTable(completions)
    BY <1>1 DEF IsTable
  <2>3. /\ toDo \in [DOMAIN toDo -> ToDoRow]
        /\ completions \in [DOMAIN completions -> Nat]
    BY <1>3, <2>2 DEF IsTable
  <2>4. /\ scheduledFlow \in [DOMAIN scheduledFlow -> FlowRow]
        /\ queue \in [DOMAIN queue -> JobRow]
        /\ routed \in [DOMAIN routed -> Nat]
    BY <1>1, <1>4, <1>5
  <2>5. txCount \in Nat /\ DOMAIN routed \subseteq Ids /\ DOMAIN toDo \subseteq Ids
    BY <1>1, <1>2, <1>3
  <2> QED BY <2>1, <2>3, <2>4, <2>5 DEF TableTypes
<1>7. RowNames /\ JobNames
  <2>1. /\ DOMAIN routed = {StartId} /\ DOMAIN scheduledFlow = {StartId}
        /\ DOMAIN queue = {StartId} /\ queue[StartId] = FlowJob(StartId, Null)
    BY <1>1
  <2>2. RowNames
    BY <1>1, <1>2, <1>3, <2>1 DEF RowNames
  <2>3. JobNames
    BY <1>5, <2>1 DEF JobNames, Refers
  <2> QED BY <2>2, <2>3
<1>8. Closing /\ Routing /\ RowBarriers
  <2>1. Closing
    BY <1>1, <1>6, CompletedColumns DEF Closing, CompletedHasNoToDo, TableTypes
  <2> QED BY <1>1, <1>3, <2>1 DEF Routing, RowBarriers
<1>9. WorkerTypes
  BY <1>1, IdleType DEF WorkerTypes
<1>10. \A w \in Workers : worker[w].phase = "idle"
  BY <1>1 DEF Idle
<1>11. DeliveryNames /\ DeliveryBarriers
  BY <1>3, <1>10 DEF DeliveryNames, DeliveryBarriers
<1>12. AdminTypes /\ AdminNames
  BY <1>1 DEF AdminTypes, AdminNames, AdminRow
<1> QED BY <1>6, <1>7, <1>8, <1>9, <1>11, <1>12 DEF IInv, RowInv, Others

\* Every step keeps it.
LEMMA NextIInv == IInv /\ [Next]_vars => IInv'
<1> SUFFICES ASSUME IInv, [Next]_vars PROVE IInv'
  OBVIOUS
<1>1. ASSUME NEW w \in Workers, NEW j \in DOMAIN queue, Claim(w, j)
      PROVE  IInv'
  BY <1>1, ClaimStep
<1>2. ASSUME NEW w \in Workers, FlowStep(w)
      PROVE  IInv'
  BY <1>2, ReadScheduledFlowStep, CountSiblingsStep, EndingSteps, SkipClosedStep,
     RouteStep, RecordFlowFailureStep DEF FlowStep
<1>3. ASSUME NEW w \in Workers, SystemStep(w)
      PROVE  IInv'
  BY <1>3, ExecuteStep, TodoNotFoundStep, EndingSteps, CompleteSystemStepStep,
     FailSystemStepStep, RecordSystemFailureStep DEF SystemStep
<1>4. ASSUME NEW w \in Workers, HandlerStep(w)
      PROVE  IInv'
  BY <1>2, <1>3, <1>4, ReadMarkerStep, EndingSteps, AcknowledgeStep DEF HandlerStep
<1>5. ASSUME NEW w \in Workers, Fault(w) \/ RecordingFails(w) \/ Crash(w)
      PROVE  IInv'
  BY <1>5, EndingSteps, RecordingFailsStep
<1>6. ASSUME NEW t \in DOMAIN toDo, CompleteToDo(t)
      PROVE  IInv'
  BY <1>6, CompleteToDoStep
<1>7. ASSUME NEW a \in Admins,
             AbandonRequest(a) \/ Abandon(a) \/ RestartRequest(a) \/ Restart(a)
      PROVE  IInv'
  BY <1>7, AbandonRequestStep, AbandonStep, RestartRequestStep, RestartStep
<1>8. CASE UNCHANGED vars
  <2>1. UNCHANGED <<execution, scheduledFlow, toDo, queue, txCount, routed,
                    completions, admin, worker>>
    BY <1>8 DEF vars
  <2>2. WorkerTypes' /\ Ending
    BY <2>1 DEF IInv, Others, WorkerTypes, Ending
  <2> QED BY <2>1, <2>2, QuietEnd
<1> QED BY <1>1, <1>4, <1>5, <1>6, <1>7, <1>8 DEF Next

\* It always holds.
LEMMA Invariant == Spec => []IInv
  BY InitIInv, NextIInv, PTL DEF Spec

\* Every table holds rows of its type, and whatever a row or a job names has been
\* inserted (what the handlers of flow-execution.ts take from a payload).
THEOREM TypeCorrect == Spec => []TypeOK
<1>1. IInv => TypeOK
  <2> SUFFICES ASSUME IInv PROVE TypeOK
    OBVIOUS
  <2>1. \A s \in DOMAIN scheduledFlow : scheduledFlow[s] \in FlowRow
    BY DEF IInv, RowInv, TableTypes
  <2>2. \A t \in DOMAIN toDo :
           toDo[t] \in [step : Steps, barrier : DOMAIN routed \cup {Null},
                        deleted : BOOLEAN, failed : BOOLEAN]
    BY DEF IInv, RowInv, TableTypes, RowNames, ToDoRow
  <2>3. \A j \in DOMAIN queue :
           /\ queue[j].attempts \in 0 .. MaxAttempts
           /\ Refers(queue[j].queue, queue[j].ref)
    BY DEF IInv, RowInv, TableTypes, JobNames, JobRow
  <2>4. \A w \in Workers : worker[w].phase \in Phases
    BY DEF IInv, Others, WorkerTypes, Delivery
  <2>5. /\ execution \in Columns
        /\ DOMAIN scheduledFlow \subseteq DOMAIN routed
        /\ DOMAIN toDo = DOMAIN completions
    BY DEF IInv, RowInv, TableTypes, RowNames
  <2> QED BY <2>1, <2>2, <2>3, <2>4, <2>5 DEF TypeOK, Refers, FlowRow
<1> QED BY <1>1, Invariant, PTL

\* Nobody has a to-do of a completed execution (checkAndMarkProcessFinished, with
\* every interleaving of routings, completions, failures and restarts).
THEOREM CompletedNobodyLeft == Spec => []CompletedHasNoToDo
<1>1. IInv => CompletedHasNoToDo
  BY DEF IInv, RowInv, Closing
<1> QED BY <1>1, Invariant, PTL

\* The flow behind a forEach is routed only after every item's to-do is done,
\* although the siblings are counted before the transaction.
THEOREM BarriersWait == Spec => []BarrierWaits
<1>1. IInv => BarrierWaits
  BY DEF IInv, RowInv, RowBarriers, BarrierWaits
<1> QED BY <1>1, Invariant, PTL

\* A to-do is created only while the execution runs: by Route, in the
\* transaction that checks isProcessExecutionOpen.
THEOREM ClosedIsQuiet == Spec => ClosedStaysQuiet
<1>1. ASSUME IInv, [Next]_vars, DOMAIN toDo' # DOMAIN toDo
      PROVE  Status = "Running"
  <2>1. ASSUME NEW w \in Workers, Route(w)
        PROVE  Status = "Running"
    BY <1>1, <2>1 DEF Route, Open, Status, IInv, RowInv, Closing, TableTypes, Columns
  <2>2. ASSUME NEW w \in Workers, FlowStep(w)
        PROVE  Status = "Running"
    BY <1>1, <2>1, <2>2 DEF FlowStep, ReadScheduledFlow, CountSiblings, SkipClaimed,
       SkipClosed, RecordFlowFailure, tables
  <2>3. ASSUME NEW w \in Workers, SystemStep(w)
        PROVE  DOMAIN toDo' = DOMAIN toDo
    BY <1>1, <2>3, FailSystemStepRows DEF SystemStep, Execute, TodoNotFound, SkipMissing,
       CompleteSystemStep, Continue, FailSystemStep, RecordSystemFailure, FailToDo, tables
  <2>4. ASSUME NEW w \in Workers,
               \/ \E j \in DOMAIN queue : Claim(w, j)
               \/ ReadMarker(w) \/ CommitConflict(w) \/ Acknowledge(w)
               \/ Fault(w) \/ RecordingFails(w) \/ Crash(w)
        PROVE  DOMAIN toDo' = DOMAIN toDo
    BY <2>4 DEF Claim, ReadMarker, CommitConflict, Acknowledge, Fault,
       RecordingFails, Crash, tables
  <2>5. ASSUME NEW t \in DOMAIN toDo, CompleteToDo(t)
        PROVE  DOMAIN toDo' = DOMAIN toDo
    BY <2>5 DEF CompleteToDo, Continue
  <2>6. ASSUME NEW a \in Admins,
               AbandonRequest(a) \/ Abandon(a) \/ RestartRequest(a) \/ Restart(a)
        PROVE  DOMAIN toDo' = DOMAIN toDo
    BY <2>6 DEF AbandonRequest, Abandon, RestartRequest, Restart, tables
  <2>7. CASE UNCHANGED vars
    BY <1>1, <2>7 DEF vars
  <2> QED BY <1>1, <2>2, <2>3, <2>4, <2>5, <2>6, <2>7 DEF Next, HandlerStep
<1>2. IInv /\ [Next]_vars => [DOMAIN toDo' # DOMAIN toDo => Status = "Running"]_vars
  BY <1>1
<1> QED BY <1>2, Invariant, PTL DEF ClosedStaysQuiet, Spec

-----------------------------------------------------------------------------
\* A to-do is completed at most once, under one administrator.

\* No to-do gets a job it has not had.
NoNewJobs == \A t \in DOMAIN toDo : \A j : IsJobOf(j, t)' => IsJobOf(j, t)

\* Deliveries go on or end, and rows added to the queue are flow jobs.
LEMMA SameJobs ==
  ASSUME \A w \in Workers : worker'[w].phase # "idle" =>
            /\ worker[w].phase # "idle"
            /\ worker'[w].job = worker[w].job
            /\ worker'[w].payload = worker[w].payload,
         \A j \in DOMAIN queue' :
            \/ /\ j \in DOMAIN queue
               /\ queue'[j].queue = queue[j].queue /\ queue'[j].ref = queue[j].ref
            \/ queue'[j].queue = "flow-execution"
  PROVE  NoNewJobs
  BY DEF NoNewJobs, IsJobOf

\* Jobs that are marked stay marked.
LEMMA StayMarked ==
  ASSUME NoNewJobs, completedJob \subseteq completedJob', NEW t \in DOMAIN toDo,
         AllMarked(t)
  PROVE  AllMarked(t)'
  BY DEF NoNewJobs, AllMarked

\* The only job of a to-do that is not marked, marked.
LEMMA LastMarked ==
  ASSUME Completing, NoNewJobs, NEW t \in DOMAIN toDo, NEW j, IsJobOf(j, t),
         j \notin completedJob, completedJob' = completedJob \cup {j}
  PROVE  AllMarked(t)' /\ ~AllMarked(t)
  BY DEF Completing, NoNewJobs, AllMarked

\* Steps that complete nothing and start no job.
LEMMA CompletingKept ==
  ASSUME Completing, NoNewJobs, completedJob \subseteq completedJob',
         DOMAIN toDo' = DOMAIN toDo, UNCHANGED completions,
         \A t \in DOMAIN toDo :
            /\ toDo[t].deleted => toDo'[t].deleted
            /\ ~toDo'[t].deleted /\ toDo'[t].failed =>
                  toDo[t].failed \/ AllMarked(t)',
         \A a \in Admins : \A t \in admin'[a].todos :
            /\ t \in DOMAIN toDo
            /\ t \in admin[a].todos \/ (completions[t] = 0 /\ AllMarked(t))
  PROVE  Completing'
<1>1. \A t \in DOMAIN toDo : AllMarked(t) => AllMarked(t)'
  BY StayMarked
<1>2. \A t \in DOMAIN toDo' :
        /\ completions'[t] <= 1
        /\ ~toDo'[t].deleted => completions'[t] = 0
        /\ completions'[t] > 0 => AllMarked(t)'
        /\ ~toDo'[t].deleted /\ toDo'[t].failed => AllMarked(t)'
  BY <1>1 DEF Completing
<1>3. \A t \in DOMAIN toDo' : \A j, k :
        /\ IsJobOf(j, t)' /\ j \notin completedJob'
        /\ IsJobOf(k, t)' /\ k \notin completedJob'
        => j = k
  BY DEF Completing, NoNewJobs
<1>4. \A a \in Admins : \A t \in admin'[a].todos :
        completions'[t] = 0 /\ AllMarked(t)'
  BY <1>1 DEF Completing
<1> QED BY <1>2, <1>3, <1>4 DEF Completing

\* The to-dos an administrator restarts are rows.
LEMMA RestartedAreRows ==
  ASSUME IInv, NEW a \in Admins, NEW t \in admin[a].todos
  PROVE  t \in DOMAIN toDo /\ toDo[t].step \in System
  BY DEF IInv, Others, AdminNames, Refers

\* Steps of a worker that leave the to-dos and the jobs alone.
LEMMA WorkerKeepsCompleting ==
  ASSUME IInv, Completing,
         \A w \in Workers : worker'[w].phase # "idle" =>
            /\ worker[w].phase # "idle"
            /\ worker'[w].job = worker[w].job
            /\ worker'[w].payload = worker[w].payload,
         \A j \in DOMAIN queue' : j \in DOMAIN queue /\ queue'[j] = queue[j],
         completedJob \subseteq completedJob',
         UNCHANGED <<toDo, completions, admin>>
  PROVE  Completing'
<1>1. NoNewJobs
  BY SameJobs
<1> QED BY <1>1, CompletingKept, RestartedAreRows

\* What a worker's move leaves alone.
LEMMA MovesDeliver ==
  ASSUME NEW w \in Workers, worker[w].phase # "idle", NEW p, Moves(w, p)
  PROVE  \A v \in Workers : worker'[v].phase # "idle" =>
            /\ worker[v].phase # "idle"
            /\ worker'[v].job = worker[v].job
            /\ worker'[v].payload = worker[v].payload
  BY DEF Moves

\* A claim copies a job of the queue.
LEMMA ClaimCompleting ==
  ASSUME IInv, Completing, NEW w \in Workers, NEW j \in DOMAIN queue, Claim(w, j)
  PROVE  Completing'
<1> DEFINE payload == [queue |-> queue[j].queue, ref |-> queue[j].ref,
                       onError |-> queue[j].onError]
           new == [Idle EXCEPT !.phase = "marker", !.job = j,
                               !.receipt = queue[j].attempts + 1,
                               !.payload = payload]
<1>1. /\ queue' = [queue EXCEPT ![j].attempts = @ + 1]
      /\ worker' = [worker EXCEPT ![w] = new]
      /\ UNCHANGED <<toDo, completions, admin, completedJob>>
  BY DEF Claim, history
<1>2. new.job = j /\ new.payload.queue = queue[j].queue /\ new.payload.ref = queue[j].ref
  <2>1. new \in [phase : {"marker"}, job : {j}, receipt : {queue[j].attempts + 1},
                 payload : {payload}, completed : {FALSE}, flow : {Null}]
    BY ClaimRecord
  <2>2. payload.queue = queue[j].queue /\ payload.ref = queue[j].ref
    OBVIOUS
  <2> HIDE DEF payload, new
  <2>3. new.job = j /\ new.payload = payload
    BY <2>1
  <2> QED BY <2>2, <2>3
<1> HIDE DEF new
<1>3. PICK jobs : worker \in [Workers -> Delivery(jobs)]
  BY DEF IInv, Others, WorkerTypes
<1>4. worker'[w] = new /\ \A v \in Workers : v # w => worker'[v] = worker[v]
  BY <1>1, <1>3
<1>5. \A i \in DOMAIN queue' :
        /\ i \in DOMAIN queue
        /\ queue'[i].queue = queue[i].queue /\ queue'[i].ref = queue[i].ref
  BY <1>1 DEF IInv, RowInv, TableTypes, JobRow
<1>6. NoNewJobs
  <2> SUFFICES ASSUME NEW t \in DOMAIN toDo, NEW i, IsJobOf(i, t)'
               PROVE  IsJobOf(i, t)
    BY DEF NoNewJobs
  <2>1. CASE /\ i \in DOMAIN queue'
             /\ queue'[i].queue = "system-step-execution" /\ queue'[i].ref = t
    BY <1>5, <2>1 DEF IsJobOf
  <2>2. ASSUME NEW v \in Workers,
               worker'[v].phase # "idle", worker'[v].job = i,
               worker'[v].payload.queue = "system-step-execution",
               worker'[v].payload.ref = t
        PROVE  IsJobOf(i, t)
    <3>1. CASE v = w
      BY <1>2, <1>4, <2>2, <3>1 DEF IsJobOf
    <3>2. CASE v # w
      BY <1>4, <2>2, <3>2 DEF IsJobOf
    <3> QED BY <3>1, <3>2
  <2> QED BY <2>1, <2>2 DEF IsJobOf
<1> QED BY <1>1, <1>6, CompletingKept, RestartedAreRows

\* The other steps that leave the to-dos and the jobs alone.
LEMMA QuietCompleting ==
  ASSUME IInv, Completing, NEW w \in Workers,
         \/ ReadMarker(w) \/ ReadScheduledFlow(w) \/ CountSiblings(w)
         \/ \E outcome \in {"output", "retryable", "terminal"} : Execute(w, outcome)
         \/ TodoNotFound(w)
         \/ CommitConflict(w) \/ SkipClaimed(w) \/ SkipMissing(w) \/ SkipClosed(w)
         \/ RecordFlowFailure(w)
         \/ Fault(w) \/ RecordingFails(w) \/ Crash(w) \/ Acknowledge(w)
  PROVE  Completing'
<1> DEFINE Delivers == \A v \in Workers : worker'[v].phase # "idle" =>
              /\ worker[v].phase # "idle"
              /\ worker'[v].job = worker[v].job
              /\ worker'[v].payload = worker[v].payload
<1>1. PICK jobs : worker \in [Workers -> Delivery(jobs)]
  BY DEF IInv, Others, WorkerTypes
<1>2. WorkerTypes
  BY DEF IInv, Others
<1>3. ASSUME worker[w].phase # "idle",
             \/ \E p \in Phases : GoTo(w, p)
             \/ HandlerError(w)
             \/ worker' = [worker EXCEPT ![w] = Idle]
      PROVE  Delivers
  <2>1. \E p : Moves(w, p)
    BY <1>2, <1>3, GoToMoves, ErrorMoves, IdleMoves
  <2> QED BY <1>3, <2>1, MovesDeliver
<1>4. ASSUME worker[w].phase # "idle",
             \E c, p : worker' = [worker EXCEPT ![w].completed = c, ![w].phase = p]
      PROVE  Delivers
  BY <1>1, <1>4 DEF Delivery
<1>5. ASSUME worker[w].phase # "idle",
             \E f, p : worker' = [worker EXCEPT ![w].flow = f, ![w].phase = p]
      PROVE  Delivers
  BY <1>1, <1>5 DEF Delivery
<1> DEFINE Alone ==
             /\ Delivers
             /\ \A j \in DOMAIN queue' : j \in DOMAIN queue /\ queue'[j] = queue[j]
             /\ completedJob \subseteq completedJob'
             /\ UNCHANGED <<toDo, completions, admin>>
<1>6. ASSUME Alone PROVE Completing'
  BY <1>6, WorkerKeepsCompleting
<1> HIDE DEF Delivers
<1>7. CASE ReadMarker(w)
  BY <1>4, <1>6, <1>7 DEF ReadMarker, tables, history
<1>8. CASE ReadScheduledFlow(w)
  <2>1. Delivers
    BY <1>3, <1>5, <1>8 DEF ReadScheduledFlow, Phases
  <2> QED BY <1>6, <1>8, <2>1 DEF ReadScheduledFlow, tables, history
<1>9. CASE CountSiblings(w)
  <2>1. Delivers
    BY <1>3, <1>9 DEF CountSiblings, Phases
  <2> QED BY <1>6, <1>9, <2>1 DEF CountSiblings, tables, history
<1>10. ASSUME NEW outcome, Execute(w, outcome)
       PROVE  Completing'
  <2>1. Delivers
    BY <1>3, <1>10 DEF Execute, Phases
  <2> QED BY <1>6, <1>10, <2>1 DEF Execute, tables, history
<1>11. CASE TodoNotFound(w) \/ CommitConflict(w) \/ Fault(w)
  <2>1. Delivers
    BY <1>3, <1>11 DEF TodoNotFound, CommitConflict, Fault, Phases
  <2> QED BY <1>6, <1>11, <2>1 DEF TodoNotFound, CommitConflict, Fault, tables, history
<1>12. CASE SkipClaimed(w) \/ SkipMissing(w) \/ SkipClosed(w)
  <2>1. Delivers
    BY <1>3, <1>12 DEF SkipClaimed, SkipMissing, SkipClosed, Phases
  <2> QED BY <1>6, <1>12, <2>1 DEF SkipClaimed, SkipMissing, SkipClosed, history
<1>13. CASE RecordFlowFailure(w)
  <2>1. Delivers
    BY <1>3, <1>13 DEF RecordFlowFailure, Phases
  <2> QED BY <1>6, <1>13, <2>1 DEF RecordFlowFailure, history
<1>14. CASE RecordingFails(w) \/ Crash(w)
  <2>1. Delivers
    BY <1>3, <1>14 DEF RecordingFails, Crash, Phases
  <2> QED BY <1>6, <1>14, <2>1 DEF RecordingFails, Crash, tables
<1>15. CASE Acknowledge(w)
  <2>1. Delivers
    BY <1>3, <1>15 DEF Acknowledge
  <2>2. queue' = queue \/ \E j : queue' = Delete(queue, {j})
    BY <1>15 DEF Acknowledge
  <2>3. \A j \in DOMAIN queue' : j \in DOMAIN queue /\ queue'[j] = queue[j]
    <3>1. ASSUME NEW j, queue' = Delete(queue, {j})
          PROVE  \A i \in DOMAIN queue' : i \in DOMAIN queue /\ queue'[i] = queue[i]
      <4>1. /\ DOMAIN queue' = DOMAIN queue \ {j}
            /\ \A i \in DOMAIN queue \ {j} : queue'[i] = queue[i]
        BY <3>1, Deleted
      <4> QED BY <4>1
    <3> QED BY <2>2, <3>1
  <2> QED BY <1>6, <1>15, <2>1, <2>3 DEF Acknowledge, history
<1> QED BY <1>7, <1>8, <1>9, <1>10, <1>11, <1>12, <1>13, <1>14, <1>15

\* Routing gives new to-dos one job each, and the others none.
LEMMA RouteCompleting ==
  ASSUME IInv, Completing, NEW w \in Workers, Route(w)
  PROVE  Completing'
<1>1. PICK new, flows : RoutesTo(Payload(w).ref, new, flows)
  BY RouteIs
<1>2. /\ worker[w].phase = "commit" /\ GoTo(w, "acknowledge")
      /\ completedJob \subseteq completedJob'
      /\ UNCHANGED admin
  BY DEF Route
<1>3. \A v \in Workers : worker'[v].phase # "idle" =>
            /\ worker[v].phase # "idle"
            /\ worker'[v].job = worker[v].job
            /\ worker'[v].payload = worker[v].payload
  <2>1. Moves(w, "acknowledge")
    BY <1>2, GoToMoves DEF IInv, Others, Phases
  <2> QED BY <1>2, <2>1, MovesDeliver
<1>4. \A t \in new : t \notin DOMAIN toDo
  BY <1>1, NewIdsDiffer DEF RoutesTo, IInv
<1>5. /\ DOMAIN toDo' = DOMAIN toDo \cup new
      /\ DOMAIN toDo = DOMAIN completions
      /\ \A t \in DOMAIN toDo : toDo'[t] = toDo[t] /\ completions'[t] = completions[t]
      /\ \A t \in new : completions'[t] = 0 /\ ~toDo'[t].deleted /\ ~toDo'[t].failed
  BY <1>1, <1>4 DEF RoutesTo, IInv, RowInv, RowNames
<1>6. \A j \in DOMAIN queue' :
          \/ j \in DOMAIN queue /\ queue'[j] = queue[j]
          \/ queue'[j].queue = "flow-execution"
          \/ queue'[j].ref = j /\ j \in new
  BY <1>1 DEF RoutesTo
<1>7. \A j, t : IsJobOf(j, t)' => IsJobOf(j, t) \/ (t = j /\ t \in new)
  BY <1>3, <1>6 DEF IsJobOf
<1>8. \A j : \A t \in new : ~IsJobOf(j, t)
  BY <1>4 DEF IInv, RowInv, Others, JobNames, DeliveryNames, Refers, IsJobOf
<1>9. NoNewJobs
  BY <1>4, <1>7 DEF NoNewJobs
<1>10. \A t \in DOMAIN toDo : AllMarked(t) => AllMarked(t)'
  BY <1>2, <1>9, StayMarked
<1>11. \A t \in DOMAIN toDo' :
        /\ completions'[t] <= 1
        /\ ~toDo'[t].deleted => completions'[t] = 0
        /\ completions'[t] > 0 => AllMarked(t)'
        /\ ~toDo'[t].deleted /\ toDo'[t].failed => AllMarked(t)'
  BY <1>5, <1>10 DEF Completing
<1>12. \A t \in DOMAIN toDo' : \A j, k :
        /\ IsJobOf(j, t)' /\ j \notin completedJob'
        /\ IsJobOf(k, t)' /\ k \notin completedJob'
        => j = k
  <2> SUFFICES ASSUME NEW t \in DOMAIN toDo', NEW j, NEW k,
                      IsJobOf(j, t)', j \notin completedJob',
                      IsJobOf(k, t)', k \notin completedJob'
               PROVE  j = k
    OBVIOUS
  <2>1. CASE t \in new
    BY <1>7, <1>8, <2>1
  <2>2. CASE t \in DOMAIN toDo
    BY <1>2, <1>9, <2>2 DEF NoNewJobs, Completing
  <2> QED BY <1>5, <2>1, <2>2
<1>13. \A a \in Admins : \A t \in admin'[a].todos :
        completions'[t] = 0 /\ AllMarked(t)'
  BY <1>2, <1>5, <1>10, RestartedAreRows DEF Completing
<1> QED BY <1>11, <1>12, <1>13 DEF Completing

\* Completing a to-do whose jobs are all marked by now.
LEMMA CompletionCompletes ==
  ASSUME IInv, Completing, NEW t \in DOMAIN toDo, NEW fresh \in Ids,
         Continue(t, fresh), completions[t] = 0, AllMarked(t)',
         \A a \in Admins : t \notin admin[a].todos,
         \A w \in Workers : worker'[w].phase # "idle" =>
            /\ worker[w].phase # "idle"
            /\ worker'[w].job = worker[w].job
            /\ worker'[w].payload = worker[w].payload,
         completedJob \subseteq completedJob', UNCHANGED admin
  PROVE  Completing'
<1>1. PICK s : Continues(t, s)
  BY ContinueRows DEF IInv, RowInv
<1>2. \A j \in DOMAIN queue' :
            \/ /\ j \in DOMAIN queue
               /\ queue'[j].queue = queue[j].queue /\ queue'[j].ref = queue[j].ref
            \/ queue'[j].queue = "flow-execution"
  BY <1>1 DEF Continues, AddsFlowJob
<1>3. NoNewJobs
  BY <1>2, SameJobs
<1>4. \A u \in DOMAIN toDo : AllMarked(u) => AllMarked(u)'
  BY <1>3, StayMarked
<1>5. /\ DOMAIN toDo' = DOMAIN toDo /\ DOMAIN toDo = DOMAIN completions
      /\ toDo'[t].deleted /\ completions'[t] = 1
      /\ \A u \in DOMAIN toDo : u # t =>
            toDo'[u] = toDo[u] /\ completions'[u] = completions[u]
  BY <1>1 DEF Continues, IInv, RowInv, RowNames
<1>6. \A u \in DOMAIN toDo' :
        /\ completions'[u] <= 1
        /\ ~toDo'[u].deleted => completions'[u] = 0
        /\ completions'[u] > 0 => AllMarked(u)'
        /\ ~toDo'[u].deleted /\ toDo'[u].failed => AllMarked(u)'
  <2> SUFFICES ASSUME NEW u \in DOMAIN toDo
               PROVE  /\ completions'[u] <= 1
                      /\ ~toDo'[u].deleted => completions'[u] = 0
                      /\ completions'[u] > 0 => AllMarked(u)'
                      /\ ~toDo'[u].deleted /\ toDo'[u].failed => AllMarked(u)'
    BY <1>5
  <2>1. CASE u = t
    BY <1>5, <2>1
  <2>2. CASE u # t
    BY <1>4, <1>5, <2>2 DEF Completing
  <2> QED BY <2>1, <2>2
<1>7. \A u \in DOMAIN toDo' : \A j, k :
        /\ IsJobOf(j, u)' /\ j \notin completedJob'
        /\ IsJobOf(k, u)' /\ k \notin completedJob'
        => j = k
  BY <1>3, <1>5 DEF Completing, NoNewJobs
<1>8. \A a \in Admins : \A u \in admin'[a].todos :
        completions'[u] = 0 /\ AllMarked(u)'
  <2> SUFFICES ASSUME NEW a \in Admins, NEW u \in admin[a].todos
               PROVE  completions'[u] = 0 /\ AllMarked(u)'
    OBVIOUS
  <2>1. u \in DOMAIN toDo /\ u # t
    BY RestartedAreRows
  <2> QED BY <1>4, <1>5, <2>1 DEF Completing
<1> QED BY <1>6, <1>7, <1>8 DEF Completing

\* The job of a worker that is about to complete or fail a to-do.
LEMMA UnmarkedJob ==
  ASSUME IInv, NEW w \in Workers, worker[w].phase \in SystemPhases, MayMark(w)
  PROVE  /\ Payload(w).ref \in DOMAIN toDo
         /\ IsJobOf(worker[w].job, Payload(w).ref)
         /\ worker[w].job \notin completedJob
<1>1. /\ worker[w].phase # "idle"
      /\ Payload(w).ref \in DOMAIN toDo
      /\ Payload(w).queue = "system-step-execution" /\ ~worker[w].completed
  BY Known DEF SystemPhases
<1> QED BY <1>1 DEF IsJobOf, Payload, MayMark

\* A system step is completed by the only job of its to-do that is not marked.
LEMMA CompleteSystemStepCompleting ==
  ASSUME IInv, Completing, NEW w \in Workers, CompleteSystemStep(w)
  PROVE  Completing'
<1>0. PICK t, j : t = Payload(w).ref /\ j = worker[w].job
  OBVIOUS
<1>1. /\ worker[w].phase \in SystemPhases /\ MayMark(w)
      /\ GoTo(w, "acknowledge")
      /\ Continue(t, Id(Null, 0))
      /\ completedJob' = completedJob \cup {j}
      /\ UNCHANGED admin
  BY <1>0 DEF CompleteSystemStep, SystemPhases
<1>2. t \in DOMAIN toDo /\ IsJobOf(j, t) /\ j \notin completedJob
  BY <1>0, <1>1, UnmarkedJob
<1>3. \A v \in Workers : worker'[v].phase # "idle" =>
            /\ worker[v].phase # "idle"
            /\ worker'[v].job = worker[v].job
            /\ worker'[v].payload = worker[v].payload
  <2>1. Moves(w, "acknowledge") /\ worker[w].phase # "idle"
    BY <1>1, GoToMoves DEF IInv, Others, Phases, SystemPhases
  <2> QED BY <2>1, MovesDeliver
<1>4. Id(Null, 0) \in Ids
  BY IdsAreNew DEF IInv, RowInv, TableTypes, NewId
<1>5. NoNewJobs
  <2>1. PICK s : Continues(t, s)
    BY <1>1, <1>2, <1>4, ContinueRows DEF IInv, RowInv
  <2>2. \A i \in DOMAIN queue' :
            \/ i \in DOMAIN queue /\ queue'[i] = queue[i]
            \/ queue'[i].queue = "flow-execution"
    BY <2>1 DEF Continues, AddsFlowJob
  <2> QED BY <1>3, <2>2, SameJobs
<1>6. AllMarked(t)' /\ ~AllMarked(t)
  BY <1>1, <1>2, <1>5, LastMarked
<1>7. completions[t] = 0
  <2>1. completions[t] \in Nat
    BY <1>2 DEF IInv, RowInv, TableTypes, RowNames
  <2> QED BY <1>2, <1>6, <2>1 DEF Completing
<1>8. \A a \in Admins : t \notin admin[a].todos
  BY <1>6 DEF Completing
<1> QED BY <1>1, <1>2, <1>3, <1>4, <1>6, <1>7, <1>8, CompletionCompletes

\* A person completes an open to-do, which no job runs.
LEMMA CompleteToDoCompleting ==
  ASSUME IInv, Completing, NEW t \in DOMAIN toDo, CompleteToDo(t)
  PROVE  Completing'
<1>1. /\ ~toDo[t].deleted /\ toDo[t].step \notin System
      /\ Continue(t, t)
      /\ UNCHANGED <<worker, admin, completedJob>>
  BY DEF CompleteToDo, ActiveTodos
<1>2. \A j : ~IsJobOf(j, t)
  BY <1>1 DEF IInv, RowInv, Others, JobNames, DeliveryNames, Refers, IsJobOf
<1>3. t \in Ids
  BY DEF IInv, RowInv, TableTypes
<1>4. NoNewJobs
  <2>1. PICK s : Continues(t, s)
    BY <1>1, <1>3, ContinueRows DEF IInv, RowInv
  <2>2. \A i \in DOMAIN queue' :
            \/ i \in DOMAIN queue /\ queue'[i] = queue[i]
            \/ queue'[i].queue = "flow-execution"
    BY <2>1 DEF Continues, AddsFlowJob
  <2> QED BY <1>1, <2>2, SameJobs
<1>5. AllMarked(t)'
  BY <1>2, <1>4 DEF AllMarked, NoNewJobs
<1>6. completions[t] = 0
  BY <1>1 DEF Completing
<1>7. \A a \in Admins : t \notin admin[a].todos
  BY <1>1, RestartedAreRows
<1> QED BY <1>1, <1>3, <1>5, <1>6, <1>7, CompletionCompletes

\* A failure is recorded by the only job of the to-do that is not marked.
LEMMA FailureCompleting ==
  ASSUME IInv, Completing, NEW w \in Workers, worker[w].phase # "idle",
         GoTo(w, "acknowledge"), NEW t \in DOMAIN toDo, NEW s,
         IsJobOf(worker[w].job, t), worker[w].job \notin completedJob,
         completedJob' = completedJob \cup {worker[w].job},
         FailsAndRoutes(t, s), UNCHANGED admin
  PROVE  Completing'
<1>1. \A v \in Workers : worker'[v].phase # "idle" =>
            /\ worker[v].phase # "idle"
            /\ worker'[v].job = worker[v].job
            /\ worker'[v].payload = worker[v].payload
  <2>1. Moves(w, "acknowledge")
    BY GoToMoves DEF IInv, Others, Phases
  <2> QED BY <2>1, MovesDeliver
<1>2. \A i \in DOMAIN queue' :
            \/ i \in DOMAIN queue /\ queue'[i] = queue[i]
            \/ queue'[i].queue = "flow-execution"
  BY DEF FailsAndRoutes, AddsFlowJob
<1>3. NoNewJobs
  BY <1>1, <1>2, SameJobs
<1>4. AllMarked(t)'
  <2> DEFINE j == worker[w].job
  <2>1. IsJobOf(j, t) /\ j \notin completedJob /\ completedJob' = completedJob \cup {j}
    OBVIOUS
  <2> HIDE DEF j
  <2> QED BY <1>3, <2>1, LastMarked
<1>5. /\ DOMAIN toDo' = DOMAIN toDo /\ UNCHANGED completions
      /\ toDo'[t].deleted = toDo[t].deleted
      /\ \A u \in DOMAIN toDo : u # t => toDo'[u] = toDo[u]
  BY DEF FailsAndRoutes, Fails
<1>6. \A u \in DOMAIN toDo :
            /\ toDo[u].deleted => toDo'[u].deleted
            /\ ~toDo'[u].deleted /\ toDo'[u].failed =>
                  toDo[u].failed \/ AllMarked(u)'
  <2> SUFFICES ASSUME NEW u \in DOMAIN toDo
               PROVE  /\ toDo[u].deleted => toDo'[u].deleted
                      /\ ~toDo'[u].deleted /\ toDo'[u].failed =>
                            toDo[u].failed \/ AllMarked(u)'
    OBVIOUS
  <2>1. CASE u = t
    BY <1>4, <1>5, <2>1
  <2>2. CASE u # t
    BY <1>5, <2>2
  <2> QED BY <2>1, <2>2
<1> QED BY <1>3, <1>5, <1>6, CompletingKept, RestartedAreRows

\* A system step fails.
LEMMA FailSystemStepCompleting ==
  ASSUME IInv, Completing, NEW w \in Workers, FailSystemStep(w)
  PROVE  Completing'
<1>1. PICK t, s : t = Payload(w).ref /\ s = Id(Null, 0)
  OBVIOUS
<1>2. /\ worker[w].phase \in SystemPhases /\ worker[w].phase # "idle" /\ MayMark(w)
      /\ GoTo(w, "acknowledge")
      /\ completedJob' = completedJob \cup {worker[w].job}
      /\ UNCHANGED admin
  BY DEF FailSystemStep, SystemPhases
<1>3. t \in DOMAIN toDo /\ FailsAndRoutes(t, s)
  BY <1>1, FailSystemStepRows
<1>4. IsJobOf(worker[w].job, t) /\ worker[w].job \notin completedJob
  BY <1>1, <1>2, UnmarkedJob
<1> QED BY <1>2, <1>3, <1>4, FailureCompleting

\* A system job's failure is recorded, or was before.
LEMMA RecordSystemFailureCompleting ==
  ASSUME IInv, Completing, NEW w \in Workers, RecordSystemFailure(w)
  PROVE  Completing'
<1>1. /\ worker[w].phase # "idle" /\ ~IsFlowJob(w)
      /\ GoTo(w, "acknowledge")
      /\ UNCHANGED <<queue, completions, admin>>
  BY DEF RecordSystemFailure, history
<1>2. CASE worker[w].job \in completedJob
  <2>1. UNCHANGED <<toDo, completedJob>>
    BY <1>2 DEF RecordSystemFailure
  <2>2. Moves(w, "acknowledge")
    BY <1>1, GoToMoves DEF IInv, Others, Phases
  <2>3. \A v \in Workers : worker'[v].phase # "idle" =>
            /\ worker[v].phase # "idle"
            /\ worker'[v].job = worker[v].job
            /\ worker'[v].payload = worker[v].payload
    BY <1>1, <2>2, MovesDeliver
  <2> QED BY <1>1, <2>1, <2>3, WorkerKeepsCompleting
<1>3. CASE worker[w].job \notin completedJob
  <2>1. PICK t : t = Payload(w).ref
    OBVIOUS
  <2>2. t \in DOMAIN toDo /\ FailsAndRoutes(t, Null)
    BY <1>3, <2>1, RecordSystemFailureRows
  <2>3. IsJobOf(worker[w].job, t)
    BY <1>1, <2>1, Known DEF IsJobOf, Payload, IsFlowJob, PayloadRow, Queues
  <2>4. completedJob' = completedJob \cup {worker[w].job}
    BY <1>3 DEF RecordSystemFailure
  <2> QED BY <1>1, <1>3, <2>2, <2>3, <2>4, FailureCompleting
<1> QED BY <1>2, <1>3

\* An abandonment, or a request that is made.
LEMMA RequestCompleting ==
  ASSUME IInv, Completing, NEW a \in Admins,
         AbandonRequest(a) \/ Abandon(a) \/ RestartRequest(a)
  PROVE  Completing'
<1>1. admin \in [Admins -> AdminRow]
  BY DEF IInv, Others, AdminTypes
<1>2. UNCHANGED <<queue, worker, completedJob, completions>>
  BY DEF AbandonRequest, Abandon, RestartRequest, tables, history
<1>3. NoNewJobs
  BY <1>2 DEF NoNewJobs, IsJobOf
<1>4. CASE AbandonRequest(a)
  <2>1. /\ \A b \in Admins : admin'[b].todos = admin[b].todos
        /\ toDo' = toDo
    BY <1>1, <1>4 DEF AbandonRequest, AdminRow, tables
  <2> QED BY <1>2, <1>3, <2>1, CompletingKept, RestartedAreRows
<1>5. CASE Abandon(a)
  <2>1. \A b \in Admins : \A t \in admin'[b].todos : t \in admin[b].todos
    BY <1>1, <1>5 DEF Abandon
  <2>2. Abandons
    BY <1>5, AbandonRows DEF IInv, RowInv
  <2>3. /\ DOMAIN toDo' = DOMAIN toDo
        /\ \A t \in DOMAIN toDo : toDo'[t].deleted
    BY <2>2 DEF Abandons
  <2> QED BY <1>2, <1>3, <2>1, <2>3, CompletingKept, RestartedAreRows
<1>6. CASE RestartRequest(a)
  <2>1. toDo' = toDo
    BY <1>6 DEF RestartRequest, tables
  <2>2. \A b \in Admins : \A t \in admin'[b].todos :
            \/ t \in admin[b].todos
            \/ t \in ActiveTodos /\ toDo[t].failed
    BY <1>1, <1>6 DEF RestartRequest
  <2>3. \A t \in ActiveTodos : toDo[t].failed => completions[t] = 0 /\ AllMarked(t)
    BY DEF Completing, ActiveTodos
  <2>4. \A b \in Admins : \A t \in admin'[b].todos :
            /\ t \in DOMAIN toDo
            /\ t \in admin[b].todos \/ (completions[t] = 0 /\ AllMarked(t))
    BY <2>2, <2>3, RestartedAreRows DEF ActiveTodos
  <2> QED BY <1>2, <1>3, <2>1, <2>4, CompletingKept
<1> QED BY <1>4, <1>5, <1>6

\* A restart gives each of its to-dos one job, after all others were marked; no
\* other administrator has read the same to-dos.
LEMMA RestartCompleting ==
  ASSUME OneAdmin, IInv, Completing, NEW a \in Admins, Restart(a)
  PROVE  Completing'
<1>1. PICK todos : todos = admin[a].todos
  OBVIOUS
<1>2. todos \in SUBSET Ids
  BY <1>1 DEF IInv, Others, AdminTypes, AdminRow
<1>3. Restarts(todos)
  BY <1>1, <1>2, RestartRows DEF IInv, RowInv
<1>4. /\ UNCHANGED <<worker, completedJob, completions>>
      /\ \A b \in Admins : admin'[b].todos = {}
  BY DEF Restart, history, OneAdmin, IInv, Others, AdminTypes
<1>5. \A t \in todos : t \in DOMAIN toDo /\ completions[t] = 0 /\ AllMarked(t)
  BY <1>1, RestartedAreRows DEF Completing
<1>6. \A j, t : IsJobOf(j, t)' =>
         \/ IsJobOf(j, t)
         \/ /\ j \in DOMAIN queue' /\ queue'[j].ref = t /\ t \in todos
            /\ ~(j \in DOMAIN queue /\ queue'[j] = queue[j])
  BY <1>3, <1>4 DEF IsJobOf, Restarts
<1>7. \A t \in DOMAIN toDo : t \notin todos => (AllMarked(t) => AllMarked(t)')
  BY <1>4, <1>6 DEF AllMarked
<1>8. /\ DOMAIN toDo' = DOMAIN toDo
      /\ \A t \in DOMAIN toDo :
            /\ toDo'[t].deleted = toDo[t].deleted
            /\ toDo'[t].failed => toDo[t].failed /\ t \notin todos
  BY <1>3 DEF Restarts
<1>9. \A t \in DOMAIN toDo' :
        /\ completions'[t] <= 1
        /\ ~toDo'[t].deleted => completions'[t] = 0
        /\ completions'[t] > 0 => AllMarked(t)'
        /\ ~toDo'[t].deleted /\ toDo'[t].failed => AllMarked(t)'
  BY <1>4, <1>5, <1>7, <1>8 DEF Completing
<1>10. \A t \in DOMAIN toDo' : \A j, k :
        /\ IsJobOf(j, t)' /\ j \notin completedJob'
        /\ IsJobOf(k, t)' /\ k \notin completedJob'
        => j = k
  <2> SUFFICES ASSUME NEW t \in DOMAIN toDo, NEW j, NEW k,
                      IsJobOf(j, t)', j \notin completedJob,
                      IsJobOf(k, t)', k \notin completedJob
               PROVE  j = k
    BY <1>4, <1>8
  <2>1. CASE t \in todos
    <3>1. ~IsJobOf(j, t) /\ ~IsJobOf(k, t)
      BY <1>5, <2>1 DEF AllMarked
    <3>2. /\ j \in DOMAIN queue' /\ ~(j \in DOMAIN queue /\ queue'[j] = queue[j])
          /\ k \in DOMAIN queue' /\ ~(k \in DOMAIN queue /\ queue'[k] = queue[k])
          /\ queue'[j].ref = queue'[k].ref
      BY <1>6, <3>1
    <3> QED BY <1>3, <3>2 DEF Restarts
  <2>2. CASE t \notin todos
    <3>1. IsJobOf(j, t) /\ IsJobOf(k, t)
      BY <1>6, <2>2
    <3> QED BY <3>1 DEF Completing
  <2> QED BY <2>1, <2>2
<1> QED BY <1>4, <1>9, <1>10 DEF Completing

\* There is no to-do at first.
LEMMA InitCompleting == Init => Completing
<1> SUFFICES ASSUME Init PROVE Completing
  OBVIOUS
<1>1. DOMAIN toDo = {} /\ admin = [a \in Admins |-> [phase |-> "idle", todos |-> {}]]
  BY DEF Init
<1> QED BY <1>1 DEF Completing

\* Every step keeps Completing, under one administrator.
LEMMA NextCompleting ==
  ASSUME OneAdmin, IInv, Completing, [Next]_vars
  PROVE  Completing'
<1>1. ASSUME NEW w \in Workers, NEW j \in DOMAIN queue, Claim(w, j)
      PROVE  Completing'
  BY <1>1, ClaimCompleting
<1>2. ASSUME NEW w \in Workers, FlowStep(w)
      PROVE  Completing'
  BY <1>2, QuietCompleting, RouteCompleting DEF FlowStep
<1>3. ASSUME NEW w \in Workers, SystemStep(w)
      PROVE  Completing'
  BY <1>3, QuietCompleting, CompleteSystemStepCompleting, FailSystemStepCompleting,
     RecordSystemFailureCompleting DEF SystemStep
<1>4. ASSUME NEW w \in Workers, HandlerStep(w)
      PROVE  Completing'
  BY <1>2, <1>3, <1>4, QuietCompleting DEF HandlerStep
<1>5. ASSUME NEW w \in Workers, Fault(w) \/ RecordingFails(w) \/ Crash(w)
      PROVE  Completing'
  BY <1>5, QuietCompleting
<1>6. ASSUME NEW t \in DOMAIN toDo, CompleteToDo(t)
      PROVE  Completing'
  BY <1>6, CompleteToDoCompleting
<1>7. ASSUME NEW a \in Admins,
             AbandonRequest(a) \/ Abandon(a) \/ RestartRequest(a) \/ Restart(a)
      PROVE  Completing'
  BY <1>7, RequestCompleting, RestartCompleting
<1>8. CASE UNCHANGED vars
  <2>1. UNCHANGED <<toDo, queue, worker, completedJob, completions, admin>>
    BY <1>8 DEF vars
  <2> QED BY <2>1, WorkerKeepsCompleting
<1> QED BY <1>1, <1>4, <1>5, <1>6, <1>7, <1>8 DEF Next

\* With one administrator at a time, a scheduled flow is routed at most once and
\* a to-do completed at most once: completeSystemStep asks nothing of the to-do,
\* and it is the marker of its only live job that keeps a second delivery away.
THEOREM RoutedAtMostOnce == ASSUME OneAdmin PROVE Spec => []RoutedOnce
<1>1. Init => IInv /\ Completing
  BY InitIInv, InitCompleting
<1>2. IInv /\ Completing /\ [Next]_vars => (IInv /\ Completing)'
  BY NextIInv, NextCompleting
<1>3. IInv /\ Completing => RoutedOnce
  BY DEF IInv, RowInv, RowNames, Routing, Completing, RoutedOnce
<1> QED BY <1>1, <1>2, <1>3, PTL DEF Spec
=============================================================================
