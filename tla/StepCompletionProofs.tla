------------------------ MODULE StepCompletionProofs ------------------------
(***************************************************************************)
(* Proofs about StepCompletion for any number of requests, to-dos and      *)
(* users, any number of attempts, and any faults, lapses and crashes.      *)
(*                                                                         *)
(* The dispatch is proved in three layers, each on the one before:         *)
(* DispatchInv says that no row is lost and none sent out of order,        *)
(* CustodyInv that somebody still sees to every row that is left, and      *)
(* BudgetInv that what was sent, and what will surely be sent, is paid for *)
(* by the lapses and the errors so far.                                    *)
(***************************************************************************)
EXTENDS StepCompletion, SequenceTheorems, FiniteSetTheorems, TLAPS

-----------------------------------------------------------------------------
\* Helpers.

\* What the proofs use of the assumption about the constants.
LEMMA Constants ==
  /\ MaxAttempts \in Nat
  /\ None \notin Requests /\ None \notin Users /\ None \notin Todos
  /\ None \notin Nat
  /\ SystemStep \notin Requests
  BY CompletionAssumption

\* The two kinds of jobs and their order.
LEMMA KindsAre ==
  /\ Kinds = {"event", "flow"}
  /\ JobSequence["event"] = 0 /\ JobSequence["flow"] = 1
  BY DEF Kinds, JobSequence

\* The job sent next is one of the claimed ones, and none of them precedes it.
LEMMA NextJobIsLeast ==
  ASSUME NEW kinds \in SUBSET Kinds, kinds # {}
  PROVE  /\ NextJob(kinds) \in kinds
         /\ NextJob(kinds) \in Kinds
         /\ \A j \in kinds : JobSequence[NextJob(kinds)] <= JobSequence[j]
<1>1. \E k \in kinds : \A j \in kinds : JobSequence[k] <= JobSequence[j]
  <2>1. CASE "event" \in kinds
    <3>1. \A j \in kinds : JobSequence["event"] <= JobSequence[j]
      BY KindsAre
    <3> QED BY <2>1, <3>1
  <2>2. CASE "event" \notin kinds
    <3>1. "flow" \in kinds
      BY <2>2, KindsAre
    <3>2. \A j \in kinds : j = "flow"
      BY <2>2, KindsAre
    <3>3. \A j \in kinds : JobSequence["flow"] <= JobSequence[j]
      BY <3>2, KindsAre
    <3> QED BY <3>1, <3>3
  <2> QED BY <2>1, <2>2
<1> QED BY <1>1 DEF NextJob

\* An unfinished request after Go.
LEMMA GoType ==
  ASSUME request \in [Requests -> Request], NEW r \in Requests,
         NEW phase \in Phases, Go(r, phase)
  PROVE  /\ request' \in [Requests -> Request]
         /\ \A q \in Requests : q # r => request'[q] = request[q]
         /\ request'[r].phase = phase
         /\ request'[r].todo = request[r].todo
         /\ request'[r].user = request[r].user
         /\ request'[r].version = request[r].version
         /\ request'[r].base = request[r].base
         /\ request'[r].jobs = request[r].jobs
  BY DEF Go, Request

\* A request after its end.
LEMMA FinishType ==
  ASSUME request \in [Requests -> Request], NEW r \in Requests,
         NEW phase \in Phases, Finish(r, phase)
  PROVE  /\ request' \in [Requests -> Request]
         /\ \A q \in Requests : q # r => request'[q] = request[q]
         /\ request'[r].phase = phase
         /\ request'[r].todo = request[r].todo
         /\ request'[r].user = request[r].user
         /\ request'[r].version = None
         /\ request'[r].base = None
  BY DEF Finish, Request, Idle

\* A request after a retryable failure: it begins again or gives up.
LEMMA RetryType ==
  ASSUME request \in [Requests -> Request], NEW r \in Requests, Retry(r)
  PROVE  /\ request' \in [Requests -> Request]
         /\ \A q \in Requests : q # r => request'[q] = request[q]
         /\ request'[r].phase \in {"inspect", "conflicted"}
         /\ request'[r].todo = request[r].todo
         /\ request'[r].user = request[r].user
         /\ request'[r].version = None
         /\ request'[r].base = None
<1>1. CASE request[r].attempt < MaxAttempts
  BY <1>1, Constants DEF Retry, Request, Phases
<1>2. CASE ~(request[r].attempt < MaxAttempts)
  <2>1. Finish(r, "conflicted")
    BY <1>2 DEF Retry
  <2> QED BY <2>1, FinishType DEF Phases
<1> QED BY <1>1, <1>2

-----------------------------------------------------------------------------
\* Types.

\* How requests and rows are typed and go together, apart from TypeOK so that
\* the steps that change only one of them can be proved once.
Pairs ==
    \A r \in Requests :
        /\ request[r].phase = "idle" <=> request[r].todo = None
        /\ request[r].version = None <=> request[r].base = None
        /\ request[r].phase \in {"inspect", "replay", "read", "commit"}
           => request[r].user # None
        /\ request[r].phase \in {"renewed", "sent"} => request[r].jobs # {}

LeasedRows ==
    \A t \in Todos, k \in Kinds :
        /\ row[t][k].present => ~todo[t].open
        /\ row[t][k].receipt = None <=> row[t][k].lease = "none"
        /\ row[t][k].receipt # None =>
               row[t][k].present /\ request[row[t][k].receipt].todo = t

Patch == [by : Requests \cup {SystemStep}, base : Nat]

ToDo == [open : BOOLEAN, user : Users \cup {None}, winner : Requests \cup {None}]

LEMMA TypeParts ==
  TypeOK <=> /\ clock \in Nat /\ version \in Nat
             /\ writes \in Seq(Patch)
             /\ todo \in [Todos -> ToDo]
             /\ row \in [Todos -> [Kinds -> Row]]
             /\ published \in [Todos -> [Kinds -> Nat]]
             /\ request \in [Requests -> Request]
             /\ lapses \in Nat /\ faults \in Nat /\ crashes \in Nat
             /\ Pairs
             /\ LeasedRows
  BY DEF TypeOK, Pairs, LeasedRows, Patch, ToDo

LEMMA TypePartsNext ==
  TypeOK' <=> /\ clock' \in Nat /\ version' \in Nat
              /\ writes' \in Seq(Patch)
              /\ todo' \in [Todos -> ToDo]
              /\ row' \in [Todos -> [Kinds -> Row]]
              /\ published' \in [Todos -> [Kinds -> Nat]]
              /\ request' \in [Requests -> Request]
              /\ lapses' \in Nat /\ faults' \in Nat /\ crashes' \in Nat
              /\ Pairs'
              /\ LeasedRows'
  BY DEF TypeOK, Pairs, LeasedRows, Patch, ToDo

LEMMA InitType == Init => TypeOK
<1> SUFFICES ASSUME Init PROVE TypeOK
  OBVIOUS
<1>1. writes \in Seq(Patch)
  BY DEF Init
<1>2. request \in [Requests -> Request]
  BY Constants DEF Init, Idle, Request, Phases
<1>3. row \in [Todos -> [Kinds -> Row]]
  BY DEF Init, AbsentRow, Row
<1>4. published \in [Todos -> [Kinds -> Nat]]
  BY DEF Init
<1>5. todo \in [Todos -> ToDo]
  BY DEF Init, ToDo
<1>6. Pairs
  BY DEF Init, Idle, Pairs
<1>7. LeasedRows
  BY DEF Init, AbsentRow, LeasedRows
<1> QED BY <1>1, <1>2, <1>3, <1>4, <1>5, <1>6, <1>7, TypeParts DEF Init

\* A step of one request that leaves the tables alone and keeps its to-do.
LEMMA RequestStepType ==
  ASSUME TypeOK, NEW r \in Requests,
         request' \in [Requests -> Request],
         \A q \in Requests : q # r => request'[q] = request[q],
         request[r].todo # None => request'[r].todo = request[r].todo,
         request'[r].phase # "idle", request'[r].todo # None,
         request'[r].version = None <=> request'[r].base = None,
         request'[r].phase \in {"inspect", "replay", "read", "commit"}
            => request'[r].user # None,
         request'[r].phase \in {"renewed", "sent"} => request'[r].jobs # {}
  PROVE  /\ Pairs'
         /\ \A t \in Todos, k \in Kinds :
               row[t][k].receipt # None => request'[row[t][k].receipt].todo = t
<1>1. Pairs'
  BY TypeParts DEF Pairs
<1>2. ASSUME NEW t \in Todos, NEW k \in Kinds, row[t][k].receipt # None
      PROVE  request'[row[t][k].receipt].todo = t
  <2>1. row[t][k].receipt \in Requests
    BY <1>2, TypeParts DEF Row
  <2>2. request[row[t][k].receipt].todo = t
    BY <1>2, TypeParts DEF LeasedRows
  <2>3. t # None
    BY Constants
  <2> QED BY <2>1, <2>2, <2>3
<1> QED BY <1>1, <1>2

\* The same, when no table of completions and dispatches changes.
LEMMA RequestOnlyType ==
  ASSUME TypeOK, NEW r \in Requests,
         request' \in [Requests -> Request],
         \A q \in Requests : q # r => request'[q] = request[q],
         request[r].todo # None => request'[r].todo = request[r].todo,
         request'[r].phase # "idle", request'[r].todo # None,
         request'[r].version = None <=> request'[r].base = None,
         request'[r].phase \in {"inspect", "replay", "read", "commit"}
            => request'[r].user # None,
         request'[r].phase \in {"renewed", "sent"} => request'[r].jobs # {},
         UNCHANGED <<clock, version, writes, todo, row>>,
         published' \in [Todos -> [Kinds -> Nat]],
         lapses' \in Nat, faults' \in Nat, crashes' \in Nat
  PROVE  TypeOK'
<1>1. Pairs'
  BY RequestStepType
<1>2. \A t \in Todos, k \in Kinds :
         row[t][k].receipt # None => request'[row[t][k].receipt].todo = t
  BY RequestStepType
<1>3. LeasedRows'
  BY <1>2, TypeParts DEF LeasedRows
<1> QED BY <1>1, <1>3, TypeParts, TypePartsNext

\* A request that ends.
LEMMA FinishesType ==
  ASSUME TypeOK, NEW r \in Requests, NEW outcome \in Final, Finish(r, outcome),
         request[r].phase # "idle",
         UNCHANGED <<clock, version, writes, todo, row>>,
         published' \in [Todos -> [Kinds -> Nat]],
         lapses' \in Nat, faults' \in Nat, crashes' \in Nat
  PROVE  TypeOK'
<1>1. outcome \in Phases \ {"idle", "inspect", "replay", "read", "commit",
                            "renewed", "sent"}
  BY DEF Final, Phases
<1>2. /\ request' \in [Requests -> Request]
      /\ \A q \in Requests : q # r => request'[q] = request[q]
      /\ request'[r].phase = outcome
      /\ request'[r].todo = request[r].todo
      /\ request'[r].version = None /\ request'[r].base = None
  BY <1>1, FinishType, TypeParts
<1>3. request[r].todo # None
  BY TypeParts DEF Pairs
<1> QED BY <1>1, <1>2, <1>3, RequestOnlyType

\* A request that begins again or gives up.
LEMMA RetriesType ==
  ASSUME TypeOK, NEW r \in Requests, Retry(r),
         request[r].phase \in {"inspect", "replay", "read", "commit"},
         UNCHANGED <<clock, version, writes, todo, row>>,
         published' \in [Todos -> [Kinds -> Nat]],
         lapses' \in Nat, faults' \in Nat, crashes' \in Nat
  PROVE  TypeOK'
<1>1. /\ request' \in [Requests -> Request]
      /\ \A q \in Requests : q # r => request'[q] = request[q]
      /\ request'[r].phase \in {"inspect", "conflicted"}
      /\ request'[r].todo = request[r].todo
      /\ request'[r].user = request[r].user
      /\ request'[r].version = None /\ request'[r].base = None
  BY RetryType, TypeParts
<1>2. request[r].todo # None /\ request[r].user # None
  BY TypeParts DEF Pairs
<1> QED BY <1>1, <1>2, RequestOnlyType

\* A request that goes on.
LEMMA GoesType ==
  ASSUME TypeOK, NEW r \in Requests, NEW phase \in Phases \ {"idle"},
         Go(r, phase), request[r].phase # "idle",
         phase \in {"inspect", "replay", "read", "commit"}
            => request[r].user # None,
         phase \in {"renewed", "sent"} => request[r].jobs # {},
         UNCHANGED <<clock, version, writes, todo, row>>,
         published' \in [Todos -> [Kinds -> Nat]],
         lapses' \in Nat, faults' \in Nat, crashes' \in Nat
  PROVE  TypeOK'
<1>1. /\ request' \in [Requests -> Request]
      /\ \A q \in Requests : q # r => request'[q] = request[q]
      /\ request'[r].phase = phase
      /\ request'[r].todo = request[r].todo
      /\ request'[r].user = request[r].user
      /\ request'[r].version = request[r].version
      /\ request'[r].base = request[r].base
      /\ request'[r].jobs = request[r].jobs
  BY GoType, TypeParts
<1>2. /\ request[r].todo # None
      /\ request[r].version = None <=> request[r].base = None
  BY TypeParts DEF Pairs
<1> QED BY <1>1, <1>2, RequestOnlyType

\* The queue accepts the job of a request.
LEMMA AcceptType ==
  ASSUME TypeOK, NEW r \in Requests, Accept(r), request[r].jobs # {}
  PROVE  /\ published' \in [Todos -> [Kinds -> Nat]]
         /\ \A t \in Todos, k \in Kinds : published[t][k] <= published'[t][k]
         /\ request[r].todo \in Todos =>
               published'[request[r].todo][NextJob(request[r].jobs)] > 0
         /\ \A t \in Todos, k \in Kinds :
               published'[t][k] = published[t][k]
               \/ (t = request[r].todo /\ k = NextJob(request[r].jobs))
<1>1. NextJob(request[r].jobs) \in Kinds
  BY NextJobIsLeast, TypeParts DEF Request
<1>2. published \in [Todos -> [Kinds -> Nat]]
  BY TypeParts
<1>3. published' \in [Todos -> [Kinds -> Nat]]
  <2> DEFINE t == request[r].todo
             k == NextJob(request[r].jobs)
  <2>1. CASE t \in Todos
    <3>1. published[t] \in [Kinds -> Nat] /\ published[t][k] + 1 \in Nat
      BY <2>1, <1>1, <1>2
    <3>2. [published[t] EXCEPT ![k] = published[t][k] + 1] \in [Kinds -> Nat]
      BY <3>1
    <3> QED BY <3>2, <1>2 DEF Accept
  <2>2. CASE t \notin Todos
    BY <2>2, <1>2 DEF Accept
  <2> QED BY <2>1, <2>2
<1>4. \A t \in Todos, k \in Kinds :
         published'[t][k] = published[t][k]
         \/ (t = request[r].todo /\ k = NextJob(request[r].jobs)
                /\ published'[t][k] = published[t][k] + 1)
  BY <1>1, <1>2 DEF Accept
<1>5. request[r].todo \in Todos =>
         published'[request[r].todo][NextJob(request[r].jobs)] =
            published[request[r].todo][NextJob(request[r].jobs)] + 1
  BY <1>1, <1>2 DEF Accept
<1> QED BY <1>1, <1>2, <1>3, <1>4, <1>5

\* What a completion merges.
LEMMA PatchesAre ==
  ASSUME TypeOK, NEW r \in Requests, Merges(r) => request[r].base \in Nat
  PROVE  /\ Patches(r) \in Seq(Patch)
         /\ Len(Patches(r)) \in 0 .. 2
         /\ Len(Patches(r)) = 0 <=> ~Merges(r)
         /\ \A i \in 1 .. Len(Patches(r)) :
               /\ Patches(r)[i].by = r
               /\ Patches(r)[i].base = request[r].base + i - 1
<1>1. CASE ~Merges(r)
  BY <1>1 DEF Patches
<1>2. CASE Merges(r)
  <2> DEFINE n == IF /\ request[r].todo \in ForEachTodos
                     /\ request[r].user \in Identified
                  THEN 2 ELSE 1
             patches == [i \in 1 .. n |-> Merged(r, request[r].base + i - 1)]
  <2>1. n \in Nat /\ n \in 1 .. 2
    OBVIOUS
  <2>2. Patches(r) = patches
    BY <1>2 DEF Patches
  <2> HIDE DEF n
  <2>3. \A i \in 1 .. n : Merged(r, request[r].base + i - 1) \in Patch
    BY <1>2, <2>1 DEF Merged, Patch
  <2>4. patches \in [1 .. n -> Patch]
    BY <2>3
  <2>5. patches \in Seq(Patch)
    BY <2>1, <2>4, SeqDef
  <2>6. DOMAIN patches = 1 .. n
    OBVIOUS
  <2>7. Len(patches) = n
    BY <2>1, <2>5, <2>6
  <2>8. \A i \in 1 .. n : /\ patches[i].by = r
                          /\ patches[i].base = request[r].base + i - 1
    BY DEF Merged
  <2> QED BY <1>2, <2>1, <2>2, <2>5, <2>7, <2>8
<1> QED BY <1>1, <1>2

\* Versions only grow through completions.
LEMMA VersionGrows ==
  ASSUME TypeOK, NEW r \in Requests, NEW patches \in Seq(Patch),
         Len(patches) \in 0 .. 2
  PROVE  /\ VersionAfter(r, patches) \in Nat
         /\ Len(patches) = 0 => VersionAfter(r, patches) = version
         /\ Len(patches) # 0 => VersionAfter(r, patches) > version
<1>1. request[r].time \in Nat /\ version \in Nat
  BY TypeParts DEF Request
<1>2. \A v \in Nat : /\ NextVersion(request[r].time, v) \in Nat
                     /\ NextVersion(request[r].time, v) > v
  BY <1>1 DEF NextVersion
<1>3. CASE Len(patches) = 0
  BY <1>1, <1>3 DEF VersionAfter
<1>4. CASE Len(patches) = 1
  BY <1>1, <1>2, <1>4 DEF VersionAfter
<1>5. CASE Len(patches) = 2
  BY <1>1, <1>2, <1>5 DEF VersionAfter
<1> QED BY <1>3, <1>4, <1>5

\* What a completing request knows: a completion that merges something was
\* validated against the present version.
LEMMA CompletesUnchanged ==
  ASSUME TypeOK, NEW r \in Requests, Complete(r), Merges(r)
  PROVE  /\ request[r].version = version
         /\ request[r].base \in Nat
<1>1. request[r].version = version
  BY DEF Complete, Unchanged
<1>2. version # None
  BY Constants, TypeParts
<1>3. request[r].base # None
  BY <1>1, <1>2, TypeParts DEF Pairs
<1> QED BY <1>1, <1>3, TypeParts DEF Request

-----------------------------------------------------------------------------
\* Each action preserves the types: first the steps that only move a request.

\* Starting a request: an idle one gets its to-do.
LEMMA StartType ==
  ASSUME TypeOK, NEW r \in Requests, NEW t \in Todos,
         (\E user \in Users : Submit(r, t, user)) \/ Recover(r, t)
  PROVE  TypeOK'
<1>1. CASE \E user \in Users : Submit(r, t, user)
  <2>1. PICK user \in Users : Submit(r, t, user)
    BY <1>1
  <2>2. /\ request' \in [Requests -> Request]
        /\ \A q \in Requests : q # r => request'[q] = request[q]
        /\ request'[r].phase = "inspect" /\ request'[r].todo = t
        /\ request'[r].user = user
        /\ request'[r].version = None /\ request'[r].base = None
    <3> DEFINE new == [Idle EXCEPT !.phase = "inspect", !.todo = t, !.user = user,
                                   !.attempt = 1, !.time = clock]
    <3>1. new \in Request
      BY TypeParts DEF Request, Idle, Phases
    <3>2. /\ new.phase = "inspect" /\ new.todo = t /\ new.user = user
          /\ new.version = None /\ new.base = None
      BY DEF Idle
    <3>3. request' = [request EXCEPT ![r] = new]
      BY <2>1 DEF Submit
    <3> HIDE DEF new
    <3> QED BY <3>1, <3>2, <3>3, TypeParts
  <2>3. request[r].todo = None
    BY <2>1, TypeParts DEF Submit, Pairs
  <2> QED BY <2>1, <2>2, <2>3, Constants, TypeParts, RequestOnlyType DEF Submit
<1>2. CASE Recover(r, t)
  <2>1. /\ request' \in [Requests -> Request]
        /\ \A q \in Requests : q # r => request'[q] = request[q]
        /\ request'[r].phase = "dispatch" /\ request'[r].todo = t
        /\ request'[r].version = request[r].version
        /\ request'[r].base = request[r].base
    <3> DEFINE new == [request[r] EXCEPT !.phase = "dispatch", !.todo = t]
    <3>1. request[r] \in Request
      BY TypeParts
    <3>2. /\ new \in Request /\ new.phase = "dispatch" /\ new.todo = t
          /\ new.version = request[r].version /\ new.base = request[r].base
      BY <3>1 DEF Request, Phases
    <3>3. request' = [request EXCEPT ![r] = new]
      BY <1>2, TypeParts DEF Recover
    <3> HIDE DEF new
    <3> QED BY <3>2, <3>3, TypeParts
  <2>2. /\ request[r].todo = None
        /\ request[r].version = None <=> request[r].base = None
    BY <1>2, TypeParts DEF Recover, Pairs
  <2> QED BY <1>2, <2>1, <2>2, Constants, TypeParts, RequestOnlyType DEF Recover
<1> QED BY <1>1, <1>2

\* An attempt, except the step that completes the to-do.
LEMMA AttemptType ==
  ASSUME TypeOK, NEW r \in Requests, Attempt(r), ~Complete(r)
  PROVE  TypeOK'
<1> USE TypeParts
<1>1. request[r].phase \in {"inspect", "replay", "read", "commit"}
  BY DEF Attempt, Inspect, ReadState, Reject, Replay, Overtaken, Conflict,
         DatabaseError
<1>2. request[r].user # None
  BY <1>1 DEF Pairs
<1>3. CASE Inspect(r)
  <2>1. CASE todo[request[r].todo].open
    BY <1>1, <1>2, <1>3, <2>1, GoesType DEF Inspect, Phases
  <2>2. CASE ~todo[request[r].todo].open
    BY <1>1, <1>2, <1>3, <2>2, GoesType DEF Inspect, Phases
  <2> QED BY <2>1, <2>2
<1>4. CASE ReadState(r)
  <2>1. Len(writes) \in Nat
    OBVIOUS
  <2>2. /\ request' \in [Requests -> Request]
        /\ \A q \in Requests : q # r => request'[q] = request[q]
        /\ request'[r].phase = "commit"
        /\ request'[r].todo = request[r].todo
        /\ request'[r].user = request[r].user
        /\ \/ request'[r].version = version /\ request'[r].base = Len(writes)
           \/ /\ request'[r].version = request[r].version
              /\ request'[r].base = request[r].base
    <3> DEFINE new == [request[r] EXCEPT !.phase = "commit",
                                         !.version = version,
                                         !.base = Len(writes)]
               old == [request[r] EXCEPT !.phase = "commit"]
    <3>1. request[r] \in Request
      OBVIOUS
    <3>2. /\ new \in Request /\ new.phase = "commit"
          /\ new.todo = request[r].todo /\ new.user = request[r].user
          /\ new.version = version /\ new.base = Len(writes)
      BY <2>1, <3>1 DEF Request, Phases
    <3>3. /\ old \in Request /\ old.phase = "commit"
          /\ old.todo = request[r].todo /\ old.user = request[r].user
          /\ old.version = request[r].version /\ old.base = request[r].base
      BY <3>1 DEF Request, Phases
    <3>4. request' = [request EXCEPT ![r] = new]
          \/ request' = [request EXCEPT ![r] = old]
      BY <1>4 DEF ReadState
    <3> HIDE DEF new, old
    <3> QED BY <3>2, <3>3, <3>4
  <2>3. /\ request[r].todo # None
        /\ request[r].version = None <=> request[r].base = None
    BY <1>1 DEF Pairs
  <2> QED BY <1>2, <1>4, <2>1, <2>2, <2>3, Constants, RequestOnlyType, ZenonT(60)
          DEF ReadState
<1>5. CASE Reject(r)
  BY <1>1, <1>5, FinishesType DEF Reject, Final
<1>6. CASE Replay(r)
  <2>1. CASE Go(r, "dispatch")
    BY <1>1, <1>6, <2>1, GoesType DEF Replay, Phases
  <2>2. CASE Retry(r)
    BY <1>1, <1>6, <2>2, RetriesType DEF Replay
  <2> QED BY <1>6, <2>1, <2>2 DEF Replay
<1>7. CASE Overtaken(r)
  BY <1>1, <1>7, GoesType DEF Overtaken, Phases
<1>8. CASE Conflict(r)
  BY <1>1, <1>8, RetriesType DEF Conflict
<1>9. CASE DatabaseError(r)
  <2>1. faults' \in Nat
    BY <1>9 DEF DatabaseError
  <2>2. CASE Retry(r)
    BY <1>1, <1>9, <2>1, <2>2, RetriesType DEF DatabaseError
  <2>3. CASE Finish(r, "failed")
    BY <1>1, <1>9, <2>1, <2>3, FinishesType DEF DatabaseError, Final
  <2> QED BY <1>9, <2>2, <2>3 DEF DatabaseError
<1> QED BY <1>3, <1>4, <1>5, <1>6, <1>7, <1>8, <1>9 DEF Attempt

\* The tables a completion writes: the to-do is closed, its rows are new.
LEMMA CompleteTables ==
  ASSUME TypeOK, NEW r \in Requests, Complete(r)
  PROVE  /\ request[r].todo \in Todos /\ request[r].user \in Users
         /\ todo[request[r].todo].open
         /\ todo' \in [Todos -> ToDo]
         /\ ~todo'[request[r].todo].open
         /\ todo'[request[r].todo].user = request[r].user
         /\ todo'[request[r].todo].winner = r
         /\ \A t \in Todos : t # request[r].todo => todo'[t] = todo[t]
         /\ row' \in [Todos -> [Kinds -> Row]]
         /\ \A k \in Kinds : /\ row'[request[r].todo][k].present
                             /\ row'[request[r].todo][k].receipt = None
                             /\ row'[request[r].todo][k].lease = "none"
         /\ \A t \in Todos : t # request[r].todo => row'[t] = row[t]
         /\ writes' = writes \o Patches(r)
         /\ writes' \in Seq(Patch)
         /\ version' \in Nat
<1> USE TypeParts
<1>1. request[r].todo \in Todos /\ request[r].user \in Users
  BY DEF Complete, Pairs, Request
<1>2. todo[request[r].todo].open
  BY <1>1 DEF Complete, CompleteToDoIfOpen
<1>3. todo' = [todo EXCEPT ![request[r].todo] =
                  [open |-> FALSE, user |-> request[r].user, winner |-> r]]
  BY DEF Complete
<1>4. [open |-> FALSE, user |-> request[r].user, winner |-> r] \in ToDo
  BY <1>1 DEF ToDo
<1>4a. /\ todo' \in [Todos -> ToDo]
       /\ ~todo'[request[r].todo].open
       /\ todo'[request[r].todo].user = request[r].user
       /\ todo'[request[r].todo].winner = r
       /\ \A t \in Todos : t # request[r].todo => todo'[t] = todo[t]
  BY <1>1, <1>3, <1>4
<1> DEFINE fresh == [AbsentRow EXCEPT !.present = TRUE]
<1>5. row' = [row EXCEPT ![request[r].todo] = [k \in Kinds |-> fresh]]
  BY DEF Complete
<1>6. /\ fresh \in Row
      /\ fresh.present /\ fresh.receipt = None /\ fresh.lease = "none"
  BY DEF Row, AbsentRow
<1> HIDE DEF fresh
<1>7. /\ row' \in [Todos -> [Kinds -> Row]]
      /\ \A k \in Kinds : row'[request[r].todo][k] = fresh
      /\ \A t \in Todos : t # request[r].todo => row'[t] = row[t]
  BY <1>1, <1>5, <1>6
<1>8. Merges(r) => request[r].base \in Nat
  BY CompletesUnchanged
<1>9. Patches(r) \in Seq(Patch) /\ Len(Patches(r)) \in 0 .. 2
  BY <1>8, PatchesAre
<1>10. writes' = writes \o Patches(r) /\ version' = VersionAfter(r, Patches(r))
  BY DEF Complete
<1>11. writes' \in Seq(Patch) /\ version' \in Nat
  BY <1>9, <1>10, VersionGrows, ConcatProperties
<1> QED BY <1>1, <1>2, <1>6, <1>7, <1>10, <1>11, <1>4a

LEMMA CompleteType ==
  ASSUME TypeOK, NEW r \in Requests, Complete(r)
  PROVE  TypeOK'
<1> USE TypeParts
<1>1. /\ Go(r, "dispatch")
      /\ UNCHANGED <<clock, published, lapses, faults, crashes>>
      /\ request[r].phase = "commit"
  BY DEF Complete
<1>2. /\ request' \in [Requests -> Request]
      /\ \A q \in Requests : q # r => request'[q] = request[q]
      /\ request'[r].phase = "dispatch"
      /\ request'[r].todo = request[r].todo
      /\ request'[r].version = request[r].version
      /\ request'[r].base = request[r].base
  BY <1>1, GoType DEF Phases
<1>3. /\ request[r].todo # None
      /\ request[r].version = None <=> request[r].base = None
  BY <1>1 DEF Pairs
<1>4. Pairs' /\ \A t \in Todos, k \in Kinds :
         row[t][k].receipt # None => request'[row[t][k].receipt].todo = t
  BY <1>2, <1>3, RequestStepType
<1>5. /\ ~todo'[request[r].todo].open
      /\ \A k \in Kinds : /\ row'[request[r].todo][k].receipt = None
                          /\ row'[request[r].todo][k].lease = "none"
      /\ \A t \in Todos :
             t # request[r].todo => todo'[t] = todo[t] /\ row'[t] = row[t]
  BY CompleteTables
<1>6. LeasedRows'
  <2> SUFFICES ASSUME NEW t \in Todos, NEW k \in Kinds
               PROVE  /\ row'[t][k].present => ~todo'[t].open
                      /\ row'[t][k].receipt = None <=> row'[t][k].lease = "none"
                      /\ row'[t][k].receipt # None =>
                            /\ row'[t][k].present
                            /\ request'[row'[t][k].receipt].todo = t
    BY DEF LeasedRows
  <2>1. CASE t = request[r].todo
    BY <2>1, <1>5
  <2>2. CASE t # request[r].todo
    <3>1. row'[t] = row[t] /\ todo'[t] = todo[t]
      BY <2>2, <1>5
    <3> QED BY <1>4, <3>1 DEF LeasedRows
  <2> QED BY <2>1, <2>2
<1> QED BY <1>1, <1>2, <1>4, <1>6, CompleteTables, TypePartsNext

LEMMA SystemWriteType ==
  ASSUME TypeOK, NEW time \in 1 .. clock, SystemWrite(time)
  PROVE  TypeOK'
<1> USE TypeParts
<1>1. UNCHANGED <<clock, todo, row, published, request, lapses, faults, crashes>>
  BY DEF SystemWrite
<1>2. version' \in Nat
  BY DEF SystemWrite
<1>3. writes' \in Seq(Patch)
  <2>1. Len(writes) \in Nat
    OBVIOUS
  <2>2. Merged(SystemStep, Len(writes)) \in Patch
    BY <2>1 DEF Merged, Patch
  <2>3. writes' = Append(writes, Merged(SystemStep, Len(writes)))
    BY DEF SystemWrite
  <2> QED BY <2>2, <2>3
<1>4. Pairs' /\ LeasedRows'
  BY <1>1 DEF Pairs, LeasedRows
<1> QED BY <1>1, <1>2, <1>3, <1>4, TypePartsNext

\* What a claim does to the rows of its to-do.
LEMMA ClaimTables ==
  ASSUME TypeOK, NEW r \in Requests, ClaimRows(r)
  PROVE  /\ request[r].todo \in Todos
         /\ row' \in [Todos -> [Kinds -> Row]]
         /\ \A t \in Todos : t # request[r].todo => row'[t] = row[t]
         /\ \A k \in Kinds \ Claimable(request[r].todo) :
               row'[request[r].todo][k] = row[request[r].todo][k]
         /\ \A k \in Claimable(request[r].todo) :
               /\ row[request[r].todo][k].present
               /\ row'[request[r].todo][k].present
               /\ row'[request[r].todo][k].receipt = r
               /\ row'[request[r].todo][k].lease = "running"
         /\ request' \in [Requests -> Request]
         /\ \A q \in Requests : q # r => request'[q] = request[q]
         /\ request'[r].phase = "sending"
         /\ request'[r].todo = request[r].todo
         /\ request'[r].user = request[r].user
         /\ request'[r].version = request[r].version
         /\ request'[r].base = request[r].base
         /\ request'[r].jobs = Claimable(request[r].todo)
         /\ Claimable(request[r].todo) \subseteq Kinds
<1> USE TypeParts
<1> DEFINE t == request[r].todo
           leased == [present |-> TRUE, receipt |-> r, lease |-> "running"]
           rows == [k \in Kinds |-> IF k \in Claimable(t) THEN leased ELSE row[t][k]]
           new == [request[r] EXCEPT !.phase = "sending", !.jobs = Claimable(t)]
<1>1. t \in Todos
  BY DEF ClaimRows, Pairs, Request
<1>2. Claimable(t) \subseteq Kinds
  BY DEF Claimable
<1>3. \A k \in Claimable(t) : row[t][k].present
  BY DEF Claimable
<1>4. /\ leased \in Row /\ leased.present
      /\ leased.receipt = r /\ leased.lease = "running"
  BY DEF Row
<1>5. row' = [row EXCEPT ![t] = rows]
  BY DEF ClaimRows
<1>6. request[r] \in Request
  OBVIOUS
<1>7. request' = [request EXCEPT ![r] = new]
  BY DEF ClaimRows
<1>8. /\ new \in Request /\ new.phase = "sending" /\ new.jobs = Claimable(t)
      /\ new.todo = t /\ new.user = request[r].user
      /\ new.version = request[r].version /\ new.base = request[r].base
  BY <1>2, <1>6 DEF Request, Phases
<1> HIDE DEF leased, new
<1>9. rows \in [Kinds -> Row]
  BY <1>1, <1>4
<1>10. /\ \A k \in Kinds \ Claimable(t) : rows[k] = row[t][k]
       /\ \A k \in Claimable(t) : rows[k] = leased
  BY <1>2
<1> HIDE DEF rows
<1>11. /\ row' \in [Todos -> [Kinds -> Row]] /\ row'[t] = rows
       /\ \A u \in Todos : u # t => row'[u] = row[u]
  BY <1>1, <1>5, <1>9
<1>12. /\ request' \in [Requests -> Request] /\ request'[r] = new
       /\ \A q \in Requests : q # r => request'[q] = request[q]
  BY <1>7, <1>8
<1> QED BY <1>1, <1>2, <1>3, <1>4, <1>8, <1>10, <1>11, <1>12

LEMMA ClaimType ==
  ASSUME TypeOK, NEW r \in Requests, ClaimRows(r)
  PROVE  TypeOK'
<1> USE TypeParts
<1> DEFINE t == request[r].todo
<1>1. /\ t \in Todos
      /\ \A u \in Todos : u # t => row'[u] = row[u]
      /\ \A k \in Kinds \ Claimable(t) : row'[t][k] = row[t][k]
      /\ \A k \in Claimable(t) :
            /\ row[t][k].present /\ row'[t][k].present
            /\ row'[t][k].receipt = r
            /\ row'[t][k].lease = "running"
      /\ request'[r].todo = t
  BY ClaimTables
<1>2. UNCHANGED <<clock, version, writes, todo, published, lapses, faults, crashes>>
  BY DEF ClaimRows
<1>3. request[r].version = None <=> request[r].base = None
  BY DEF Pairs
<1>4. Pairs' /\ \A u \in Todos, k \in Kinds :
         row[u][k].receipt # None => request'[row[u][k].receipt].todo = u
  <2>1. /\ request' \in [Requests -> Request]
        /\ \A q \in Requests : q # r => request'[q] = request[q]
        /\ request'[r].phase = "sending"
        /\ request'[r].version = request[r].version
        /\ request'[r].base = request[r].base
    BY ClaimTables
  <2>2. /\ request'[r].todo = request[r].todo /\ request'[r].todo # None
        /\ request'[r].version = None <=> request'[r].base = None
    BY <1>1, <1>3, <2>1, Constants
  <2> QED BY <2>1, <2>2, RequestStepType
<1>5. LeasedRows'
  <2> SUFFICES ASSUME NEW u \in Todos, NEW k \in Kinds
               PROVE  /\ row'[u][k].present => ~todo'[u].open
                      /\ row'[u][k].receipt = None <=> row'[u][k].lease = "none"
                      /\ row'[u][k].receipt # None =>
                            /\ row'[u][k].present
                            /\ request'[row'[u][k].receipt].todo = u
    BY DEF LeasedRows
  <2> HIDE DEF t
  <2>1. CASE u = t /\ k \in Claimable(t)
    BY <1>1, <1>2, <2>1, Constants DEF LeasedRows, t
  <2>2. CASE u # t \/ k \notin Claimable(t)
    <3>1. row'[u][k] = row[u][k]
      BY <1>1, <2>2
    <3> QED BY <1>2, <1>4, <3>1 DEF LeasedRows
  <2> QED BY <2>1, <2>2
<1> QED BY <1>2, <1>4, <1>5, ClaimTables, TypePartsNext

\* A step that changes rows of one to-do without adding one or giving one to
\* another request.
LEMMA RowsType ==
  ASSUME TypeOK, NEW t \in Todos,
         row' \in [Todos -> [Kinds -> Row]],
         \A u \in Todos : u # t => row'[u] = row[u],
         \A k \in Kinds : /\ row'[t][k].present => row[t][k].present
                          /\ row'[t][k].receipt = None <=> row'[t][k].lease = "none"
                          /\ row'[t][k].receipt # None =>
                                /\ row'[t][k].present
                                /\ row'[t][k].receipt = row[t][k].receipt,
         UNCHANGED <<clock, version, writes, todo, published>>,
         lapses' \in Nat, faults' \in Nat, crashes' \in Nat,
         request' \in [Requests -> Request], Pairs',
         \A u \in Todos, k \in Kinds :
            row[u][k].receipt # None => request'[row[u][k].receipt].todo = u
  PROVE  TypeOK'
<1> USE TypeParts
<1>1. LeasedRows'
  <2> SUFFICES ASSUME NEW u \in Todos, NEW k \in Kinds
               PROVE  /\ row'[u][k].present => ~todo'[u].open
                      /\ row'[u][k].receipt = None <=> row'[u][k].lease = "none"
                      /\ row'[u][k].receipt # None =>
                            /\ row'[u][k].present
                            /\ request'[row'[u][k].receipt].todo = u
    BY DEF LeasedRows
  <2>1. CASE u = t
    <3>1. /\ row'[t][k].present => row[t][k].present
          /\ row'[t][k].receipt = None <=> row'[t][k].lease = "none"
          /\ row'[t][k].receipt # None =>
                row'[t][k].present /\ row'[t][k].receipt = row[t][k].receipt
      OBVIOUS
    <3>2. row[t][k].present => ~todo'[t].open
      BY DEF LeasedRows
    <3>3. row[t][k].receipt # None => request'[row[t][k].receipt].todo = t
      OBVIOUS
    <3> QED BY <2>1, <3>1, <3>2, <3>3, Zenon
  <2>2. CASE u # t
    <3>1. row'[u][k] = row[u][k]
      BY <2>2
    <3> QED BY <3>1 DEF LeasedRows
  <2> QED BY <2>1, <2>2
<1> QED BY <1>1, TypePartsNext

\* What a step makes of rows: those a request holds get a lease, or some rows
\* are given up.
GivesLease(r, t, lease) ==
    row' = [row EXCEPT ![t] =
               [k \in Kinds |-> IF k \in Held(r, t)
                               THEN [row[t][k] EXCEPT !.lease = lease]
                               ELSE row[t][k]]]

\* A dispatch row that nobody has claimed.
Unleased == [AbsentRow EXCEPT !.present = TRUE]

GivesUp(t, given, new) ==
    row' = [row EXCEPT ![t] =
               [k \in Kinds |-> IF k \in given THEN new ELSE row[t][k]]]

LEMMA LeaseTables ==
  ASSUME TypeOK, NEW r \in Requests, NEW t \in Todos,
         NEW lease \in {"running", "lapsed"}, GivesLease(r, t, lease)
  PROVE  /\ row' \in [Todos -> [Kinds -> Row]]
         /\ \A u \in Todos : u # t => row'[u] = row[u]
         /\ \A k \in Kinds :
               /\ row'[t][k].present <=> row[t][k].present
               /\ row'[t][k].receipt = row[t][k].receipt
               /\ row'[t][k].lease =
                     IF k \in Held(r, t) THEN lease ELSE row[t][k].lease
               /\ row'[t][k].receipt = None <=> row'[t][k].lease = "none"
               /\ row'[t][k].receipt # None => row'[t][k].present
<1>1. row \in [Todos -> [Kinds -> Row]] /\ LeasedRows
  BY TypeParts
<1> DEFINE rows == [k \in Kinds |-> IF k \in Held(r, t)
                                   THEN [row[t][k] EXCEPT !.lease = lease]
                                   ELSE row[t][k]]
<1>2. ASSUME NEW k \in Kinds
      PROVE  /\ rows[k] \in Row
             /\ rows[k].present = row[t][k].present
             /\ rows[k].receipt = row[t][k].receipt
             /\ rows[k].lease =
                   (IF k \in Held(r, t) THEN lease ELSE row[t][k].lease)
  <2>1. row[t][k] \in Row
    BY <1>1
  <2>2. CASE k \in Held(r, t)
    <3>1. rows[k] = [row[t][k] EXCEPT !.lease = lease]
      BY <2>2
    <3> QED BY <2>1, <2>2, <3>1 DEF Row
  <2>3. CASE k \notin Held(r, t)
    <3>1. rows[k] = row[t][k]
      BY <2>3
    <3> QED BY <2>1, <2>3, <3>1
  <2> QED BY <2>2, <2>3
<1>3. rows \in [Kinds -> Row]
  BY <1>2
<1>4. row' = [row EXCEPT ![t] = rows]
  BY DEF GivesLease
<1> HIDE DEF rows
<1>5. /\ row' \in [Todos -> [Kinds -> Row]] /\ row'[t] = rows
      /\ \A u \in Todos : u # t => row'[u] = row[u]
  BY <1>1, <1>3, <1>4
<1>6. ASSUME NEW k \in Kinds
      PROVE  /\ row'[t][k].present <=> row[t][k].present
             /\ row'[t][k].receipt = row[t][k].receipt
             /\ row'[t][k].lease =
                   IF k \in Held(r, t) THEN lease ELSE row[t][k].lease
             /\ row'[t][k].receipt = None <=> row'[t][k].lease = "none"
             /\ row'[t][k].receipt # None => row'[t][k].present
  <2>1. /\ row'[t][k].present = row[t][k].present
        /\ row'[t][k].receipt = row[t][k].receipt
        /\ row'[t][k].lease =
              (IF k \in Held(r, t) THEN lease ELSE row[t][k].lease)
    BY <1>2, <1>5
  <2>2. /\ row[t][k].receipt = None <=> row[t][k].lease = "none"
        /\ row[t][k].receipt # None => row[t][k].present
    BY <1>1 DEF LeasedRows
  <2>3. k \in Held(r, t) => row[t][k].receipt # None
    BY Constants DEF Held
  <2>4. row'[t][k].receipt = None <=> row'[t][k].lease = "none"
    BY <2>1, <2>2, <2>3
  <2>5. row'[t][k].receipt # None => row'[t][k].present
    BY <2>1, <2>2
  <2>6. row'[t][k].present <=> row[t][k].present
    BY <2>1
  <2> QED BY <2>1, <2>4, <2>5, <2>6
<1> QED BY <1>5, <1>6

\* The rows a request holds, released or deleted.
LEMMA GivenUpTables ==
  ASSUME TypeOK, NEW t \in Todos, NEW given \in SUBSET Kinds, NEW new,
         \/ new = AbsentRow
         \/ /\ new = Unleased
            /\ \A k \in given : row[t][k].present,
         GivesUp(t, given, new)
  PROVE  /\ row' \in [Todos -> [Kinds -> Row]]
         /\ \A u \in Todos : u # t => row'[u] = row[u]
         /\ \A k \in Kinds :
               /\ row'[t][k].present => row[t][k].present
               /\ row'[t][k].receipt = None <=> row'[t][k].lease = "none"
               /\ row'[t][k].receipt # None =>
                     /\ row'[t][k].present
                     /\ row'[t][k].receipt = row[t][k].receipt
         /\ \A k \in Kinds \ given : row'[t][k] = row[t][k]
         /\ \A k \in given : /\ row'[t][k].receipt = None
                             /\ row'[t][k].present =>
                                    new = Unleased
                             /\ new = Unleased =>
                                    row'[t][k].present
<1>0. row \in [Todos -> [Kinds -> Row]] /\ LeasedRows
  BY TypeParts
<1> DEFINE rows == [k \in Kinds |-> IF k \in given THEN new ELSE row[t][k]]
<1>1. /\ Unleased \in Row /\ Unleased.present
      /\ Unleased.receipt = None /\ Unleased.lease = "none"
  BY DEF Row, AbsentRow, Unleased
<1>2. /\ AbsentRow \in Row /\ ~AbsentRow.present
      /\ AbsentRow.receipt = None /\ AbsentRow.lease = "none"
  BY DEF Row, AbsentRow
<1>3. new = AbsentRow \/ (new = Unleased /\ \A k \in given : row[t][k].present)
  OBVIOUS
<1>4. /\ rows \in [Kinds -> Row]
      /\ \A k \in Kinds : rows[k] = IF k \in given THEN new ELSE row[t][k]
  BY <1>0, <1>1, <1>2, <1>3
<1>5. row' = [row EXCEPT ![t] = rows]
  BY DEF GivesUp
<1> HIDE DEF rows
<1>6. /\ row' \in [Todos -> [Kinds -> Row]] /\ row'[t] = rows
      /\ \A u \in Todos : u # t => row'[u] = row[u]
  BY <1>0, <1>4, <1>5
<1>7. \A k \in Kinds : /\ row[t][k].receipt = None <=> row[t][k].lease = "none"
                       /\ row[t][k].receipt # None => row[t][k].present
  BY <1>0 DEF LeasedRows
<1>8. \A k \in Kinds \ given : row'[t][k] = row[t][k]
  BY <1>4, <1>6
<1>9. \A k \in given : /\ row'[t][k].receipt = None
                       /\ row'[t][k].lease = "none"
                       /\ row'[t][k].present => row[t][k].present
                       /\ row'[t][k].present <=> new = Unleased
  BY <1>1, <1>2, <1>3, <1>4, <1>6
<1>10. \A k \in Kinds :
          /\ row'[t][k].present => row[t][k].present
          /\ row'[t][k].receipt = None <=> row'[t][k].lease = "none"
          /\ row'[t][k].receipt # None =>
                /\ row'[t][k].present
                /\ row'[t][k].receipt = row[t][k].receipt
  <2> TAKE k \in Kinds
  <2>1. CASE k \in given
    BY <1>9, <2>1
  <2>2. CASE k \notin given
    <3>1. row'[t][k] = row[t][k]
      BY <1>8, <2>2
    <3>2. /\ row[t][k].receipt = None <=> row[t][k].lease = "none"
          /\ row[t][k].receipt # None => row[t][k].present
      BY <1>7
    <3>3. row'[t][k].present => row[t][k].present
      BY <3>1
    <3>4. row'[t][k].receipt = None <=> row'[t][k].lease = "none"
      BY <3>1, <3>2
    <3>5. row'[t][k].receipt # None =>
             row'[t][k].present /\ row'[t][k].receipt = row[t][k].receipt
      BY <3>1, <3>2
    <3> QED BY <3>3, <3>4, <3>5
  <2> QED BY <2>1, <2>2
<1> QED BY <1>6, <1>8, <1>9, <1>10

\* The request of a dispatch has a to-do.
LEMMA DispatchHasTodo ==
  ASSUME TypeOK, NEW r \in Requests, request[r].phase # "idle"
  PROVE  /\ request[r].todo \in Todos /\ request[r].todo # None
         /\ request[r].version = None <=> request[r].base = None
         /\ request[r] \in Request
  BY TypeParts DEF Pairs, Request

LEMMA ExtendClaimType ==
  ASSUME TypeOK, NEW r \in Requests, ExtendClaim(r)
  PROVE  TypeOK'
<1> DEFINE t == request[r].todo
<1>1. /\ request[r].phase = "sending" /\ request[r].jobs # {}
      /\ UNCHANGED <<clock, version, writes, todo, published, lapses, faults,
                     crashes>>
  BY DEF ExtendClaim
<1>2. t \in Todos
  BY <1>1, DispatchHasTodo
<1>3. CASE Renewed(r)
  <2>1. /\ Go(r, "renewed")
        /\ GivesLease(r, t, "running")
    BY <1>3 DEF ExtendClaim, GivesLease
  <2> HIDE DEF t
  <2>2. /\ row' \in [Todos -> [Kinds -> Row]]
        /\ \A u \in Todos : u # t => row'[u] = row[u]
        /\ \A k \in Kinds :
              /\ row'[t][k].present <=> row[t][k].present
              /\ row'[t][k].receipt = row[t][k].receipt
              /\ row'[t][k].receipt = None <=> row'[t][k].lease = "none"
              /\ row'[t][k].receipt # None => row'[t][k].present
    BY <1>2, <2>1, LeaseTables
  <2>3. /\ request' \in [Requests -> Request]
        /\ \A q \in Requests : q # r => request'[q] = request[q]
        /\ request'[r].phase = "renewed"
        /\ request'[r].todo = request[r].todo
        /\ request'[r].version = request[r].version
        /\ request'[r].base = request[r].base
        /\ request'[r].jobs = request[r].jobs
    BY <2>1, GoType, TypeParts DEF Phases
  <2>4. Pairs' /\ \A u \in Todos, k \in Kinds :
           row[u][k].receipt # None => request'[row[u][k].receipt].todo = u
    BY <1>1, <2>3, DispatchHasTodo, RequestStepType
  <2>5. \A k \in Kinds :
           /\ row'[t][k].present => row[t][k].present
           /\ row'[t][k].receipt = None <=> row'[t][k].lease = "none"
           /\ row'[t][k].receipt # None =>
                 row'[t][k].present /\ row'[t][k].receipt = row[t][k].receipt
    BY <2>2
  <2> QED BY <1>1, <1>2, <2>2, <2>3, <2>4, <2>5, RowsType, TypeParts
<1>4. CASE ~Renewed(r)
  BY <1>1, <1>4, FinishesType, TypeParts DEF ExtendClaim, Final
<1> QED BY <1>3, <1>4

LEMMA SendType ==
  ASSUME TypeOK, NEW r \in Requests, Send(r)
  PROVE  TypeOK'
<1>1. /\ request[r].phase = "renewed" /\ Accept(r) /\ Go(r, "sent")
      /\ UNCHANGED <<clock, version, writes, todo, row, lapses, faults, crashes>>
  BY DEF Send
<1>2. request[r].jobs # {}
  BY <1>1, TypeParts DEF Pairs
<1>3. published' \in [Todos -> [Kinds -> Nat]]
  BY <1>1, <1>2, AcceptType
<1> QED BY <1>1, <1>2, <1>3, GoesType, TypeParts DEF Phases

LEMMA DeleteRowType ==
  ASSUME TypeOK, NEW r \in Requests, DeleteRow(r)
  PROVE  TypeOK'
<1> DEFINE t == request[r].todo
           k == NextJob(request[r].jobs)
<1>1. /\ request[r].phase = "sent"
      /\ UNCHANGED <<clock, version, writes, todo, published, lapses, faults,
                     crashes>>
  BY DEF DeleteRow
<1>2. t \in Todos /\ request[r] \in Request
  BY <1>1, DispatchHasTodo
<1>3. request[r].jobs \in SUBSET Kinds /\ request[r].jobs # {}
  BY <1>1, <1>2, TypeParts DEF Pairs, Request
<1>4. k \in Kinds
  BY <1>3, NextJobIsLeast
<1>5. CASE k \in Held(r, t)
  <2>1. /\ row' = [row EXCEPT ![t][k] = AbsentRow]
        /\ request' = [request EXCEPT ![r].phase = "sending", ![r].jobs = @ \ {k}]
    BY <1>5 DEF DeleteRow
  <2> DEFINE new == [request[r] EXCEPT !.phase = "sending",
                                       !.jobs = request[r].jobs \ {k}]
  <2>2. request' = [request EXCEPT ![r] = new]
    BY <2>1
  <2>3. /\ new \in Request /\ new.phase = "sending" /\ new.todo = t
        /\ new.version = request[r].version /\ new.base = request[r].base
    BY <1>2, <1>3 DEF Request, Phases
  <2> HIDE DEF t, k, new
  <2>4. GivesUp(t, {k}, AbsentRow)
    BY <1>2, <1>4, <2>1, TypeParts DEF GivesUp
  <2>5. /\ row' \in [Todos -> [Kinds -> Row]]
        /\ \A u \in Todos : u # t => row'[u] = row[u]
        /\ \A j \in Kinds :
              /\ row'[t][j].present => row[t][j].present
              /\ row'[t][j].receipt = None <=> row'[t][j].lease = "none"
              /\ row'[t][j].receipt # None =>
                    /\ row'[t][j].present
                    /\ row'[t][j].receipt = row[t][j].receipt
    BY <1>2, <1>4, <2>4, GivenUpTables
  <2>6. /\ request' \in [Requests -> Request] /\ request'[r] = new
        /\ \A q \in Requests : q # r => request'[q] = request[q]
    BY <2>2, <2>3, TypeParts
  <2>7. Pairs' /\ \A u \in Todos, j \in Kinds :
           row[u][j].receipt # None => request'[row[u][j].receipt].todo = u
    BY <1>1, <2>3, <2>6, DispatchHasTodo, RequestStepType DEF t
  <2> QED BY <1>1, <1>2, <2>5, <2>6, <2>7, RowsType, TypeParts
<1>6. CASE k \notin Held(r, t)
  BY <1>1, <1>6, FinishesType, TypeParts DEF DeleteRow, Final
<1> QED BY <1>5, <1>6

LEMMA DispatchErrorType ==
  ASSUME TypeOK, NEW r \in Requests, DispatchError(r)
  PROVE  TypeOK'
<1>1. /\ faults' \in Nat
      /\ UNCHANGED <<clock, version, writes, todo, row, lapses, crashes>>
  BY TypeParts DEF DispatchError
<1>2. CASE request[r].phase = "dispatch" /\ Finish(r, "failed") /\ UNCHANGED published
  BY <1>1, <1>2, FinishesType, TypeParts DEF Final
<1>3. CASE /\ request[r].phase \in {"sending", "renewed", "sent"}
           /\ request[r].jobs # {}
           /\ Go(r, "release")
           /\ UNCHANGED published \/ (request[r].phase = "renewed" /\ Accept(r))
  <2>1. published' \in [Todos -> [Kinds -> Nat]]
    BY <1>3, AcceptType, TypeParts
  <2> QED BY <1>1, <1>3, <2>1, GoesType, TypeParts DEF Phases
<1> QED BY <1>2, <1>3 DEF DispatchError

\* Releasing gives up the rows a request still holds.
LEMMA ReleaseGivesUp ==
  ASSUME TypeOK, NEW r \in Requests, Release(r)
  PROVE  /\ request[r].todo \in Todos
         /\ GivesUp(request[r].todo, Held(r, request[r].todo), Unleased)
         /\ Held(r, request[r].todo) \in SUBSET Kinds
         /\ \A k \in Held(r, request[r].todo) : row[request[r].todo][k].present
<1>1. request[r].todo \in Todos
  BY DispatchHasTodo DEF Release
<1>2. \A k \in Held(r, request[r].todo) : row[request[r].todo][k].present
  BY <1>1, Constants, TypeParts DEF Held, LeasedRows
<1>3. Held(r, request[r].todo) \in SUBSET Kinds
  BY DEF Held
<1> QED BY <1>1, <1>2, <1>3 DEF Release, GivesUp, Unleased

LEMMA ReleaseType ==
  ASSUME TypeOK, NEW r \in Requests, Release(r)
  PROVE  TypeOK'
<1> DEFINE t == request[r].todo
<1>1. /\ request[r].phase = "release" /\ Finish(r, "failed")
      /\ UNCHANGED <<clock, version, writes, todo, published, lapses, faults,
                     crashes>>
  BY DEF Release
<1>2. /\ t \in Todos
      /\ GivesUp(t, Held(r, t), Unleased)
      /\ Held(r, t) \in SUBSET Kinds
      /\ \A k \in Held(r, t) : row[t][k].present
  BY ReleaseGivesUp
<1> DEFINE held == Held(r, t)
<1> HIDE DEF t
<1>3. held \in SUBSET Kinds /\ GivesUp(t, held, Unleased)
      /\ \A k \in held : row[t][k].present
  BY <1>2
<1> HIDE DEF held
<1>4. /\ row' \in [Todos -> [Kinds -> Row]]
      /\ \A u \in Todos : u # t => row'[u] = row[u]
      /\ \A k \in Kinds :
            /\ row'[t][k].present => row[t][k].present
            /\ row'[t][k].receipt = None <=> row'[t][k].lease = "none"
            /\ row'[t][k].receipt # None =>
                  /\ row'[t][k].present
                  /\ row'[t][k].receipt = row[t][k].receipt
  BY <1>2, <1>3, GivenUpTables
<1>5. /\ request' \in [Requests -> Request]
      /\ \A q \in Requests : q # r => request'[q] = request[q]
      /\ request'[r].phase = "failed"
      /\ request'[r].todo = request[r].todo
      /\ request'[r].version = None /\ request'[r].base = None
  BY <1>1, FinishType, TypeParts DEF Phases
<1>6. Pairs' /\ \A u \in Todos, k \in Kinds :
         row[u][k].receipt # None => request'[row[u][k].receipt].todo = u
  BY <1>1, <1>5, DispatchHasTodo, RequestStepType
<1> QED BY <1>1, <1>2, <1>4, <1>5, <1>6, RowsType, TypeParts

LEMMA LeaseLapsesType ==
  ASSUME TypeOK, NEW r \in Requests, NEW t \in Todos, LeaseLapses(r, t)
  PROVE  TypeOK'
<1>1. /\ GivesLease(r, t, "lapsed") /\ lapses' \in Nat
      /\ UNCHANGED <<clock, version, writes, todo, published, request, faults,
                     crashes>>
  BY TypeParts DEF LeaseLapses, GivesLease
<1>2. /\ row' \in [Todos -> [Kinds -> Row]]
      /\ \A u \in Todos : u # t => row'[u] = row[u]
      /\ \A k \in Kinds :
            /\ row'[t][k].present <=> row[t][k].present
            /\ row'[t][k].receipt = row[t][k].receipt
            /\ row'[t][k].receipt = None <=> row'[t][k].lease = "none"
            /\ row'[t][k].receipt # None => row'[t][k].present
  BY <1>1, LeaseTables
<1>3. \A k \in Kinds :
         /\ row'[t][k].present => row[t][k].present
         /\ row'[t][k].receipt = None <=> row'[t][k].lease = "none"
         /\ row'[t][k].receipt # None =>
               row'[t][k].present /\ row'[t][k].receipt = row[t][k].receipt
  BY <1>2
<1>4. Pairs' /\ \A u \in Todos, k \in Kinds :
         row[u][k].receipt # None => request'[row[u][k].receipt].todo = u
  BY <1>1, TypeParts DEF Pairs, LeasedRows
<1> QED BY <1>1, <1>2, <1>3, <1>4, RowsType, TypeParts

\* Every step preserves the types.
LEMMA TypeStep == TypeOK /\ [Next]_vars => TypeOK'
<1> SUFFICES ASSUME TypeOK, [Next]_vars PROVE TypeOK'
  OBVIOUS
<1>1. ASSUME NEW r \in Requests, NEW t \in Todos, NEW user \in Users,
             Submit(r, t, user)
      PROVE  TypeOK'
  BY <1>1, StartType
<1>2. ASSUME NEW r \in Requests, Attempt(r) PROVE TypeOK'
  BY <1>2, AttemptType, CompleteType
<1>3. ASSUME NEW time \in 1 .. clock, SystemWrite(time) PROVE TypeOK'
  BY <1>3, SystemWriteType
<1>4. ASSUME NEW r \in Requests, NEW t \in Todos, Recover(r, t) PROVE TypeOK'
  BY <1>4, StartType
<1>5. ASSUME NEW r \in Requests, Dispatch(r) PROVE TypeOK'
  <2>1. CASE AllSent(r)
    BY <2>1, FinishesType, TypeParts DEF AllSent, Final
  <2> QED BY <1>5, <2>1, ClaimType, ExtendClaimType, SendType, DeleteRowType,
             DispatchErrorType, ReleaseType DEF Dispatch
<1>6. ASSUME NEW r \in Requests, NEW t \in Todos, LeaseLapses(r, t) PROVE TypeOK'
  BY <1>6, LeaseLapsesType
<1>7. ASSUME NEW r \in Requests, Crash(r) PROVE TypeOK'
  <2>1. request[r].phase # "idle" /\ crashes' \in Nat /\ Finish(r, "crashed")
    BY <1>7, TypeParts DEF Crash
  <2> QED BY <1>7, <2>1, FinishesType, TypeParts DEF Crash, Final
<1>8. CASE Tick
  BY <1>8, TypeParts, TypePartsNext DEF Tick, Pairs, LeasedRows
<1>9. CASE UNCHANGED vars
  BY <1>9, TypeParts, TypePartsNext DEF vars, Pairs, LeasedRows
<1> QED BY <1>1, <1>2, <1>3, <1>4, <1>5, <1>6, <1>7, <1>8, <1>9 DEF Next

\* Every reachable state is typed, and a receipt is held only on an existing
\* row of the holder's own, completed to-do (completeStep and the statements of
\* packages/sqlite-operations/src/lib/step-completion.ts).
THEOREM TypeCorrect == Spec => []TypeOK
  BY InitType, TypeStep, PTL DEF Spec

-----------------------------------------------------------------------------
\* What each kind of step does to requests and to the tables, for the
\* invariants below.

Attempting == {"inspect", "replay", "read", "commit"}
Dispatching == {"dispatch", "sending", "renewed", "sent", "release"}

\* One request moves, it keeps its to-do and its user, and what it knows of the
\* state it keeps, forgets or reads anew.
Moves(r) ==
    /\ request' \in [Requests -> Request]
    /\ \A q \in Requests : q # r => request'[q] = request[q]
    /\ request'[r].todo = request[r].todo
    /\ request'[r].user = request[r].user
    /\ \/ request'[r].version = None /\ request'[r].base = None
       \/ /\ request'[r].version = request[r].version
          /\ request'[r].base = request[r].base
       \/ request'[r].version = version /\ request'[r].base = Len(writes)

LEMMA GoMoves ==
  ASSUME TypeOK, NEW r \in Requests, NEW phase \in Phases, Go(r, phase)
  PROVE  Moves(r) /\ request'[r].phase = phase /\ request'[r].jobs = request[r].jobs
  BY GoType, TypeParts DEF Moves

LEMMA FinishMoves ==
  ASSUME TypeOK, NEW r \in Requests, NEW phase \in Phases, Finish(r, phase)
  PROVE  Moves(r) /\ request'[r].phase = phase
  BY FinishType, TypeParts DEF Moves

LEMMA RetryMoves ==
  ASSUME TypeOK, NEW r \in Requests, Retry(r)
  PROVE  Moves(r) /\ request'[r].phase \in {"inspect", "conflicted"}
  BY RetryType, TypeParts DEF Moves

\* An attempt goes on, ends, or answers for a to-do its user had completed.
LEMMA AttemptMoves ==
  ASSUME TypeOK, NEW r \in Requests, Attempt(r), ~Complete(r)
  PROVE  /\ UNCHANGED <<clock, version, writes, todo, row, published>>
         /\ request[r].phase \in Attempting
         /\ Moves(r)
         /\ \/ request'[r].phase \in
                  Attempting \cup {"conflicted", "rejected", "failed"}
            \/ /\ request'[r].phase = "dispatch"
               /\ CompleteToDoIfOpen(request[r].todo, request[r].user)
                     = "already-completed"
<1>1. /\ UNCHANGED <<clock, version, writes, todo, row, published>>
      /\ request[r].phase \in Attempting
  BY DEF Attempt, Inspect, ReadState, Reject, Replay, Overtaken, Conflict,
         DatabaseError, Attempting
<1>2. CASE Retry(r)
  BY <1>1, <1>2, RetryMoves DEF Attempting
<1>3. CASE Finish(r, "rejected") \/ Finish(r, "failed")
  BY <1>1, <1>3, FinishMoves DEF Phases
<1>4. CASE Inspect(r)
  <2>1. Moves(r) /\ request'[r].phase \in {"read", "replay"}
    <3>1. CASE todo[request[r].todo].open
      BY <1>4, <3>1, GoMoves DEF Inspect, Phases
    <3>2. CASE ~todo[request[r].todo].open
      BY <1>4, <3>2, GoMoves DEF Inspect, Phases
    <3> QED BY <3>1, <3>2
  <2> QED BY <1>1, <2>1 DEF Attempting
<1>5. CASE ReadState(r)
  <2>1. TypeOK'
    BY <1>5, AttemptType DEF Attempt
  <2>2. request' \in [Requests -> Request]
    BY <2>1, TypePartsNext
  <2>3. request \in [Requests -> Request]
    BY TypeParts
  <2>4. CASE todo[request[r].todo].open
    <3>1. request' = [request EXCEPT ![r].phase = "commit",
                                     ![r].version = version,
                                     ![r].base = Len(writes)]
      BY <1>5, <2>4 DEF ReadState
    <3>2. Moves(r) /\ request'[r].phase = "commit"
      BY <2>2, <2>3, <3>1 DEF Moves, Request
    <3> QED BY <1>1, <3>2 DEF Attempting
  <2>5. CASE ~todo[request[r].todo].open
    <3>1. request' = [request EXCEPT ![r].phase = "commit"]
      BY <1>5, <2>5 DEF ReadState
    <3>2. Moves(r) /\ request'[r].phase = "commit"
      BY <2>2, <2>3, <3>1 DEF Moves, Request
    <3> QED BY <1>1, <3>2 DEF Attempting
  <2> QED BY <2>4, <2>5
<1>6. CASE Overtaken(r)
  <2>1. /\ Go(r, "dispatch")
        /\ CompleteToDoIfOpen(request[r].todo, request[r].user)
              = "already-completed"
    BY <1>6 DEF Overtaken
  <2> QED BY <1>1, <2>1, GoMoves DEF Phases
<1>7. CASE Replay(r)
  <2>1. \/ Retry(r)
        \/ /\ Go(r, "dispatch")
           /\ CompleteToDoIfOpen(request[r].todo, request[r].user)
                 = "already-completed"
    BY <1>7 DEF Replay
  <2> QED BY <1>1, <1>2, <2>1, GoMoves DEF Phases
<1> QED BY <1>2, <1>3, <1>4, <1>5, <1>6, <1>7
        DEF Attempt, Reject, Conflict, DatabaseError

\* Dispatching goes on or ends, and neither the state nor a to-do changes.
LEMMA DispatchMoves ==
  ASSUME TypeOK, NEW r \in Requests, Dispatch(r)
  PROVE  /\ UNCHANGED <<clock, version, writes, todo>>
         /\ request[r].phase \in Dispatching
         /\ Moves(r)
         /\ request'[r].phase \in Dispatching \cup {"succeeded", "failed"}
         /\ request'[r].phase = "sent" => Send(r)
<1>1. /\ UNCHANGED <<clock, version, writes, todo>>
      /\ request[r].phase \in Dispatching
  BY DEF Dispatch, ClaimRows, AllSent, ExtendClaim, Send, DeleteRow, DispatchError,
         Release, Dispatching
<1>2. CASE Finish(r, "succeeded") \/ Finish(r, "failed")
  BY <1>1, <1>2, FinishMoves DEF Phases
<1>3. CASE ClaimRows(r)
  BY <1>1, <1>3, ClaimTables DEF Moves, Dispatching
<1>4. CASE Go(r, "renewed") \/ Go(r, "release")
  BY <1>1, <1>4, GoMoves DEF Phases, Dispatching
<1>5. CASE Send(r)
  <2>1. Go(r, "sent")
    BY <1>5 DEF Send
  <2> QED BY <1>1, <1>5, <2>1, GoMoves DEF Phases, Dispatching
<1>6. CASE DeleteRow(r) /\ ~Finish(r, "succeeded")
  <2>1. TypeOK'
    BY <1>6, DeleteRowType
  <2>2. request' \in [Requests -> Request]
    BY <2>1, TypePartsNext
  <2>3. request \in [Requests -> Request]
    BY TypeParts
  <2> DEFINE k == NextJob(request[r].jobs)
  <2>4. request' = [request EXCEPT ![r].phase = "sending", ![r].jobs = @ \ {k}]
    BY <1>6 DEF DeleteRow
  <2> HIDE DEF k
  <2>5. Moves(r) /\ request'[r].phase = "sending"
    BY <2>2, <2>3, <2>4 DEF Moves, Request
  <2> QED BY <1>1, <2>5 DEF Dispatching
<1> QED BY <1>2, <1>3, <1>4, <1>5, <1>6
        DEF Dispatch, AllSent, ExtendClaim, DispatchError, Release

LEMMA CrashMoves ==
  ASSUME TypeOK, NEW r \in Requests, Crash(r)
  PROVE  /\ UNCHANGED <<clock, version, writes, todo, row, published>>
         /\ Moves(r)
         /\ request'[r].phase = "crashed"
  BY FinishMoves DEF Crash, Phases

\* A request starts: an attempt with a user, or a recovery of what is pending.
LEMMA StartMoves ==
  ASSUME TypeOK, NEW r \in Requests, NEW t \in Todos,
         (\E user \in Users : Submit(r, t, user)) \/ Recover(r, t)
  PROVE  /\ UNCHANGED <<clock, version, writes, todo, row, published>>
         /\ request[r].phase = "idle"
         /\ request' \in [Requests -> Request]
         /\ \A q \in Requests : q # r => request'[q] = request[q]
         /\ \/ /\ request'[r].phase = "inspect"
               /\ request'[r].version = None /\ request'[r].base = None
            \/ /\ request'[r].phase = "dispatch"
               /\ request'[r].user = request[r].user
               /\ request'[r].version = request[r].version
               /\ request'[r].base = request[r].base
<1>1. TypeOK'
  BY StartType
<1>2. request' \in [Requests -> Request]
  BY <1>1, TypePartsNext
<1>3. request \in [Requests -> Request]
  BY TypeParts
<1>4. ASSUME NEW user \in Users, Submit(r, t, user)
      PROVE  /\ \A q \in Requests : q # r => request'[q] = request[q]
             /\ request'[r].phase = "inspect"
             /\ request'[r].version = None /\ request'[r].base = None
  BY <1>3, <1>4 DEF Submit, Idle
<1>5. CASE Recover(r, t)
  BY <1>2, <1>3, <1>5 DEF Recover, Request
<1> QED BY <1>2, <1>4, <1>5 DEF Submit, Recover

-----------------------------------------------------------------------------
\* A completion merges into the state it was validated against, as long as no
\* system step writes: every other writer of the state compares the version and
\* increases it, so a version names one state.

Snapshots ==
    \A r \in Requests :
        request[r].base # None =>
            /\ request[r].version \in Nat
            /\ request[r].version <= version
            /\ request[r].version = version => request[r].base = Len(writes)

ValidInv == TypeOK /\ (OnlyRequestsWrite => Snapshots /\ ValidatedState)

LEMMA SnapshotsKept ==
  ASSUME TypeOK, Snapshots, UNCHANGED <<version, writes>>, NEW r \in Requests,
         Moves(r)
  PROVE  Snapshots'
<1>1. version \in Nat /\ version \notin {None}
  BY TypeParts, Constants
<1>2. \A q \in Requests \ {r} : request'[q] = request[q]
  BY DEF Moves
<1>3. \/ request'[r].version = None /\ request'[r].base = None
      \/ /\ request'[r].version = request[r].version
         /\ request'[r].base = request[r].base
      \/ request'[r].version = version /\ request'[r].base = Len(writes)
  BY DEF Moves
<1> QED BY <1>1, <1>2, <1>3 DEF Snapshots

\* Patches are only appended: what a request has not written stays so.
LEMMA WritesStay ==
  ASSUME TypeOK, NEW P \in Seq(Patch), writes' = writes \o P,
         OnlyRequestsWrite'
  PROVE  OnlyRequestsWrite
<1>1. writes \in Seq(Patch) /\ Len(writes) \in Nat /\ Len(P) \in Nat
  BY TypeParts
<1>2. /\ DOMAIN writes = 1 .. Len(writes)
      /\ DOMAIN writes' = 1 .. Len(writes) + Len(P)
      /\ \A i \in 1 .. Len(writes) : writes'[i] = writes[i]
  BY <1>1, ConcatProperties
<1> QED BY <1>1, <1>2 DEF OnlyRequestsWrite

LEMMA SystemWrites ==
  ASSUME TypeOK, NEW time \in 1 .. clock, SystemWrite(time)
  PROVE  ~OnlyRequestsWrite'
<1>1. writes \in Seq(Patch) /\ Len(writes) \in Nat
  BY TypeParts
<1>2. writes' = Append(writes, Merged(SystemStep, Len(writes)))
  BY DEF SystemWrite
<1>3. /\ Len(writes) + 1 \in DOMAIN writes'
      /\ writes'[Len(writes) + 1] = Merged(SystemStep, Len(writes))
  BY <1>1, <1>2
<1>4. Merged(SystemStep, Len(writes)).by = SystemStep
  BY DEF Merged
<1> QED BY <1>3, <1>4 DEF OnlyRequestsWrite

\* A completion appends patches whose base is their place.
LEMMA CompleteIsValid ==
  ASSUME TypeOK, Snapshots, ValidatedState, NEW r \in Requests, Complete(r)
  PROVE  Snapshots' /\ ValidatedState'
<1> DEFINE P == Patches(r)
<1>1. /\ writes' = writes \o P
      /\ version' = VersionAfter(r, P)
      /\ Go(r, "dispatch")
  BY DEF Complete
<1>2. writes \in Seq(Patch) /\ version \in Nat /\ Len(writes) \in Nat
  BY TypeParts
<1>3. Merges(r) => /\ request[r].version = version
                   /\ request[r].base \in Nat
                   /\ request[r].base = Len(writes)
  <2> SUFFICES ASSUME Merges(r)
               PROVE  /\ request[r].version = version
                      /\ request[r].base \in Nat
                      /\ request[r].base = Len(writes)
    OBVIOUS
  <2>1. request[r].version = version /\ request[r].base \in Nat
    BY CompletesUnchanged
  <2>2. request[r].base # None
    BY <2>1, Constants
  <2> QED BY <2>1, <2>2 DEF Snapshots
<1>4. /\ P \in Seq(Patch)
      /\ Len(P) \in 0 .. 2
      /\ Len(P) = 0 <=> ~Merges(r)
      /\ \A i \in 1 .. Len(P) : P[i].base = request[r].base + i - 1
  BY <1>3, PatchesAre
<1> HIDE DEF P
<1>5. /\ version' \in Nat
      /\ Len(P) = 0 => version' = version
      /\ Len(P) # 0 => version' > version
  BY <1>1, <1>4, VersionGrows
<1>6. /\ writes' \in Seq(Patch)
      /\ Len(writes') = Len(writes) + Len(P)
      /\ \A i \in 1 .. Len(writes') :
            writes'[i] = IF i <= Len(writes) THEN writes[i] ELSE P[i - Len(writes)]
  BY <1>1, <1>2, <1>4, ConcatProperties
<1>7. Snapshots'
  <2> SUFFICES ASSUME NEW q \in Requests, request'[q].base # None
               PROVE  /\ request'[q].version \in Nat
                      /\ request'[q].version <= version'
                      /\ request'[q].version = version' =>
                            request'[q].base = Len(writes')
    BY DEF Snapshots
  <2>1. /\ request'[q].version = request[q].version
        /\ request'[q].base = request[q].base
    BY <1>1, GoType, TypeParts DEF Phases
  <2>2. /\ request[q].version \in Nat
        /\ request[q].version <= version
        /\ request[q].version = version => request[q].base = Len(writes)
    BY <2>1 DEF Snapshots
  <2>3. CASE Len(P) = 0
    BY <1>2, <1>5, <1>6, <2>1, <2>2, <2>3
  <2>4. CASE Len(P) # 0
    BY <1>2, <1>5, <2>1, <2>2, <2>4
  <2> QED BY <2>3, <2>4
<1>8. ValidatedState'
  <2> SUFFICES ASSUME NEW i \in 1 .. Len(writes'), writes'[i].by # SystemStep
               PROVE  writes'[i].base = i - 1
    BY <1>6 DEF ValidatedState
  <2>1. CASE i <= Len(writes)
    <3>1. writes'[i] = writes[i] /\ i \in DOMAIN writes
      BY <1>2, <1>6, <2>1
    <3> QED BY <3>1 DEF ValidatedState
  <2>2. CASE i > Len(writes)
    <3>1. i - Len(writes) \in 1 .. Len(P)
      BY <1>2, <1>4, <1>6, <2>2
    <3>2. writes'[i] = P[i - Len(writes)]
      BY <1>2, <1>6, <2>2
    <3>3. writes'[i].base = request[r].base + (i - Len(writes)) - 1
      BY <1>4, <3>1, <3>2
    <3>4. request[r].base = Len(writes)
      BY <1>3, <1>4, <3>1
    <3> QED BY <1>2, <3>3, <3>4
  <2> QED BY <1>2, <2>1, <2>2
<1> QED BY <1>7, <1>8

LEMMA ValidStep ==
  ASSUME ValidInv, [Next]_vars
  PROVE  ValidInv'
<1>1. TypeOK /\ TypeOK'
  BY TypeStep DEF ValidInv
<1> SUFFICES ASSUME OnlyRequestsWrite' PROVE Snapshots' /\ ValidatedState'
  BY <1>1 DEF ValidInv
<1>10. \A time \in 1 .. clock : ~SystemWrite(time)
  BY <1>1, SystemWrites
<1>12. OnlyRequestsWrite
  <2>1. CASE UNCHANGED writes
    BY <2>1 DEF OnlyRequestsWrite
  <2>2. ASSUME NEW r \in Requests, Complete(r) PROVE OnlyRequestsWrite
    <3>1. Patches(r) \in Seq(Patch)
      BY <1>1, <2>2, CompletesUnchanged, PatchesAre
    <3>2. writes' = writes \o Patches(r)
      BY <2>2 DEF Complete
    <3> QED BY <1>1, <3>1, <3>2, WritesStay
  <2>3. ASSUME NEW r \in Requests, Attempt(r) PROVE OnlyRequestsWrite
    BY <1>1, <2>1, <2>2, <2>3, AttemptMoves
  <2>4. ASSUME NEW r \in Requests, NEW t \in Todos,
               (\E user \in Users : Submit(r, t, user)) \/ Recover(r, t)
        PROVE  UNCHANGED writes
    BY <1>1, <2>4, StartMoves
  <2>5. ASSUME NEW r \in Requests, Dispatch(r) \/ Crash(r) PROVE UNCHANGED writes
    BY <1>1, <2>5, DispatchMoves, CrashMoves
  <2>6. ASSUME NEW r \in Requests, NEW t \in Todos, LeaseLapses(r, t)
        PROVE  UNCHANGED writes
    BY <2>6 DEF LeaseLapses
  <2>7. ASSUME Tick \/ UNCHANGED vars PROVE UNCHANGED writes
    BY <2>7 DEF Tick, vars
  <2>8. ASSUME NEW r \in Requests, NEW t \in Todos, NEW user \in Users,
               Submit(r, t, user)
        PROVE  UNCHANGED writes
    BY <2>4, <2>8
  <2> QED BY <1>10, <2>1, <2>3, <2>4, <2>5, <2>6, <2>7, <2>8 DEF Next
<1>13. Snapshots /\ ValidatedState
  BY <1>12 DEF ValidInv
<1>2. ASSUME UNCHANGED <<version, writes>> PROVE ValidatedState'
  BY <1>2, <1>13 DEF ValidatedState
<1>3. ASSUME UNCHANGED <<version, writes, request>> PROVE Snapshots'
  BY <1>3, <1>13 DEF Snapshots
<1>4. ASSUME NEW r \in Requests, NEW t \in Todos,
             (\E user \in Users : Submit(r, t, user)) \/ Recover(r, t)
      PROVE  Snapshots' /\ ValidatedState'
  <2>1. /\ UNCHANGED <<version, writes>>
        /\ \A q \in Requests : q # r => request'[q] = request[q]
        /\ \/ request'[r].base = None
           \/ /\ request'[r].version = request[r].version
              /\ request'[r].base = request[r].base
    BY <1>1, <1>4, StartMoves
  <2> QED BY <1>2, <1>13, <2>1 DEF Snapshots
<1>5. ASSUME NEW r \in Requests, Attempt(r) PROVE Snapshots' /\ ValidatedState'
  <2>1. CASE Complete(r)
    BY <1>1, <1>13, <2>1, CompleteIsValid
  <2>2. CASE ~Complete(r)
    BY <1>1, <1>2, <1>5, <1>13, <2>2, AttemptMoves, SnapshotsKept
  <2> QED BY <2>1, <2>2
<1>6. ASSUME NEW r \in Requests, Dispatch(r) PROVE Snapshots' /\ ValidatedState'
  BY <1>1, <1>2, <1>6, <1>13, DispatchMoves, SnapshotsKept
<1>7. ASSUME NEW r \in Requests, Crash(r) PROVE Snapshots' /\ ValidatedState'
  BY <1>1, <1>2, <1>7, <1>13, CrashMoves, SnapshotsKept
<1>8. ASSUME NEW r \in Requests, NEW t \in Todos, LeaseLapses(r, t)
      PROVE  Snapshots' /\ ValidatedState'
  BY <1>2, <1>3, <1>8 DEF LeaseLapses
<1>9. ASSUME Tick \/ UNCHANGED vars PROVE Snapshots' /\ ValidatedState'
  BY <1>2, <1>3, <1>9 DEF Tick, vars
<1>11. ASSUME NEW r \in Requests, NEW t \in Todos, NEW user \in Users,
              Submit(r, t, user)
       PROVE  Snapshots' /\ ValidatedState'
  BY <1>4, <1>11
<1> QED
  BY <1>4, <1>5, <1>6, <1>7, <1>8, <1>9, <1>10, <1>11 DEF Next

\* As long as no system step has written the state, every completion is merged
\* into exactly the state it was validated against, whatever the clock does
\* (updateProcessStateIfUnchanged, appendProcessStateArrayItemIfUnchanged and
\* nextProcessStateVersion).  The condition is needed: completion_stale_state
\* shows ValidatedState violated by the writes of system steps.
THEOREM CompletionsAreValidated == Spec => []ValidatedAmongRequests
<1>1. Init => ValidInv
  <2> SUFFICES ASSUME Init PROVE ValidInv
    OBVIOUS
  <2>1. Snapshots
    BY DEF Init, Idle, Snapshots
  <2>2. ValidatedState
    <3>1. DOMAIN writes = {}
      BY DEF Init
    <3> QED BY <3>1 DEF ValidatedState
  <2> QED BY <2>1, <2>2, InitType DEF ValidInv
<1>2. ValidInv /\ [Next]_vars => ValidInv'
  BY ValidStep
<1>3. ValidInv => ValidatedAmongRequests
  BY DEF ValidInv, ValidatedAmongRequests
<1> QED BY <1>1, <1>2, <1>3, PTL DEF Spec
-----------------------------------------------------------------------------
\* The answer tells the truth: a request that has not completed its to-do left
\* nothing behind, one that answers success found or made the to-do completed by
\* its user, and a completed to-do keeps its user.

Untold == {"idle", "conflicted", "rejected"} \cup Attempting
Answering == {"succeeded"} \cup Dispatching

NothingLeft(r) ==
    /\ \A i \in DOMAIN writes : writes[i].by # r
    /\ \A t \in Todos : todo[t].winner # r

ClosedFor(r) ==
    /\ ~todo[request[r].todo].open
    /\ todo[request[r].todo].user = request[r].user

TruthInv ==
    /\ TypeOK
    /\ \A r \in Requests :
           /\ request[r].phase = "idle" => request[r].user = None
           /\ request[r].phase \in Untold => NothingLeft(r)
           /\ request[r].phase \in Answering /\ request[r].user # None
              => ClosedFor(r)

\* A step of one request that leaves the tables alone: the others are as before.
LEMMA TruthKept ==
  ASSUME TruthInv, TypeOK', UNCHANGED <<writes, todo>>, NEW r \in Requests,
         \A q \in Requests : q # r => request'[q] = request[q],
         request'[r].phase = "idle" => request'[r].user = None,
         request'[r].phase \in Untold => request[r].phase \in Untold,
         request'[r].phase \in Answering /\ request'[r].user # None
            => ClosedFor(r)'
  PROVE  TruthInv'
<1>1. ASSUME NEW q \in Requests
      PROVE  /\ request'[q].phase = "idle" => request'[q].user = None
             /\ request'[q].phase \in Untold => NothingLeft(q)'
             /\ request'[q].phase \in Answering /\ request'[q].user # None
                => ClosedFor(q)'
  <2>1. NothingLeft(q)' <=> NothingLeft(q)
    BY DEF NothingLeft
  <2>2. request[q].phase \in Untold => NothingLeft(q)
    BY DEF TruthInv
  <2>3. CASE q = r
    BY <2>1, <2>2, <2>3
  <2>4. CASE q # r
    <3>1. request'[q] = request[q]
      BY <2>4
    <3>2. ClosedFor(q)' <=> ClosedFor(q)
      BY <3>1 DEF ClosedFor
    <3> QED BY <2>1, <3>1, <3>2 DEF TruthInv
  <2> QED BY <2>3, <2>4
<1> QED BY <1>1 DEF TruthInv

\* A completion closes an open to-do; the answers about other to-dos, and what
\* unsuccessful requests left, stay as they are.
LEMMA CompleteTruth ==
  ASSUME TruthInv, NEW r \in Requests, Complete(r)
  PROVE  TruthInv'
<1>1. TypeOK /\ TypeOK'
  BY CompleteType DEF TruthInv
<1>2. Go(r, "dispatch")
  BY DEF Complete
<1>3. /\ \A q \in Requests : q # r => request'[q] = request[q]
      /\ request'[r].phase = "dispatch"
      /\ request'[r].todo = request[r].todo
      /\ request'[r].user = request[r].user
  BY <1>1, <1>2, GoType, TypeParts DEF Phases
<1> DEFINE u == request[r].todo
<1>4. /\ u \in Todos /\ todo[u].open
      /\ ~todo'[u].open
      /\ todo'[u].user = request[r].user /\ todo'[u].winner = r
      /\ \A t \in Todos : t # u => todo'[t] = todo[t]
      /\ writes' = writes \o Patches(r)
  BY <1>1, CompleteTables
<1> HIDE DEF u
<1>5. ASSUME NEW q \in Requests, q # r, request[q].phase \in Untold
      PROVE  NothingLeft(q)'
  <2>1. NothingLeft(q)
    BY <1>5 DEF TruthInv
  <2>2. \A t \in Todos : todo'[t].winner # q
    BY <1>4, <1>5, <2>1 DEF NothingLeft
  <2>3. \A i \in DOMAIN writes' : writes'[i].by # q
    <3> DEFINE P == Patches(r)
    <3>1. Merges(r) => request[r].base \in Nat
      BY <1>1, CompletesUnchanged
    <3>2. /\ P \in Seq(Patch) /\ Len(P) \in Nat
          /\ \A i \in 1 .. Len(P) : P[i].by = r
      BY <1>1, <3>1, PatchesAre
    <3> HIDE DEF P
    <3>3. writes \in Seq(Patch) /\ Len(writes) \in Nat
      BY <1>1, TypeParts
    <3>4. /\ writes' \in Seq(Patch)
          /\ Len(writes') = Len(writes) + Len(P)
          /\ \A i \in 1 .. Len(writes') :
                writes'[i] = IF i <= Len(writes) THEN writes[i]
                             ELSE P[i - Len(writes)]
      BY <1>4, <3>2, <3>3, ConcatProperties DEF P
    <3>5. ASSUME NEW i \in 1 .. Len(writes')
          PROVE  writes'[i].by # q
      <4>1. CASE i <= Len(writes)
        <5>1. i \in DOMAIN writes /\ writes'[i] = writes[i]
          BY <3>3, <3>4, <4>1
        <5> QED BY <2>1, <5>1 DEF NothingLeft
      <4>2. CASE i > Len(writes)
        <5>1. i - Len(writes) \in 1 .. Len(P)
          BY <3>2, <3>3, <3>4, <4>2
        <5>2. writes'[i] = P[i - Len(writes)]
          BY <3>3, <3>4, <4>2
        <5> QED BY <1>5, <3>2, <5>1, <5>2
      <4> QED BY <3>3, <4>1, <4>2
    <3> QED BY <3>4, <3>5
  <2> QED BY <2>2, <2>3 DEF NothingLeft
<1>6. ASSUME NEW q \in Requests, q # r, request[q].phase \in Answering,
             request[q].user # None
      PROVE  ClosedFor(q)'
  <2>1. ClosedFor(q)
    BY <1>6 DEF TruthInv
  <2>2. request[q].phase # "idle"
    BY <1>6 DEF Answering, Dispatching
  <2>3. request[q].todo \in Todos
    BY <1>1, <2>2, DispatchHasTodo
  <2>4. request[q].todo # u
    BY <1>4, <2>1 DEF ClosedFor
  <2> QED BY <1>3, <1>4, <1>6, <2>1, <2>3, <2>4 DEF ClosedFor
<1>7. ClosedFor(r)'
  BY <1>3, <1>4 DEF ClosedFor, u
<1>8. ASSUME NEW q \in Requests
      PROVE  /\ request'[q].phase = "idle" => request'[q].user = None
             /\ request'[q].phase \in Untold => NothingLeft(q)'
             /\ request'[q].phase \in Answering /\ request'[q].user # None
                => ClosedFor(q)'
  <2>1. CASE q = r
    BY <1>3, <1>7, <2>1 DEF Untold, Attempting
  <2>2. CASE q # r
    <3>1. request'[q] = request[q]
      BY <1>3, <2>2
    <3> QED BY <1>5, <1>6, <2>2, <3>1 DEF TruthInv
  <2> QED BY <2>1, <2>2
<1> QED BY <1>1, <1>8 DEF TruthInv

LEMMA SystemWriteTruth ==
  ASSUME TruthInv, NEW time \in 1 .. clock, SystemWrite(time)
  PROVE  TruthInv'
<1>1. TypeOK /\ TypeOK'
  BY SystemWriteType DEF TruthInv
<1>2. /\ UNCHANGED <<todo, request>>
      /\ writes' = Append(writes, Merged(SystemStep, Len(writes)))
  BY DEF SystemWrite
<1>3. writes \in Seq(Patch) /\ Len(writes) \in Nat
  BY <1>1, TypeParts
<1>4. Merged(SystemStep, Len(writes)) \in Patch
  BY <1>3 DEF Merged, Patch
<1>5. /\ DOMAIN writes' = 1 .. Len(writes) + 1
      /\ \A i \in 1 .. Len(writes) : writes'[i] = writes[i]
      /\ writes'[Len(writes) + 1].by = SystemStep
  BY <1>2, <1>3, <1>4, AppendProperties DEF Merged
<1>6. ASSUME NEW r \in Requests, NothingLeft(r) PROVE NothingLeft(r)'
  BY <1>2, <1>3, <1>5, <1>6, Constants DEF NothingLeft
<1>7. ASSUME NEW r \in Requests PROVE ClosedFor(r)' <=> ClosedFor(r)
  BY <1>2 DEF ClosedFor
<1> QED BY <1>1, <1>2, <1>6, <1>7 DEF TruthInv

LEMMA TruthStep ==
  ASSUME TruthInv, [Next]_vars
  PROVE  TruthInv'
<1>1. TypeOK /\ TypeOK'
  BY TypeStep DEF TruthInv
<1>2. ASSUME NEW r \in Requests, NEW t \in Todos,
             (\E user \in Users : Submit(r, t, user)) \/ Recover(r, t)
      PROVE  TruthInv'
  <2>1. /\ UNCHANGED <<writes, todo>>
        /\ request[r].phase = "idle"
        /\ \A q \in Requests : q # r => request'[q] = request[q]
        /\ \/ request'[r].phase = "inspect"
           \/ /\ request'[r].phase = "dispatch"
              /\ request'[r].user = request[r].user
    BY <1>1, <1>2, StartMoves
  <2>2. request[r].user = None
    BY <2>1 DEF TruthInv
  <2> QED BY <1>1, <2>1, <2>2, TruthKept
          DEF Untold, Answering, Attempting, Dispatching
<1>3. ASSUME NEW r \in Requests, Attempt(r) PROVE TruthInv'
  <2>1. CASE Complete(r)
    BY <2>1, CompleteTruth
  <2>2. CASE ~Complete(r)
    <3>1. /\ UNCHANGED <<writes, todo>>
          /\ request[r].phase \in Attempting
          /\ \A q \in Requests : q # r => request'[q] = request[q]
          /\ request'[r].todo = request[r].todo
          /\ request'[r].user = request[r].user
          /\ \/ request'[r].phase \in
                   Attempting \cup {"conflicted", "rejected", "failed"}
             \/ /\ request'[r].phase = "dispatch"
                /\ CompleteToDoIfOpen(request[r].todo, request[r].user)
                      = "already-completed"
      BY <1>1, <1>3, <2>2, AttemptMoves DEF Moves
    <3>2. CASE request'[r].phase = "dispatch"
      <4>1. ClosedFor(r)
        BY <3>1, <3>2 DEF CompleteToDoIfOpen, ClosedFor, Attempting
      <4>2. ClosedFor(r)'
        BY <3>1, <4>1 DEF ClosedFor
      <4> QED BY <1>1, <3>1, <3>2, <4>2, TruthKept DEF Untold, Attempting
    <3>3. CASE request'[r].phase # "dispatch"
      BY <1>1, <3>1, <3>3, TruthKept
         DEF Untold, Answering, Attempting, Dispatching
    <3> QED BY <3>2, <3>3
  <2> QED BY <2>1, <2>2
<1>4. ASSUME NEW r \in Requests, Dispatch(r) PROVE TruthInv'
  <2>1. /\ UNCHANGED <<writes, todo>>
        /\ request[r].phase \in Dispatching
        /\ \A q \in Requests : q # r => request'[q] = request[q]
        /\ request'[r].todo = request[r].todo
        /\ request'[r].user = request[r].user
        /\ request'[r].phase \in Dispatching \cup {"succeeded", "failed"}
    BY <1>1, <1>4, DispatchMoves DEF Moves
  <2>2. request'[r].user # None => ClosedFor(r)'
    BY <2>1 DEF TruthInv, ClosedFor, Answering
  <2> QED BY <1>1, <2>1, <2>2, TruthKept DEF Untold, Attempting, Dispatching
<1>5. ASSUME NEW r \in Requests, Crash(r) PROVE TruthInv'
  <2>1. /\ UNCHANGED <<writes, todo>>
        /\ \A q \in Requests : q # r => request'[q] = request[q]
        /\ request'[r].phase = "crashed"
    BY <1>1, <1>5, CrashMoves DEF Moves
  <2> QED BY <1>1, <2>1, TruthKept DEF Untold, Answering, Attempting, Dispatching
<1>6. ASSUME UNCHANGED <<writes, todo, request>> PROVE TruthInv'
  BY <1>1, <1>6 DEF TruthInv, NothingLeft, ClosedFor
<1>7. ASSUME NEW r \in Requests, NEW t \in Todos, LeaseLapses(r, t) PROVE TruthInv'
  BY <1>6, <1>7 DEF LeaseLapses
<1>8. CASE Tick \/ UNCHANGED vars
  BY <1>6, <1>8 DEF Tick, vars
<1>9. ASSUME NEW r \in Requests, NEW t \in Todos, NEW user \in Users,
             Submit(r, t, user)
      PROVE  TruthInv'
  BY <1>2, <1>9
<1> QED BY <1>2, <1>3, <1>4, <1>5, <1>7, <1>8, <1>9, SystemWriteTruth DEF Next

\* No request has left anything at first.
LEMMA InitTruth == Init => TruthInv
<1> SUFFICES ASSUME Init PROVE TruthInv
  OBVIOUS
<1>1. \A r \in Requests : request[r].phase = "idle" /\ request[r].user = None
  BY DEF Init, Idle
<1>2. DOMAIN writes = {} /\ \A t \in Todos : todo[t].winner = None
  BY DEF Init
<1>3. \A r \in Requests : NothingLeft(r)
  BY <1>2, Constants DEF NothingLeft
<1> QED BY <1>1, <1>3, InitType DEF TruthInv

\* The answer tells the truth: success means the to-do is completed in this
\* user's name, a conflict or a rejection that nothing of the request was kept,
\* whatever other requests, system steps, faults and crashes come between
\* (completeStep, its retries and StepCompletionConflictError).
THEOREM AnswersAreTrue == Spec => []AnswerIsTrue
<1>1. Init => TruthInv
  BY InitTruth
<1>2. TruthInv /\ [Next]_vars => TruthInv'
  BY TruthStep
<1>3. TruthInv => AnswerIsTrue
  BY DEF TruthInv, AnswerIsTrue, NothingLeft, ClosedFor, Untold, Answering
<1> QED BY <1>1, <1>2, <1>3, PTL DEF Spec

-----------------------------------------------------------------------------
\* The state holds the patch of the request that completed a to-do, once: an open
\* to-do has none, and a request that completes one has written nothing before.

\* The patches a completion of t by a user leaves.
Expected(t, user) ==
    IF t \in ForEachTodos
    THEN (IF user \in Identified THEN 2 ELSE 1)
    ELSE (IF PatchIsEmpty(user) THEN 0 ELSE 1)

WrittenInv == TruthInv /\ WrittenOnce

\* How many patches a completion merges.
LEMMA PatchCount ==
  ASSUME TypeOK, NEW r \in Requests, Merges(r) => request[r].base \in Nat
  PROVE  Len(Patches(r)) = Expected(request[r].todo, request[r].user)
<1> DEFINE n == IF /\ request[r].todo \in ForEachTodos
                   /\ request[r].user \in Identified
                THEN 2 ELSE 1
           patches == [i \in 1 .. n |-> Merged(r, request[r].base + i - 1)]
<1>1. CASE Merges(r)
  <2>1. n \in Nat /\ Patches(r) = patches /\ Patches(r) \in Seq(Patch)
    BY <1>1, PatchesAre DEF Patches
  <2>2. DOMAIN Patches(r) = 1 .. n
    BY <2>1
  <2> HIDE DEF n, patches
  <2>3. Len(Patches(r)) = n
    BY <2>1, <2>2
  <2> QED BY <1>1, <2>3 DEF Merges, Expected, n
<1>2. CASE ~Merges(r)
  <2>1. Len(Patches(r)) = 0
    BY <1>2, PatchesAre
  <2> QED BY <1>2, <2>1 DEF Merges, Expected
<1> QED BY <1>1, <1>2

\* Whoever wrote a patch is a request, if no system step.
LEMMA Writers ==
  ASSUME TypeOK, NEW i \in DOMAIN writes, writes[i].by # SystemStep
  PROVE  writes[i].by \in Requests
<1>1. writes \in Seq(Patch)
  BY TypeParts
<1>2. i \in 1 .. Len(writes)
  BY <1>1
<1>3. writes[i] \in Patch
  BY <1>1, <1>2, ElementOfSeq
<1> QED BY <1>3 DEF Patch

\* Steps that write nothing: the writers keep their to-dos.
LEMMA WrittenKept ==
  ASSUME TypeOK, WrittenOnce, UNCHANGED <<writes, todo>>,
         \A r \in Requests : ~NothingLeft(r) => request'[r].todo = request[r].todo
  PROVE  WrittenOnce'
<1>1. ASSUME NEW i \in DOMAIN writes, writes[i].by # SystemStep
      PROVE  request'[writes[i].by].todo = request[writes[i].by].todo
  <2>1. writes[i].by \in Requests
    BY <1>1, Writers
  <2> QED BY <1>1, <2>1 DEF NothingLeft
<1>2. \A t \in Todos : WritesOf(t)' = WritesOf(t)
  BY <1>1 DEF WritesOf
<1> QED BY <1>2 DEF WrittenOnce

\* A completion: its patches are the only ones of its to-do.
LEMMA CompleteWritten ==
  ASSUME WrittenInv, NEW r \in Requests, Complete(r)
  PROVE  WrittenOnce'
<1>1. TypeOK
  BY DEF WrittenInv, TruthInv
<1>2. PICK u, user, P :
         u = request[r].todo /\ user = request[r].user /\ P = Patches(r)
  OBVIOUS
<1>3. /\ u \in Todos /\ todo[u].open
      /\ ~todo'[u].open
      /\ todo'[u].user = user /\ todo'[u].winner = r
      /\ \A t \in Todos : t # u => todo'[t] = todo[t]
      /\ writes' = writes \o P
  <2>1. /\ request[r].todo \in Todos /\ todo[request[r].todo].open
        /\ ~todo'[request[r].todo].open
        /\ todo'[request[r].todo].user = request[r].user
        /\ todo'[request[r].todo].winner = r
        /\ \A t \in Todos : t # request[r].todo => todo'[t] = todo[t]
        /\ writes' = writes \o Patches(r)
    BY <1>1, CompleteTables
  <2> QED BY <1>2, <2>1
<1>4. \A q \in Requests : request'[q].todo = request[q].todo
  <2>1. Go(r, "dispatch")
    BY DEF Complete
  <2> QED BY <1>1, <2>1, GoType, TypeParts DEF Phases
<1>5. /\ P \in Seq(Patch) /\ Len(P) \in Nat /\ Len(P) = Expected(u, user)
      /\ \A i \in 1 .. Len(P) : P[i].by = r
  <2>1. Merges(r) => request[r].base \in Nat
    BY <1>1, CompletesUnchanged
  <2> QED BY <1>1, <1>2, <2>1, PatchesAre, PatchCount
<1>6. writes \in Seq(Patch) /\ Len(writes) \in Nat
  BY <1>1, TypeParts
<1>7. PICK m, n : m = Len(writes) /\ n = Len(P) /\ m \in Nat /\ n \in Nat
  BY <1>5, <1>6
<1>8. /\ DOMAIN writes = 1 .. m
      /\ DOMAIN writes' = 1 .. m + n
      /\ \A i \in 1 .. m : writes'[i] = writes[i]
      /\ \A i \in m + 1 .. m + n : writes'[i].by = r
  <2>1. /\ writes' \in Seq(Patch)
        /\ Len(writes') = m + n
        /\ \A i \in 1 .. Len(writes') :
              writes'[i] = IF i <= m THEN writes[i] ELSE P[i - m]
    BY <1>3, <1>5, <1>6, <1>7, ConcatProperties
  <2>2. \A i \in m + 1 .. m + n : i - m \in 1 .. n /\ i \in 1 .. m + n /\ ~(i <= m)
    BY <1>7
  <2>3. \A i \in 1 .. m : i \in 1 .. m + n /\ i <= m
    BY <1>7
  <2> QED BY <1>5, <1>6, <1>7, <2>1, <2>2, <2>3
<1>9. r # SystemStep
  BY Constants
<1>10. ASSUME NEW t \in Todos, t # u
       PROVE  WritesOf(t)' = WritesOf(t)
  <2>1. ASSUME NEW i
        PROVE  i \in WritesOf(t)' <=> i \in WritesOf(t)
    <3>1. CASE i \in 1 .. m
      <4>1. writes[i].by # SystemStep => writes[i].by \in Requests
        BY <1>1, <1>8, <3>1, Writers
      <4>2. i \in DOMAIN writes' /\ i \in DOMAIN writes /\ writes'[i] = writes[i]
        BY <1>7, <1>8, <3>1
      <4> QED BY <1>4, <4>1, <4>2 DEF WritesOf
    <3>2. CASE i \in m + 1 .. m + n
      <4>1. i \notin DOMAIN writes
        BY <1>7, <1>8, <3>2
      <4>2. writes'[i].by = r
        BY <1>8, <3>2
      <4> QED BY <1>2, <1>4, <1>10, <4>1, <4>2 DEF WritesOf
    <3>3. CASE i \notin 1 .. m /\ i \notin m + 1 .. m + n
      <4>1. i \notin 1 .. m + n
        BY <1>7, <3>3
      <4> QED BY <1>8, <3>3, <4>1 DEF WritesOf
    <3> QED BY <3>1, <3>2, <3>3
  <2> QED BY <2>1
<1>11. WritesOf(u)' = m + 1 .. m + n
  <2>1. ASSUME NEW i \in 1 .. m
        PROVE  i \notin WritesOf(u)'
    <3>1. i \notin WritesOf(u)
      BY <1>3 DEF WrittenInv, WrittenOnce
    <3>2. writes[i].by # SystemStep => writes[i].by \in Requests
      BY <1>1, <1>8, Writers
    <3>3. i \in DOMAIN writes /\ writes'[i] = writes[i]
      BY <1>8
    <3> QED BY <1>4, <3>1, <3>2, <3>3 DEF WritesOf
  <2>2. ASSUME NEW i \in m + 1 .. m + n
        PROVE  i \in WritesOf(u)'
    <3>1. i \in 1 .. m + n
      BY <1>7
    <3>2. writes'[i].by = r /\ request'[r].todo = u
      BY <1>2, <1>4, <1>8
    <3> QED BY <1>8, <1>9, <3>1, <3>2 DEF WritesOf
  <2>3. \A i \in 1 .. m + n : i \in 1 .. m \/ i \in m + 1 .. m + n
    BY <1>7
  <2>4. WritesOf(u)' \subseteq 1 .. m + n
    BY <1>8 DEF WritesOf
  <2> QED BY <2>1, <2>2, <2>3, <2>4
<1>12. Cardinality(WritesOf(u)') = n
  <2>1. Cardinality(m + 1 .. m + n) = n
    <3>1. PICK a \in Int, b \in Int : a = m + 1 /\ b = m + n
      BY <1>7
    <3>2. Cardinality(a .. b) = IF a > b THEN 0 ELSE b - a + 1
      BY FS_Interval
    <3>3. (IF a > b THEN 0 ELSE b - a + 1) = n
      BY <1>7, <3>1
    <3> QED BY <3>1, <3>2, <3>3
  <2> QED BY <1>11, <2>1
<1>13. \A i \in WritesOf(u)' : writes'[i].by = r
  BY <1>8, <1>11
<1>14. ASSUME NEW t \in Todos
       PROVE  IF todo'[t].open
              THEN WritesOf(t)' = {}
              ELSE /\ \A i \in WritesOf(t)' : writes'[i].by = todo'[t].winner
                   /\ Cardinality(WritesOf(t)') = Expected(t, todo'[t].user)
  <2>1. CASE t = u
    BY <1>3, <1>5, <1>7, <1>12, <1>13, <2>1
  <2>2. CASE t # u
    <3>1. WritesOf(t)' = WritesOf(t) /\ todo'[t] = todo[t]
      BY <1>3, <1>10, <2>2
    <3>2. \A i \in WritesOf(t) : writes'[i] = writes[i]
      BY <1>8 DEF WritesOf
    <3> QED BY <3>1, <3>2 DEF WrittenInv, WrittenOnce, Expected
  <2> QED BY <2>1, <2>2
<1> QED BY <1>14 DEF WrittenOnce, Expected

\* A system step's output is nobody's patch.
LEMMA SystemWriteWritten ==
  ASSUME WrittenInv, NEW time \in 1 .. clock, SystemWrite(time)
  PROVE  WrittenOnce'
<1>1. TypeOK
  BY DEF WrittenInv, TruthInv
<1>2. /\ UNCHANGED <<todo, request>>
      /\ writes' = Append(writes, Merged(SystemStep, Len(writes)))
  BY DEF SystemWrite
<1>3. writes \in Seq(Patch) /\ Len(writes) \in Nat
  BY <1>1, TypeParts
<1>4. Merged(SystemStep, Len(writes)) \in Patch
  BY <1>3 DEF Merged, Patch
<1>5. /\ DOMAIN writes = 1 .. Len(writes)
      /\ DOMAIN writes' = 1 .. Len(writes) + 1
      /\ \A i \in 1 .. Len(writes) : writes'[i] = writes[i]
      /\ writes'[Len(writes) + 1].by = SystemStep
  BY <1>2, <1>3, <1>4, AppendProperties DEF Merged
<1>6. \A i \in 1 .. Len(writes) + 1 : i \in 1 .. Len(writes) \/ i = Len(writes) + 1
  BY <1>3
<1>7. \A t \in Todos : WritesOf(t)' = WritesOf(t)
  BY <1>2, <1>3, <1>5, <1>6 DEF WritesOf
<1>8. \A t \in Todos : \A i \in WritesOf(t) : writes'[i] = writes[i]
  BY <1>5 DEF WritesOf
<1> QED BY <1>2, <1>7, <1>8 DEF WrittenInv, WrittenOnce

LEMMA WrittenStep ==
  ASSUME WrittenInv, [Next]_vars
  PROVE  WrittenInv'
<1>1. TruthInv' /\ TypeOK
  BY TruthStep DEF WrittenInv, TruthInv
<1>2. ASSUME NEW r \in Requests, Moves(r), UNCHANGED <<writes, todo>>
      PROVE  WrittenOnce'
  BY <1>1, <1>2, WrittenKept DEF WrittenInv, Moves
<1>3. ASSUME NEW r \in Requests, NEW t \in Todos,
             (\E user \in Users : Submit(r, t, user)) \/ Recover(r, t)
      PROVE  WrittenOnce'
  <2>1. /\ UNCHANGED <<writes, todo>>
        /\ request[r].phase = "idle"
        /\ \A q \in Requests : q # r => request'[q] = request[q]
    BY <1>1, <1>3, StartMoves
  <2>2. NothingLeft(r)
    BY <2>1 DEF WrittenInv, TruthInv, Untold
  <2> QED BY <1>1, <2>1, <2>2, WrittenKept DEF WrittenInv
<1>4. ASSUME NEW r \in Requests, Attempt(r) \/ Dispatch(r) \/ Crash(r)
      PROVE  WrittenOnce'
  BY <1>1, <1>2, <1>4, AttemptMoves, DispatchMoves, CrashMoves, CompleteWritten
<1>5. ASSUME UNCHANGED <<writes, todo, request>> PROVE WrittenOnce'
  BY <1>1, <1>5, WrittenKept DEF WrittenInv
<1>6. ASSUME NEW r \in Requests, NEW t \in Todos, LeaseLapses(r, t)
      PROVE  WrittenOnce'
  BY <1>5, <1>6 DEF LeaseLapses
<1>7. CASE Tick \/ UNCHANGED vars
  <2>1. UNCHANGED <<writes, todo, request>>
    BY <1>7 DEF Tick, vars
  <2> QED BY <1>1, <1>5, <2>1 DEF WrittenInv
<1>8. ASSUME NEW r \in Requests, NEW t \in Todos, NEW user \in Users,
             Submit(r, t, user)
      PROVE  WrittenOnce'
  BY <1>3, <1>8
<1> QED BY <1>1, <1>3, <1>4, <1>6, <1>7, <1>8, SystemWriteWritten DEF Next, WrittenInv

\* However often a to-do is submitted, the state holds the patch of the one
\* request that completed it, once, and nothing of an open to-do (completeStep's
\* transaction and completeToDoIfOpen).
THEOREM PatchesAreWrittenOnce == Spec => []WrittenOnce
<1>1. Init => WrittenInv
  <2> SUFFICES ASSUME Init PROVE WrittenInv
    OBVIOUS
  <2>1. TruthInv
    BY InitTruth
  <2>2. DOMAIN writes = {} /\ \A t \in Todos : todo[t].open
    BY DEF Init
  <2>3. \A t \in Todos : WritesOf(t) = {}
    BY <2>2 DEF WritesOf
  <2> QED BY <2>1, <2>2, <2>3 DEF WrittenInv, WrittenOnce
<1>2. WrittenInv /\ [Next]_vars => WrittenInv'
  BY WrittenStep
<1>3. WrittenInv => WrittenOnce
  BY DEF WrittenInv
<1> QED BY <1>1, <1>2, <1>3, PTL DEF Spec

-----------------------------------------------------------------------------
\* Nothing of a completion is lost on the way to the queue, and the events go
\* first.  A row disappears only after its job was sent; the rows of a to-do
\* always share receipt and lease, so whoever claims the start of the flow
\* claims the events with it, unless they have been sent already.

Sending == {"sending", "renewed", "sent"}

KeptOf(t) == \A k \in Kinds :
    ~todo[t].open => row[t][k].present \/ published[t][k] > 0

UniformOf(t) == \A j, k \in Kinds :
    row[t][j].present /\ row[t][k].present =>
        row[t][j].receipt = row[t][k].receipt /\ row[t][j].lease = row[t][k].lease

OrderedOf(t) == \A j, k \in Kinds :
    JobSequence[j] < JobSequence[k] /\ published[t][k] > 0 => published[t][j] > 0

SentBy(r) ==
    /\ request[r].phase = "sent" =>
          published[request[r].todo][NextJob(request[r].jobs)] > 0
    /\ request[r].phase \in Sending =>
          \A j \in Kinds \ request[r].jobs, k \in request[r].jobs :
             JobSequence[j] < JobSequence[k] => published[request[r].todo][j] > 0

DispatchInv ==
    /\ TypeOK
    /\ \A t \in Todos : KeptOf(t) /\ UniformOf(t) /\ OrderedOf(t)
    /\ \A r \in Requests : SentBy(r)

\* The queue takes jobs and gives none back.
PublishedGrows ==
    \A t \in Todos, k \in Kinds : published[t][k] <= published'[t][k]

LEMMA OthersSent ==
  ASSUME TypeOK, TypeOK', PublishedGrows, NEW r \in Requests,
         request'[r] = request[r], SentBy(r)
  PROVE  SentBy(r)'
<1>1. /\ published \in [Todos -> [Kinds -> Nat]]
      /\ published' \in [Todos -> [Kinds -> Nat]]
  BY TypeParts, TypePartsNext
<1>2. request[r].phase \in Sending =>
         request[r].todo \in Todos /\ request[r].jobs \in SUBSET Kinds
  BY DispatchHasTodo DEF Sending, Request
<1>3. request[r].phase = "sent" => NextJob(request[r].jobs) \in Kinds
  BY <1>2, NextJobIsLeast, TypeParts DEF Pairs, Sending
<1>4. request[r].phase = "sent" =>
         published'[request[r].todo][NextJob(request[r].jobs)] > 0
  <2> SUFFICES ASSUME request[r].phase = "sent"
               PROVE  published'[request[r].todo][NextJob(request[r].jobs)] > 0
    OBVIOUS
  <2>1. request[r].todo \in Todos /\ NextJob(request[r].jobs) \in Kinds
    BY <1>2, <1>3 DEF Sending
  <2>2. published[request[r].todo][NextJob(request[r].jobs)] > 0
    BY DEF SentBy
  <2> QED BY <1>1, <2>1, <2>2 DEF PublishedGrows
<1>5. ASSUME request[r].phase \in Sending,
             NEW j \in Kinds \ request[r].jobs, NEW k \in request[r].jobs,
             JobSequence[j] < JobSequence[k]
      PROVE  published'[request[r].todo][j] > 0
  <2>1. published[request[r].todo][j] > 0
    BY <1>5 DEF SentBy
  <2> QED BY <1>1, <1>2, <1>5, <2>1 DEF PublishedGrows
<1> QED BY <1>4, <1>5 DEF SentBy

\* A step that leaves the tables of a dispatch alone, by a request that is not
\* sending afterwards.
LEMMA DispatchUndisturbed ==
  ASSUME DispatchInv, TypeOK', UNCHANGED <<todo, row, published>>,
         NEW r \in Requests,
         \A q \in Requests : q # r => request'[q] = request[q],
         request'[r].phase \notin Sending
  PROVE  DispatchInv'
<1>1. PublishedGrows
  BY TypeParts DEF DispatchInv, PublishedGrows
<1>2. \A q \in Requests : q # r => SentBy(q)'
  BY <1>1, OthersSent DEF DispatchInv
<1>3. SentBy(r)'
  BY DEF SentBy, Sending
<1>4. \A t \in Todos : KeptOf(t)' /\ UniformOf(t)' /\ OrderedOf(t)'
  BY DEF DispatchInv, KeptOf, UniformOf, OrderedOf
<1> QED BY <1>2, <1>3, <1>4 DEF DispatchInv

LEMMA CompleteDispatch ==
  ASSUME DispatchInv, NEW r \in Requests, Complete(r)
  PROVE  DispatchInv'
<1>1. TypeOK /\ TypeOK'
  BY CompleteType DEF DispatchInv
<1>2. Go(r, "dispatch") /\ UNCHANGED published
  BY DEF Complete
<1>3. /\ \A q \in Requests : q # r => request'[q] = request[q]
      /\ request'[r].phase = "dispatch"
  BY <1>1, <1>2, GoType, TypeParts DEF Phases
<1>4. PublishedGrows
  BY <1>1, <1>2, TypeParts DEF PublishedGrows
<1>5. \A q \in Requests : SentBy(q)'
  BY <1>1, <1>3, <1>4, OthersSent DEF DispatchInv, SentBy, Sending
<1> DEFINE u == request[r].todo
<1>6. /\ u \in Todos
      /\ \A k \in Kinds : /\ row'[u][k].present
                          /\ row'[u][k].receipt = None
                          /\ row'[u][k].lease = "none"
      /\ \A t \in Todos : t # u => todo'[t] = todo[t] /\ row'[t] = row[t]
  BY <1>1, CompleteTables
<1> HIDE DEF u
<1>7. ASSUME NEW t \in Todos PROVE KeptOf(t)' /\ UniformOf(t)' /\ OrderedOf(t)'
  <2>1. OrderedOf(t)'
    BY <1>2 DEF DispatchInv, OrderedOf
  <2>2. CASE t = u
    BY <1>6, <2>1, <2>2 DEF KeptOf, UniformOf
  <2>3. CASE t # u
    <3>1. todo'[t] = todo[t] /\ row'[t] = row[t]
      BY <1>6, <2>3
    <3> QED BY <1>2, <2>1, <3>1 DEF DispatchInv, KeptOf, UniformOf
  <2> QED BY <2>2, <2>3
<1> QED BY <1>1, <1>5, <1>7 DEF DispatchInv

\* A claim takes all rows of its to-do or none, and what it does not take has
\* been sent.
LEMMA ClaimDispatch ==
  ASSUME DispatchInv, NEW r \in Requests, ClaimRows(r)
  PROVE  DispatchInv'
<1>1. TypeOK /\ TypeOK'
  BY ClaimType DEF DispatchInv
<1>2. UNCHANGED <<todo, published>>
  BY DEF ClaimRows
<1>0. PICK t \in Todos : t = request[r].todo
  BY <1>1, ClaimTables
<1>3. /\ t \in Todos
      /\ \A u \in Todos : u # t => row'[u] = row[u]
      /\ \A k \in Kinds \ Claimable(t) : row'[t][k] = row[t][k]
      /\ \A k \in Claimable(t) :
            /\ row[t][k].present /\ row'[t][k].present
            /\ row'[t][k].receipt = r /\ row'[t][k].lease = "running"
      /\ \A q \in Requests : q # r => request'[q] = request[q]
      /\ request'[r].phase = "sending"
      /\ request'[r].todo = t
      /\ request'[r].jobs = Claimable(t)
      /\ Claimable(t) \subseteq Kinds
  BY <1>0, <1>1, ClaimTables
<1>4. KeptOf(t) /\ UniformOf(t) /\ OrderedOf(t)
  BY <1>3 DEF DispatchInv
<1>5. ASSUME NEW j \in Kinds \ Claimable(t), NEW k \in Claimable(t)
      PROVE  ~row[t][j].present
  <2>1. row[t][k].present /\ row[t][k].lease # "running" /\ k \in Kinds
    BY <1>3, <1>5 DEF Claimable
  <2>2. row[t][j].present => row[t][j].lease = "running"
    BY <1>5 DEF Claimable
  <2> QED BY <1>4, <1>5, <2>1, <2>2 DEF UniformOf
<1>6. PublishedGrows
  BY <1>1, <1>2, TypeParts DEF PublishedGrows
<1>7. SentBy(r)'
  <2> SUFFICES ASSUME NEW j \in Kinds \ Claimable(t), NEW k \in Claimable(t)
               PROVE  published[t][j] > 0
    BY <1>2, <1>3 DEF SentBy
  <2>1. ~row[t][j].present
    BY <1>5
  <2>2. ~todo[t].open
    BY <1>1, <1>3, TypeParts DEF LeasedRows
  <2> QED BY <1>4, <2>1, <2>2 DEF KeptOf
<1>8. KeptOf(t)' /\ UniformOf(t)' /\ OrderedOf(t)'
  <2>1. KeptOf(t)'
    <3>1. \A k \in Kinds : row[t][k].present => row'[t][k].present
      BY <1>3
    <3> QED BY <1>2, <1>4, <3>1 DEF KeptOf
  <2>2. ASSUME NEW j \in Kinds, NEW k \in Kinds,
               row'[t][j].present, row'[t][k].present
        PROVE  /\ row'[t][j].receipt = row'[t][k].receipt
               /\ row'[t][j].lease = row'[t][k].lease
    <3>1. CASE j \in Claimable(t) /\ k \in Claimable(t)
      BY <1>3, <3>1
    <3>2. CASE j \notin Claimable(t) /\ k \notin Claimable(t)
      <4>1. row'[t][j] = row[t][j] /\ row'[t][k] = row[t][k]
        BY <1>3, <3>2
      <4> QED BY <1>4, <2>2, <4>1 DEF UniformOf
    <3>3. CASE j \notin Claimable(t) /\ k \in Claimable(t)
      BY <1>3, <1>5, <2>2, <3>3
    <3>4. CASE j \in Claimable(t) /\ k \notin Claimable(t)
      BY <1>3, <1>5, <2>2, <3>4
    <3> QED BY <3>1, <3>2, <3>3, <3>4
  <2>3. OrderedOf(t)'
    BY <1>2, <1>4 DEF OrderedOf
  <2> QED BY <2>1, <2>2, <2>3 DEF UniformOf
<1>9. ASSUME NEW u \in Todos PROVE KeptOf(u)' /\ UniformOf(u)' /\ OrderedOf(u)'
  <2>1. CASE u = t
    BY <1>8, <2>1
  <2>2. CASE u # t
    <3>1. row'[u] = row[u]
      BY <1>3, <2>2
    <3> QED BY <1>2, <3>1 DEF DispatchInv, KeptOf, UniformOf, OrderedOf
  <2> QED BY <2>1, <2>2
<1>10. ASSUME NEW q \in Requests PROVE SentBy(q)'
  <2>1. CASE q = r
    BY <1>7, <2>1
  <2>2. CASE q # r
    BY <1>1, <1>3, <1>6, <2>2, OthersSent DEF DispatchInv
  <2> QED BY <2>1, <2>2
<1> QED BY <1>1, <1>9, <1>10 DEF DispatchInv

\* Renewing or losing a lease treats the rows of a to-do alike.
LEMMA LeaseDispatch ==
  ASSUME DispatchInv, NEW r \in Requests, NEW t \in Todos,
         NEW lease \in {"running", "lapsed"}, GivesLease(r, t, lease),
         UNCHANGED <<todo, published>>
  PROVE  \A u \in Todos : KeptOf(u)' /\ UniformOf(u)' /\ OrderedOf(u)'
<1>1. /\ \A u \in Todos : u # t => row'[u] = row[u]
      /\ \A k \in Kinds :
            /\ row'[t][k].present <=> row[t][k].present
            /\ row'[t][k].receipt = row[t][k].receipt
            /\ row'[t][k].lease =
                  IF k \in Held(r, t) THEN lease ELSE row[t][k].lease
  BY LeaseTables DEF DispatchInv
<1>2. KeptOf(t) /\ UniformOf(t) /\ OrderedOf(t)
  BY DEF DispatchInv
<1>3. KeptOf(t)' /\ OrderedOf(t)'
  BY <1>1, <1>2 DEF KeptOf, OrderedOf
<1>4. ASSUME NEW j \in Kinds, NEW k \in Kinds,
             row'[t][j].present, row'[t][k].present
      PROVE  /\ row'[t][j].receipt = row'[t][k].receipt
             /\ row'[t][j].lease = row'[t][k].lease
  <2>1. row[t][j].present /\ row[t][k].present
    BY <1>1, <1>4
  <2>2. /\ row[t][j].receipt = row[t][k].receipt
        /\ row[t][j].lease = row[t][k].lease
    BY <1>2, <2>1 DEF UniformOf
  <2>3. j \in Held(r, t) <=> k \in Held(r, t)
    BY <2>2 DEF Held
  <2> QED BY <1>1, <2>2, <2>3
<1>5. UniformOf(t)'
  BY <1>4 DEF UniformOf
<1>6. ASSUME NEW u \in Todos, u # t
      PROVE  KeptOf(u)' /\ UniformOf(u)' /\ OrderedOf(u)'
  <2>1. row'[u] = row[u]
    BY <1>1, <1>6
  <2> QED BY <2>1 DEF DispatchInv, KeptOf, UniformOf, OrderedOf
<1> QED BY <1>3, <1>5, <1>6

LEMMA ExtendDispatch ==
  ASSUME DispatchInv, NEW r \in Requests, ExtendClaim(r)
  PROVE  DispatchInv'
<1>1. TypeOK /\ TypeOK'
  BY ExtendClaimType DEF DispatchInv
<1>2. UNCHANGED <<todo, published>> /\ request[r].phase = "sending"
  BY DEF ExtendClaim
<1>3. CASE Renewed(r)
  <2>1. /\ GivesLease(r, request[r].todo, "running")
        /\ Go(r, "renewed")
    BY <1>3 DEF ExtendClaim, GivesLease
  <2>2. request[r].todo \in Todos
    BY <1>1, <1>2, DispatchHasTodo
  <2>3. \A u \in Todos : KeptOf(u)' /\ UniformOf(u)' /\ OrderedOf(u)'
    BY <1>2, <2>1, <2>2, LeaseDispatch
  <2>4. /\ \A q \in Requests : q # r => request'[q] = request[q]
        /\ request'[r].phase = "renewed"
        /\ request'[r].todo = request[r].todo
        /\ request'[r].jobs = request[r].jobs
    BY <1>1, <2>1, GoType, TypeParts DEF Phases
  <2>5. SentBy(r)'
    BY <1>2, <2>4 DEF DispatchInv, SentBy, Sending
  <2>6. PublishedGrows
    BY <1>1, <1>2, TypeParts DEF PublishedGrows
  <2>7. \A q \in Requests : SentBy(q)'
    BY <1>1, <2>4, <2>5, <2>6, OthersSent DEF DispatchInv
  <2> QED BY <1>1, <2>3, <2>7 DEF DispatchInv
<1>4. CASE ~Renewed(r)
  <2>1. Finish(r, "succeeded") /\ UNCHANGED row
    BY <1>4 DEF ExtendClaim
  <2>2. Moves(r) /\ request'[r].phase = "succeeded"
    BY <1>1, <2>1, FinishMoves DEF Phases
  <2> QED BY <1>1, <1>2, <2>1, <2>2, DispatchUndisturbed DEF Moves, Sending
<1> QED BY <1>3, <1>4

\* The job that is sent has no predecessor that was not.
LEMMA AcceptDispatch ==
  ASSUME DispatchInv, TypeOK', NEW r \in Requests, request[r].phase = "renewed",
         Accept(r), UNCHANGED <<todo, row>>
  PROVE  /\ PublishedGrows
         /\ published'[request[r].todo][NextJob(request[r].jobs)] > 0
         /\ \A t \in Todos : KeptOf(t)' /\ UniformOf(t)' /\ OrderedOf(t)'
<1>1. TypeOK
  BY DEF DispatchInv
<1>2. PICK u \in Todos : u = request[r].todo
  BY <1>1, DispatchHasTodo
<1>3. request[r].jobs \in SUBSET Kinds /\ request[r].jobs # {}
  BY <1>1, DispatchHasTodo, TypeParts DEF Request, Pairs
<1>4. PICK next \in Kinds : next = NextJob(request[r].jobs)
  BY <1>3, NextJobIsLeast
<1>5. /\ \A t \in Todos, k \in Kinds : published[t][k] <= published'[t][k]
      /\ published'[u][next] > 0
      /\ \A t \in Todos, k \in Kinds :
            published'[t][k] = published[t][k] \/ (t = u /\ k = next)
  BY <1>1, <1>2, <1>3, <1>4, AcceptType
<1>6. /\ published \in [Todos -> [Kinds -> Nat]]
      /\ published' \in [Todos -> [Kinds -> Nat]]
  BY <1>1, TypeParts, TypePartsNext
<1>7. ASSUME NEW t \in Todos PROVE KeptOf(t)' /\ UniformOf(t)' /\ OrderedOf(t)'
  <2>1. KeptOf(t) /\ UniformOf(t) /\ OrderedOf(t)
    BY DEF DispatchInv
  <2>2. KeptOf(t)'
    <3>1. \A k \in Kinds : published[t][k] > 0 => published'[t][k] > 0
      BY <1>5, <1>6
    <3> QED BY <2>1, <3>1 DEF KeptOf
  <2>3. UniformOf(t)'
    BY <2>1 DEF UniformOf
  <2>4. ASSUME NEW j \in Kinds, NEW k \in Kinds,
               JobSequence[j] < JobSequence[k], published'[t][k] > 0
        PROVE  published'[t][j] > 0
    <3>1. CASE published[t][k] > 0
      <4>1. published[t][j] > 0
        BY <2>1, <2>4, <3>1 DEF OrderedOf
      <4> QED BY <1>5, <1>6, <4>1
    <3>2. CASE ~(published[t][k] > 0)
      <4>1. t = u /\ k = next
        BY <1>5, <2>4, <3>2
      <4>2. j \notin request[r].jobs
        <5>1. \A i \in request[r].jobs : JobSequence[next] <= JobSequence[i]
          BY <1>3, <1>4, NextJobIsLeast
        <5>2. JobSequence[j] \in Int /\ JobSequence[k] \in Int
          BY KindsAre
        <5> QED BY <2>4, <4>1, <5>1, <5>2
      <4>3. next \in request[r].jobs
        BY <1>3, <1>4, NextJobIsLeast
      <4>4. published[u][j] > 0
        BY <1>2, <2>4, <4>1, <4>2, <4>3 DEF DispatchInv, SentBy, Sending
      <4> QED BY <1>5, <1>6, <4>1, <4>4
    <3> QED BY <3>1, <3>2
  <2>5. OrderedOf(t)'
    BY <2>4 DEF OrderedOf
  <2> QED BY <2>2, <2>3, <2>5
<1> QED BY <1>2, <1>4, <1>5, <1>7 DEF PublishedGrows

LEMMA SendDispatch ==
  ASSUME DispatchInv, NEW r \in Requests, Send(r)
  PROVE  DispatchInv'
<1>1. TypeOK /\ TypeOK'
  BY SendType DEF DispatchInv
<1>2. /\ request[r].phase = "renewed" /\ Accept(r) /\ Go(r, "sent")
      /\ UNCHANGED <<todo, row>>
  BY DEF Send
<1>3. /\ PublishedGrows
      /\ published'[request[r].todo][NextJob(request[r].jobs)] > 0
      /\ \A t \in Todos : KeptOf(t)' /\ UniformOf(t)' /\ OrderedOf(t)'
  BY <1>1, <1>2, AcceptDispatch
<1>4. /\ \A q \in Requests : q # r => request'[q] = request[q]
      /\ request'[r].phase = "sent"
      /\ request'[r].todo = request[r].todo
      /\ request'[r].jobs = request[r].jobs
  BY <1>1, <1>2, GoType, TypeParts DEF Phases
<1>5. request[r].todo \in Todos
  BY <1>1, <1>2, DispatchHasTodo
<1>6. SentBy(r)'
  <2>1. ASSUME NEW j \in Kinds \ request[r].jobs, NEW k \in request[r].jobs,
               JobSequence[j] < JobSequence[k]
        PROVE  published'[request[r].todo][j] > 0
    <3>1. published[request[r].todo][j] > 0
      BY <1>2, <2>1 DEF DispatchInv, SentBy, Sending
    <3>2. /\ published \in [Todos -> [Kinds -> Nat]]
          /\ published' \in [Todos -> [Kinds -> Nat]]
      BY <1>1, TypeParts, TypePartsNext
    <3> QED BY <1>3, <1>5, <3>1, <3>2 DEF PublishedGrows
  <2> QED BY <1>3, <1>4, <2>1 DEF SentBy
<1>7. \A q \in Requests : SentBy(q)'
  BY <1>1, <1>3, <1>4, <1>6, OthersSent DEF DispatchInv
<1> QED BY <1>1, <1>3, <1>7 DEF DispatchInv

\* A row is deleted once its job was sent, and then counts as sent.
LEMMA DeleteDispatch ==
  ASSUME DispatchInv, NEW r \in Requests, DeleteRow(r)
  PROVE  DispatchInv'
<1>1. TypeOK /\ TypeOK'
  BY DeleteRowType DEF DispatchInv
<1>2. UNCHANGED <<todo, published>> /\ request[r].phase = "sent"
  BY DEF DeleteRow
<1>3. PICK t \in Todos : t = request[r].todo
  BY <1>1, <1>2, DispatchHasTodo
<1>4. request[r].jobs \in SUBSET Kinds /\ request[r].jobs # {}
  BY <1>1, <1>2, DispatchHasTodo, TypeParts DEF Request, Pairs
<1>5. PICK sent \in Kinds : sent = NextJob(request[r].jobs)
  BY <1>4, NextJobIsLeast
<1>6. published[t][sent] > 0
  BY <1>2, <1>3, <1>5 DEF DispatchInv, SentBy
<1>7. CASE sent \in Held(r, t)
  <2>1. /\ row' = [row EXCEPT ![t][sent] = AbsentRow]
        /\ request' = [request EXCEPT ![r].phase = "sending",
                                      ![r].jobs = request[r].jobs \ {sent}]
    BY <1>3, <1>5, <1>7 DEF DeleteRow
  <2>2. /\ \A u \in Todos : u # t => row'[u] = row[u]
        /\ \A k \in Kinds : k # sent => row'[t][k] = row[t][k]
        /\ ~row'[t][sent].present
    BY <1>1, <2>1, TypeParts DEF AbsentRow
  <2>3. /\ \A q \in Requests : q # r => request'[q] = request[q]
        /\ request'[r].phase = "sending"
        /\ request'[r].todo = t
        /\ request'[r].jobs = request[r].jobs \ {sent}
    BY <1>1, <1>3, <2>1, TypeParts DEF Request
  <2>4. ASSUME NEW u \in Todos PROVE KeptOf(u)' /\ UniformOf(u)' /\ OrderedOf(u)'
    <3>1. KeptOf(u) /\ UniformOf(u) /\ OrderedOf(u)
      BY DEF DispatchInv
    <3>2. CASE u = t
      <4>1. KeptOf(u)'
        BY <1>2, <1>6, <2>2, <3>1, <3>2 DEF KeptOf
      <4>2. \A j \in Kinds : row'[t][j].present => row'[t][j] = row[t][j]
        BY <2>2
      <4>3. UniformOf(u)'
        BY <3>1, <3>2, <4>2 DEF UniformOf
      <4> QED BY <1>2, <3>1, <4>1, <4>3 DEF OrderedOf
    <3>3. CASE u # t
      <4>1. row'[u] = row[u]
        BY <2>2, <3>3
      <4> QED BY <1>2, <3>1, <4>1 DEF KeptOf, UniformOf, OrderedOf
    <3> QED BY <3>2, <3>3
  <2>5. SentBy(r)'
    <3>1. ASSUME NEW j \in Kinds \ (request[r].jobs \ {sent}),
                 NEW k \in request[r].jobs \ {sent},
                 JobSequence[j] < JobSequence[k]
          PROVE  published[t][j] > 0
      <4>1. CASE j = sent
        BY <1>6, <4>1
      <4>2. CASE j # sent
        BY <1>2, <1>3, <3>1, <4>2 DEF DispatchInv, SentBy, Sending
      <4> QED BY <4>1, <4>2
    <3> QED BY <1>2, <2>3, <3>1 DEF SentBy
  <2>6. PublishedGrows
    BY <1>1, <1>2, TypeParts DEF PublishedGrows
  <2>7. \A q \in Requests : SentBy(q)'
    BY <1>1, <2>3, <2>5, <2>6, OthersSent DEF DispatchInv
  <2> QED BY <1>1, <2>4, <2>7 DEF DispatchInv
<1>8. CASE sent \notin Held(r, t)
  <2>1. Finish(r, "succeeded") /\ UNCHANGED row
    BY <1>3, <1>5, <1>8 DEF DeleteRow
  <2>2. Moves(r) /\ request'[r].phase = "succeeded"
    BY <1>1, <2>1, FinishMoves DEF Phases
  <2> QED BY <1>1, <1>2, <2>1, <2>2, DispatchUndisturbed DEF Moves, Sending
<1> QED BY <1>7, <1>8

\* An error leaves the rows to be claimed again, whether or not the queue had
\* accepted the job.
LEMMA ErrorDispatch ==
  ASSUME DispatchInv, NEW r \in Requests, DispatchError(r)
  PROVE  DispatchInv'
<1>1. TypeOK /\ TypeOK'
  BY DispatchErrorType DEF DispatchInv
<1>2. UNCHANGED <<todo, row>>
  BY DEF DispatchError
<1>3. /\ \A q \in Requests : q # r => request'[q] = request[q]
      /\ request'[r].phase \notin Sending
  <2>1. Finish(r, "failed") \/ Go(r, "release")
    BY DEF DispatchError
  <2> QED BY <1>1, <2>1, FinishMoves, GoMoves DEF Phases, Moves, Sending
<1>4. CASE UNCHANGED published
  BY <1>1, <1>2, <1>3, <1>4, DispatchUndisturbed
<1>5. CASE request[r].phase = "renewed" /\ Accept(r)
  <2>1. /\ PublishedGrows
        /\ \A t \in Todos : KeptOf(t)' /\ UniformOf(t)' /\ OrderedOf(t)'
    BY <1>1, <1>2, <1>5, AcceptDispatch
  <2>2. \A q \in Requests : SentBy(q)'
    BY <1>1, <1>3, <2>1, OthersSent DEF DispatchInv, SentBy, Sending
  <2> QED BY <1>1, <2>1, <2>2 DEF DispatchInv
<1> QED BY <1>4, <1>5 DEF DispatchError

\* Releasing gives back all rows of a to-do that are still there, or none.
LEMMA ReleaseDispatch ==
  ASSUME DispatchInv, NEW r \in Requests, Release(r)
  PROVE  DispatchInv'
<1>1. TypeOK /\ TypeOK'
  BY ReleaseType DEF DispatchInv
<1>2. UNCHANGED <<todo, published>> /\ Finish(r, "failed")
  BY DEF Release
<1>3. PICK t \in Todos : t = request[r].todo
  BY <1>1, ReleaseGivesUp
<1>4. PICK held \in SUBSET Kinds : held = Held(r, t)
  BY <1>1, <1>3, ReleaseGivesUp
<1>5. GivesUp(t, held, Unleased) /\ \A k \in held : row[t][k].present
  BY <1>1, <1>3, <1>4, ReleaseGivesUp
<1>6. /\ \A u \in Todos : u # t => row'[u] = row[u]
      /\ \A k \in Kinds \ held : row'[t][k] = row[t][k]
      /\ \A k \in held : row'[t][k] = Unleased
  BY <1>1, <1>5, TypeParts DEF GivesUp
<1>7. Unleased.present
  BY DEF Unleased, AbsentRow
<1>8. ASSUME NEW u \in Todos PROVE KeptOf(u)' /\ UniformOf(u)' /\ OrderedOf(u)'
  <2>1. KeptOf(u) /\ UniformOf(u) /\ OrderedOf(u)
    BY DEF DispatchInv
  <2>2. OrderedOf(u)'
    BY <1>2, <2>1 DEF OrderedOf
  <2>3. CASE u = t
    <3>1. KeptOf(u)'
      <4>1. \A k \in Kinds : row[t][k].present => row'[t][k].present
        BY <1>6, <1>7
      <4> QED BY <1>2, <2>1, <2>3, <4>1 DEF KeptOf
    <3>2. ASSUME NEW j \in Kinds, NEW k \in Kinds,
                 row'[t][j].present, row'[t][k].present
          PROVE  /\ row'[t][j].receipt = row'[t][k].receipt
                 /\ row'[t][j].lease = row'[t][k].lease
      <4>1. row[t][j].present /\ row[t][k].present
        BY <1>5, <1>6, <3>2
      <4>2. /\ row[t][j].receipt = row[t][k].receipt
            /\ row[t][j].lease = row[t][k].lease
        BY <2>1, <2>3, <4>1 DEF UniformOf
      <4>3. j \in held <=> k \in held
        BY <1>4, <4>2 DEF Held
      <4>4. CASE j \in held
        BY <1>6, <4>3, <4>4
      <4>5. CASE j \notin held
        BY <1>6, <4>2, <4>3, <4>5
      <4> QED BY <4>4, <4>5
    <3>3. UniformOf(u)'
      BY <2>3, <3>2 DEF UniformOf
    <3> QED BY <2>2, <3>1, <3>3
  <2>4. CASE u # t
    <3>1. row'[u] = row[u]
      BY <1>6, <2>4
    <3> QED BY <1>2, <2>1, <2>2, <3>1 DEF KeptOf, UniformOf
  <2> QED BY <2>3, <2>4
<1>9. /\ \A q \in Requests : q # r => request'[q] = request[q]
      /\ request'[r].phase = "failed"
  BY <1>1, <1>2, FinishMoves DEF Phases, Moves
<1>10. PublishedGrows
  BY <1>1, <1>2, TypeParts DEF PublishedGrows
<1>11. \A q \in Requests : SentBy(q)'
  BY <1>1, <1>9, <1>10, OthersSent DEF DispatchInv, SentBy, Sending
<1> QED BY <1>1, <1>8, <1>11 DEF DispatchInv

LEMMA LapseDispatch ==
  ASSUME DispatchInv, NEW r \in Requests, NEW t \in Todos, LeaseLapses(r, t)
  PROVE  DispatchInv'
<1>1. TypeOK /\ TypeOK'
  BY LeaseLapsesType DEF DispatchInv
<1>2. GivesLease(r, t, "lapsed") /\ UNCHANGED <<todo, published, request>>
  BY DEF LeaseLapses, GivesLease
<1>3. \A u \in Todos : KeptOf(u)' /\ UniformOf(u)' /\ OrderedOf(u)'
  BY <1>2, LeaseDispatch
<1>4. \A q \in Requests : SentBy(q)'
  BY <1>2 DEF DispatchInv, SentBy
<1> QED BY <1>1, <1>3, <1>4 DEF DispatchInv

LEMMA DispatchStep ==
  ASSUME DispatchInv, [Next]_vars
  PROVE  DispatchInv'
<1>1. TypeOK /\ TypeOK'
  BY TypeStep DEF DispatchInv
<1>2. ASSUME NEW r \in Requests, NEW t \in Todos,
             (\E user \in Users : Submit(r, t, user)) \/ Recover(r, t)
      PROVE  DispatchInv'
  <2>1. /\ UNCHANGED <<todo, row, published>>
        /\ \A q \in Requests : q # r => request'[q] = request[q]
        /\ request'[r].phase \in {"inspect", "dispatch"}
    BY <1>1, <1>2, StartMoves
  <2> QED BY <1>1, <2>1, DispatchUndisturbed DEF Sending
<1>3. ASSUME NEW r \in Requests, Attempt(r) PROVE DispatchInv'
  <2>1. CASE Complete(r)
    BY <2>1, CompleteDispatch
  <2>2. CASE ~Complete(r)
    <3>1. /\ UNCHANGED <<todo, row, published>>
          /\ \A q \in Requests : q # r => request'[q] = request[q]
          /\ request'[r].phase \notin Sending
      BY <1>1, <1>3, <2>2, AttemptMoves DEF Moves, Attempting, Sending
    <3> QED BY <1>1, <3>1, DispatchUndisturbed
  <2> QED BY <2>1, <2>2
<1>4. ASSUME NEW r \in Requests, Dispatch(r) PROVE DispatchInv'
  <2>1. CASE AllSent(r)
    <3>1. UNCHANGED <<todo, row, published>> /\ Finish(r, "succeeded")
      BY <2>1 DEF AllSent
    <3>2. Moves(r) /\ request'[r].phase = "succeeded"
      BY <1>1, <3>1, FinishMoves DEF Phases
    <3> QED BY <1>1, <3>1, <3>2, DispatchUndisturbed DEF Moves, Sending
  <2> QED BY <1>4, <2>1, ClaimDispatch, ExtendDispatch, SendDispatch,
             DeleteDispatch, ErrorDispatch, ReleaseDispatch DEF Dispatch
<1>5. ASSUME NEW r \in Requests, Crash(r) PROVE DispatchInv'
  <2>1. /\ UNCHANGED <<todo, row, published>>
        /\ \A q \in Requests : q # r => request'[q] = request[q]
        /\ request'[r].phase = "crashed"
    BY <1>1, <1>5, CrashMoves DEF Moves
  <2> QED BY <1>1, <2>1, DispatchUndisturbed DEF Sending
<1>6. ASSUME UNCHANGED <<todo, row, published, request>> PROVE DispatchInv'
  BY <1>1, <1>6 DEF DispatchInv, KeptOf, UniformOf, OrderedOf, SentBy
<1>7. ASSUME NEW time \in 1 .. clock, SystemWrite(time) PROVE DispatchInv'
  BY <1>6, <1>7 DEF SystemWrite
<1>8. CASE Tick \/ UNCHANGED vars
  BY <1>6, <1>8 DEF Tick, vars
<1>9. ASSUME NEW r \in Requests, NEW t \in Todos, NEW user \in Users,
             Submit(r, t, user)
      PROVE  DispatchInv'
  BY <1>2, <1>9
<1> QED BY <1>2, <1>3, <1>4, <1>5, <1>7, <1>8, <1>9, LapseDispatch DEF Next

LEMMA DispatchAlways == Spec => []DispatchInv
<1>1. Init => DispatchInv
  <2> SUFFICES ASSUME Init PROVE DispatchInv
    OBVIOUS
  <2>1. \A t \in Todos : KeptOf(t) /\ UniformOf(t) /\ OrderedOf(t)
    BY DEF Init, AbsentRow, KeptOf, UniformOf, OrderedOf
  <2>2. \A r \in Requests : SentBy(r)
    BY DEF Init, Idle, SentBy, Sending
  <2> QED BY <2>1, <2>2, InitType DEF DispatchInv
<1>2. DispatchInv /\ [Next]_vars => DispatchInv'
  BY DispatchStep
<1> QED BY <1>1, <1>2, PTL DEF Spec

\* A completed to-do's jobs are in the outbox or were accepted by the queue,
\* after any number of errors, lapsed leases and crashes
\* (insertFlowDispatchJobs, extendFlowDispatchClaim, deleteFlowDispatchJob).
THEOREM DispatchIsKept == Spec => []DispatchKept
<1>1. DispatchInv => DispatchKept
  BY DEF DispatchInv, KeptOf, DispatchKept
<1> QED BY <1>1, DispatchAlways, PTL

\* The queue never accepts the start of the flow before the events of the
\* completion, however many recoveries take over from each other
\* (claimFlowDispatchJobs and its order by sequence).
THEOREM DispatchIsInOrder == Spec => []DispatchInOrder
<1>1. DispatchInv => DispatchInOrder
  BY DEF DispatchInv, OrderedOf, DispatchInOrder
<1> QED BY <1>1, DispatchAlways, PTL

-----------------------------------------------------------------------------
\* Who sees to a row.  A leased row is among the jobs of the request that holds
\* it, unless that request failed or died; an unleased row has a request that is
\* about to claim it, or one that failed or died; and a request holds all of the
\* jobs it still has to send, or none any more.

HolderOf(t, k) ==
    LET q == row[t][k].receipt IN
    q # None => \/ /\ request[q].phase \in Sending \cup {"release"}
                   /\ k \in request[q].jobs
                \/ request[q].phase \in {"failed", "crashed"}

CaredFor(t, k) ==
    row[t][k].present /\ row[t][k].receipt = None =>
        \E q \in Requests : /\ request[q].todo = t
                            /\ request[q].phase \in {"dispatch", "failed", "crashed"}

HoldsAll(r) ==
    request[r].phase \in Sending =>
        \/ Held(r, request[r].todo) = {}
        \/ request[r].jobs \subseteq Held(r, request[r].todo)

DispatchesClosed(r) ==
    request[r].phase \in Dispatching => ~todo[request[r].todo].open

CustodyInv ==
    /\ DispatchInv
    /\ \A t \in Todos, k \in Kinds :
          HolderOf(t, k) /\ CaredFor(t, k) /\ (published[t][k] > 0 => ~todo[t].open)
    /\ \A r \in Requests : HoldsAll(r) /\ DispatchesClosed(r)

\* Nobody's rows change hands.
SameHands ==
    \A t \in Todos, k \in Kinds : /\ row'[t][k].present = row[t][k].present
                                  /\ row'[t][k].receipt = row[t][k].receipt

LEMMA HeldByDispatch ==
  ASSUME CustodyInv, NEW r \in Requests
  PROVE  /\ request[r].phase \notin Sending \cup {"release", "failed", "crashed"} =>
               \A t \in Todos : Held(r, t) = {}
         /\ request[r].phase \in Sending =>
               \/ Held(r, request[r].todo) = {}
               \/ Held(r, request[r].todo) = request[r].jobs
         /\ \A t \in Todos : t # request[r].todo => Held(r, t) = {}
<1>1. r # None /\ LeasedRows
  BY Constants, TypeParts DEF CustodyInv, DispatchInv
<1>2. ASSUME NEW t \in Todos, NEW k \in Held(r, t)
      PROVE  /\ \/ /\ request[r].phase \in Sending \cup {"release"}
                   /\ k \in request[r].jobs
                \/ request[r].phase \in {"failed", "crashed"}
             /\ t = request[r].todo
  <2>1. k \in Kinds /\ row[t][k].receipt = r
    BY <1>2 DEF Held
  <2> QED BY <1>1, <2>1 DEF CustodyInv, HolderOf, LeasedRows
<1>3. ASSUME request[r].phase \in Sending
      PROVE  \/ Held(r, request[r].todo) = {}
             \/ Held(r, request[r].todo) = request[r].jobs
  <2>1. request[r].todo \in Todos
    BY <1>3, DispatchHasTodo DEF CustodyInv, DispatchInv, Sending
  <2>2. Held(r, request[r].todo) \subseteq request[r].jobs
    BY <1>2, <1>3, <2>1 DEF Sending
  <2> QED BY <1>3, <2>2 DEF CustodyInv, HoldsAll
<1> QED BY <1>2, <1>3

\* One request moves, no row changes hands.
LEMMA CustodyMoved ==
  ASSUME CustodyInv, DispatchInv', UNCHANGED todo, SameHands, NEW r \in Requests,
         \A q \in Requests : q # r => request'[q] = request[q],
         request[r].phase \in {"dispatch", "failed", "crashed"} =>
             /\ request'[r].todo = request[r].todo
             /\ request'[r].phase \in {"dispatch", "failed", "crashed"}
                \/ \A k \in Kinds : row[request[r].todo][k].present
                                        => row[request[r].todo][k].receipt # None,
         \A t \in Todos, k \in Kinds :
             published'[t][k] > 0 => published[t][k] > 0 \/ ~todo[t].open,
         \A t \in Todos : \A k \in Held(r, t) :
             \/ request'[r].phase \in Sending \cup {"release"} /\ k \in request'[r].jobs
             \/ request'[r].phase \in {"failed", "crashed"},
         request'[r].phase \in Sending =>
             \/ Held(r, request'[r].todo) = {}
             \/ request'[r].jobs \subseteq Held(r, request'[r].todo),
         request'[r].phase \in Dispatching => ~todo[request'[r].todo].open
  PROVE  CustodyInv'
<1>1. TypeOK /\ TypeOK'
  BY DEF CustodyInv, DispatchInv
<1>2. \A q \in Requests, t \in Todos : Held(q, t)' = Held(q, t)
  BY DEF Held, SameHands
<1>3. ASSUME NEW t \in Todos, NEW k \in Kinds PROVE HolderOf(t, k)'
  <2>1. PICK q : q = row[t][k].receipt
    OBVIOUS
  <2>2. row'[t][k].receipt = q /\ (q # None => q \in Requests)
    BY <1>1, <2>1, TypeParts DEF SameHands, Row
  <2>3. CASE q = r
    BY <2>1, <2>2, <2>3 DEF HolderOf, Held
  <2>4. CASE q # r
    BY <2>1, <2>2, <2>4 DEF HolderOf, CustodyInv
  <2> QED BY <2>3, <2>4
<1>4. ASSUME NEW t \in Todos, NEW k \in Kinds PROVE CaredFor(t, k)'
  <2> SUFFICES ASSUME row[t][k].present, row[t][k].receipt = None
               PROVE  \E q \in Requests :
                         /\ request'[q].todo = t
                         /\ request'[q].phase \in {"dispatch", "failed", "crashed"}
    BY DEF CaredFor, SameHands
  <2>1. PICK q \in Requests : /\ request[q].todo = t
                              /\ request[q].phase \in {"dispatch", "failed", "crashed"}
    BY DEF CustodyInv, CaredFor
  <2> QED BY <2>1
<1>5. ASSUME NEW q \in Requests PROVE HoldsAll(q)' /\ DispatchesClosed(q)'
  <2>1. CASE q # r
    <3>1. request'[q] = request[q] /\ HoldsAll(q) /\ DispatchesClosed(q)
      BY <2>1 DEF CustodyInv
    <3>2. request[q].phase \in Sending => request[q].todo \in Todos
      BY <1>1, DispatchHasTodo DEF Sending
    <3> QED BY <1>2, <3>1, <3>2 DEF HoldsAll, DispatchesClosed
  <2>2. CASE q = r
    <3>1. request'[r].phase \in Sending => request'[r].todo \in Todos
      BY <1>1, TypePartsNext DEF Sending, Pairs, Request
    <3> QED BY <1>2, <2>2, <3>1 DEF HoldsAll, DispatchesClosed
  <2> QED BY <2>1, <2>2
<1> QED BY <1>3, <1>4, <1>5 DEF CustodyInv

LEMMA CompleteCustody ==
  ASSUME CustodyInv, DispatchInv', NEW r \in Requests, Complete(r)
  PROVE  CustodyInv'
<1>1. TypeOK /\ TypeOK'
  BY DEF CustodyInv, DispatchInv
<1>2. PICK u \in Todos :
         /\ u = request[r].todo /\ todo[u].open /\ ~todo'[u].open
         /\ \A k \in Kinds : /\ row'[u][k].present
                             /\ row'[u][k].receipt = None
         /\ \A t \in Todos : t # u => todo'[t] = todo[t] /\ row'[t] = row[t]
  BY <1>1, CompleteTables
<1>3. Go(r, "dispatch") /\ UNCHANGED published /\ request[r].phase = "commit"
  BY DEF Complete
<1>4. /\ \A q \in Requests : q # r => request'[q] = request[q]
      /\ request'[r].phase = "dispatch" /\ request'[r].todo = u
  BY <1>1, <1>2, <1>3, GoType, TypeParts DEF Phases
<1>5. \A t \in Todos : ~todo[t].open => ~todo'[t].open
  BY <1>2
<1>6. ASSUME NEW t \in Todos, NEW k \in Kinds
      PROVE  HolderOf(t, k)' /\ CaredFor(t, k)'
  <2>1. CASE t = u
    <3>1. CaredFor(t, k)'
      BY <1>4, <2>1 DEF CaredFor
    <3>2. HolderOf(t, k)'
      BY <1>2, <2>1 DEF HolderOf
    <3> QED BY <3>1, <3>2
  <2>2. CASE t # u
    <3>1. row'[t] = row[t] /\ HolderOf(t, k) /\ CaredFor(t, k)
      BY <1>2, <2>2 DEF CustodyInv
    <3>2. row[t][k].receipt \in Requests \cup {None}
      BY <1>1, TypeParts DEF Row
    <3>3. row[t][k].receipt # r
      BY <1>3, <3>1, Constants DEF HolderOf, Sending
    <3>4. HolderOf(t, k)'
      BY <1>4, <3>1, <3>2, <3>3 DEF HolderOf
    <3>5. CaredFor(t, k)'
      BY <1>3, <1>4, <3>1 DEF CaredFor
    <3> QED BY <3>4, <3>5
  <2> QED BY <2>1, <2>2
<1>7. ASSUME NEW q \in Requests PROVE HoldsAll(q)' /\ DispatchesClosed(q)'
  <2>1. CASE q = r
    BY <1>2, <1>4, <2>1 DEF HoldsAll, DispatchesClosed, Sending
  <2>2. CASE q # r
    <3>1. request'[q] = request[q] /\ HoldsAll(q) /\ DispatchesClosed(q)
      BY <1>4, <2>2 DEF CustodyInv
    <3>2. request[q].phase \in Dispatching => request[q].todo \in Todos
      BY <1>1, DispatchHasTodo DEF Dispatching
    <3>3. DispatchesClosed(q)'
      BY <1>5, <3>1, <3>2 DEF DispatchesClosed
    <3>4. ASSUME request[q].phase \in Sending PROVE HoldsAll(q)'
      <4>1. request[q].todo \in Todos /\ request[q].todo # u
        BY <1>2, <3>1, <3>2, <3>4 DEF DispatchesClosed, Dispatching, Sending
      <4>2. Held(q, request[q].todo)' = Held(q, request[q].todo)
        BY <1>2, <3>1, <4>1 DEF Held
      <4> QED BY <3>1, <4>2 DEF HoldsAll
    <3> QED BY <3>1, <3>3, <3>4 DEF HoldsAll
  <2> QED BY <2>1, <2>2
<1> QED BY <1>3, <1>5, <1>6, <1>7 DEF CustodyInv

\* What a claim takes from another request it takes all of.
LEMMA ClaimCustody ==
  ASSUME CustodyInv, DispatchInv', NEW r \in Requests, ClaimRows(r)
  PROVE  CustodyInv'
<1>1. TypeOK /\ TypeOK'
  BY DEF CustodyInv, DispatchInv
<1>2. PICK u \in Todos :
         /\ u = request[r].todo
         /\ \A t \in Todos : t # u => row'[t] = row[t]
         /\ \A k \in Kinds \ Claimable(u) : row'[u][k] = row[u][k]
         /\ \A k \in Claimable(u) : /\ row'[u][k].present
                                    /\ row'[u][k].receipt = r
         /\ \A q \in Requests : q # r => request'[q] = request[q]
         /\ request'[r].phase = "sending" /\ request'[r].todo = u
         /\ request'[r].jobs = Claimable(u) /\ Claimable(u) \subseteq Kinds
  BY <1>1, ClaimTables
<1>3. request[r].phase = "dispatch" /\ UNCHANGED <<todo, published>>
  BY DEF ClaimRows
<1>4. \A t \in Todos : Held(r, t) = {}
  BY <1>3, HeldByDispatch DEF Sending
<1>5. LeasedRows /\ row \in [Todos -> [Kinds -> Row]]
  BY <1>1, TypeParts
<1>6. ASSUME NEW t \in Todos, NEW k \in Kinds
      PROVE  HolderOf(t, k)' /\ CaredFor(t, k)'
  <2>1. CASE t = u /\ k \in Claimable(u)
    BY <1>2, <2>1, Constants DEF HolderOf, CaredFor, Sending
  <2>2. CASE ~(t = u /\ k \in Claimable(u))
    <3>1. row'[t][k] = row[t][k] /\ HolderOf(t, k) /\ CaredFor(t, k)
      BY <1>2, <2>2 DEF CustodyInv
    <3>2. row[t][k].receipt \in Requests \cup {None} /\ row[t][k].receipt # r
      BY <1>4, <1>5 DEF Row, Held
    <3>3. HolderOf(t, k)'
      BY <1>2, <3>1, <3>2 DEF HolderOf
    <3>4. CASE t = u
      <4>1. row[t][k].present => row[t][k].lease = "running"
        BY <2>2, <3>4 DEF Claimable
      <4>2. row[t][k].present => row[t][k].receipt # None
        BY <1>5, <4>1 DEF LeasedRows
      <4> QED BY <3>1, <3>3, <4>2 DEF CaredFor
    <3>5. CASE t # u
      <4>1. CaredFor(t, k)'
        BY <1>2, <3>1, <3>5 DEF CaredFor
      <4> QED BY <3>3, <4>1
    <3> QED BY <3>4, <3>5
  <2> QED BY <2>1, <2>2
<1>7. ASSUME NEW q \in Requests PROVE HoldsAll(q)' /\ DispatchesClosed(q)'
  <2>1. CASE q = r
    <3>1. Claimable(u) \subseteq Held(r, u)'
      BY <1>2 DEF Held
    <3>2. ~todo[u].open
      BY <1>2, <1>3 DEF CustodyInv, DispatchesClosed, Dispatching
    <3>3. HoldsAll(r)'
      <4>1. request'[r].jobs \subseteq Held(r, request[r].todo)'
        BY <1>2, <3>1
      <4> QED BY <4>1 DEF HoldsAll
    <3> QED BY <1>2, <1>3, <2>1, <3>2, <3>3 DEF DispatchesClosed
  <2>2. CASE q # r
    <3>1. request'[q] = request[q] /\ HoldsAll(q) /\ DispatchesClosed(q)
      BY <1>2, <2>2 DEF CustodyInv
    <3>2. DispatchesClosed(q)'
      BY <1>3, <3>1 DEF DispatchesClosed
    <3>3. ASSUME request[q].phase \in Sending PROVE HoldsAll(q)'
      <4>1. PICK t \in Todos : t = request[q].todo
        BY <1>1, <3>3, DispatchHasTodo DEF Sending
      <4>2. CASE t # u \/ Held(q, t) \cap Claimable(u) = {}
        <5>1. Held(q, t)' = Held(q, t)
          BY <1>2, <2>2, <4>2 DEF Held
        <5> QED BY <3>1, <4>1, <5>1 DEF HoldsAll
      <4>3. ASSUME t = u, NEW k \in Held(q, t), k \in Claimable(u)
            PROVE  Held(q, t)' = {}
        <5>1. /\ row[t][k].present /\ row[t][k].lease # "running"
              /\ k \in Kinds /\ row[t][k].receipt = q
          BY <4>3 DEF Claimable, Held
        <5>2. ASSUME NEW j \in Kinds, row[t][j].receipt = q PROVE j \in Claimable(u)
          <6>1. row[t][j].present
            BY <1>5, <5>2, Constants DEF LeasedRows
          <6>2. row[t][j].lease = row[t][k].lease
            BY <5>1, <6>1 DEF CustodyInv, DispatchInv, UniformOf
          <6> QED BY <4>3, <5>1, <6>1, <6>2 DEF Claimable
        <5>3. \A j \in Kinds : row'[t][j].receipt # q
          BY <1>2, <2>2, <4>3, <5>2
        <5> QED BY <5>3 DEF Held
      <4> QED BY <3>1, <4>1, <4>2, <4>3 DEF HoldsAll
    <3> QED BY <3>1, <3>2, <3>3 DEF HoldsAll
  <2> QED BY <2>1, <2>2
<1> QED BY <1>3, <1>6, <1>7 DEF CustodyInv

LEMMA DeleteCustody ==
  ASSUME CustodyInv, DispatchInv', NEW r \in Requests, DeleteRow(r)
  PROVE  CustodyInv'
<1>1. TypeOK /\ TypeOK'
  BY DEF CustodyInv, DispatchInv
<1>2. UNCHANGED <<todo, published>> /\ request[r].phase = "sent"
  BY DEF DeleteRow
<1>3. PICK t \in Todos : t = request[r].todo
  BY <1>1, <1>2, DispatchHasTodo
<1>4. request[r].jobs \in SUBSET Kinds /\ request[r].jobs # {}
  BY <1>1, <1>2, DispatchHasTodo, TypeParts DEF Request, Pairs
<1>5. PICK sent \in request[r].jobs : sent = NextJob(request[r].jobs)
  BY <1>4, NextJobIsLeast
<1>6. \/ Held(r, t) = {}
      \/ Held(r, t) = request[r].jobs
  BY <1>2, <1>3, HeldByDispatch DEF Sending
<1>7. CASE sent \in Held(r, t)
  <2>1. /\ row' = [row EXCEPT ![t][sent] = AbsentRow]
        /\ request' = [request EXCEPT ![r].phase = "sending",
                                      ![r].jobs = request[r].jobs \ {sent}]
    BY <1>3, <1>5, <1>7 DEF DeleteRow
  <2>2. /\ \A u \in Todos : u # t => row'[u] = row[u]
        /\ \A k \in Kinds : k # sent => row'[t][k] = row[t][k]
        /\ ~row'[t][sent].present /\ row'[t][sent].receipt = None
    BY <1>1, <1>4, <2>1, TypeParts DEF AbsentRow
  <2>3. /\ \A q \in Requests : q # r => request'[q] = request[q]
        /\ request'[r].phase = "sending"
        /\ request'[r].todo = t
        /\ request'[r].jobs = request[r].jobs \ {sent}
    BY <1>1, <1>3, <2>1, TypeParts DEF Request
  <2>4. row[t][sent].receipt = r
    BY <1>7 DEF Held
  <2>5. ASSUME NEW u \in Todos, NEW k \in Kinds
        PROVE  HolderOf(u, k)' /\ CaredFor(u, k)'
    <3>1. CASE u = t /\ k = sent
      BY <2>2, <3>1 DEF HolderOf, CaredFor
    <3>2. CASE ~(u = t /\ k = sent)
      <4>1. row'[u][k] = row[u][k] /\ HolderOf(u, k) /\ CaredFor(u, k)
        BY <2>2, <3>2 DEF CustodyInv
      <4>2. row[u][k].receipt \in Requests \cup {None}
        BY <1>1, TypeParts DEF Row
      <4>3. CaredFor(u, k)'
        BY <1>2, <2>3, <4>1 DEF CaredFor
      <4>4. CASE row[u][k].receipt = r
        <5>1. u = t
          BY <1>3, <4>4, HeldByDispatch DEF Held
        <5>2. k \in request'[r].jobs
          BY <1>2, <2>3, <3>2, <4>1, <4>4, <5>1, Constants DEF HolderOf, Sending
        <5> QED BY <2>3, <4>1, <4>3, <4>4, <5>2 DEF HolderOf, Sending
      <4>5. CASE row[u][k].receipt # r
        BY <2>3, <4>1, <4>2, <4>3, <4>5 DEF HolderOf
      <4> QED BY <4>4, <4>5
    <3> QED BY <3>1, <3>2
  <2>6. ASSUME NEW q \in Requests PROVE HoldsAll(q)' /\ DispatchesClosed(q)'
    <3>1. HoldsAll(q) /\ DispatchesClosed(q)
      BY DEF CustodyInv
    <3>2. CASE q = r
      <4>1. request[r].jobs \ {sent} \subseteq Held(r, t)'
        BY <1>4, <1>6, <1>7, <2>2 DEF Held
      <4>2. request'[r].jobs \subseteq Held(r, request[r].todo)'
        BY <2>3, <4>1
      <4>3. ~todo[t].open
        BY <1>2, <1>3, <3>1, <3>2 DEF DispatchesClosed, Dispatching
      <4> QED BY <1>2, <2>3, <3>2, <4>2, <4>3 DEF HoldsAll, DispatchesClosed
    <3>3. CASE q # r
      <4>1. request'[q] = request[q]
        BY <2>3, <3>3
      <4>2. ASSUME request[q].phase \in Sending
            PROVE  Held(q, request[q].todo)' = Held(q, request[q].todo)
        <5>1. PICK u \in Todos : u = request[q].todo
          BY <1>1, <4>2, DispatchHasTodo DEF Sending
        <5>2. Held(q, u)' = Held(q, u)
          <6>1. q # None
            BY Constants
          <6> QED BY <2>2, <2>4, <3>3, <6>1 DEF Held
        <5> QED BY <4>1, <5>1, <5>2
      <4>3. HoldsAll(q)'
        BY <3>1, <4>1, <4>2 DEF HoldsAll
      <4> QED BY <1>2, <3>1, <4>1, <4>3 DEF DispatchesClosed
    <3> QED BY <3>2, <3>3
  <2> QED BY <1>2, <2>5, <2>6 DEF CustodyInv
<1>8. CASE sent \notin Held(r, t)
  <2>1. Finish(r, "succeeded") /\ UNCHANGED row
    BY <1>3, <1>5, <1>8 DEF DeleteRow
  <2>2. Moves(r) /\ request'[r].phase = "succeeded"
    BY <1>1, <2>1, FinishMoves DEF Phases
  <2>3. \A u \in Todos : Held(r, u) = {}
    BY <1>3, <1>5, <1>6, <1>8, HeldByDispatch
  <2> QED BY <1>2, <2>1, <2>2, <2>3, CustodyMoved
          DEF Moves, SameHands, Sending, Dispatching
<1> QED BY <1>7, <1>8

\* What a failing dispatch gives back is taken up by a recovery.
LEMMA ReleaseCustody ==
  ASSUME CustodyInv, DispatchInv', NEW r \in Requests, Release(r)
  PROVE  CustodyInv'
<1>1. TypeOK /\ TypeOK'
  BY DEF CustodyInv, DispatchInv
<1>2. /\ UNCHANGED <<todo, published>> /\ Finish(r, "failed")
      /\ request[r].phase = "release"
  BY DEF Release
<1>3. PICK t \in Todos : t = request[r].todo
  BY <1>1, ReleaseGivesUp
<1>4. PICK held \in SUBSET Kinds : held = Held(r, t)
  BY <1>1, <1>3, ReleaseGivesUp
<1>5. GivesUp(t, held, Unleased) /\ \A k \in held : row[t][k].present
  BY <1>1, <1>3, <1>4, ReleaseGivesUp
<1>6. /\ \A u \in Todos : u # t => row'[u] = row[u]
      /\ \A k \in Kinds \ held : row'[t][k] = row[t][k]
      /\ \A k \in held : row'[t][k] = Unleased
      /\ Unleased.receipt = None
  BY <1>1, <1>5, TypeParts DEF GivesUp, Unleased, AbsentRow
<1>7. /\ \A q \in Requests : q # r => request'[q] = request[q]
      /\ request'[r].phase = "failed" /\ request'[r].todo = t
  BY <1>1, <1>2, <1>3, FinishMoves DEF Phases, Moves
<1>8. ASSUME NEW u \in Todos, NEW k \in Kinds
      PROVE  HolderOf(u, k)' /\ CaredFor(u, k)'
  <2>1. CASE u = t /\ k \in held
    BY <1>6, <1>7, <2>1 DEF HolderOf, CaredFor
  <2>2. CASE ~(u = t /\ k \in held)
    <3>1. row'[u][k] = row[u][k] /\ HolderOf(u, k) /\ CaredFor(u, k)
      BY <1>6, <2>2 DEF CustodyInv
    <3>2. row[u][k].receipt \in Requests \cup {None}
      BY <1>1, TypeParts DEF Row
    <3>3. HolderOf(u, k)'
      BY <1>7, <3>1, <3>2 DEF HolderOf
    <3>4. CaredFor(u, k)'
      BY <1>2, <1>7, <3>1 DEF CaredFor
    <3> QED BY <3>3, <3>4
  <2> QED BY <2>1, <2>2
<1>9. ASSUME NEW q \in Requests PROVE HoldsAll(q)' /\ DispatchesClosed(q)'
  <2>1. HoldsAll(q) /\ DispatchesClosed(q)
    BY DEF CustodyInv
  <2>2. CASE q = r
    BY <1>7, <2>2 DEF HoldsAll, DispatchesClosed, Sending, Dispatching
  <2>3. CASE q # r
    <3>1. request'[q] = request[q]
      BY <1>7, <2>3
    <3>2. ASSUME request[q].phase \in Sending
          PROVE  Held(q, request[q].todo)' = Held(q, request[q].todo)
      <4>1. PICK u \in Todos : u = request[q].todo
        BY <1>1, <3>2, DispatchHasTodo DEF Sending
      <4>2. \A k \in held : row[t][k].receipt = r
        BY <1>4 DEF Held
      <4>3. Held(q, u)' = Held(q, u)
        <5>1. q # None
          BY Constants
        <5> QED BY <1>6, <2>3, <4>2, <5>1 DEF Held
      <4> QED BY <3>1, <4>1, <4>3
    <3>3. HoldsAll(q)'
      BY <2>1, <3>1, <3>2 DEF HoldsAll
    <3> QED BY <1>2, <2>1, <3>1, <3>3 DEF DispatchesClosed
  <2> QED BY <2>2, <2>3
<1> QED BY <1>2, <1>8, <1>9 DEF CustodyInv

LEMMA LeaseHands ==
  ASSUME TypeOK, NEW r \in Requests, NEW t \in Todos,
         NEW lease \in {"running", "lapsed"}, GivesLease(r, t, lease)
  PROVE  SameHands
<1>1. /\ \A u \in Todos : u # t => row'[u] = row[u]
      /\ \A k \in Kinds : /\ row'[t][k].present <=> row[t][k].present
                          /\ row'[t][k].receipt = row[t][k].receipt
      /\ row' \in [Todos -> [Kinds -> Row]] /\ row \in [Todos -> [Kinds -> Row]]
  BY LeaseTables, TypeParts
<1>2. \A k \in Kinds : row'[t][k].present \in BOOLEAN /\ row[t][k].present \in BOOLEAN
  BY <1>1 DEF Row
<1>3. \A k \in Kinds : row'[t][k].present = row[t][k].present
  BY <1>1, <1>2
<1> QED BY <1>1, <1>3 DEF SameHands

\* A dispatch that holds its rows goes on; one that has lost them ends.
LEMMA SendingCustody ==
  ASSUME CustodyInv, DispatchInv', NEW r \in Requests,
         AllSent(r) \/ ExtendClaim(r) \/ Send(r) \/ DispatchError(r)
  PROVE  CustodyInv'
<1>1. TypeOK /\ TypeOK'
  BY DEF CustodyInv, DispatchInv
<1>2. UNCHANGED todo /\ request[r].phase \in Dispatching
  BY DEF AllSent, ExtendClaim, Send, DispatchError, Dispatching
<1>3. PICK t \in Todos : t = request[r].todo
  BY <1>1, <1>2, DispatchHasTodo DEF Dispatching
<1>4. ~todo[t].open
  BY <1>2, <1>3 DEF CustodyInv, DispatchesClosed
<1>5. /\ request[r].phase = "dispatch" => \A u \in Todos : Held(r, u) = {}
      /\ request[r].phase \in Sending => Held(r, t) = {} \/ Held(r, t) = request[r].jobs
      /\ \A u \in Todos : u # t => Held(r, u) = {}
  BY <1>3, HeldByDispatch DEF Sending
<1>6. \A u \in Todos, k \in Kinds : published'[u][k] > 0 =>
                                        published[u][k] > 0 \/ ~todo[u].open
  <2>1. CASE UNCHANGED published
    BY <2>1
  <2>2. CASE request[r].phase = "renewed" /\ Accept(r)
    <3>1. request[r].jobs # {}
      BY <1>1, <2>2, TypeParts DEF Pairs
    <3> QED BY <1>1, <1>3, <1>4, <2>2, <3>1, AcceptType
  <2> QED BY <2>1, <2>2 DEF AllSent, ExtendClaim, Send, DispatchError
<1>7. CASE /\ Finish(r, "succeeded") /\ UNCHANGED row
           /\ request[r].phase = "sending" /\ \A u \in Todos : Held(r, u) = {}
  <2>1. Moves(r) /\ request'[r].phase = "succeeded"
    BY <1>1, <1>7, FinishMoves DEF Phases
  <2> QED BY <1>2, <1>6, <1>7, <2>1, CustodyMoved
          DEF Moves, SameHands, Sending, Dispatching
<1>8. ASSUME NEW phase \in {"renewed", "sent", "release"}, Go(r, phase), SameHands,
             request[r].phase \in Sending
      PROVE  CustodyInv'
  <2>1. Moves(r) /\ request'[r].phase = phase /\ request'[r].jobs = request[r].jobs
    BY <1>1, <1>8, GoMoves DEF Phases
  <2> QED BY <1>2, <1>3, <1>4, <1>5, <1>6, <1>8, <2>1, CustodyMoved
          DEF Moves, Sending, Dispatching
<1>9. CASE AllSent(r)
  <2>1. /\ Finish(r, "succeeded") /\ UNCHANGED row
        /\ request[r].jobs = {} /\ request[r].phase = "sending"
    BY <1>9 DEF AllSent
  <2>2. \A u \in Todos : Held(r, u) = {}
    BY <1>5, <2>1 DEF Sending
  <2> QED BY <1>7, <2>1, <2>2
<1>10. CASE ExtendClaim(r)
  <2>1. CASE Renewed(r)
    <3>1. GivesLease(r, t, "running") /\ Go(r, "renewed") /\ request[r].phase = "sending"
      BY <1>3, <1>10, <2>1 DEF ExtendClaim, GivesLease
    <3> QED BY <1>1, <1>8, <3>1, LeaseHands DEF Sending
  <2>2. CASE ~Renewed(r)
    <3>1. /\ Finish(r, "succeeded") /\ UNCHANGED row /\ Held(r, t) = {}
          /\ request[r].phase = "sending"
      BY <1>3, <1>10, <2>2 DEF ExtendClaim, Renewed
    <3>2. \A u \in Todos : Held(r, u) = {}
      BY <1>5, <3>1
    <3> QED BY <1>7, <3>1, <3>2
  <2> QED BY <2>1, <2>2
<1>11. CASE Send(r)
  <2>1. Go(r, "sent") /\ UNCHANGED row /\ request[r].phase = "renewed"
    BY <1>11 DEF Send
  <2> QED BY <1>8, <2>1 DEF SameHands, Sending
<1>12. CASE DispatchError(r)
  <2>1. UNCHANGED row
    BY <1>12 DEF DispatchError
  <2>2. CASE request[r].phase = "dispatch" /\ Finish(r, "failed")
    <3>1. Moves(r) /\ request'[r].phase = "failed"
      BY <1>1, <2>2, FinishMoves DEF Phases
    <3> QED BY <1>2, <1>6, <2>1, <3>1, CustodyMoved
            DEF Moves, SameHands, Sending, Dispatching
  <2>3. CASE request[r].phase \in Sending /\ Go(r, "release")
    BY <1>8, <2>1, <2>3 DEF SameHands
  <2> QED BY <1>12, <2>2, <2>3 DEF DispatchError, Sending
<1> QED BY <1>9, <1>10, <1>11, <1>12

\* Whoever begins to answer for a to-do finds it completed.
LEMMA CustodyStep ==
  ASSUME CustodyInv, [Next]_vars
  PROVE  CustodyInv'
<1>1. TypeOK /\ TypeOK' /\ DispatchInv'
  BY TypeStep, DispatchStep DEF CustodyInv, DispatchInv
<1>2. ASSUME NEW r \in Requests, NEW t \in Todos,
             (\E user \in Users : Submit(r, t, user)) \/ Recover(r, t)
      PROVE  CustodyInv'
  <2>1. /\ UNCHANGED <<todo, row, published>> /\ request[r].phase = "idle"
        /\ \A q \in Requests : q # r => request'[q] = request[q]
        /\ request'[r].phase \in {"inspect", "dispatch"}
    BY <1>1, <1>2, StartMoves
  <2>2. \A u \in Todos : Held(r, u) = {}
    BY <2>1, HeldByDispatch DEF Sending
  <2>3. request'[r].phase = "dispatch" => ~todo[request'[r].todo].open
    <3>1. CASE Recover(r, t)
      BY <1>1, <3>1, TypeParts DEF Recover, Request
    <3>2. ASSUME NEW user \in Users, Submit(r, t, user)
          PROVE  request'[r].phase = "inspect"
      BY <1>1, <3>2, TypeParts DEF Submit, Idle
    <3> QED BY <1>2, <3>1, <3>2
  <2> QED BY <1>1, <2>1, <2>2, <2>3, CustodyMoved DEF SameHands, Sending, Dispatching
<1>3. ASSUME NEW r \in Requests, Attempt(r) PROVE CustodyInv'
  <2>1. CASE Complete(r)
    BY <1>1, <2>1, CompleteCustody
  <2>2. CASE ~Complete(r)
    <3>1. /\ UNCHANGED <<todo, row, published>>
          /\ request[r].phase \in Attempting
          /\ Moves(r)
          /\ \/ request'[r].phase \in
                   Attempting \cup {"conflicted", "rejected", "failed"}
             \/ /\ request'[r].phase = "dispatch"
                /\ ~todo[request[r].todo].open
      BY <1>1, <1>3, <2>2, AttemptMoves DEF CompleteToDoIfOpen
    <3>2. \A u \in Todos : Held(r, u) = {}
      BY <3>1, HeldByDispatch DEF Sending, Attempting
    <3> QED BY <1>1, <3>1, <3>2, CustodyMoved
            DEF Moves, SameHands, Attempting, Sending, Dispatching
  <2> QED BY <2>1, <2>2
<1>4. ASSUME NEW r \in Requests, Dispatch(r) PROVE CustodyInv'
  BY <1>1, <1>4, ClaimCustody, SendingCustody, DeleteCustody, ReleaseCustody
     DEF Dispatch
<1>5. ASSUME NEW r \in Requests, Crash(r) PROVE CustodyInv'
  <2>1. /\ UNCHANGED <<todo, row, published>> /\ Moves(r)
        /\ request'[r].phase = "crashed"
    BY <1>1, <1>5, CrashMoves
  <2> QED BY <1>1, <2>1, CustodyMoved DEF Moves, SameHands, Sending, Dispatching
<1>6. ASSUME UNCHANGED <<todo, published, request>>, SameHands PROVE CustodyInv'
  <2>1. \A q \in Requests, t \in Todos : Held(q, t)' = Held(q, t)
    BY <1>6 DEF Held, SameHands
  <2>2. \A q \in Requests : request[q].phase \in Sending => request[q].todo \in Todos
    BY <1>1, DispatchHasTodo DEF Sending
  <2>3. \A q \in Requests : HoldsAll(q)' /\ DispatchesClosed(q)'
    BY <1>6, <2>1, <2>2 DEF CustodyInv, HoldsAll, DispatchesClosed
  <2>4. \A t \in Todos, k \in Kinds : HolderOf(t, k)' /\ CaredFor(t, k)'
    BY <1>6 DEF CustodyInv, HolderOf, CaredFor, SameHands
  <2> QED BY <1>1, <1>6, <2>3, <2>4 DEF CustodyInv
<1>7. ASSUME NEW time \in 1 .. clock, SystemWrite(time) PROVE CustodyInv'
  BY <1>6, <1>7 DEF SystemWrite, SameHands
<1>8. CASE Tick \/ UNCHANGED vars
  BY <1>6, <1>8 DEF Tick, vars, SameHands
<1>9. ASSUME NEW r \in Requests, NEW t \in Todos, LeaseLapses(r, t) PROVE CustodyInv'
  <2>1. GivesLease(r, t, "lapsed") /\ UNCHANGED <<todo, published, request>>
    BY <1>9 DEF LeaseLapses, GivesLease
  <2> QED BY <1>1, <1>6, <2>1, LeaseHands
<1>10. ASSUME NEW r \in Requests, NEW t \in Todos, NEW user \in Users,
              Submit(r, t, user)
       PROVE  CustodyInv'
  BY <1>2, <1>10
<1> QED BY <1>2, <1>3, <1>4, <1>5, <1>7, <1>8, <1>9, <1>10 DEF Next

LEMMA InitCustody == Init => CustodyInv
<1> SUFFICES ASSUME Init PROVE CustodyInv
  OBVIOUS
<1>1. \A t \in Todos : KeptOf(t) /\ UniformOf(t) /\ OrderedOf(t)
  BY DEF Init, AbsentRow, KeptOf, UniformOf, OrderedOf
<1>2. \A r \in Requests : request[r].phase = "idle"
  BY DEF Init, Idle
<1>3. \A r \in Requests : SentBy(r) /\ HoldsAll(r) /\ DispatchesClosed(r)
  BY <1>2 DEF SentBy, HoldsAll, DispatchesClosed, Sending, Dispatching
<1>4. \A t \in Todos, k \in Kinds :
         HolderOf(t, k) /\ CaredFor(t, k) /\ ~(published[t][k] > 0)
  BY DEF Init, AbsentRow, HolderOf, CaredFor
<1> QED BY <1>1, <1>3, <1>4, InitType DEF CustodyInv, DispatchInv

\* Once every request has been answered, and none failed or crashed, the queue has
\* every job of every completed to-do: a dispatch that ends early leaves its rows to
\* one that goes on (the early returns of recoverExternalCompletionEnqueue).
THEOREM SuccessIsDispatched == Spec => []SuccessMeansDispatched
<1>1. ASSUME CustodyInv PROVE SuccessMeansDispatched
  <2> SUFFICES ASSUME \A r \in Requests :
                         request[r].phase \in
                             {"idle", "succeeded", "conflicted", "rejected"},
                      NEW t \in Todos, NEW k \in Kinds
               PROVE  ~row[t][k].present /\ (~todo[t].open => published[t][k] > 0)
    BY DEF SuccessMeansDispatched
  <2>1. row[t][k].receipt \in Requests \cup {None}
    BY <1>1, TypeParts DEF CustodyInv, DispatchInv, Row
  <2>2. row[t][k].receipt = None
    BY <1>1, <2>1 DEF CustodyInv, HolderOf, Sending
  <2>3. ~row[t][k].present
    BY <1>1, <2>2 DEF CustodyInv, CaredFor
  <2> QED BY <1>1, <2>3 DEF CustodyInv, DispatchInv, KeptOf
<1> QED BY <1>1, InitCustody, CustodyStep, PTL DEF Spec

-----------------------------------------------------------------------------
\* A job is published once.  Who has renewed a claim will send the job once more,
\* whatever becomes of the claim, and a row can be sent once more unless its holder
\* has just done so.  Both are paid for by the lapses and the errors so far.

Sure(t, k) ==
    {r \in Requests : /\ request[r].phase = "renewed" /\ request[r].todo = t
                      /\ NextJob(request[r].jobs) = k}

\* The holder has the job still to renew, to release or behind the one it sends.
Takes(q, k) ==
    \/ request[q].phase \in {"sending", "release"}
    \/ request[q].phase \in {"renewed", "sent"} /\ NextJob(request[q].jobs) # k

Free(t, k) ==
    /\ row[t][k].present
    /\ row[t][k].lease # "running" \/ Takes(row[t][k].receipt, k)

One(b) == IF b THEN 1 ELSE 0

Total(x, y) == 1 + x + y

Costs == Total(lapses, faults)

\* p publications, the requests S that will publish, f times a row may be sent.
Within(p, S, f, c) == IsFiniteSet(S) /\ p + Cardinality(S) + f <= c

BudgetOf(t, k) == Within(published[t][k], Sure(t, k), One(Free(t, k)), Costs)

BudgetInv == CustodyInv /\ \A t \in Todos, k \in Kinds : BudgetOf(t, k)

\* What a step may do to the sum.
Pay(p, S, f, c, p2, S2, f2, c2) ==
    \/ S2 \subseteq S /\ p2 = p /\ f2 <= f /\ c <= c2
    \/ S2 \subseteq S /\ p2 = p /\ c + 1 <= c2
    \/ \E r \in S : /\ S2 \subseteq S \ {r} /\ p2 = p + 1
                    /\ (f2 <= f /\ c <= c2) \/ c + 1 <= c2
    \/ \E r : S2 \subseteq S \cup {r} /\ p2 = p /\ f = 1 /\ f2 = 0 /\ c <= c2

LEMMA Balance ==
  ASSUME NEW p, NEW S, NEW f, NEW c, NEW p2, NEW S2, NEW f2, NEW c2,
         p \in Nat, p2 \in Nat, c \in Nat, c2 \in Nat, f \in {0, 1}, f2 \in {0, 1},
         Within(p, S, f, c), Pay(p, S, f, c, p2, S2, f2, c2)
  PROVE  Within(p2, S2, f2, c2)
<1> USE DEF Within
<1>1. Cardinality(S) \in Nat
  BY FS_CardinalityType
<1>2. ASSUME S2 \subseteq S
      PROVE  IsFiniteSet(S2) /\ Cardinality(S2) \in Nat /\ Cardinality(S2) <= Cardinality(S)
  BY <1>2, FS_Subset, FS_CardinalityType
<1>3. ASSUME NEW r \in S, S2 \subseteq S \ {r}
      PROVE  /\ IsFiniteSet(S2) /\ Cardinality(S2) \in Nat
             /\ Cardinality(S2) <= Cardinality(S) - 1
  <2>1. IsFiniteSet(S \ {r}) /\ Cardinality(S \ {r}) = Cardinality(S) - 1
    BY <1>3, FS_RemoveElement
  <2> QED BY <1>3, <2>1, FS_Subset, FS_CardinalityType
<1>4. ASSUME NEW r, S2 \subseteq S \cup {r}
      PROVE  /\ IsFiniteSet(S2) /\ Cardinality(S2) \in Nat
             /\ Cardinality(S2) <= Cardinality(S) + 1
  <2>1. /\ IsFiniteSet(S \cup {r})
        /\ Cardinality(S \cup {r}) = IF r \in S THEN Cardinality(S) ELSE Cardinality(S) + 1
    BY FS_AddElement
  <2>2. IsFiniteSet(S2) /\ Cardinality(S2) <= Cardinality(S \cup {r})
    BY <1>4, <2>1, FS_Subset
  <2>3. Cardinality(S2) \in Nat
    BY <2>2, FS_CardinalityType
  <2>4. Cardinality(S \cup {r}) \in Nat /\ Cardinality(S \cup {r}) <= Cardinality(S) + 1
    BY <1>1, <2>1
  <2> QED BY <1>1, <2>2, <2>3, <2>4
<1>5. CASE S2 \subseteq S /\ p2 = p /\ f2 <= f /\ c <= c2
  BY <1>1, <1>2, <1>5
<1>6. CASE S2 \subseteq S /\ p2 = p /\ c + 1 <= c2
  BY <1>1, <1>2, <1>6
<1>7. ASSUME NEW r \in S, S2 \subseteq S \ {r}, p2 = p + 1,
             (f2 <= f /\ c <= c2) \/ c + 1 <= c2
      PROVE  Within(p2, S2, f2, c2)
  BY <1>1, <1>3, <1>7
<1>8. ASSUME NEW r, S2 \subseteq S \cup {r}, p2 = p, f = 1, f2 = 0, c <= c2
      PROVE  Within(p2, S2, f2, c2)
  <2>1. /\ IsFiniteSet(S2) /\ Cardinality(S2) \in Nat
        /\ Cardinality(S2) <= Cardinality(S) + 1
    BY <1>4, <1>8
  <2>2. p + Cardinality(S) + 1 <= c
    BY <1>8
  <2>3. p2 + Cardinality(S2) + f2 <= c2
    BY <1>1, <1>8, <2>1, <2>2
  <2> QED BY <2>1, <2>3
<1> QED BY <1>5, <1>6, <1>7, <1>8 DEF Pay

\* The costs are an operator of their own: the provers need only that they grow.
LEMMA TotalGrows ==
  \A x, y \in Nat :
     /\ Total(x, y) \in Nat /\ Total(x, y) <= Total(x, y)
     /\ Total(x, y) <= Total(x + 1, y) /\ Total(x, y) + 1 <= Total(x + 1, y)
     /\ Total(x, y) <= Total(x, y + 1) /\ Total(x, y) + 1 <= Total(x, y + 1)
BY DEF Total

\* With nothing published the budget holds, and it bounds what is.
LEMMA WithinTotal ==
  ASSUME NEW x \in Nat, NEW y \in Nat, NEW f \in {0, 1}
  PROVE  /\ Within(0, {}, f, Total(x, y))
         /\ \A p \in Nat : \A S : Within(p, S, f, Total(x, y)) => p <= 1 + x + y
<1>1. IsFiniteSet({}) /\ Cardinality({}) = 0
  BY FS_EmptySet
<1>2. ASSUME NEW p \in Nat, NEW S, Within(p, S, f, Total(x, y))
      PROVE  p <= 1 + x + y
  <2>1. Cardinality(S) \in Nat /\ p + Cardinality(S) + f <= 1 + x + y
    BY <1>2, FS_CardinalityType DEF Within, Total
  <2> QED BY <2>1
<1> QED BY <1>1, <1>2 DEF Within, Total

LEMMA CostsType ==
  ASSUME TypeOK, TypeOK'
  PROVE  /\ Costs \in Nat /\ Costs' \in Nat
         /\ lapses \in Nat /\ faults \in Nat /\ lapses' \in Nat /\ faults' \in Nat
         /\ Costs = Total(lapses, faults) /\ Costs' = Total(lapses', faults')
<1>1. lapses \in Nat /\ faults \in Nat /\ lapses' \in Nat /\ faults' \in Nat
  BY TypeParts, TypePartsNext
<1>2. Costs = Total(lapses, faults) /\ Costs' = Total(lapses', faults')
  BY DEF Costs
<1> QED BY <1>1, <1>2, TotalGrows

\* What a step may do with each job.
Pays(t, k) ==
    \/ /\ Sure(t, k)' \subseteq Sure(t, k) /\ published'[t][k] = published[t][k]
       /\ Free(t, k)' => Free(t, k)
       /\ Costs <= Costs'
    \/ /\ Sure(t, k)' \subseteq Sure(t, k) /\ published'[t][k] = published[t][k]
       /\ Costs + 1 <= Costs'
    \/ \E r \in Sure(t, k) :
          /\ Sure(t, k)' \subseteq Sure(t, k) \ {r}
          /\ published'[t][k] = published[t][k] + 1
          /\ ((Free(t, k)' => Free(t, k)) /\ Costs <= Costs') \/ Costs + 1 <= Costs'
    \/ /\ \E r : Sure(t, k)' \subseteq Sure(t, k) \cup {r}
       /\ published'[t][k] = published[t][k]
       /\ Free(t, k) /\ ~Free(t, k)' /\ Costs <= Costs'

LEMMA BudgetAfter ==
  ASSUME TypeOK, TypeOK', NEW t \in Todos, NEW k \in Kinds, BudgetOf(t, k), Pays(t, k)
  PROVE  BudgetOf(t, k)'
<1>1. PICK p, p2 : p = published[t][k] /\ p2 = published'[t][k]
  OBVIOUS
<1>2. PICK S, S2 : S = Sure(t, k) /\ S2 = Sure(t, k)'
  OBVIOUS
<1>3. PICK c, c2 : c = Costs /\ c2 = Costs'
  OBVIOUS
<1>4. PICK f, f2 : f = One(Free(t, k)) /\ f2 = One(Free(t, k)')
  OBVIOUS
<1>5. p \in Nat /\ p2 \in Nat
  BY <1>1, TypeParts, TypePartsNext
<1>6. c \in Nat /\ c2 \in Nat
  BY <1>3, CostsType
<1>7. /\ f \in {0, 1} /\ f2 \in {0, 1}
      /\ (Free(t, k)' => Free(t, k)) => f2 <= f
      /\ Free(t, k) /\ ~Free(t, k)' => f = 1 /\ f2 = 0
  BY <1>4 DEF One
<1>8. Within(p, S, f, c)
  BY <1>1, <1>2, <1>3, <1>4 DEF BudgetOf
<1>9. Pay(p, S, f, c, p2, S2, f2, c2)
  BY <1>1, <1>2, <1>3, <1>7 DEF Pays, Pay
<1>10. Within(p2, S2, f2, c2)
  BY <1>5, <1>6, <1>7, <1>8, <1>9, Balance
<1> QED BY <1>1, <1>2, <1>3, <1>4, <1>10 DEF BudgetOf

LEMMA CostsGrow ==
  ASSUME TypeOK, TypeOK', [Next]_vars
  PROVE  Costs <= Costs'
<1>2. ASSUME NEW r \in Requests, Dispatch(r)
      PROVE  lapses' = lapses /\ (faults' = faults \/ faults' = faults + 1)
  BY <1>2 DEF Dispatch, ClaimRows, AllSent, ExtendClaim, Send, DeleteRow,
              DispatchError, Release
<1>3. ASSUME NEW r \in Requests, Attempt(r)
      PROVE  lapses' = lapses /\ (faults' = faults \/ faults' = faults + 1)
  BY <1>3 DEF Attempt, Inspect, ReadState, Reject, Replay, Complete, Overtaken,
              Conflict, DatabaseError
<1>4. \/ lapses' = lapses /\ (faults' = faults \/ faults' = faults + 1)
      \/ lapses' = lapses + 1 /\ faults' = faults
  BY <1>2, <1>3 DEF Next, Submit, SystemWrite, Recover, LeaseLapses, Crash, Tick, vars
<1> QED BY <1>4, CostsType, TotalGrows

\* The other requests are as sure as before, and take what they took.
LEMMA OthersBudget ==
  ASSUME CustodyInv, NEW r \in Requests,
         \A q \in Requests : q # r => request'[q] = request[q],
         NEW t \in Todos, NEW k \in Kinds
  PROVE  /\ Sure(t, k)' \ {r} = Sure(t, k) \ {r}
         /\ request'[r].phase # "renewed" => Sure(t, k)' \subseteq Sure(t, k) \ {r}
         /\ /\ row'[t][k] = row[t][k]
            /\ Free(t, k)'
            /\ row[t][k].receipt = r => Free(t, k)
            => Free(t, k)
<1>1. Sure(t, k)' \ {r} = Sure(t, k) \ {r}
  BY DEF Sure
<1>2. ASSUME request'[r].phase # "renewed" PROVE r \notin Sure(t, k)'
  BY <1>2 DEF Sure
<1>3. ASSUME row'[t][k] = row[t][k], Free(t, k)', row[t][k].receipt = r => Free(t, k)
      PROVE  Free(t, k)
  <2>1. /\ row[t][k].receipt \in Requests \cup {None}
        /\ row[t][k].receipt = None => row[t][k].lease = "none"
    BY TypeParts DEF CustodyInv, DispatchInv, LeasedRows, Row
  <2>2. CASE row[t][k].lease # "running"
    BY <1>3, <2>2 DEF Free
  <2>3. CASE row[t][k].lease = "running"
    BY <1>3, <2>1, <2>3 DEF Free, Takes
  <2> QED BY <2>2, <2>3
<1> QED BY <1>1, <1>2, <1>3

\* A step that leaves the rows and the queue alone, by a request that holds no row
\* afterwards that it will still send.
LEMMA BudgetKept ==
  ASSUME BudgetInv, CustodyInv', UNCHANGED <<row, published>>, Costs <= Costs',
         NEW r \in Requests, \A q \in Requests : q # r => request'[q] = request[q],
         request'[r].phase \notin Sending \cup {"release"}
  PROVE  BudgetInv'
<1> SUFFICES ASSUME NEW t \in Todos, NEW k \in Kinds
             PROVE  BudgetOf(t, k)'
  BY DEF BudgetInv
<1>1. TypeOK /\ TypeOK' /\ CustodyInv /\ BudgetOf(t, k)
  BY DEF BudgetInv, CustodyInv, DispatchInv
<1>2. Sure(t, k)' \subseteq Sure(t, k)
  BY <1>1, OthersBudget DEF Sending
<1>3. ASSUME Free(t, k)' PROVE Free(t, k)
  <2>1. ASSUME row[t][k].receipt = r PROVE Free(t, k)
    BY <1>3, <2>1 DEF Free, Takes, Sending
  <2> QED BY <1>1, <1>3, <2>1, OthersBudget
<1> QED BY <1>1, <1>2, <1>3, BudgetAfter DEF Pays

LEMMA CompleteBudget ==
  ASSUME BudgetInv, CustodyInv', NEW r \in Requests, Complete(r), Costs <= Costs'
  PROVE  BudgetInv'
<1> SUFFICES ASSUME NEW t \in Todos, NEW k \in Kinds
             PROVE  BudgetOf(t, k)'
  BY DEF BudgetInv
<1>1. TypeOK /\ TypeOK' /\ CustodyInv /\ BudgetOf(t, k)
  BY DEF BudgetInv, CustodyInv, DispatchInv
<1>2. PICK u \in Todos :
         /\ u = request[r].todo /\ todo[u].open
         /\ \A v \in Todos : v # u => row'[v] = row[v]
  BY <1>1, CompleteTables
<1>3. Go(r, "dispatch") /\ UNCHANGED published /\ request[r].phase = "commit"
  BY DEF Complete
<1>4. /\ \A q \in Requests : q # r => request'[q] = request[q]
      /\ request'[r].phase = "dispatch"
  BY <1>1, <1>3, GoType, TypeParts DEF Phases
<1>5. Sure(t, k)' \subseteq Sure(t, k)
  BY <1>1, <1>4, OthersBudget
<1>6. CASE t = u
  <2>1. Sure(t, k) = {}
    BY <1>1, <1>2, <1>6 DEF Sure, CustodyInv, DispatchesClosed, Dispatching
  <2>2. published'[t][k] = 0
    <3>1. ~(published[t][k] > 0) /\ published[t][k] \in Nat
      BY <1>1, <1>2, <1>6, TypeParts DEF CustodyInv
    <3> QED BY <1>3, <3>1
  <2>3. Sure(t, k)' = {}
    BY <1>5, <2>1
  <2>4. One(Free(t, k)') \in {0, 1}
    BY DEF One
  <2>5. Within(0, {}, One(Free(t, k)'), Costs')
    BY <1>1, <2>4, CostsType, WithinTotal
  <2> QED BY <2>2, <2>3, <2>5 DEF BudgetOf
<1>7. CASE t # u
  <2>1. row'[t][k] = row[t][k] /\ row[t][k].receipt # r
    <3>1. Held(r, t) = {}
      BY <1>1, <1>3, HeldByDispatch DEF Sending
    <3> QED BY <1>2, <1>7, <3>1 DEF Held
  <2>2. Free(t, k)' => Free(t, k)
    BY <1>1, <1>4, <2>1, OthersBudget
  <2> QED BY <1>1, <1>3, <1>5, <2>2, BudgetAfter DEF Pays
<1> QED BY <1>6, <1>7

\* A step that costs nothing, and one that lets a lease lapse or fails.
LEMMA CostsCount ==
  ASSUME TypeOK, TypeOK'
  PROVE  /\ UNCHANGED <<lapses, faults>> => Costs <= Costs'
         /\ (lapses' = lapses + 1 /\ faults' = faults)
            \/ (lapses' = lapses /\ faults' = faults + 1) => Costs + 1 <= Costs'
<1>1. CASE UNCHANGED <<lapses, faults>>
  BY <1>1, CostsType, TotalGrows
<1>2. CASE lapses' = lapses + 1 /\ faults' = faults
  BY <1>2, CostsType, TotalGrows
<1>3. CASE lapses' = lapses /\ faults' = faults + 1
  BY <1>3, CostsType, TotalGrows
<1> QED BY <1>1, <1>2, <1>3

\* What the queue has accepted after one more job.
LEMMA AcceptCounts ==
  ASSUME TypeOK, NEW r \in Requests, Accept(r), request[r].jobs # {},
         NEW t \in Todos, NEW k \in Kinds
  PROVE  published'[t][k] =
             IF t = request[r].todo /\ k = NextJob(request[r].jobs)
             THEN published[t][k] + 1 ELSE published[t][k]
<1>1. NextJob(request[r].jobs) \in Kinds
  BY NextJobIsLeast, TypeParts DEF Request
<1>2. published \in [Todos -> [Kinds -> Nat]]
  BY TypeParts
<1> QED BY <1>1, <1>2 DEF Accept

\* A dispatch spends on its own to-do.
LEMMA OtherTodo ==
  ASSUME CustodyInv, TypeOK', NEW r \in Requests, NEW t \in Todos, NEW k \in Kinds,
         BudgetOf(t, k), Costs <= Costs',
         \A q \in Requests : q # r => request'[q] = request[q],
         request'[r].todo = request[r].todo, t # request[r].todo,
         row'[t][k] = row[t][k], published'[t][k] = published[t][k]
  PROVE  BudgetOf(t, k)'
<1>1. TypeOK
  BY DEF CustodyInv, DispatchInv
<1>2. Sure(t, k)' \subseteq Sure(t, k)
  BY DEF Sure
<1>3. row[t][k].receipt # r
  BY HeldByDispatch DEF Held
<1>4. Free(t, k)' => Free(t, k)
  BY <1>3, OthersBudget
<1> QED BY <1>1, <1>2, <1>4, BudgetAfter DEF Pays

\* A claim takes rows that were free.
LEMMA ClaimBudget ==
  ASSUME BudgetInv, CustodyInv', NEW r \in Requests, ClaimRows(r), Costs <= Costs'
  PROVE  BudgetInv'
<1> SUFFICES ASSUME NEW t \in Todos, NEW k \in Kinds
             PROVE  BudgetOf(t, k)'
  BY DEF BudgetInv
<1>1. TypeOK /\ TypeOK' /\ CustodyInv /\ BudgetOf(t, k)
  BY DEF BudgetInv, CustodyInv, DispatchInv
<1>2. PICK u \in Todos :
         /\ u = request[r].todo
         /\ \A v \in Todos : v # u => row'[v] = row[v]
         /\ \A j \in Kinds \ Claimable(u) : row'[u][j] = row[u][j]
         /\ \A q \in Requests : q # r => request'[q] = request[q]
         /\ request'[r].phase = "sending" /\ request'[r].todo = u
  BY <1>1, ClaimTables
<1>3. request[r].phase = "dispatch" /\ UNCHANGED published
  BY DEF ClaimRows
<1>4. CASE t = u
  <2>1. Sure(t, k)' \subseteq Sure(t, k)
    BY <1>1, <1>2, OthersBudget
  <2>2. CASE k \in Claimable(u)
    <3>1. Free(t, k)
      BY <1>4, <2>2 DEF Free, Claimable
    <3> QED BY <1>1, <1>3, <2>1, <3>1, BudgetAfter DEF Pays
  <2>3. CASE k \notin Claimable(u)
    <3>1. row'[t][k] = row[t][k]
      BY <1>2, <1>4, <2>3
    <3>2. row[t][k].receipt # r
      BY <1>1, <1>3, HeldByDispatch DEF Held, Sending
    <3>3. Free(t, k)' => Free(t, k)
      BY <1>1, <1>2, <3>1, <3>2, OthersBudget
    <3> QED BY <1>1, <1>3, <2>1, <3>3, BudgetAfter DEF Pays
  <2> QED BY <2>2, <2>3
<1>5. CASE t # u
  BY <1>1, <1>2, <1>3, <1>5, OtherTodo
<1> QED BY <1>4, <1>5

\* Who renews its claim is sure to send one job, and that row is not free any more.
LEMMA ExtendBudget ==
  ASSUME BudgetInv, CustodyInv', NEW r \in Requests, ExtendClaim(r), Costs <= Costs'
  PROVE  BudgetInv'
<1>1. TypeOK /\ TypeOK' /\ CustodyInv
  BY DEF BudgetInv, CustodyInv, DispatchInv
<1>2. /\ request[r].phase = "sending" /\ request[r].jobs # {}
      /\ UNCHANGED published
  BY DEF ExtendClaim
<1>3. PICK u \in Todos : u = request[r].todo
  BY <1>1, <1>2, DispatchHasTodo
<1>4. CASE ~Renewed(r)
  <2>1. Finish(r, "succeeded") /\ UNCHANGED row
    BY <1>4 DEF ExtendClaim
  <2>2. Moves(r) /\ request'[r].phase = "succeeded"
    BY <1>1, <2>1, FinishMoves DEF Phases
  <2> QED BY <1>2, <2>1, <2>2, BudgetKept DEF Moves, Sending
<1>5. CASE Renewed(r)
  <2>1. GivesLease(r, u, "running") /\ Go(r, "renewed")
    BY <1>3, <1>5 DEF ExtendClaim, GivesLease
  <2>2. /\ \A q \in Requests : q # r => request'[q] = request[q]
        /\ request'[r].phase = "renewed" /\ request'[r].todo = u
        /\ request'[r].jobs = request[r].jobs
    BY <1>1, <1>3, <2>1, GoMoves DEF Phases, Moves
  <2>3. row \in [Todos -> [Kinds -> Row]] /\ row' \in [Todos -> [Kinds -> Row]]
        /\ LeasedRows
    BY <1>1, TypeParts, TypePartsNext
  <2>4. /\ \A t \in Todos : t # u => row'[t] = row[t]
        /\ \A k \in Kinds :
              /\ row'[u][k].receipt = row[u][k].receipt
              /\ row'[u][k].present <=> row[u][k].present
              /\ row'[u][k].lease =
                    IF k \in Held(r, u) THEN "running" ELSE row[u][k].lease
    BY <1>1, <2>1, LeaseTables
  <2>5. Held(r, u) = request[r].jobs
    BY <1>1, <1>2, <1>3, <1>5, HeldByDispatch DEF Renewed, Sending
  <2>6. request[r].jobs \in SUBSET Kinds
    BY <1>1, TypeParts DEF Request
  <2>7. PICK n \in request[r].jobs : n = NextJob(request[r].jobs)
    BY <1>2, <2>6, NextJobIsLeast
  <2> SUFFICES ASSUME NEW t \in Todos, NEW k \in Kinds
               PROVE  BudgetOf(t, k)'
    BY DEF BudgetInv
  <2>8. BudgetOf(t, k)
    BY DEF BudgetInv
  <2>9. CASE t # u
    BY <1>1, <1>2, <1>3, <2>2, <2>4, <2>8, <2>9, OtherTodo
  <2>10. CASE t = u /\ k = n
    <3>1. Sure(t, k)' \subseteq Sure(t, k) \cup {r}
      BY <2>2 DEF Sure
    <3>2. row[t][k].receipt = r /\ row[t][k].present
      BY <2>3, <2>5, <2>7, <2>10, Constants DEF Held, LeasedRows
    <3>3. Free(t, k)
      BY <1>2, <3>2 DEF Free, Takes
    <3>4. ~Free(t, k)'
      BY <2>2, <2>4, <2>5, <2>7, <2>10, <3>2 DEF Free, Takes
    <3> QED BY <1>1, <1>2, <2>8, <3>1, <3>3, <3>4, BudgetAfter DEF Pays
  <2>11. CASE t = u /\ k # n
    <3>1. Sure(t, k)' \subseteq Sure(t, k)
      BY <2>2, <2>7, <2>11 DEF Sure
    <3>2. CASE k \in Held(r, u)
      <4>1. row[t][k].receipt = r /\ row[t][k].present
        BY <2>3, <2>11, <3>2, Constants DEF Held, LeasedRows
      <4>2. Free(t, k)
        BY <1>2, <4>1 DEF Free, Takes
      <4> QED BY <1>1, <1>2, <2>8, <3>1, <4>2, BudgetAfter DEF Pays
    <3>3. CASE k \notin Held(r, u)
      <4>1. row[t][k].receipt # r /\ row[t][k].receipt \in Requests \cup {None}
        BY <2>3, <2>11, <3>3 DEF Held, Row
      <4>2. row'[t][k] = row[t][k]
        BY <2>1, <2>3, <2>11, <3>3 DEF GivesLease
      <4>3. Free(t, k)' => Free(t, k)
        BY <1>1, <2>2, <4>1, <4>2, OthersBudget
      <4> QED BY <1>1, <1>2, <2>8, <3>1, <4>3, BudgetAfter DEF Pays
    <3> QED BY <3>2, <3>3
  <2> QED BY <2>9, <2>10, <2>11
<1> QED BY <1>4, <1>5

\* Sending uses up what the renewal was sure of.
LEMMA SendBudget ==
  ASSUME BudgetInv, CustodyInv', NEW r \in Requests, Send(r), Costs <= Costs'
  PROVE  BudgetInv'
<1>1. TypeOK /\ TypeOK' /\ CustodyInv
  BY DEF BudgetInv, CustodyInv, DispatchInv
<1>2. request[r].phase = "renewed" /\ UNCHANGED row /\ Accept(r) /\ Go(r, "sent")
  BY DEF Send
<1>3. PICK u \in Todos : u = request[r].todo
  BY <1>1, <1>2, DispatchHasTodo
<1>4. /\ \A q \in Requests : q # r => request'[q] = request[q]
      /\ request'[r].phase = "sent" /\ request'[r].todo = u
      /\ request'[r].jobs = request[r].jobs /\ request[r].jobs # {}
  BY <1>1, <1>2, <1>3, GoMoves, TypeParts DEF Phases, Moves, Pairs
<1> SUFFICES ASSUME NEW t \in Todos, NEW k \in Kinds
             PROVE  BudgetOf(t, k)'
  BY DEF BudgetInv
<1>5. BudgetOf(t, k)
  BY DEF BudgetInv
<1>6. Sure(t, k)' \subseteq Sure(t, k) \ {r}
  BY <1>1, <1>4, OthersBudget
<1>7. Free(t, k)' => Free(t, k)
  <2>1. ASSUME Free(t, k)', row[t][k].receipt = r PROVE Free(t, k)
    BY <1>2, <1>4, <2>1 DEF Free, Takes
  <2> QED BY <1>1, <1>2, <1>4, <2>1, OthersBudget
<1>8. CASE t = u /\ k = NextJob(request[r].jobs)
  <2>1. r \in Sure(t, k)
    BY <1>2, <1>3, <1>8 DEF Sure
  <2>2. published'[t][k] = published[t][k] + 1
    BY <1>1, <1>2, <1>3, <1>4, <1>8, AcceptCounts
  <2> QED BY <1>1, <1>5, <1>6, <1>7, <2>1, <2>2, BudgetAfter DEF Pays
<1>9. CASE ~(t = u /\ k = NextJob(request[r].jobs))
  <2>1. published'[t][k] = published[t][k]
    BY <1>1, <1>2, <1>3, <1>4, <1>9, AcceptCounts
  <2> QED BY <1>1, <1>5, <1>6, <1>7, <2>1, BudgetAfter DEF Pays
<1> QED BY <1>8, <1>9

LEMMA DeleteBudget ==
  ASSUME BudgetInv, CustodyInv', NEW r \in Requests, DeleteRow(r), Costs <= Costs'
  PROVE  BudgetInv'
<1>1. TypeOK /\ TypeOK' /\ CustodyInv
  BY DEF BudgetInv, CustodyInv, DispatchInv
<1>2. request[r].phase = "sent" /\ UNCHANGED published
  BY DEF DeleteRow
<1>3. PICK u \in Todos : u = request[r].todo
  BY <1>1, <1>2, DispatchHasTodo
<1>4. request[r].jobs \in SUBSET Kinds /\ request[r].jobs # {}
  BY <1>1, <1>2, TypeParts DEF Request, Pairs
<1>5. PICK n \in request[r].jobs : n = NextJob(request[r].jobs)
  BY <1>4, NextJobIsLeast
<1>6. CASE n \notin Held(r, u)
  <2>1. Finish(r, "succeeded") /\ UNCHANGED row
    BY <1>3, <1>5, <1>6 DEF DeleteRow
  <2>2. Moves(r) /\ request'[r].phase = "succeeded"
    BY <1>1, <2>1, FinishMoves DEF Phases
  <2> QED BY <1>2, <2>1, <2>2, BudgetKept DEF Moves, Sending
<1>7. CASE n \in Held(r, u)
  <2>1. /\ row' = [row EXCEPT ![u][n] = AbsentRow]
        /\ request' = [request EXCEPT ![r].phase = "sending",
                                      ![r].jobs = request[r].jobs \ {n}]
    BY <1>3, <1>5, <1>7 DEF DeleteRow
  <2>2. /\ \A t \in Todos : t # u => row'[t] = row[t]
        /\ \A k \in Kinds : k # n => row'[u][k] = row[u][k]
        /\ ~row'[u][n].present
    BY <1>1, <1>4, <2>1, TypeParts DEF AbsentRow
  <2>3. /\ \A q \in Requests : q # r => request'[q] = request[q]
        /\ request'[r].phase = "sending" /\ request'[r].todo = u
    BY <1>1, <1>3, <2>1, TypeParts DEF Request
  <2> SUFFICES ASSUME NEW t \in Todos, NEW k \in Kinds
               PROVE  BudgetOf(t, k)'
    BY DEF BudgetInv
  <2>4. BudgetOf(t, k)
    BY DEF BudgetInv
  <2>5. Sure(t, k)' \subseteq Sure(t, k)
    BY <1>1, <2>3, OthersBudget
  <2>6. CASE t # u
    BY <1>1, <1>2, <1>3, <2>2, <2>3, <2>4, <2>6, OtherTodo
  <2>7. CASE t = u /\ k = n
    <3>1. ~Free(t, k)'
      BY <2>2, <2>7 DEF Free
    <3> QED BY <1>1, <1>2, <2>4, <2>5, <3>1, BudgetAfter DEF Pays
  <2>8. CASE t = u /\ k # n
    <3>1. row'[t][k] = row[t][k]
      BY <2>2, <2>8
    <3>2. ASSUME Free(t, k)', row[t][k].receipt = r PROVE Free(t, k)
      BY <1>2, <1>5, <2>8, <3>1, <3>2 DEF Free, Takes
    <3>3. Free(t, k)' => Free(t, k)
      BY <1>1, <2>3, <3>1, <3>2, OthersBudget
    <3> QED BY <1>1, <1>2, <2>4, <2>5, <3>3, BudgetAfter DEF Pays
  <2> QED BY <2>6, <2>7, <2>8
<1> QED BY <1>6, <1>7

\* An error pays for the job that may have been sent and will be sent again.
LEMMA ErrorBudget ==
  ASSUME BudgetInv, CustodyInv', NEW r \in Requests, DispatchError(r)
  PROVE  BudgetInv'
<1>1. TypeOK /\ TypeOK' /\ CustodyInv
  BY DEF BudgetInv, CustodyInv, DispatchInv
<1>2. UNCHANGED <<row, lapses>> /\ faults' = faults + 1
  BY DEF DispatchError
<1>3. Costs + 1 <= Costs'
  BY <1>1, <1>2, CostsCount
<1> SUFFICES ASSUME NEW t \in Todos, NEW k \in Kinds
             PROVE  BudgetOf(t, k)'
  BY DEF BudgetInv
<1>4. BudgetOf(t, k)
  BY DEF BudgetInv
<1>5. ASSUME request'[r].phase # "renewed",
             \A q \in Requests : q # r => request'[q] = request[q]
      PROVE  Sure(t, k)' \subseteq Sure(t, k) \ {r}
  BY <1>1, <1>5, OthersBudget
<1>6. CASE Finish(r, "failed") /\ UNCHANGED published
  <2>1. Moves(r) /\ request'[r].phase = "failed"
    BY <1>1, <1>6, FinishMoves DEF Phases
  <2>2. Sure(t, k)' \subseteq Sure(t, k)
    BY <1>5, <2>1 DEF Moves
  <2> QED BY <1>1, <1>3, <1>4, <1>6, <2>2, BudgetAfter DEF Pays
<1>7. ASSUME Go(r, "release")
      PROVE  Sure(t, k)' \subseteq Sure(t, k) \ {r}
  <2>1. Moves(r) /\ request'[r].phase = "release"
    BY <1>1, <1>7, GoMoves DEF Phases
  <2> QED BY <1>5, <2>1 DEF Moves
<1>8. CASE Go(r, "release") /\ UNCHANGED published
  BY <1>1, <1>3, <1>4, <1>7, <1>8, BudgetAfter DEF Pays
<1>9. CASE /\ Go(r, "release") /\ request[r].phase = "renewed"
           /\ Accept(r) /\ request[r].jobs # {}
  <2>1. CASE t = request[r].todo /\ k = NextJob(request[r].jobs)
    <3>1. r \in Sure(t, k)
      BY <1>9, <2>1 DEF Sure
    <3>2. published'[t][k] = published[t][k] + 1
      BY <1>1, <1>9, <2>1, AcceptCounts
    <3> QED BY <1>1, <1>3, <1>4, <1>7, <1>9, <3>1, <3>2, BudgetAfter DEF Pays
  <2>2. CASE ~(t = request[r].todo /\ k = NextJob(request[r].jobs))
    <3>1. published'[t][k] = published[t][k]
      BY <1>1, <1>9, <2>2, AcceptCounts
    <3> QED BY <1>1, <1>3, <1>4, <1>7, <1>9, <3>1, BudgetAfter DEF Pays
  <2> QED BY <2>1, <2>2
<1> QED BY <1>6, <1>8, <1>9 DEF DispatchError

LEMMA ReleaseBudget ==
  ASSUME BudgetInv, CustodyInv', NEW r \in Requests, Release(r), Costs <= Costs'
  PROVE  BudgetInv'
<1>1. TypeOK /\ TypeOK' /\ CustodyInv
  BY DEF BudgetInv, CustodyInv, DispatchInv
<1>2. /\ UNCHANGED published /\ Finish(r, "failed")
      /\ request[r].phase = "release"
  BY DEF Release
<1>3. PICK u \in Todos : u = request[r].todo
  BY <1>1, ReleaseGivesUp
<1>4. PICK held \in SUBSET Kinds : held = Held(r, u)
  BY <1>1, <1>3, ReleaseGivesUp
<1>5. GivesUp(u, held, Unleased) /\ \A k \in held : row[u][k].present
  BY <1>1, <1>3, <1>4, ReleaseGivesUp
<1>6. /\ \A t \in Todos : t # u => row'[t] = row[t]
      /\ \A k \in Kinds \ held : row'[u][k] = row[u][k]
  BY <1>1, <1>5, TypeParts DEF GivesUp, Unleased, AbsentRow
<1>7. /\ \A q \in Requests : q # r => request'[q] = request[q]
      /\ request'[r].phase = "failed" /\ request'[r].todo = u
  BY <1>1, <1>2, <1>3, FinishMoves DEF Phases, Moves
<1> SUFFICES ASSUME NEW t \in Todos, NEW k \in Kinds
             PROVE  BudgetOf(t, k)'
  BY DEF BudgetInv
<1>8. BudgetOf(t, k)
  BY DEF BudgetInv
<1>9. Sure(t, k)' \subseteq Sure(t, k)
  BY <1>1, <1>7, OthersBudget
<1>10. CASE t # u
  BY <1>1, <1>2, <1>3, <1>6, <1>7, <1>8, <1>10, OtherTodo
<1>11. CASE t = u /\ k \in held
  <2>1. row[t][k].present /\ row[t][k].receipt = r
    BY <1>4, <1>5, <1>11 DEF Held
  <2>2. Free(t, k)
    BY <1>2, <2>1 DEF Free, Takes
  <2> QED BY <1>1, <1>2, <1>8, <1>9, <2>2, BudgetAfter DEF Pays
<1>12. CASE t = u /\ k \notin held
  <2>1. row'[t][k] = row[t][k] /\ row[t][k].receipt # r
    BY <1>4, <1>6, <1>12 DEF Held
  <2>2. Free(t, k)' => Free(t, k)
    BY <1>1, <1>7, <2>1, OthersBudget
  <2> QED BY <1>1, <1>2, <1>8, <1>9, <2>2, BudgetAfter DEF Pays
<1> QED BY <1>10, <1>11, <1>12

\* A lapse pays for all the rows of the lease.
LEMMA LapseBudget ==
  ASSUME BudgetInv, CustodyInv', NEW r \in Requests, NEW u \in Todos, LeaseLapses(r, u)
  PROVE  BudgetInv'
<1>1. TypeOK /\ TypeOK'
  BY DEF BudgetInv, CustodyInv, DispatchInv
<1>2. UNCHANGED <<published, request, faults>> /\ lapses' = lapses + 1
  BY DEF LeaseLapses
<1>3. Costs + 1 <= Costs'
  BY <1>1, <1>2, CostsCount
<1> SUFFICES ASSUME NEW t \in Todos, NEW k \in Kinds
             PROVE  BudgetOf(t, k)'
  BY DEF BudgetInv
<1>4. Sure(t, k)' \subseteq Sure(t, k)
  BY <1>2 DEF Sure
<1> QED BY <1>1, <1>2, <1>3, <1>4, BudgetAfter DEF Pays, BudgetInv

LEMMA BudgetStep ==
  ASSUME BudgetInv, [Next]_vars
  PROVE  BudgetInv'
<1>1. CustodyInv /\ CustodyInv' /\ TypeOK /\ TypeOK' /\ Costs <= Costs'
  <2>1. CustodyInv /\ CustodyInv'
    BY CustodyStep DEF BudgetInv
  <2>2. TypeOK /\ TypeOK'
    BY <2>1 DEF CustodyInv, DispatchInv
  <2> QED BY <2>1, <2>2, CostsGrow
<1>2. ASSUME NEW r \in Requests, NEW t \in Todos,
             (\E user \in Users : Submit(r, t, user)) \/ Recover(r, t)
      PROVE  BudgetInv'
  BY <1>1, <1>2, StartMoves, BudgetKept DEF Sending
<1>3. ASSUME NEW r \in Requests, Attempt(r) PROVE BudgetInv'
  <2>1. CASE Complete(r)
    BY <1>1, <2>1, CompleteBudget
  <2>2. CASE ~Complete(r)
    <3>1. /\ UNCHANGED <<row, published>> /\ Moves(r)
          /\ request'[r].phase \in
                Attempting \cup {"conflicted", "rejected", "failed", "dispatch"}
      BY <1>1, <1>3, <2>2, AttemptMoves
    <3> QED BY <1>1, <3>1, BudgetKept DEF Moves, Attempting, Sending
  <2> QED BY <2>1, <2>2
<1>4. ASSUME NEW r \in Requests, AllSent(r) PROVE BudgetInv'
  <2>1. Finish(r, "succeeded") /\ UNCHANGED <<row, published>>
    BY <1>4 DEF AllSent
  <2>2. Moves(r) /\ request'[r].phase = "succeeded"
    BY <1>1, <2>1, FinishMoves DEF Phases
  <2> QED BY <1>1, <2>1, <2>2, BudgetKept DEF Moves, Sending
<1>5. ASSUME NEW r \in Requests, Dispatch(r) PROVE BudgetInv'
  BY <1>1, <1>4, <1>5, ClaimBudget, ExtendBudget, SendBudget, DeleteBudget,
     ErrorBudget, ReleaseBudget DEF Dispatch
<1>6. ASSUME NEW r \in Requests, Crash(r) PROVE BudgetInv'
  <2>1. /\ UNCHANGED <<row, published>> /\ Moves(r)
        /\ request'[r].phase = "crashed"
    BY <1>1, <1>6, CrashMoves
  <2> QED BY <1>1, <2>1, BudgetKept DEF Moves, Sending
<1>7. ASSUME UNCHANGED <<row, published, request>> PROVE BudgetInv'
  <2> SUFFICES ASSUME NEW t \in Todos, NEW k \in Kinds PROVE BudgetOf(t, k)'
    BY <1>1 DEF BudgetInv
  <2>1. Sure(t, k)' \subseteq Sure(t, k)
    BY <1>7 DEF Sure
  <2>2. Free(t, k)' => Free(t, k)
    BY <1>7 DEF Free, Takes
  <2>3. BudgetOf(t, k)
    BY DEF BudgetInv
  <2> QED BY <1>1, <1>7, <2>1, <2>2, <2>3, BudgetAfter DEF Pays
<1>8. ASSUME NEW time \in 1 .. clock, SystemWrite(time) PROVE BudgetInv'
  BY <1>7, <1>8 DEF SystemWrite
<1>9. CASE Tick \/ UNCHANGED vars
  BY <1>7, <1>9 DEF Tick, vars
<1>10. ASSUME NEW r \in Requests, NEW t \in Todos, LeaseLapses(r, t) PROVE BudgetInv'
  BY <1>1, <1>10, LapseBudget
<1>11. ASSUME NEW r \in Requests, NEW t \in Todos, NEW user \in Users,
              Submit(r, t, user)
       PROVE  BudgetInv'
  BY <1>2, <1>11
<1> QED BY <1>2, <1>3, <1>5, <1>6, <1>8, <1>9, <1>10, <1>11 DEF Next

LEMMA InitBudget == Init => BudgetInv
<1> SUFFICES ASSUME Init, NEW t \in Todos, NEW k \in Kinds PROVE BudgetOf(t, k)
  BY InitCustody DEF BudgetInv
<1>1. Sure(t, k) = {}
  BY DEF Init, Idle, Sure
<1>2. published[t][k] = 0 /\ lapses \in Nat /\ faults \in Nat
  BY DEF Init
<1>3. One(Free(t, k)) \in {0, 1}
  BY DEF One
<1>4. Within(0, {}, One(Free(t, k)), Costs)
  BY <1>2, <1>3, WithinTotal DEF Costs
<1> QED BY <1>1, <1>2, <1>4 DEF BudgetOf

\* A job of a completion is published once, and once more for every lease that
\* lapsed and every error: the requests that compete for its dispatch row
\* (claimFlowDispatchJobs, extendFlowDispatchClaim, deleteFlowDispatchJob) never
\* send it twice among themselves.
THEOREM JobsArePublishedOnce == Spec => []PublishedOnce
<1>1. ASSUME BudgetInv PROVE PublishedOnce
  <2> SUFFICES ASSUME NEW t \in Todos, NEW k \in Kinds
               PROVE  published[t][k] <= 1 + lapses + faults
    BY DEF PublishedOnce
  <2>1. published[t][k] \in Nat /\ lapses \in Nat /\ faults \in Nat
    BY <1>1, TypeParts DEF BudgetInv, CustodyInv, DispatchInv
  <2>2. One(Free(t, k)) \in {0, 1}
    BY DEF One
  <2>3. Within(published[t][k], Sure(t, k), One(Free(t, k)), Total(lapses, faults))
    BY <1>1 DEF BudgetInv, BudgetOf, Costs
  <2> QED BY <2>1, <2>2, <2>3, WithinTotal
<1> QED BY <1>1, InitBudget, BudgetStep, PTL DEF Spec
=============================================================================
