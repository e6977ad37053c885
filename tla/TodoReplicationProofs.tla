------------------------ MODULE TodoReplicationProofs ------------------------
(***************************************************************************)
(* Proofs about TodoReplication for every number of transactions and        *)
(* to-dos, every page size and queue capacity.                             *)
(*                                                                         *)
(* ServerInv, StreamInv and PullInv are about rows and jobs, events on     *)
(* their way, and pages.  With one handler at a time Ordered says that the *)
(* events of a to-do come in the order of its changes, and Told that the   *)
(* last of them is not lost unless it was dropped.                         *)
(***************************************************************************)
EXTENDS TodoReplication, SequenceTheorems, FiniteSetTheorems, TLAPS

-----------------------------------------------------------------------------
\* The constants, the pull order and the queries.

LEMMA Constants ==
  /\ {NTodos, Limit, Capacity} \subseteq Nat \ {0}
  /\ {MaxClock, MaxFaults} \subseteq Nat
  /\ IsFiniteSet(Writers)
  /\ Null \notin Nat
  /\ IsFiniteSet(Todos) /\ Todos \subseteq Nat \ {0}
  /\ Null \notin Todos /\ 0 \notin Todos
<1>1. NTodos \in Nat
  BY ReplicationAssumption
<1>2. IsFiniteSet(1 .. NTodos)
  BY <1>1, FS_Interval
<1> QED BY <1>1, <1>2, ReplicationAssumption DEF Todos

LEMMA PlaceType ==
  \A t \in Todos, time \in Nat : Place(t, time) \in Nat
<1> SUFFICES ASSUME NEW t \in Todos, NEW time \in Nat
             PROVE  Place(t, time) \in Nat
  OBVIOUS
<1>1. NTodos \in Nat /\ t \in Nat
  BY Constants
<1>2. time * (NTodos + 1) \in Nat
  BY <1>1
<1> QED BY <1>1, <1>2 DEF Place

\* A finite set has an element whose number is greatest.  (A smallest set
\* without one would have one: that of the set without some element, or that
\* element.)
LEMMA Greatest ==
  ASSUME NEW S, IsFiniteSet(S), S # {}, NEW f, \A x \in S : f[x] \in Int
  PROVE  \E x \in S : \A y \in S : f[y] <= f[x]
<1> DEFINE Bad == {T \in FiniteSubsetsOf(S) :
                      T # {} /\ ~ \E x \in T : \A y \in T : f[y] <= f[x]}
<1>1. SUFFICES Bad = {}
  <2>1. S \in FiniteSubsetsOf(S)
    BY DEF FiniteSubsetsOf
  <2> QED BY <1>1, <2>1
<1>2. SUFFICES ASSUME Bad # {} PROVE FALSE
  OBVIOUS
<1>3. Bad \subseteq FiniteSubsetsOf(S)
  OBVIOUS
<1>4. PICK T \in Bad : \A U \in Bad : ~(<<U, T>> \in StrictSubsetOrdering(S))
  <2> HIDE DEF Bad
  <2> QED BY <1>2, <1>3, WFMin, FS_StrictSubsetOrderingWellFounded
<1>5. /\ T \in SUBSET S /\ IsFiniteSet(T) /\ T # {}
      /\ ~ \E x \in T : \A y \in T : f[y] <= f[x]
  BY DEF FiniteSubsetsOf
<1>6. PICK a \in T : TRUE
  BY <1>5
<1>7. PICK U : U = T \ {a}
  OBVIOUS
<1>8. U \in FiniteSubsetsOf(S) /\ <<U, T>> \in StrictSubsetOrdering(S)
  <2>1. IsFiniteSet(U)
    BY <1>5, <1>7, FS_RemoveElement
  <2>2. U \in SUBSET S /\ T \in SUBSET S /\ U \subseteq T /\ U # T
    BY <1>5, <1>6, <1>7
  <2> QED BY <2>1, <2>2 DEF FiniteSubsetsOf, StrictSubsetOrdering
<1>9. CASE U = {}
  <2>1. \A y \in T : y = a
    BY <1>7, <1>9
  <2> QED BY <1>5, <1>6, <2>1
<1>10. CASE U # {}
  <2>1. PICK b \in U : \A y \in U : f[y] <= f[b]
    BY <1>4, <1>8, <1>10
  <2>2. a \in S /\ b \in S /\ b \in T /\ \A y \in T : y \in S /\ (y = a \/ y \in U)
    BY <1>5, <1>6, <1>7
  <2>3. f[a] \in Int /\ f[b] \in Int /\ \A y \in T : f[y] \in Int
    BY <2>2
  <2>4. CASE f[a] <= f[b]
    <3>1. \A y \in T : f[y] <= f[b]
      BY <2>1, <2>2, <2>4
    <3> QED BY <1>5, <2>2, <3>1
  <2>5. CASE f[b] <= f[a]
    <3>1. \A y \in T : f[y] <= f[a]
      BY <2>1, <2>2, <2>3, <2>5
    <3> QED BY <1>5, <1>6, <3>1
  <2> QED BY <2>3, <2>4, <2>5
<1> QED BY <1>9, <1>10

LEMMA Least ==
  ASSUME NEW S, IsFiniteSet(S), S # {}, NEW f, \A x \in S : f[x] \in Int
  PROVE  \E x \in S : \A y \in S : f[x] <= f[y]
<1>1. PICK g : g = [x \in S |-> 0 - f[x]]
  OBVIOUS
<1>2. \A x \in S : g[x] \in Int /\ g[x] = 0 - f[x]
  BY <1>1
<1>3. PICK x \in S : \A y \in S : g[y] <= g[x]
  BY <1>2, Greatest
<1>4. \A y \in S : f[x] <= f[y]
  BY <1>2, <1>3
<1> QED BY <1>4

\* A finite set of numbers has a greatest.
LEMMA GreatestNumber ==
  ASSUME NEW S, IsFiniteSet(S), S # {}, S \subseteq Nat
  PROVE  \E p \in S : \A q \in S : q <= p
<1>1. PICK f : f = [x \in S |-> x]
  OBVIOUS
<1>2. \A x \in S : f[x] \in Int
  BY <1>1
<1>3. PICK x \in S : \A y \in S : f[y] <= f[x]
  BY <1>2, Greatest
<1> QED BY <1>1, <1>3

\* Two to-dos never have the same place.
LEMMA PlacesDiffer ==
  ASSUME NEW t \in Todos, NEW u \in Todos, NEW a \in Nat, NEW b \in Nat,
         Place(t, a) = Place(u, b)
  PROVE  t = u
<1> DEFINE M == NTodos + 1
<1>1. /\ M \in Nat /\ t \in Int /\ u \in Int
      /\ 0 < t /\ t < M /\ 0 < u /\ u < M
  BY Constants DEF Todos
<1>2. a * M + t = b * M + u
  BY DEF Place
<1> HIDE DEF M
<1>3. a * M \in Int /\ b * M \in Int
  BY <1>1
<1>4. ASSUME NEW c \in Nat, NEW d \in Nat, c < d
      PROVE  c * M + M <= d * M
  <2>1. PICK n \in Nat : d = c + 1 + n
    <3>1. d - c - 1 \in Nat
      BY <1>4
    <3>2. d = c + 1 + (d - c - 1)
      OBVIOUS
    <3> QED BY <3>1, <3>2
  <2>2. n * M \in Nat /\ c * M \in Nat
    BY <1>1
  <2>3. d * M = c * M + M + n * M
    BY <1>1, <2>1
  <2> QED BY <1>1, <2>2, <2>3
<1>5. ~(a < b)
  <2>1. a < b => a * M + M <= b * M
    BY <1>4
  <2> QED BY <1>1, <1>2, <1>3, <2>1
<1>6. ~(b < a)
  <2>1. b < a => b * M + M <= a * M
    BY <1>4
  <2> QED BY <1>1, <1>2, <1>3, <2>1
<1>7. a = b
  BY <1>5, <1>6
<1> QED BY <1>1, <1>2, <1>3, <1>7

RowsTyped == row \in [Todos -> [time : Nat, version : Nat, open : BOOLEAN]]

LEMMA RowPlaceType ==
  ASSUME RowsTyped
  PROVE  /\ \A t \in Todos : RowPlace(t) \in Nat
         /\ \A t, u \in Todos : RowPlace(t) = RowPlace(u) => t = u
<1>1. \A t \in Todos : row[t].time \in Nat
  BY DEF RowsTyped
<1> QED BY <1>1, PlaceType, PlacesDiffer DEF RowPlace

\* The last place of some to-dos is that of one of them.
LEMMA LastPlaceIs ==
  ASSUME RowsTyped, NEW page, page \subseteq Todos, page # {}
  PROVE  /\ \E t \in page : LastPlace(page) = RowPlace(t)
         /\ \A t \in page : RowPlace(t) <= LastPlace(page)
<1>1. IsFiniteSet(page)
  BY Constants, FS_Subset
<1>2. PICK f : f = [t \in page |-> RowPlace(t)]
  OBVIOUS
<1>3. \A t \in page : f[t] \in Int /\ f[t] = RowPlace(t)
  BY <1>2, RowPlaceType
<1>4. PICK t \in page : \A u \in page : f[u] <= f[t]
  BY <1>1, <1>3, Greatest
<1>5. \E p \in {RowPlace(u) : u \in page} : \A u \in page : RowPlace(u) <= p
  BY <1>3, <1>4
<1>6. /\ LastPlace(page) \in {RowPlace(u) : u \in page}
      /\ \A u \in page : RowPlace(u) <= LastPlace(page)
  BY <1>5 DEF LastPlace
<1> QED BY <1>6

LEMMA HeadType ==
  ASSUME RowsTyped
  PROVE  TableHead \in Nat
<1>1. CASE Present = {}
  BY <1>1 DEF TableHead
<1>2. CASE Present # {}
  <2>1. Present \subseteq Todos
    BY DEF Present
  <2>2. TableHead = LastPlace(Present)
    BY <1>2 DEF TableHead, LastPlace
  <2>3. PICK t \in Present : LastPlace(Present) = RowPlace(t)
    BY <1>2, <2>1, LastPlaceIs
  <2> QED BY <2>1, <2>2, <2>3, RowPlaceType
<1> QED BY <1>1, <1>2

\* The table's head is not before any of its rows.
LEMMA HeadIsLast ==
  ASSUME RowsTyped, NEW t \in Present
  PROVE  RowPlace(t) <= TableHead
<1>1. Present # {} /\ Present \subseteq Todos
  BY DEF Present
<1>2. TableHead = LastPlace(Present)
  BY <1>1 DEF TableHead, LastPlace
<1> QED BY <1>1, <1>2, LastPlaceIs

\* A page holds the first Limit candidates: nothing is left out before its last.
LEMMA PageIs ==
  ASSUME RowsTyped, NEW c
  PROVE  /\ Page(c) \subseteq Candidates(c)
         /\ Candidates(c) \subseteq Present /\ Present \subseteq Todos
         /\ Cardinality(Page(c)) \in Nat /\ Cardinality(Page(c)) <= Limit
         /\ Cardinality(Page(c)) < Limit => Page(c) = Candidates(c)
         /\ \A t \in Page(c), u \in Candidates(c) :
               RowPlace(u) <= RowPlace(t) => u \in Page(c)
<1> DEFINE rows == Candidates(c)
           Below(t) == {u \in rows : RowPlace(u) < RowPlace(t)}
           page == {t \in rows : Cardinality(Below(t)) < Limit}
<1>1. rows \subseteq Present /\ Present \subseteq Todos
  BY DEF Candidates, Present
<1>2. Page(c) = page
  BY DEF Page
<1> HIDE DEF rows
<1>3. IsFiniteSet(rows) /\ page \subseteq rows
  BY <1>1, Constants, FS_Subset
<1>4. \A t \in rows : RowPlace(t) \in Nat
  BY <1>1, RowPlaceType
<1>5. \A t : IsFiniteSet(Below(t)) /\ Cardinality(Below(t)) \in Nat
  BY <1>3, FS_Subset, FS_CardinalityType
<1>6. IsFiniteSet(page) /\ Cardinality(page) \in Nat
  BY <1>3, FS_Subset, FS_CardinalityType
<1>7. Limit \in Nat /\ Limit > 0
  BY Constants
<1>8. PICK f : f = [t \in rows |-> RowPlace(t)]
  OBVIOUS
<1>9. \A t \in rows : f[t] \in Int /\ f[t] = RowPlace(t)
  BY <1>4, <1>8
<1>10. ASSUME NEW t \in page, NEW u \in rows, RowPlace(u) <= RowPlace(t)
       PROVE  u \in page
  <2>1. Below(u) \subseteq Below(t)
    BY <1>3, <1>4, <1>10
  <2>2. Cardinality(Below(u)) <= Cardinality(Below(t))
    BY <1>5, <2>1, FS_Subset
  <2>3. Cardinality(Below(t)) < Limit
    OBVIOUS
  <2> QED BY <1>5, <1>7, <2>2, <2>3
<1>11. Cardinality(page) <= Limit
  <2>1. CASE page = {}
    <3> HIDE DEF page
    <3> QED BY <1>7, <2>1, FS_EmptySet
  <2>2. CASE page # {}
    <3>1. \A t \in page : f[t] \in Int
      BY <1>3, <1>9
    <3>2. PICK t \in page : \A u \in page : f[u] <= f[t]
      <4> HIDE DEF page
      <4> QED BY <1>6, <2>2, <3>1, Greatest
    <3>3. page \ {t} \subseteq Below(t)
      <4> SUFFICES ASSUME NEW u \in page, u # t
                   PROVE  u \in Below(t)
        OBVIOUS
      <4>1. u \in rows /\ t \in rows /\ u \in Todos /\ t \in Todos
        BY <1>1
      <4>2. RowPlace(u) <= RowPlace(t) /\ RowPlace(u) # RowPlace(t)
        BY <1>9, <3>2, <4>1, RowPlaceType
      <4> QED BY <1>4, <4>1, <4>2
    <3>4. Cardinality(page \ {t}) <= Cardinality(Below(t))
      BY <1>5, <3>3, FS_Subset
    <3>5. Cardinality(page \ {t}) = Cardinality(page) - 1
      BY <1>6, FS_RemoveElement
    <3>6. Cardinality(Below(t)) < Limit
      OBVIOUS
    <3> HIDE DEF page, Below
    <3> QED BY <1>5, <1>6, <1>7, <3>4, <3>5, <3>6
  <2> QED BY <2>1, <2>2
<1>12. ASSUME Cardinality(page) < Limit
       PROVE  page = rows
  <2> DEFINE rest == rows \ page
  <2>1. SUFFICES ASSUME rest # {} PROVE FALSE
    BY <1>3
  <2>2. IsFiniteSet(rest) /\ \A t \in rest : f[t] \in Int
    BY <1>3, <1>9, FS_Subset
  <2>3. PICK t \in rest : \A u \in rest : f[t] <= f[u]
    <3> HIDE DEF rest
    <3> QED BY <2>1, <2>2, Least
  <2>4. Below(t) \subseteq page
    <3> SUFFICES ASSUME NEW u \in Below(t), u \notin page
                 PROVE  FALSE
      OBVIOUS
    <3>1. u \in rest /\ RowPlace(u) < RowPlace(t) /\ u \in rows /\ t \in rows
      OBVIOUS
    <3>2. f[t] <= f[u]
      BY <2>3, <3>1
    <3> QED BY <1>4, <1>9, <3>1, <3>2
  <2>5. Cardinality(Below(t)) <= Cardinality(page)
    BY <1>6, <2>4, FS_Subset
  <2>6. ~(Cardinality(Below(t)) < Limit)
    OBVIOUS
  <2> HIDE DEF page, Below
  <2> QED BY <1>5, <1>6, <1>7, <1>12, <2>5, <2>6
<1> QED BY <1>1, <1>2, <1>3, <1>6, <1>10, <1>11, <1>12 DEF rows

\* What the answer to a pull promises: its checkpoint lies beyond the one it
\* was asked with and behind everything it left out, but for the closed rows of a
\* backfill.
LEMMA NextIs ==
  ASSUME RowsTyped, NEW c \in CheckpointType, NEW page, page = Page(c),
         NEW next, next = NextCheckpoint(c, page),
         c.mode = "live" => c.head \in Nat /\ c.place <= c.head
  PROVE  /\ next \in CheckpointType
         /\ c.place <= next.place
         /\ page \subseteq Present
         /\ \A t \in page : c.place < RowPlace(t) /\ RowPlace(t) <= next.place
         /\ \A t \in Present :
               c.place < RowPlace(t) /\ RowPlace(t) <= next.place =>
                   t \in page \/ (c.mode = "live" /\ ~row[t].open)
         /\ c.mode = "live" => next.place <= c.head
         /\ next.mode = "live" => c.mode = "live" /\ next.head = c.head
<1>1. /\ page \subseteq Candidates(c)
      /\ Candidates(c) \subseteq Present /\ Present \subseteq Todos
      /\ Cardinality(page) \in Nat /\ Cardinality(page) <= Limit
      /\ Cardinality(page) < Limit => page = Candidates(c)
      /\ \A t \in page, u \in Candidates(c) :
            RowPlace(u) <= RowPlace(t) => u \in page
  BY PageIs
<1>2. /\ c.mode \in {"live", "incremental"} /\ c.place \in Nat
      /\ c.head \in Nat \cup {Null}
  BY DEF CheckpointType
<1>3. Limit \in Nat /\ Limit > 0
  BY Constants
<1>4. \A t \in Present : RowPlace(t) \in Nat
  BY <1>1, RowPlaceType
<1>5. /\ \A t \in Candidates(c) :
            c.place < RowPlace(t) /\ (c.mode = "live" => RowPlace(t) <= c.head)
      /\ \A t \in Present :
            c.place < RowPlace(t) /\ (c.mode = "live" => RowPlace(t) <= c.head)
            => t \in Candidates(c) \/ (c.mode = "live" /\ ~row[t].open)
  BY <1>1, <1>2, <1>4 DEF Candidates
<1>6. page = {} => Cardinality(page) = 0
  BY FS_EmptySet
<1>7. page # {} => /\ \E t \in page : LastPlace(page) = RowPlace(t)
                   /\ \A t \in page : RowPlace(t) <= LastPlace(page)
  BY <1>1, LastPlaceIs
<1>8. page # {} =>
         /\ LastPlace(page) \in Nat /\ c.place <= LastPlace(page)
         /\ c.mode = "live" => LastPlace(page) <= c.head
         /\ \A t \in Candidates(c) : RowPlace(t) <= LastPlace(page) => t \in page
  BY <1>1, <1>2, <1>4, <1>5, <1>7
<1>9. CASE c.mode = "live" /\ Cardinality(page) < Limit
  <2>1. next = [mode |-> "incremental", place |-> c.head, head |-> Null]
    BY <1>1, <1>3, <1>9 DEF NextCheckpoint
  <2>2. next \in CheckpointType /\ next.place = c.head /\ next.mode = "incremental"
    BY <1>9, <2>1 DEF CheckpointType
  <2> QED BY <1>1, <1>5, <1>9, <2>2
<1>10. CASE c.mode = "live" /\ Cardinality(page) = Limit
  <2>1. next = [mode |-> "live", place |-> LastPlace(page), head |-> c.head]
    BY <1>3, <1>10 DEF NextCheckpoint
  <2>2. page # {}
    BY <1>3, <1>6, <1>10
  <2>3. /\ next \in CheckpointType /\ next.place = LastPlace(page)
        /\ next.mode = "live" /\ next.head = c.head
    BY <1>2, <1>8, <2>1, <2>2 DEF CheckpointType
  <2>4. \A t \in Present : c.place < RowPlace(t) /\ RowPlace(t) <= next.place =>
            RowPlace(t) <= c.head
    BY <1>4, <1>8, <1>10, <2>2, <2>3
  <2> QED BY <1>1, <1>5, <1>7, <1>8, <1>10, <2>2, <2>3, <2>4
<1>11. CASE c.mode = "incremental" /\ page # {}
  <2>1. next = [c EXCEPT !.place = LastPlace(page)]
    BY <1>11 DEF NextCheckpoint
  <2>2. /\ next \in CheckpointType /\ next.place = LastPlace(page)
        /\ next.mode = "incremental"
    BY <1>2, <1>8, <1>11, <2>1 DEF CheckpointType
  <2> QED BY <1>1, <1>5, <1>7, <1>8, <1>11, <2>2
<1>12. CASE c.mode = "incremental" /\ page = {}
  <2>1. next = c
    BY <1>12 DEF NextCheckpoint
  <2>2. \A t \in Present : ~(c.place < RowPlace(t) /\ RowPlace(t) <= next.place)
    BY <1>2, <1>4, <2>1
  <2> QED BY <1>1, <1>2, <1>12, <2>1, <2>2
<1> QED BY <1>1, <1>2, <1>3, <1>9, <1>10, <1>11, <1>12

-----------------------------------------------------------------------------
\* What the client has been told not to look behind is at least each of the
\* places it is taken from.
LEMMA PassedIs ==
  ASSUME checkpoint \in CheckpointType, pull.checkpoint \in CheckpointType
  PROVE  /\ Passed \in Nat
         /\ \A c \in {checkpoint, pull.checkpoint} :
               /\ c.place <= Passed
               /\ c.head # Null => c.head <= Passed
<1> DEFINE seen(c) == {c.place} \cup ({c.head} \ {Null})
           places == seen(checkpoint) \cup seen(pull.checkpoint)
<1>1. \A c \in {checkpoint, pull.checkpoint} :
         c.place \in Nat /\ c.head \in Nat \cup {Null}
  BY DEF CheckpointType
<1>2. places \subseteq Nat /\ places # {}
  BY <1>1
<1>3. IsFiniteSet(places)
  <2>1. \A x : IsFiniteSet({x}) /\ IsFiniteSet({x} \ {Null})
    BY FS_Singleton, FS_RemoveElement
  <2>2. \A c : IsFiniteSet(seen(c))
    BY <2>1, FS_Union
  <2> HIDE DEF seen
  <2> QED BY <2>2, FS_Union
<1>4. \E p \in places : \A q \in places : q <= p
  <2> HIDE DEF places
  <2> QED BY <1>2, <1>3, GreatestNumber
<1>5. Passed \in places /\ \A q \in places : q <= Passed
  BY <1>4 DEF Passed
<1>6. \A c \in {checkpoint, pull.checkpoint} :
         c.place \in places /\ (c.head # Null => c.head \in places)
  OBVIOUS
<1> HIDE DEF places
<1> QED BY <1>2, <1>5, <1>6

-----------------------------------------------------------------------------
\* The server: transactions, rows, jobs and handlers.

Finished == {w \in Writers : writer[w].phase = "done"}

ServerTypes ==
    /\ clock \in Nat
    /\ writer \in [Writers -> [phase : {"idle", "begun", "done"},
                               todo : Todos \cup {Null}, time : Nat]]
    /\ row \in [Todos -> [time : Nat, version : Versions, open : BOOLEAN]]
    /\ jobs \subseteq [todo : Todos, version : Versions]
    /\ worker \in [Workers -> [phase : {"idle", "publish", "mark"},
                               job : jobs \cup {Null}, event : Event \cup {Null}]]

\* Every change of a row is a transaction's.
Counts == \A t \in Todos : row[t].version <= Cardinality(Finished) + 1

\* A handler at work has a job of its own and has read its row since the job was
\* enqueued.
AtWork(k) ==
    LET w == worker[k] IN
    /\ w.job \in jobs /\ w.event \in Event
    /\ w.event.todo = w.job.todo
    /\ w.job.version <= w.event.version
    /\ w.event.version <= row[w.event.todo].version
    /\ \A l \in Workers : l # k => worker[l].phase = "idle" \/ worker[l].job # w.job

Works ==
    /\ \A w \in Writers : writer[w].phase = "begun" => writer[w].todo \in Todos
    /\ \A j \in jobs : j.version <= row[j.todo].version
    /\ \A k \in Workers : worker[k] = Idle \/ (worker[k].phase # "idle" /\ AtWork(k))

ServerInv == ServerTypes /\ Counts /\ Works

LEMMA VersionTypes ==
  /\ Cardinality(Writers) \in Nat
  /\ Versions \subseteq Nat /\ {0, 1} \subseteq Versions
  /\ ServerTypes => RowsTyped
<1>1. Cardinality(Writers) \in Nat
  BY Constants, FS_CardinalityType
<1>2. Versions \subseteq Nat /\ {0, 1} \subseteq Versions
  BY <1>1 DEF Versions
<1> QED BY <1>1, <1>2 DEF ServerTypes, RowsTyped

LEMMA FinishedIs ==
  /\ IsFiniteSet(Finished) /\ Cardinality(Finished) \in Nat
  /\ Cardinality(Finished) <= Cardinality(Writers)
<1>1. Finished \subseteq Writers
  BY DEF Finished
<1> QED BY <1>1, Constants, FS_Subset, FS_CardinalityType

LEMMA BeginServer ==
  ASSUME ServerInv, NEW w \in Writers, NEW t \in Todos,
         NEW time \in {clock, clock + 1}, Begin(w, t, time)
  PROVE  ServerInv'
<1>1. ServerTypes /\ Counts /\ Works
  BY DEF ServerInv
<1>2. /\ writer' = [writer EXCEPT ![w] = [phase |-> "begun", todo |-> t,
                                          time |-> time]]
      /\ writer[w].phase = "idle" /\ clock' = time
      /\ UNCHANGED <<row, jobs, worker>>
  BY DEF Begin
<1>3. time \in Nat
  BY <1>1 DEF ServerTypes
<1>4. ServerTypes'
  BY <1>1, <1>2, <1>3 DEF ServerTypes, Versions, Event
<1>5. Finished' = Finished
  BY <1>1, <1>2 DEF Finished, ServerTypes
<1>6. Counts'
  BY <1>1, <1>2, <1>5 DEF Counts
<1>7. Works'
  BY <1>1, <1>2 DEF Works, AtWork, ServerTypes
<1> QED BY <1>4, <1>6, <1>7 DEF ServerInv

LEMMA CommitRow ==
  ASSUME ServerInv, NEW w \in Writers, NEW open \in BOOLEAN, Commit(w, open)
  PROVE  LET t == writer[w].todo
             new == [time |-> writer[w].time, version |-> row[t].version + 1,
                     open |-> open]
         IN  /\ t \in Todos /\ new.time \in Nat /\ row[t].version \in Nat
             /\ new.version \in Versions
             /\ row' = [row EXCEPT ![t] = new]
             /\ row'[t] = new
             /\ \A u \in Todos : u # t => row'[u] = row[u]
             /\ jobs' = jobs \cup {[todo |-> t, version |-> new.version]}
             /\ writer' = [writer EXCEPT ![w] = Done]
             /\ worker' = worker /\ clock' = clock
             /\ Cardinality(Finished') = Cardinality(Finished) + 1
<1>1. ServerTypes /\ Counts /\ Works
  BY DEF ServerInv
<1>2. PICK t, new :
         /\ t = writer[w].todo
         /\ new = [time |-> writer[w].time, version |-> row[t].version + 1,
                   open |-> open]
  OBVIOUS
<1>3. /\ writer[w].phase = "begun"
      /\ row' = [row EXCEPT ![t] = new]
      /\ jobs' = jobs \cup {[todo |-> t, version |-> new.version]}
      /\ writer' = [writer EXCEPT ![w] = Done]
      /\ worker' = worker /\ clock' = clock
  BY <1>2 DEF Commit
<1>4. t \in Todos /\ writer[w].time \in Nat
  BY <1>1, <1>2, <1>3 DEF Works, ServerTypes
<1>5. row[t].version \in Nat /\ row[t].version <= Cardinality(Finished) + 1
  BY <1>1, <1>4, VersionTypes DEF ServerTypes, Counts
<1>6. Finished' = Finished \cup {w} /\ w \notin Finished
  BY <1>1, <1>3 DEF Finished, ServerTypes, Done
<1>7. Cardinality(Finished') = Cardinality(Finished) + 1
  BY <1>6, FinishedIs, FS_AddElement
<1>8. Cardinality(Finished') <= Cardinality(Writers)
  <2>1. Finished' \subseteq Writers
    BY <1>6 DEF Finished
  <2> QED BY <2>1, Constants, FS_Subset
<1>9. new.version \in Versions
  BY <1>2, <1>5, <1>7, <1>8, FinishedIs, VersionTypes DEF Versions
<1>10. row'[t] = new /\ \A u \in Todos : u # t => row'[u] = row[u]
  BY <1>1, <1>3, <1>4 DEF ServerTypes
<1> QED BY <1>2, <1>3, <1>4, <1>5, <1>7, <1>9, <1>10

LEMMA CommitIs ==
  ASSUME ServerInv, NEW w \in Writers, NEW open \in BOOLEAN, Commit(w, open)
  PROVE  \E t \in Todos, time \in Nat :
            /\ t = writer[w].todo /\ time = writer[w].time
            /\ row[t].version \in Nat
            /\ row'[t] = [time |-> time, version |-> row[t].version + 1,
                          open |-> open]
            /\ \A u \in Todos : u # t => row'[u] = row[u]
            /\ jobs' = jobs \cup {[todo |-> t, version |-> row[t].version + 1]}
            /\ worker' = worker
<1>1. PICK t, time, new :
         /\ t = writer[w].todo /\ time = writer[w].time
         /\ new = [time |-> writer[w].time, version |-> row[t].version + 1,
                   open |-> open]
  OBVIOUS
<1>2. /\ t \in Todos /\ new.time \in Nat /\ row[t].version \in Nat
      /\ row'[t] = new
      /\ \A u \in Todos : u # t => row'[u] = row[u]
      /\ jobs' = jobs \cup {[todo |-> t, version |-> new.version]}
      /\ worker' = worker
  BY <1>1, CommitRow
<1>3. time \in Nat /\ new.version = row[t].version + 1
  BY <1>1, <1>2
<1> QED BY <1>1, <1>2, <1>3

LEMMA CommitServer ==
  ASSUME ServerInv, NEW w \in Writers, NEW open \in BOOLEAN, Commit(w, open)
  PROVE  ServerInv'
<1>1. ServerTypes /\ Counts /\ Works
  BY DEF ServerInv
<1>2. PICK t, new :
         /\ t = writer[w].todo
         /\ new = [time |-> writer[w].time, version |-> row[t].version + 1,
                   open |-> open]
  OBVIOUS
<1>3. /\ t \in Todos /\ new.time \in Nat /\ row[t].version \in Nat
      /\ new.version \in Versions
      /\ row' = [row EXCEPT ![t] = new]
      /\ row'[t] = new
      /\ \A u \in Todos : u # t => row'[u] = row[u]
      /\ jobs' = jobs \cup {[todo |-> t, version |-> new.version]}
      /\ writer' = [writer EXCEPT ![w] = Done]
      /\ worker' = worker /\ clock' = clock
      /\ Cardinality(Finished') = Cardinality(Finished) + 1
  BY <1>2, CommitRow
<1>4. /\ new \in [time : Nat, version : Versions, open : BOOLEAN]
      /\ new.version = row[t].version + 1
  BY <1>2, <1>3
<1>5. /\ row' \in [Todos -> [time : Nat, version : Versions, open : BOOLEAN]]
      /\ \A u \in Todos : row[u].version <= row'[u].version
  <2>1. row' \in [Todos -> [time : Nat, version : Versions, open : BOOLEAN]]
    BY <1>1, <1>3, <1>4 DEF ServerTypes
  <2>2. \A u \in Todos : row[u].version \in Nat
    BY <1>1, VersionTypes DEF ServerTypes
  <2>3. ASSUME NEW u \in Todos PROVE row[u].version <= row'[u].version
    <3>1. CASE u = t
      BY <1>3, <1>4, <3>1
    <3>2. CASE u # t
      BY <1>3, <2>2, <3>2
    <3> QED BY <3>1, <3>2
  <2> QED BY <2>1, <2>3
<1>6. writer' \in [Writers -> [phase : {"idle", "begun", "done"},
                              todo : Todos \cup {Null}, time : Nat]]
  BY <1>1, <1>3 DEF ServerTypes, Done
<1>7. jobs' \subseteq [todo : Todos, version : Versions] /\ jobs \subseteq jobs'
  BY <1>1, <1>3 DEF ServerTypes
<1>8. worker' \in [Workers -> [phase : {"idle", "publish", "mark"},
                              job : jobs' \cup {Null}, event : Event \cup {Null}]]
  BY <1>1, <1>3, <1>7 DEF ServerTypes
<1>9. ServerTypes'
  <2>1. Versions' = Versions /\ Event' = Event
    BY DEF Versions, Event
  <2> QED BY <1>1, <1>3, <1>5, <1>6, <1>7, <1>8, <2>1 DEF ServerTypes
<1>10. Counts'
  <2>1. \A u \in Todos : row[u].version \in Nat
    BY <1>1, VersionTypes DEF ServerTypes
  <2> QED BY <1>1, <1>3, <1>4, <2>1, FinishedIs DEF Counts
<1>11. Works'
  <2>1. \A v \in Writers : writer'[v].phase = "begun" => writer'[v].todo \in Todos
    BY <1>1, <1>3 DEF Works, ServerTypes, Done
  <2>2. \A j \in jobs' : j.version <= row'[j.todo].version
    <3>1. ASSUME NEW j \in jobs PROVE j.version <= row'[j.todo].version
      <4>1. /\ j.todo \in Todos /\ j.version \in Nat
            /\ row[j.todo].version \in Nat /\ row'[j.todo].version \in Nat
        BY <1>1, <1>5, VersionTypes DEF ServerTypes
      <4> QED BY <1>1, <1>5, <4>1 DEF Works
    <3> QED BY <1>3, <1>4, <3>1
  <2>3. ASSUME NEW k \in Workers, worker[k].phase # "idle", AtWork(k)
        PROVE  AtWork(k)'
    <3>1. /\ worker[k].event \in Event /\ worker[k].event.todo \in Todos
          /\ worker[k].event.version \in Nat
      BY <2>3, VersionTypes DEF AtWork, Event
    <3>2. /\ row[worker[k].event.todo].version \in Nat
          /\ row'[worker[k].event.todo].version \in Nat
      BY <1>1, <1>5, <3>1, VersionTypes DEF ServerTypes
    <3> QED BY <1>3, <1>5, <1>7, <2>3, <3>1, <3>2 DEF AtWork
  <2> QED BY <1>1, <1>3, <2>1, <2>2, <2>3 DEF Works
<1> QED BY <1>9, <1>10, <1>11 DEF ServerInv

LEMMA ReadServer ==
  ASSUME ServerInv, NEW k \in Workers, NEW j \in jobs, Read(k, j)
  PROVE  /\ ServerInv'
         /\ worker'[k].phase = "publish"
         /\ worker'[k].event.todo \in Todos
         /\ worker'[k].event.version = row[worker'[k].event.todo].version
         /\ \A l \in Workers : l # k => worker'[l] = worker[l]
<1>1. ServerTypes /\ Counts /\ Works
  BY DEF ServerInv
<1>2. PICK e : e = [todo |-> j.todo, version |-> row[j.todo].version,
                    place |-> RowPlace(j.todo)]
  OBVIOUS
<1>3. /\ worker[k] = Idle
      /\ \A l \in Workers : worker[l].job # j
      /\ worker' = [worker EXCEPT ![k] =
                       [phase |-> "publish", job |-> j, event |-> e]]
      /\ UNCHANGED <<clock, writer, row, jobs>>
  BY <1>2 DEF Read
<1>4. j.todo \in Todos /\ j.version \in Versions /\ row[j.todo].version \in Versions
  BY <1>1 DEF ServerTypes
<1>5. e \in Event /\ e.todo = j.todo /\ e.version = row[j.todo].version
  BY <1>1, <1>2, <1>4, RowPlaceType, VersionTypes DEF Event
<1>6. /\ worker'[k] = [phase |-> "publish", job |-> j, event |-> e]
      /\ \A l \in Workers : l # k => worker'[l] = worker[l]
  BY <1>1, <1>3 DEF ServerTypes
<1>7. ServerTypes'
  BY <1>1, <1>3, <1>5 DEF ServerTypes, Versions, Event
<1>8. Counts'
  BY <1>1, <1>3 DEF Counts, Finished
<1>9. AtWork(k)'
  <2>1. j.version <= e.version /\ e.version <= row[e.todo].version
    <3>1. e.version \in Nat /\ j.version <= row[j.todo].version
      BY <1>1, <1>4, <1>5, VersionTypes DEF Works
    <3> QED BY <1>5, <3>1
  <2> QED BY <1>3, <1>5, <1>6, <2>1 DEF AtWork
<1>10. ASSUME NEW l \in Workers, worker[l].phase # "idle", AtWork(l)
       PROVE  l # k /\ AtWork(l)'
  BY <1>3, <1>6, <1>10 DEF AtWork, Idle
<1>11. Works'
  <2>1. \A l \in Workers : worker'[l] = Idle \/ (worker'[l].phase # "idle" /\ AtWork(l)')
    BY <1>1, <1>6, <1>9, <1>10 DEF Works
  <2> QED BY <1>1, <1>3, <2>1 DEF Works
<1> QED BY <1>3, <1>4, <1>5, <1>6, <1>7, <1>8, <1>11 DEF ServerInv

LEMMA PublishServer ==
  ASSUME ServerInv, NEW k \in Workers, Publish(k)
  PROVE  /\ ServerInv'
         /\ worker[k].event \in Event
         /\ worker[k].event.version <= row[worker[k].event.todo].version
         /\ worker'[k].phase = "mark"
         /\ UNCHANGED <<clock, writer, row, jobs>>
         /\ \A l \in Workers : l # k => worker'[l] = worker[l]
<1>1. ServerTypes /\ Counts /\ Works
  BY DEF ServerInv
<1>2. /\ worker[k].phase = "publish"
      /\ worker' = [worker EXCEPT ![k].phase = "mark"]
      /\ UNCHANGED <<clock, writer, row, jobs>>
  BY DEF Publish
<1>3. AtWork(k)
  BY <1>1, <1>2 DEF Works, Idle
<1>4. /\ worker'[k].phase = "mark" /\ worker'[k].job = worker[k].job
      /\ worker'[k].event = worker[k].event
      /\ \A l \in Workers : l # k => worker'[l] = worker[l]
  BY <1>1, <1>2 DEF ServerTypes
<1>5. ServerTypes'
  BY <1>1, <1>2 DEF ServerTypes, Versions, Event
<1>6. Counts'
  BY <1>1, <1>2 DEF Counts, Finished
<1>7. ASSUME NEW l \in Workers
      PROVE  worker'[l] = Idle \/ (worker'[l].phase # "idle" /\ AtWork(l)')
  <2>1. CASE l = k
    BY <1>2, <1>3, <1>4, <2>1 DEF AtWork
  <2>2. CASE l # k /\ worker[l] # Idle
    <3>1. worker[l].phase # "idle" /\ AtWork(l)
      BY <1>1, <2>2 DEF Works
    <3> QED BY <1>2, <1>4, <2>2, <3>1 DEF AtWork
  <2> QED BY <1>4, <2>1, <2>2
<1>8. Works'
  BY <1>1, <1>2, <1>7 DEF Works
<1> QED BY <1>2, <1>3, <1>4, <1>5, <1>6, <1>8 DEF ServerInv, AtWork

LEMMA MarkServer ==
  ASSUME ServerInv, NEW k \in Workers, Mark(k)
  PROVE  /\ ServerInv'
         /\ worker[k].phase = "mark"
         /\ jobs' = jobs \ {worker[k].job}
         /\ worker'[k] = Idle
         /\ UNCHANGED <<clock, writer, row>>
         /\ \A l \in Workers : l # k => worker'[l] = worker[l]
<1>1. ServerTypes /\ Counts /\ Works
  BY DEF ServerInv
<1>2. /\ worker[k].phase = "mark"
      /\ jobs' = jobs \ {worker[k].job}
      /\ worker' = [worker EXCEPT ![k] = Idle]
      /\ UNCHANGED <<clock, writer, row>>
  BY DEF Mark
<1>3. AtWork(k)
  BY <1>1, <1>2 DEF Works, Idle
<1>4. /\ worker'[k] = Idle
      /\ \A l \in Workers : l # k => worker'[l] = worker[l]
  BY <1>1, <1>2 DEF ServerTypes
<1>5. ASSUME NEW l \in Workers
      PROVE  worker'[l] = Idle \/ (worker'[l].phase # "idle" /\ AtWork(l)')
  <2>1. CASE l # k /\ worker[l] # Idle
    <3>1. worker[l].phase # "idle" /\ AtWork(l)
      BY <1>1, <2>1 DEF Works
    <3>2. worker[l].job # worker[k].job
      BY <1>2, <1>3, <2>1, <3>1 DEF AtWork
    <3>3. \A m \in Workers : m # l => worker'[m].phase = "idle" \/ worker'[m] = worker[m]
      BY <1>4 DEF Idle
    <3> QED BY <1>2, <1>4, <2>1, <3>1, <3>2, <3>3 DEF AtWork
  <2> QED BY <1>4, <2>1
<1>6. Works'
  BY <1>1, <1>2, <1>5 DEF Works
<1>7. ASSUME NEW l \in Workers
      PROVE  worker'[l] \in [phase : {"idle", "publish", "mark"},
                             job : jobs' \cup {Null}, event : Event \cup {Null}]
  <2>1. CASE worker'[l] = Idle
    BY <2>1 DEF Idle
  <2>2. CASE worker'[l] # Idle
    <3>1. worker'[l] = worker[l] /\ worker'[l].job \in jobs'
      BY <1>4, <1>5, <2>2 DEF AtWork
    <3> QED BY <1>1, <3>1 DEF ServerTypes
  <2> QED BY <2>1, <2>2
<1>8. ServerTypes'
  <2>1. DOMAIN worker' = Workers /\ worker' = [l \in Workers |-> worker'[l]]
    BY <1>1, <1>2 DEF ServerTypes
  <2> QED BY <1>1, <1>2, <1>7, <2>1 DEF ServerTypes, Versions, Event
<1>9. Counts'
  BY <1>1, <1>2 DEF Counts, Finished
<1> QED BY <1>2, <1>4, <1>6, <1>8, <1>9 DEF ServerInv

LEMMA RepeatServer ==
  ASSUME ServerInv, NEW k \in Workers, Repeat(k)
  PROVE  /\ ServerInv'
         /\ worker'[k] = Idle
         /\ UNCHANGED <<clock, writer, row, jobs>>
         /\ \A l \in Workers : l # k => worker'[l] = worker[l]
<1>1. ServerTypes /\ Counts /\ Works
  BY DEF ServerInv
<1>2. /\ worker' = [worker EXCEPT ![k] = Idle]
      /\ UNCHANGED <<clock, writer, row, jobs>>
  BY DEF Repeat
<1>3. /\ worker'[k] = Idle
      /\ \A l \in Workers : l # k => worker'[l] = worker[l]
  BY <1>1, <1>2 DEF ServerTypes
<1>4. ServerTypes'
  BY <1>1, <1>2 DEF ServerTypes, Versions, Event, Idle
<1>5. Counts'
  BY <1>1, <1>2 DEF Counts, Finished
<1>6. ASSUME NEW l \in Workers
      PROVE  worker'[l] = Idle \/ (worker'[l].phase # "idle" /\ AtWork(l)')
  <2>1. CASE l # k /\ worker[l] # Idle
    <3>1. worker[l].phase # "idle" /\ AtWork(l)
      BY <1>1, <2>1 DEF Works
    <3>2. \A m \in Workers : m # l => worker'[m].phase = "idle" \/ worker'[m] = worker[m]
      BY <1>3 DEF Idle
    <3> QED BY <1>2, <1>3, <2>1, <3>1, <3>2 DEF AtWork
  <2> QED BY <1>3, <2>1
<1>7. Works'
  BY <1>1, <1>2, <1>6 DEF Works
<1> QED BY <1>2, <1>3, <1>4, <1>5, <1>7 DEF ServerInv

LEMMA ServerKept ==
  ASSUME ServerInv, UNCHANGED server
  PROVE  ServerInv'
BY DEF ServerInv, ServerTypes, Counts, Works, AtWork, Finished, server, Versions, Event

-----------------------------------------------------------------------------
\* The stream: the hub's queue and the client's tasks.

LEMMA AppendIs ==
  ASSUME NEW S, NEW s \in Seq(S), NEW e \in S
  PROVE  /\ Append(s, e) \in Seq(S) /\ Len(Append(s, e)) = Len(s) + 1
         /\ Len(s) \in Nat /\ Len(s) + 1 \in DOMAIN Append(s, e)
         /\ Append(s, e)[Len(s) + 1] = e
         /\ \A i \in DOMAIN s : i \in DOMAIN Append(s, e) /\ Append(s, e)[i] = s[i]
         /\ \A i \in DOMAIN Append(s, e) : i \in DOMAIN s \/ i = Len(s) + 1
         /\ \A i \in DOMAIN s : i \in Nat /\ i <= Len(s)
BY AppendProperties

LEMMA TailIs ==
  ASSUME NEW S, NEW s \in Seq(S), s # <<>>
  PROVE  /\ Tail(s) \in Seq(S) /\ Len(s) \in Nat /\ Len(Tail(s)) = Len(s) - 1
         /\ 1 \in DOMAIN s /\ s[1] \in S
         /\ \A i \in DOMAIN Tail(s) : i + 1 \in DOMAIN s /\ Tail(s)[i] = s[i + 1]
         /\ \A i \in DOMAIN s : i = 1 \/ (i - 1 \in DOMAIN Tail(s) /\ Tail(s)[i - 1] = s[i])
         /\ DOMAIN s \subseteq Nat /\ DOMAIN Tail(s) \subseteq Nat
<1>1. Len(s) \in Nat /\ Len(s) # 0
  BY EmptySeq
<1>2. /\ Tail(s) \in Seq(S) /\ Len(Tail(s)) = Len(s) - 1
      /\ \A i \in 1 .. Len(Tail(s)) : Tail(s)[i] = s[i + 1]
  BY HeadTailProperties
<1>3. DOMAIN s = 1 .. Len(s) /\ DOMAIN Tail(s) = 1 .. Len(s) - 1
  BY <1>1, <1>2
<1>4. 1 \in DOMAIN s /\ s[1] \in S
  BY <1>1, <1>3, ElementOfSeq
<1>5. \A i \in DOMAIN s : i = 1 \/ (i - 1 \in DOMAIN Tail(s) /\ (i - 1) + 1 = i)
  BY <1>1, <1>3
<1>6. \A i \in DOMAIN Tail(s) : i + 1 \in DOMAIN s /\ Tail(s)[i] = s[i + 1]
  BY <1>1, <1>2, <1>3
<1>7. \A i \in DOMAIN s : i = 1 \/ (i - 1 \in DOMAIN Tail(s) /\ Tail(s)[i - 1] = s[i])
  BY <1>5, <1>6
<1> QED BY <1>1, <1>2, <1>3, <1>4, <1>6, <1>7

LEMMA EventsAreNoResync == Resync \notin Event
BY Constants DEF Resync, Event

Task == Event \cup {Resync}

\* The row has had the version an event carries.
Past(e) == e # Resync => e.version <= row[e.todo].version

Happened(s) == \A i \in DOMAIN s : Past(s[i])

StreamInv ==
    /\ hub \in Seq(Event) /\ Len(hub) <= Capacity
    /\ {subscribed, connected} \subseteq BOOLEAN /\ (subscribed => connected)
    /\ tasks \in Seq(Task)
    /\ faults \in 0 .. MaxFaults
    /\ lost \subseteq Todos
    /\ Happened(hub) /\ Happened(tasks)

LEMMA LatestType == \A s : LatestIn(s) \subseteq Todos
BY DEF LatestIn

LEMMA HubIsStream == hub \in Seq(Event) => hub \in Seq(Task)
<1> SUFFICES ASSUME hub \in Seq(Event) PROVE hub \in Seq(Task)
  OBVIOUS
<1> QED BY SeqDef DEF Task

LEMMA HappenedSteps ==
  ASSUME NEW s \in Seq(Task), Happened(s)
  PROVE  /\ \A e \in Task : Past(e) => Happened(Append(s, e))
         /\ s # <<>> => Happened(Tail(s)) /\ Past(s[1])
<1>1. ASSUME NEW e \in Task, Past(e) PROVE Happened(Append(s, e))
  BY <1>1, AppendIs DEF Happened
<1>2. ASSUME s # <<>> PROVE Happened(Tail(s)) /\ Past(s[1])
  BY <1>2, TailIs DEF Happened
<1> QED BY <1>1, <1>2

LEMMA StreamKept ==
  ASSUME StreamInv, UNCHANGED <<row, stream, tasks>>, lost' \subseteq Todos,
         faults' \in 0 .. MaxFaults
  PROVE  StreamInv'
BY DEF StreamInv, stream, Happened, Past, Task, Event, Versions

LEMMA CommitStream ==
  ASSUME ServerInv, StreamInv, NEW w \in Writers, NEW open \in BOOLEAN,
         Commit(w, open)
  PROVE  StreamInv'
<1>1. PICK t \in Todos :
         /\ row[t].version \in Nat /\ row'[t].version = row[t].version + 1
         /\ \A u \in Todos : u # t => row'[u] = row[u]
  <2>1. PICK t \in Todos, time \in Nat :
           /\ row[t].version \in Nat
           /\ row'[t] = [time |-> time, version |-> row[t].version + 1,
                         open |-> open]
           /\ \A u \in Todos : u # t => row'[u] = row[u]
    BY CommitIs
  <2>2. row'[t].version = row[t].version + 1
    BY <2>1
  <2> QED BY <2>1, <2>2
<1>2. UNCHANGED <<stream, tasks, faults>> /\ lost' \subseteq Todos
  BY DEF Commit, StreamInv
<1>3. ASSUME NEW e \in Task, Past(e) PROVE Past(e)'
  <2>1. CASE e = Resync
    BY <2>1 DEF Past
  <2>2. CASE e # Resync
    <3>1. e.todo \in Todos /\ e.version \in Nat
      BY <2>2, VersionTypes DEF Task, Event
    <3> QED BY <1>1, <1>3, <3>1 DEF Past
  <2> QED BY <2>1, <2>2
<1>4. ASSUME NEW s \in Seq(Task), Happened(s) PROVE Happened(s)'
  <2>1. \A i \in DOMAIN s : s[i] \in Task
    BY ElementOfSeq
  <2> QED BY <1>3, <1>4, <2>1 DEF Happened
<1>5. Happened(hub)' /\ Happened(tasks)'
  <2>1. hub \in Seq(Task) /\ tasks \in Seq(Task) /\ hub' = hub /\ tasks' = tasks
    BY <1>2, HubIsStream DEF StreamInv, stream
  <2>2. Happened(hub) /\ Happened(tasks)
    BY DEF StreamInv
  <2>3. \A i \in DOMAIN hub : Past(hub[i])'
    BY <1>4, <2>1, <2>2 DEF Happened
  <2>4. \A i \in DOMAIN tasks : Past(tasks[i])'
    BY <1>4, <2>1, <2>2 DEF Happened
  <2> QED BY <2>1, <2>3, <2>4 DEF Happened
<1> QED BY <1>2, <1>5 DEF StreamInv, stream, Task, Event, Versions

LEMMA PublishStream ==
  ASSUME ServerInv, StreamInv, NEW k \in Workers, Publish(k)
  PROVE  StreamInv'
<1>1. PICK e : e = worker[k].event
  OBVIOUS
<1>2. e \in Event /\ e \in Task /\ Past(e) /\ row' = row
  BY <1>1, PublishServer DEF Task, Past
<1>3. /\ hub \in Seq(Event) /\ hub \in Seq(Task) /\ Len(hub) \in Nat
      /\ Len(hub) <= Capacity /\ Happened(hub) /\ Happened(tasks)
      /\ Capacity \in Nat \ {0}
  BY HubIsStream, Constants DEF StreamInv
<1>4. UNCHANGED <<subscribed, connected, tasks, faults>> /\ lost' \subseteq Todos
  BY LatestType DEF Publish, StreamInv
<1>5. \/ hub' = hub
      \/ Len(hub) < Capacity /\ hub' = Append(hub, e)
      \/ ~(Len(hub) < Capacity) /\ hub' = Append(Tail(hub), e)
  BY <1>1 DEF Publish
<1>6. /\ hub' \in Seq(Event) /\ Len(hub') <= Capacity
      /\ \A i \in DOMAIN hub' : Past(hub'[i])
  <2>1. CASE hub' = hub
    BY <1>3, <2>1 DEF Happened
  <2>2. CASE Len(hub) < Capacity /\ hub' = Append(hub, e)
    <3>1. hub' \in Seq(Event) /\ Len(hub') = Len(hub) + 1
      BY <1>2, <1>3, <2>2, AppendIs
    <3>2. Happened(Append(hub, e))
      BY <1>2, <1>3, HappenedSteps
    <3> QED BY <1>3, <2>2, <3>1, <3>2 DEF Happened
  <2>3. CASE ~(Len(hub) < Capacity) /\ hub' = Append(Tail(hub), e)
    <3>1. hub # <<>>
      <4> SUFFICES ASSUME hub = <<>> PROVE FALSE
        OBVIOUS
      <4> QED BY <1>3, <2>3, EmptySeq
    <3>2. /\ Tail(hub) \in Seq(Event) /\ Len(Tail(hub)) = Len(hub) - 1
          /\ Tail(hub) \in Seq(Task)
      BY <1>3, <3>1, TailIs
    <3>3. hub' \in Seq(Event) /\ Len(hub') = Len(hub) - 1 + 1
      BY <1>2, <2>3, <3>2, AppendIs
    <3>4. Happened(Tail(hub))
      BY <1>3, <3>1, HappenedSteps
    <3>5. Happened(Append(Tail(hub), e))
      BY <1>2, <3>2, <3>4, HappenedSteps
    <3> QED BY <1>3, <2>3, <3>3, <3>5 DEF Happened
  <2> QED BY <1>5, <2>1, <2>2, <2>3
<1>7. Happened(hub)' /\ Happened(tasks)'
  BY <1>2, <1>3, <1>4, <1>6 DEF Happened, Past
<1> QED BY <1>4, <1>6, <1>7 DEF StreamInv, Task, Event, Versions

LEMMA DeliverStream ==
  ASSUME StreamInv, Deliver
  PROVE  StreamInv'
<1>1. /\ hub # <<>> /\ hub' = Tail(hub) /\ tasks' = Append(tasks, hub[1])
      /\ UNCHANGED <<row, subscribed, connected, faults, lost>>
  BY DEF Deliver, server
<1>2. /\ hub \in Seq(Event) /\ hub \in Seq(Task) /\ Len(hub) \in Nat
      /\ tasks \in Seq(Task)
      /\ Len(hub) <= Capacity /\ Happened(hub) /\ Happened(tasks)
      /\ Capacity \in Nat
  BY HubIsStream, Constants DEF StreamInv
<1>3. /\ Tail(hub) \in Seq(Event) /\ Len(Tail(hub)) = Len(hub) - 1
      /\ hub[1] \in Event /\ hub[1] \in Task
  BY <1>1, <1>2, TailIs DEF Task
<1>4. Happened(Tail(hub)) /\ Past(hub[1])
  BY <1>1, <1>2, HappenedSteps
<1>5. Append(tasks, hub[1]) \in Seq(Task) /\ Happened(Append(tasks, hub[1]))
  BY <1>2, <1>3, <1>4, AppendIs, HappenedSteps
<1>6. Happened(hub)' /\ Happened(tasks)'
  BY <1>1, <1>4, <1>5 DEF Happened, Past
<1> QED BY <1>1, <1>2, <1>3, <1>5, <1>6 DEF StreamInv, Task, Event, Versions

LEMMA ConnectStream ==
  ASSUME StreamInv, Connect \/ Subscribe
  PROVE  StreamInv'
<1>1. CASE Connect
  <2>1. /\ tasks' = Append(tasks, Resync) /\ connected'
        /\ UNCHANGED <<row, hub, subscribed, faults, lost>>
    BY <1>1 DEF Connect, server
  <2>2. tasks \in Seq(Task) /\ Happened(tasks) /\ Resync \in Task /\ Past(Resync)
    BY DEF StreamInv, Task, Past
  <2>3. Append(tasks, Resync) \in Seq(Task) /\ Happened(Append(tasks, Resync))
    BY <2>2, AppendIs, HappenedSteps
  <2>4. Happened(hub)' /\ Happened(tasks)'
    BY <2>1, <2>3 DEF StreamInv, Happened, Past
  <2>5. connected' = TRUE
    BY <1>1 DEF Connect
  <2> QED BY <2>1, <2>3, <2>4, <2>5 DEF StreamInv, Task, Event, Versions
<1>2. CASE Subscribe
  <2>1. /\ subscribed' = TRUE /\ connected
        /\ UNCHANGED <<row, hub, connected, tasks, faults, lost>>
    BY <1>2 DEF Subscribe, server
  <2> QED BY <2>1 DEF StreamInv, Task, Event, Versions, Happened, Past
<1> QED BY <1>1, <1>2

LEMMA DisconnectStream ==
  ASSUME StreamInv, NEW reload \in BOOLEAN, Disconnect(reload)
  PROVE  StreamInv'
<1>1. /\ faults' = faults + 1 /\ faults < MaxFaults
      /\ connected' = FALSE /\ subscribed' = FALSE /\ hub' = <<>> /\ row' = row
      /\ tasks' = tasks \/ tasks' = <<Resync>>
      /\ lost' \subseteq Todos
  BY LatestType DEF Disconnect, server, StreamInv
<1>2. faults' \in 0 .. MaxFaults
  BY <1>1, Constants DEF StreamInv
<1>3. hub' \in Seq(Event) /\ Len(hub') <= Capacity /\ Happened(hub)'
  BY <1>1, Constants, EmptySeq DEF Happened
<1>4. tasks' \in Seq(Task) /\ Happened(tasks)'
  <2>1. CASE tasks' = tasks
    BY <1>1, <2>1 DEF StreamInv, Happened, Past
  <2>2. CASE tasks' = <<Resync>>
    BY <2>2 DEF Happened, Past, Task
  <2> QED BY <1>1, <2>1, <2>2
<1> QED BY <1>1, <1>2, <1>3, <1>4 DEF StreamInv, Task, Event, Versions

\* What is left in the tasks after a pull has begun or an event is written.
LEMMA TasksStream ==
  ASSUME StreamInv, UNCHANGED <<server, stream, faults>>, lost' \subseteq Todos,
         tasks' = <<>> \/ (tasks # <<>> /\ tasks' = Tail(tasks))
  PROVE  StreamInv'
<1>1. tasks \in Seq(Task) /\ Happened(tasks) /\ row' = row /\ hub' = hub
  BY DEF StreamInv, server, stream
<1>2. tasks' \in Seq(Task) /\ \A i \in DOMAIN tasks' : Past(tasks'[i])
  <2>1. CASE tasks' = <<>>
    BY <2>1, EmptySeq
  <2>2. CASE tasks # <<>> /\ tasks' = Tail(tasks)
    BY <1>1, <2>2, TailIs, HappenedSteps DEF Happened
  <2> QED BY <2>1, <2>2
<1>3. Happened(hub)' /\ Happened(tasks)'
  BY <1>1, <1>2 DEF StreamInv, Happened, Past
<1> QED BY <1>2, <1>3 DEF StreamInv, stream, Task, Event, Versions

LEMMA StreamStep ==
  ASSUME ServerInv, StreamInv, [Next]_vars
  PROVE  ServerInv' /\ StreamInv'
<1>1. ASSUME NEW w \in Writers, NEW t \in Todos, NEW time \in {clock, clock + 1},
             Begin(w, t, time)
      PROVE  ServerInv' /\ StreamInv'
  <2>1. UNCHANGED <<row, stream, tasks, faults, lost>>
    BY <1>1 DEF Begin
  <2> QED BY <1>1, <2>1, BeginServer, StreamKept DEF StreamInv
<1>2. ASSUME NEW w \in Writers, NEW open \in BOOLEAN, Commit(w, open)
      PROVE  ServerInv' /\ StreamInv'
  BY <1>2, CommitServer, CommitStream
<1>3. ASSUME NEW k \in Workers, NEW j \in jobs, Read(k, j)
      PROVE  ServerInv' /\ StreamInv'
  <2>1. UNCHANGED <<row, stream, tasks, faults, lost>>
    BY <1>3 DEF Read
  <2> QED BY <1>3, <2>1, ReadServer, StreamKept DEF StreamInv
<1>4. ASSUME NEW k \in Workers, Publish(k) PROVE ServerInv' /\ StreamInv'
  BY <1>4, PublishServer, PublishStream
<1>5. ASSUME NEW k \in Workers, Mark(k) PROVE ServerInv' /\ StreamInv'
  <2>1. UNCHANGED <<row, stream, tasks, faults, lost>>
    BY <1>5 DEF Mark
  <2> QED BY <1>5, <2>1, MarkServer, StreamKept DEF StreamInv
<1>6. ASSUME NEW k \in Workers, Repeat(k) PROVE ServerInv' /\ StreamInv'
  <2>1. /\ UNCHANGED <<row, stream, tasks, lost>>
        /\ faults' = faults + 1 /\ faults < MaxFaults
    BY <1>6 DEF Repeat
  <2>2. faults' \in 0 .. MaxFaults
    BY <2>1, Constants DEF StreamInv
  <2> QED BY <1>6, <2>1, <2>2, RepeatServer, StreamKept DEF StreamInv
<1>7. CASE Connect \/ Subscribe
  <2>1. UNCHANGED server
    BY <1>7 DEF Connect, Subscribe
  <2> QED BY <1>7, <2>1, ServerKept, ConnectStream
<1>8. CASE Deliver
  <2>1. UNCHANGED server
    BY <1>8 DEF Deliver
  <2> QED BY <1>8, <2>1, ServerKept, DeliverStream
<1>9. ASSUME NEW reload \in BOOLEAN, Disconnect(reload)
      PROVE  ServerInv' /\ StreamInv'
  <2>1. UNCHANGED server
    BY <1>9 DEF Disconnect
  <2> QED BY <1>9, <2>1, ServerKept, DisconnectStream
<1>10. CASE StartPull \/ NextPull
  <2>1. /\ UNCHANGED <<server, stream, faults>> /\ tasks' = <<>>
        /\ lost' \subseteq Todos
    BY <1>10, LatestType DEF StartPull, NextPull, Ask, StreamInv
  <2> QED BY <2>1, ServerKept, TasksStream
<1>11. CASE AnswerPull \/ ApplyPage
  <2>1. UNCHANGED <<server, stream, tasks, faults, lost>>
    BY <1>11 DEF AnswerPull, ApplyPage
  <2>2. UNCHANGED row
    BY <2>1 DEF server
  <2> QED BY <2>1, <2>2, ServerKept, StreamKept DEF StreamInv
<1>12. CASE ApplyEvent
  <2>1. /\ UNCHANGED <<server, stream, faults, lost>>
        /\ tasks # <<>> /\ tasks' = Tail(tasks)
    BY <1>12 DEF ApplyEvent
  <2> QED BY <2>1, ServerKept, TasksStream DEF StreamInv
<1>13. CASE UNCHANGED vars
  <2>1. UNCHANGED <<server, row, stream, tasks, faults, lost>>
    BY <1>13 DEF vars, server, stream
  <2> QED BY <2>1, ServerKept, StreamKept DEF StreamInv
<1> QED BY <1>1, <1>2, <1>3, <1>4, <1>5, <1>6, <1>7, <1>8, <1>9, <1>10, <1>11,
           <1>12, <1>13 DEF Next

-----------------------------------------------------------------------------
\* The client: its copy, its checkpoint and the pull in progress.

ClientTypes ==
    /\ copy \in [Todos -> Versions]
    /\ checkpoint \in CheckpointType
    /\ pull \in [phase : {"idle", "asked", "answered", "more"},
                 page : [Todos -> Versions], checkpoint : CheckpointType]
    /\ skipped \subseteq Todos

\* The client knows only versions that the rows have had.
NotAhead ==
    \A t \in Todos : copy[t] <= row[t].version /\ pull.page[t] <= row[t].version

\* A backfill without a head has brought nothing yet; a pull goes on where the
\* checkpoint is, with the head the backfill was given first.
Pulls ==
    /\ checkpoint.mode = "live" /\ checkpoint.head = Null =>
           checkpoint.place = 0 /\ \A t \in Todos : copy[t] = 0
    /\ checkpoint.mode = "live" /\ checkpoint.head # Null =>
           checkpoint.place <= checkpoint.head
    /\ pull.phase \in {"idle", "more"} => pull.checkpoint = Beginning
    /\ pull.phase # "answered" => pull.page = NoPage
    /\ pull.phase = "asked" => /\ pull.checkpoint.place = checkpoint.place
                               /\ pull.checkpoint.mode = checkpoint.mode
    /\ pull.phase = "answered" => checkpoint.place <= pull.checkpoint.place
    /\ pull.phase \in {"asked", "answered"} /\ pull.checkpoint.mode = "live" =>
           /\ checkpoint.mode = "live"
           /\ pull.checkpoint.head # Null
           /\ checkpoint.head # Null => pull.checkpoint.head = checkpoint.head
           /\ pull.checkpoint.place <= pull.checkpoint.head

\* What an answered page says of a to-do: unless the to-do has changed behind
\* the checkpoint meanwhile the page holds everything up to its checkpoint that
\* the client does not have, and what has changed since lies beyond it, in a
\* backfill beyond its head.
Seen(t) ==
    pull.phase = "answered" =>
        /\ t \notin skipped /\ row[t].version > 0
               /\ RowPlace(t) <= pull.checkpoint.place
           => \/ pull.page[t] = row[t].version
              \/ pull.page[t] = 0 /\ ~Stale(t)
        /\ pull.page[t] > 0 /\ pull.page[t] = row[t].version =>
               RowPlace(t) <= pull.checkpoint.place
        /\ pull.page[t] > 0 /\ t \notin skipped /\ pull.checkpoint.mode = "live"
           => \/ RowPlace(t) <= pull.checkpoint.place
              \/ RowPlace(t) > pull.checkpoint.head
        /\ pull.page[t] = 0 \/ copy[t] <= pull.page[t]

\* Only what is counted as skipped is missed behind the checkpoint; in a backfill
\* the client has nothing between the checkpoint and the head.
Behind(t) ==
    /\ Stale(t) /\ t \notin skipped => RowPlace(t) > checkpoint.place
    /\ t \in skipped => copy[t] # row[t].version
    /\ checkpoint.mode = "live" /\ copy[t] > 0 /\ t \notin skipped =>
           \/ RowPlace(t) <= checkpoint.place
           \/ checkpoint.head # Null /\ RowPlace(t) > checkpoint.head

PullInv ==
    /\ ClientTypes
    /\ NotAhead
    /\ Pulls
    /\ \A t \in Todos : Seen(t) /\ Behind(t)

LEMMA ClientNumbers ==
  ASSUME ServerInv, ClientTypes
  PROVE  /\ \A t \in Todos : /\ row[t].version \in Nat /\ RowPlace(t) \in Nat
                             /\ copy[t] \in Nat /\ pull.page[t] \in Nat
         /\ checkpoint.place \in Nat /\ checkpoint.head \in Nat \cup {Null}
         /\ pull.checkpoint.place \in Nat
         /\ pull.checkpoint.head \in Nat \cup {Null}
         /\ checkpoint.mode \in {"live", "incremental"}
         /\ pull.checkpoint \in CheckpointType
         /\ pull.checkpoint.mode \in {"live", "incremental"}
<1>1. RowsTyped
  BY VersionTypes DEF ServerInv
<1>2. \A t \in Todos : row[t].version \in Nat /\ RowPlace(t) \in Nat
  BY <1>1, RowPlaceType DEF RowsTyped
<1>3. \A t \in Todos : copy[t] \in Nat /\ pull.page[t] \in Nat
  BY VersionTypes DEF ClientTypes
<1> QED BY <1>2, <1>3 DEF ClientTypes, CheckpointType

LEMMA PullKept ==
  ASSUME PullInv, UNCHANGED <<row, client, skipped>>
  PROVE  PullInv'
<1>1. UNCHANGED <<row, copy, checkpoint, pull, skipped>>
  BY DEF client
<1> QED BY <1>1 DEF PullInv, ClientTypes, NotAhead, Pulls, Seen, Behind, Stale,
                    RowPlace, Versions, CheckpointType

LEMMA CommitPull ==
  ASSUME ServerInv, PullInv, NEW w \in Writers, NEW open \in BOOLEAN,
         Commit(w, open)
  PROVE  PullInv'
<1>1. PICK t \in Todos, time \in Nat :
         /\ t = writer[w].todo /\ time = writer[w].time
         /\ row[t].version \in Nat
         /\ row'[t] = [time |-> time, version |-> row[t].version + 1,
                       open |-> open]
         /\ \A u \in Todos : u # t => row'[u] = row[u]
  BY CommitIs
<1>2. ClientTypes /\ NotAhead /\ Pulls
  BY DEF PullInv
<1>3. /\ UNCHANGED <<copy, checkpoint, pull>>
      /\ skipped' = IF Place(t, time) <= Passed THEN skipped \cup {t}
                                                ELSE skipped \ {t}
  <2>1. /\ UNCHANGED client
        /\ skipped' = IF Place(writer[w].todo, writer[w].time) <= Passed
                      THEN skipped \cup {writer[w].todo}
                      ELSE skipped \ {writer[w].todo}
    BY DEF Commit
  <2> QED BY <1>1, <2>1 DEF client
<1>4. row'[t].version = row[t].version + 1 /\ RowPlace(t)' = Place(t, time)
  BY <1>1, <1>3 DEF RowPlace
<1>5. /\ Passed \in Nat /\ Place(t, time) \in Nat
      /\ checkpoint.place <= Passed
      /\ checkpoint.head # Null => checkpoint.head <= Passed
      /\ pull.checkpoint.place <= Passed
      /\ pull.checkpoint.head # Null => pull.checkpoint.head <= Passed
  BY <1>2, PassedIs, PlaceType DEF ClientTypes
<1>6. /\ copy[t] \in Nat /\ pull.page[t] \in Nat
      /\ checkpoint.place \in Nat /\ checkpoint.head \in Nat \cup {Null}
      /\ pull.checkpoint.place \in Nat
      /\ pull.checkpoint.head \in Nat \cup {Null}
  BY <1>2, ClientNumbers
<1>7. copy[t] < row'[t].version /\ pull.page[t] < row'[t].version
  BY <1>1, <1>2, <1>4, <1>6 DEF NotAhead
<1>8. ClientTypes'
  BY <1>2, <1>3 DEF ClientTypes, Versions, CheckpointType
<1>9. Pulls'
  BY <1>2, <1>3 DEF Pulls
<1>10. NotAhead'
  <2> SUFFICES ASSUME NEW u \in Todos
               PROVE  copy[u] <= row'[u].version /\ pull.page[u] <= row'[u].version
    BY <1>3 DEF NotAhead
  <2>1. CASE u = t
    BY <1>1, <1>4, <1>6, <1>7, <2>1
  <2>2. CASE u # t
    BY <1>1, <1>2, <2>2 DEF NotAhead
  <2> QED BY <2>1, <2>2
<1>11. ASSUME NEW u \in Todos, u # t
       PROVE  Seen(u)' /\ Behind(u)'
  <2>1. row'[u] = row[u] /\ (u \in skipped' <=> u \in skipped)
    BY <1>1, <1>3, <1>11
  <2>2. RowPlace(u)' = RowPlace(u) /\ (Stale(u)' <=> Stale(u))
    BY <1>3, <2>1 DEF RowPlace, Stale
  <2>3. Seen(u) /\ Behind(u)
    BY DEF PullInv
  <2> QED BY <1>3, <2>1, <2>2, <2>3 DEF Seen, Behind
<1>12. Behind(t)'
  <2>1. t \notin skipped' => Place(t, time) > Passed
    BY <1>3, <1>5
  <2>2. copy'[t] # row'[t].version
    BY <1>1, <1>3, <1>4, <1>6, <1>7
  <2>3. checkpoint.mode = "live" /\ copy[t] > 0 => checkpoint.head # Null
    BY <1>2, <1>6 DEF Pulls
  <2> QED BY <1>3, <1>4, <1>5, <1>6, <2>1, <2>2, <2>3 DEF Behind
<1>13. Seen(t)'
  <2>1. t \notin skipped' => Place(t, time) > Passed
    BY <1>3, <1>5
  <2>2. Seen(t)
    BY DEF PullInv
  <2>3. pull.phase = "answered" /\ pull.checkpoint.mode = "live" =>
            pull.checkpoint.head # Null
    BY <1>2 DEF Pulls
  <2>4. pull'.page[t] # row'[t].version
    BY <1>1, <1>3, <1>4, <1>6, <1>7
  <2>5. pull.phase = "answered" => pull.page[t] = 0 \/ copy[t] <= pull.page[t]
    BY <2>2 DEF Seen
  <2> QED BY <1>3, <1>4, <1>5, <1>6, <2>1, <2>3, <2>4, <2>5 DEF Seen
<1> QED BY <1>8, <1>9, <1>10, <1>11, <1>12, <1>13 DEF PullInv

\* The parts of a pull record that has been replaced.
LEMMA NoPullIs ==
  /\ NoPull \in [phase : {"idle", "asked", "answered", "more"},
                 page : [Todos -> Versions], checkpoint : CheckpointType]
  /\ NoPull.phase = "idle" /\ NoPull.page = NoPage /\ NoPull.checkpoint = Beginning
  /\ Beginning \in CheckpointType /\ NoPage \in [Todos -> Versions]
  /\ \A t \in Todos : NoPage[t] = 0
BY VersionTypes DEF NoPull, NoPage, Beginning, CheckpointType

\* A pull that is given up, or ends.
LEMMA NoPullPull ==
  ASSUME ServerInv, PullInv, UNCHANGED <<row, copy, checkpoint, skipped>>,
         pull' \in [phase : {"idle", "asked", "answered", "more"},
                    page : [Todos -> Versions], checkpoint : CheckpointType],
         pull'.phase \in {"idle", "more"}, pull'.page = NoPage,
         pull'.checkpoint = Beginning
  PROVE  PullInv'
<1>1. ClientTypes /\ NotAhead /\ Pulls
  BY DEF PullInv
<1>2. ClientTypes'
  BY <1>1 DEF ClientTypes, Versions, CheckpointType
<1>3. NotAhead'
  BY <1>1, NoPullIs, ClientNumbers DEF NotAhead
<1>4. Pulls'
  BY <1>1 DEF Pulls
<1>5. \A t \in Todos : Seen(t)'
  BY DEF Seen
<1>6. \A t \in Todos : Behind(t)'
  BY DEF PullInv, Behind, Stale, RowPlace
<1> QED BY <1>2, <1>3, <1>4, <1>5, <1>6 DEF PullInv

LEMMA DisconnectPull ==
  ASSUME ServerInv, PullInv, NEW reload \in BOOLEAN, Disconnect(reload)
  PROVE  PullInv'
<1>1. UNCHANGED <<row, copy, checkpoint, skipped>>
  BY DEF Disconnect, server
<1>2. CASE reload
  <2>1. pull' = NoPull
    BY <1>2 DEF Disconnect
  <2> QED BY <1>1, <2>1, NoPullIs, NoPullPull
<1>3. CASE ~reload
  <2>1. UNCHANGED <<row, client, skipped>>
    BY <1>1, <1>3 DEF Disconnect, client
  <2> QED BY <2>1, PullKept
<1> QED BY <1>2, <1>3

LEMMA AskPull ==
  ASSUME ServerInv, PullInv, Ask(checkpoint)
  PROVE  PullInv'
<1>1. ClientTypes /\ NotAhead /\ Pulls
  BY DEF PullInv
<1>2. PICK head : head = IF checkpoint.mode = "live" THEN BackfillHead(checkpoint)
                                                    ELSE checkpoint.head
  OBVIOUS
<1>3. /\ UNCHANGED <<row, copy, checkpoint, skipped>>
      /\ pull' = [phase |-> "asked", page |-> NoPage,
                  checkpoint |-> IF checkpoint.mode = "live"
                                 THEN [checkpoint EXCEPT !.head = head]
                                 ELSE checkpoint]
  BY <1>2 DEF Ask, Asked, server
<1>4. /\ checkpoint \in CheckpointType
      /\ checkpoint.place \in Nat /\ checkpoint.head \in Nat \cup {Null}
      /\ checkpoint.mode \in {"live", "incremental"}
  BY <1>1, ClientNumbers DEF ClientTypes
<1>5. TableHead \in Nat /\ Null \notin Nat
  BY Constants, HeadType, VersionTypes DEF ServerInv
<1>6. checkpoint.mode = "live" =>
         /\ head \in Nat /\ checkpoint.place <= head
         /\ checkpoint.head # Null => head = checkpoint.head
  BY <1>1, <1>2, <1>4, <1>5 DEF BackfillHead, Pulls
<1>7. /\ pull'.phase = "asked" /\ pull'.page = NoPage
      /\ pull'.checkpoint \in CheckpointType
      /\ pull'.checkpoint.mode = checkpoint.mode
      /\ pull'.checkpoint.place = checkpoint.place
      /\ checkpoint.mode = "live" => pull'.checkpoint.head = head
  BY <1>3, <1>4, <1>6 DEF CheckpointType
<1>8. ClientTypes'
  BY <1>1, <1>3, <1>7, NoPullIs DEF ClientTypes, Versions, CheckpointType
<1>9. NotAhead'
  BY <1>1, <1>3, <1>7, NoPullIs, ClientNumbers DEF NotAhead
<1>10. Pulls'
  BY <1>1, <1>3, <1>4, <1>5, <1>6, <1>7 DEF Pulls
<1>11. \A t \in Todos : Seen(t)'
  BY <1>7 DEF Seen
<1>12. \A t \in Todos : Behind(t)'
  BY <1>3 DEF PullInv, Behind, Stale, RowPlace
<1> QED BY <1>8, <1>9, <1>10, <1>11, <1>12 DEF PullInv

LEMMA AnswerPullPull ==
  ASSUME ServerInv, PullInv, AnswerPull
  PROVE  PullInv'
<1>1. ClientTypes /\ NotAhead /\ Pulls
  BY DEF PullInv
<1>2. PICK c, page, next :
         c = pull.checkpoint /\ page = Page(c) /\ next = NextCheckpoint(c, page)
  OBVIOUS
<1>3. /\ pull.phase = "asked"
      /\ UNCHANGED <<row, copy, checkpoint, skipped>>
      /\ pull' = [phase |-> "answered",
                  page |-> [t \in Todos |-> IF t \in page THEN row[t].version ELSE 0],
                  checkpoint |-> next]
  BY <1>2 DEF AnswerPull, server
<1>4. /\ c \in CheckpointType /\ c.place \in Nat /\ c.head \in Nat \cup {Null}
      /\ c.mode \in {"live", "incremental"}
      /\ checkpoint.head \in Nat \cup {Null}
      /\ \A t \in Todos : /\ row[t].version \in Nat /\ RowPlace(t) \in Nat
                          /\ copy[t] \in Nat /\ copy[t] <= row[t].version
  BY <1>1, <1>2, ClientNumbers DEF NotAhead
<1>5. /\ c.place = checkpoint.place /\ c.mode = checkpoint.mode
      /\ c.mode = "live" => /\ c.head \in Nat /\ c.place <= c.head
                            /\ checkpoint.head # Null => c.head = checkpoint.head
  BY <1>1, <1>2, <1>3, <1>4 DEF Pulls
<1>6. RowsTyped
  BY VersionTypes DEF ServerInv
<1>7. /\ next \in CheckpointType
      /\ c.place <= next.place
      /\ page \subseteq Present
      /\ \A t \in page : c.place < RowPlace(t) /\ RowPlace(t) <= next.place
      /\ \A t \in Present :
            c.place < RowPlace(t) /\ RowPlace(t) <= next.place =>
                t \in page \/ (c.mode = "live" /\ ~row[t].open)
      /\ c.mode = "live" => next.place <= c.head
      /\ next.mode = "live" => c.mode = "live" /\ next.head = c.head
  BY <1>2, <1>4, <1>5, <1>6, NextIs
<1>8. /\ pull'.phase = "answered" /\ pull'.checkpoint = next
      /\ \A t \in Todos : pull'.page[t] = IF t \in page THEN row[t].version ELSE 0
      /\ next.place \in Nat
  BY <1>3, <1>7 DEF CheckpointType
<1>9. ClientTypes'
  <2>1. pull' \in [phase : {"idle", "asked", "answered", "more"},
                   page : [Todos -> Versions], checkpoint : CheckpointType]
    BY <1>3, <1>7, VersionTypes DEF ServerInv, ServerTypes
  <2> QED BY <1>1, <1>3, <2>1 DEF ClientTypes, Versions, CheckpointType
<1>10. NotAhead'
  BY <1>3, <1>4, <1>8 DEF NotAhead
<1>11. Pulls'
  BY <1>1, <1>3, <1>4, <1>5, <1>7, <1>8, Constants DEF Pulls
<1>12. \A t \in Todos : Behind(t)'
  BY <1>3 DEF PullInv, Behind, Stale, RowPlace
<1>13. ASSUME NEW t \in Todos PROVE Seen(t)'
  <2>1. Behind(t)
    BY DEF PullInv
  <2>2. row[t].version > 0 <=> t \in Present
    BY DEF Present
  <2>3. RowPlace(t)' = RowPlace(t) /\ (Stale(t)' <=> Stale(t))
    BY <1>3 DEF RowPlace, Stale
  <2>4. pull'.page[t] > 0 <=> t \in page
    BY <1>4, <1>7, <1>8, <2>2
  <2>5. pull'.page[t] > 0 => RowPlace(t) <= next.place
    BY <1>7, <2>4
  <2>6. pull'.page[t] = 0 \/ copy[t] <= pull'.page[t]
    BY <1>4, <1>8
  <2>7. ASSUME t \notin skipped, row[t].version > 0, RowPlace(t) <= next.place,
               t \notin page
        PROVE  ~Stale(t)
    <3>1. CASE RowPlace(t) <= checkpoint.place
      BY <1>4, <1>5, <2>1, <2>7, <3>1 DEF Behind
    <3>2. CASE checkpoint.place < RowPlace(t)
      <4>1. c.mode = "live" /\ ~row[t].open
        BY <1>5, <1>7, <2>2, <2>7, <3>2
      <4>2. ~(copy[t] > 0)
        <5>1. RowPlace(t) <= c.head
          BY <1>4, <1>5, <1>7, <1>8, <2>7, <4>1
        <5> QED BY <1>4, <1>5, <2>1, <2>7, <3>2, <4>1, <5>1 DEF Behind
      <4> QED BY <4>1, <4>2 DEF Stale
    <3> QED BY <1>4, <1>5, <3>1, <3>2
  <2> QED BY <1>3, <1>8, <2>3, <2>5, <2>6, <2>7 DEF Seen
<1> QED BY <1>9, <1>10, <1>11, <1>12, <1>13 DEF PullInv

LEMMA ApplyPagePull ==
  ASSUME ServerInv, PullInv, ApplyPage
  PROVE  PullInv'
<1>1. ClientTypes /\ NotAhead /\ Pulls
  BY DEF PullInv
<1>2. PICK page : page = {t \in Todos : pull.page[t] > 0}
  OBVIOUS
<1>3. /\ pull.phase = "answered" /\ row' = row
      /\ copy' = [t \in Todos |-> IF t \in page THEN pull.page[t] ELSE copy[t]]
      /\ checkpoint' = IF page = {} THEN checkpoint ELSE pull.checkpoint
      /\ pull' = NoPull \/ pull' = [NoPull EXCEPT !.phase = "more"]
      /\ skipped' = skipped \ Current(copy')
  BY <1>2 DEF ApplyPage, server
<1>4. /\ \A t \in Todos :
            /\ row[t].version \in Nat /\ RowPlace(t) \in Nat
            /\ copy[t] \in Nat /\ pull.page[t] \in Nat
            /\ copy[t] <= row[t].version /\ pull.page[t] <= row[t].version
      /\ checkpoint.place \in Nat /\ checkpoint.head \in Nat \cup {Null}
      /\ pull.checkpoint.place \in Nat
      /\ pull.checkpoint.head \in Nat \cup {Null}
      /\ checkpoint.mode \in {"live", "incremental"}
      /\ pull.checkpoint \in CheckpointType
  BY <1>1, ClientNumbers DEF NotAhead
<1>5. \A t \in Todos :
         copy'[t] = IF pull.page[t] > 0 THEN pull.page[t] ELSE copy[t]
  BY <1>2, <1>3
<1>6. /\ pull'.phase \in {"idle", "more"} /\ pull'.page = NoPage
      /\ pull'.checkpoint = Beginning
      /\ pull' \in [phase : {"idle", "asked", "answered", "more"},
                    page : [Todos -> Versions], checkpoint : CheckpointType]
  BY <1>3, NoPullIs
<1>7. ClientTypes'
  <2>1. copy' \in [Todos -> Versions]
    BY <1>1, <1>3 DEF ClientTypes
  <2> QED BY <1>1, <1>3, <1>4, <1>6, <2>1 DEF ClientTypes, Versions, CheckpointType
<1>8. NotAhead'
  BY <1>3, <1>4, <1>5, <1>6, NoPullIs DEF NotAhead
<1>9. page = {} => \A t \in Todos : copy'[t] = copy[t]
  BY <1>2, <1>5
<1>10. Pulls'
  <2>1. CASE page = {}
    BY <1>1, <1>3, <1>6, <1>9, <2>1 DEF Pulls
  <2>2. CASE page # {}
    BY <1>1, <1>3, <1>6, <2>2 DEF Pulls
  <2> QED BY <2>1, <2>2
<1>11. \A t \in Todos : Seen(t)'
  BY <1>6 DEF Seen
<1>12. ASSUME NEW t \in Todos PROVE Behind(t)'
  <2>1. Behind(t) /\ Seen(t)
    BY DEF PullInv
  <2>2. t \in skipped' <=> t \in skipped /\ copy'[t] # row[t].version
    BY <1>3 DEF Current
  <2>3. RowPlace(t)' = RowPlace(t)
    BY <1>3 DEF RowPlace
  <2>4. Stale(t)' <=> /\ row[t].version > 0
                      /\ row[t].open \/ copy'[t] > 0
                      /\ copy'[t] # row[t].version
    BY <1>3 DEF Stale
  <2>5. CASE page = {}
    <3>1. copy'[t] = copy[t] /\ checkpoint' = checkpoint
      BY <1>3, <1>9, <2>5
    <3> QED BY <1>3, <2>1, <2>2, <2>3, <2>4, <3>1 DEF Behind, Stale
  <2>6. CASE page # {}
    <3>1. checkpoint' = pull.checkpoint
      BY <1>3, <2>6
    <3>2. Stale(t)' /\ t \notin skipped' => RowPlace(t) > pull.checkpoint.place
      BY <1>3, <1>4, <1>5, <2>1, <2>2, <2>4 DEF Seen, Stale
    <3>3. ASSUME pull.checkpoint.mode = "live", copy'[t] > 0, t \notin skipped'
          PROVE  \/ RowPlace(t) <= pull.checkpoint.place
                 \/ /\ pull.checkpoint.head # Null
                    /\ RowPlace(t) > pull.checkpoint.head
      <4>1. /\ checkpoint.mode = "live" /\ pull.checkpoint.head # Null
            /\ checkpoint.head # Null => pull.checkpoint.head = checkpoint.head
            /\ checkpoint.place <= pull.checkpoint.place
        BY <1>1, <1>3, <3>3 DEF Pulls
      <4>2. CASE t \in skipped
        BY <1>3, <1>4, <1>5, <2>1, <2>2, <3>3, <4>2 DEF Seen, Behind
      <4>3. CASE t \notin skipped /\ pull.page[t] > 0
        BY <1>3, <2>1, <3>3, <4>1, <4>3 DEF Seen
      <4>4. CASE t \notin skipped /\ pull.page[t] = 0
        BY <1>4, <1>5, <2>1, <3>3, <4>1, <4>4 DEF Behind
      <4> QED BY <1>4, <4>2, <4>3, <4>4
    <3> QED BY <1>3, <2>2, <2>3, <3>1, <3>2, <3>3 DEF Behind
  <2> QED BY <2>5, <2>6
<1> QED BY <1>7, <1>8, <1>10, <1>11, <1>12 DEF PullInv

LEMMA ApplyEventPull ==
  ASSUME ServerInv, StreamInv, PullInv, ApplyEvent
  PROVE  PullInv'
<1>1. ClientTypes /\ NotAhead /\ Pulls
  BY DEF PullInv
<1>2. PICK e : e = tasks[1]
  OBVIOUS
<1>3. /\ pull.phase = "idle" /\ tasks # <<>> /\ e # Resync
      /\ copy' = [copy EXCEPT ![e.todo] = e.version]
      /\ checkpoint' = [mode |-> "incremental", place |-> e.place, head |-> Null]
      /\ skipped' = (skipped \cup JumpedTo(e)) \ Current(copy')
      /\ UNCHANGED <<row, pull>>
  BY <1>2 DEF ApplyEvent, server
<1>4. e \in Event /\ Past(e)
  BY <1>2, <1>3, TailIs, HappenedSteps DEF StreamInv, Task
<1>5. /\ e.todo \in Todos /\ e.version \in Versions /\ e.version \in Nat
      /\ e.place \in Nat /\ e.version <= row[e.todo].version
  BY <1>3, <1>4, VersionTypes DEF Event, Past
<1>6. /\ \A t \in Todos :
            /\ row[t].version \in Nat /\ RowPlace(t) \in Nat
            /\ copy[t] \in Nat /\ pull.page[t] \in Nat
            /\ copy[t] <= row[t].version /\ pull.page[t] <= row[t].version
      /\ checkpoint.place \in Nat
  BY <1>1, ClientNumbers DEF NotAhead
<1>7. /\ copy'[e.todo] = e.version
      /\ \A t \in Todos : t # e.todo => copy'[t] = copy[t]
  BY <1>1, <1>3, <1>5 DEF ClientTypes
<1>8. /\ checkpoint' \in CheckpointType /\ checkpoint'.place = e.place
      /\ checkpoint'.mode = "incremental"
  BY <1>3, <1>5 DEF CheckpointType
<1>9. ClientTypes'
  <2>1. copy' \in [Todos -> Versions]
    BY <1>1, <1>3, <1>5 DEF ClientTypes
  <2>2. skipped' \subseteq Todos
    BY <1>1, <1>3, <1>5 DEF ClientTypes, JumpedTo, Present
  <2> QED BY <1>1, <1>3, <1>8, <2>1, <2>2 DEF ClientTypes, Versions, CheckpointType
<1>10. NotAhead'
  <2> SUFFICES ASSUME NEW t \in Todos
               PROVE  copy'[t] <= row[t].version /\ pull.page[t] <= row[t].version
    BY <1>3 DEF NotAhead
  <2> QED BY <1>5, <1>6, <1>7
<1>11. Pulls'
  BY <1>1, <1>3, <1>8 DEF Pulls
<1>12. \A t \in Todos : Seen(t)'
  BY <1>3 DEF Seen
<1>13. ASSUME NEW t \in Todos PROVE Behind(t)'
  <2>1. Behind(t)
    BY DEF PullInv
  <2>2. t \in skipped' <=> /\ t \in skipped \cup JumpedTo(e)
                           /\ copy'[t] # row[t].version
    BY <1>3 DEF Current
  <2>3. RowPlace(t)' = RowPlace(t)
    BY <1>3 DEF RowPlace
  <2>4. ASSUME Stale(t)', t \notin skipped' PROVE RowPlace(t) > e.place
    <3>1. row[t].version > 0 /\ copy'[t] # row[t].version
      BY <1>3, <2>4 DEF Stale
    <3>2. t \notin skipped /\ t \notin JumpedTo(e)
      BY <2>2, <2>4, <3>1
    <3>3. t # e.todo /\ ~(RowPlace(t) > checkpoint.place /\ RowPlace(t) <= e.place)
      BY <3>1, <3>2 DEF JumpedTo, Present
    <3>4. Stale(t)
      BY <1>3, <1>7, <2>4, <3>3 DEF Stale
    <3>5. RowPlace(t) > checkpoint.place
      BY <2>1, <3>2, <3>4 DEF Behind
    <3> QED BY <1>5, <1>6, <3>3, <3>5
  <2> QED BY <1>3, <1>8, <2>2, <2>3, <2>4 DEF Behind
<1> QED BY <1>9, <1>10, <1>11, <1>12, <1>13 DEF PullInv

LEMMA PullStep ==
  ASSUME ServerInv, StreamInv, PullInv, [Next]_vars
  PROVE  PullInv'
<1>1. ASSUME UNCHANGED <<row, client, skipped>> PROVE PullInv'
  BY <1>1, PullKept
<1>2. ASSUME NEW w \in Writers, NEW t \in Todos, NEW time \in {clock, clock + 1},
             Begin(w, t, time)
      PROVE  PullInv'
  BY <1>1, <1>2 DEF Begin
<1>3. ASSUME NEW w \in Writers, NEW open \in BOOLEAN, Commit(w, open)
      PROVE  PullInv'
  BY <1>3, CommitPull
<1>4. ASSUME NEW k \in Workers, NEW j \in jobs, Read(k, j) PROVE PullInv'
  BY <1>1, <1>4 DEF Read
<1>5. ASSUME NEW k \in Workers, Publish(k) \/ Mark(k) \/ Repeat(k) PROVE PullInv'
  BY <1>1, <1>5 DEF Publish, Mark, Repeat
<1>6. CASE Connect \/ Subscribe \/ Deliver
  <2>1. UNCHANGED <<row, client, skipped>>
    BY <1>6 DEF Connect, Subscribe, Deliver, server
  <2> QED BY <1>1, <2>1
<1>7. ASSUME NEW reload \in BOOLEAN, Disconnect(reload) PROVE PullInv'
  BY <1>7, DisconnectPull
<1>8. CASE StartPull \/ NextPull
  BY <1>8, AskPull DEF StartPull, NextPull
<1>9. CASE AnswerPull \/ ApplyPage \/ ApplyEvent
  BY <1>9, AnswerPullPull, ApplyPagePull, ApplyEventPull
<1>10. CASE UNCHANGED vars
  <2>1. UNCHANGED <<row, client, skipped>>
    BY <1>10 DEF vars, client
  <2> QED BY <1>1, <2>1
<1> QED BY <1>2, <1>3, <1>4, <1>5, <1>6, <1>7, <1>8, <1>9, <1>10 DEF Next

IInv == ServerInv /\ StreamInv /\ PullInv

\* At first every to-do is there as it was before the client, or not at all.
LEMMA InitRows == Init => row \in [Todos -> {Absent, Existing}]
<1> SUFFICES ASSUME Init PROVE row \in [Todos -> {Absent, Existing}]
  OBVIOUS
<1>1. PICK present \in Initially :
         row = [t \in Todos |-> IF t \in present THEN Existing ELSE Absent]
  BY DEF Init
<1> QED BY <1>1

LEMMA InitInv == Init => IInv
<1> SUFFICES ASSUME Init PROVE IInv
  OBVIOUS
<1>1. \A t \in Todos : row[t] = Absent \/ row[t] = Existing
  BY InitRows
<1>2. \A t \in Todos : /\ row[t].version \in {0, 1} /\ row[t].time \in Nat
                       /\ row[t].open \in BOOLEAN
  <2> SUFFICES ASSUME NEW t \in Todos
               PROVE  /\ row[t].version \in {0, 1} /\ row[t].time \in Nat
                      /\ row[t].open \in BOOLEAN
    OBVIOUS
  <2>1. CASE row[t] = Absent
    BY <2>1 DEF Absent
  <2>2. CASE row[t] = Existing
    BY <2>2 DEF Existing
  <2> QED BY <1>1, <2>1, <2>2
<1>3. ServerInv
  <2>1. row \in [Todos -> [time : Nat, version : Versions, open : BOOLEAN]]
    <3> DEFINE Rows == [time : Nat, version : Versions, open : BOOLEAN]
    <3>1. Absent \in Rows
      BY VersionTypes DEF Absent
    <3>2. Existing \in Rows
      BY VersionTypes DEF Existing
    <3>3. row \in [Todos -> {Absent, Existing}]
      BY InitRows
    <3> HIDE DEF Rows
    <3>4. row \in [Todos -> Rows]
      BY <3>1, <3>2, <3>3
    <3> QED BY <3>4 DEF Rows
  <2>2. ServerTypes
    BY <2>1 DEF Init, ServerTypes, Idle
  <2>3. Counts
    <3>1. Cardinality(Finished) \in Nat
      BY FinishedIs
    <3> QED BY <1>2, <3>1 DEF Counts
  <2>4. Works
    BY DEF Init, Works
  <2> QED BY <2>2, <2>3, <2>4 DEF ServerInv
<1>4. StreamInv
  <2>1. hub \in Seq(Event) /\ Len(hub) <= Capacity /\ Happened(hub)
    BY Constants, EmptySeq DEF Init, Happened
  <2>2. tasks \in Seq(Task) /\ Happened(tasks)
    BY DEF Init, Happened, Past, Task
  <2>3. faults \in 0 .. MaxFaults
    BY Constants DEF Init
  <2>4. /\ lost \subseteq Todos
        /\ subscribed = FALSE /\ connected = FALSE
    BY DEF Init, Present
  <2> QED BY <2>1, <2>2, <2>3, <2>4 DEF StreamInv
<1>5. PullInv
  <2>1. copy \in [Todos -> Versions] /\ \A t \in Todos : copy[t] = 0
    BY VersionTypes DEF Init
  <2>2. ClientTypes
    BY <2>1, NoPullIs DEF Init, ClientTypes
  <2>3. /\ pull = NoPull /\ skipped = {}
        /\ checkpoint.mode = "live" /\ checkpoint.head = Null /\ checkpoint.place = 0
    BY DEF Init, Beginning
  <2>4. NotAhead
    BY <1>2, <2>1, <2>3, NoPullIs DEF NotAhead
  <2>5. Pulls
    BY <2>1, <2>3, NoPullIs DEF Pulls
  <2>6. \A t \in Todos : RowPlace(t) > 0
    <3> SUFFICES ASSUME NEW t \in Todos PROVE RowPlace(t) > 0
      OBVIOUS
    <3>1. t \in Nat /\ t > 0 /\ NTodos \in Nat
      BY Constants DEF Todos
    <3>2. row[t].time * (NTodos + 1) \in Nat
      BY <1>2, <3>1
    <3> QED BY <3>1, <3>2 DEF RowPlace, Place
  <2>7. \A t \in Todos : Seen(t) /\ Behind(t)
    BY <2>1, <2>3, <2>6, NoPullIs DEF Seen, Behind
  <2> QED BY <2>2, <2>4, <2>5, <2>7 DEF PullInv
<1> QED BY <1>3, <1>4, <1>5 DEF IInv

LEMMA InvStep == IInv /\ [Next]_vars => IInv'
BY StreamStep, PullStep DEF IInv

LEMMA IInvType == IInv => TypeOK
<1> SUFFICES ASSUME IInv PROVE TypeOK
  OBVIOUS
<1>1. ServerTypes /\ StreamInv /\ ClientTypes /\ Pulls
  BY DEF IInv, ServerInv, PullInv
<1>2. checkpoint.mode = "live" /\ checkpoint.place > 0 => checkpoint.head # Null
  BY <1>1 DEF Pulls
<1> QED BY <1>1, <1>2 DEF ServerTypes, StreamInv, ClientTypes, TypeOK, Task

\* The state stays well typed: a row's version counts its changes, the hub never
\* holds more than its capacity, a handler's job is still in the queue, and a
\* backfill that has brought a page has a head.
THEOREM TypeCorrect == Spec => []TypeOK
BY InitInv, InvStep, IInvType, PTL DEF Spec


-----------------------------------------------------------------------------
\* With one handler at a time the events of a to-do come in the order of its
\* changes.

OneWorker == \A k, l \in Workers : k = l

\* The stream holds no version of e's to-do that is newer than e.
Before(s, e) == \A i \in DOMAIN s : s[i].todo = e.todo => s[i].version <= e.version

Rising(s) ==
    \A i, j \in DOMAIN s :
        i < j /\ s[i].todo = s[j].todo => s[i].version <= s[j].version

Ordered ==
    /\ Rising(hub) /\ Rising(tasks)
    /\ \A j \in DOMAIN hub : Before(tasks, hub[j])
    /\ \A k \in Workers :
          worker[k].phase = "publish" =>
              Before(tasks, worker[k].event) /\ Before(hub, worker[k].event)

LEMMA NoneBefore == \A e : Before(<<>>, e) /\ Rising(<<>>)
BY DEF Before, Rising

LEMMA AppendBefore ==
  ASSUME NEW s \in Seq(Task), NEW e \in Task
  PROVE  /\ \A x : Before(s, x) /\ (e.todo = x.todo => e.version <= x.version)
                      => Before(Append(s, e), x)
         /\ Rising(s) /\ Before(s, e) => Rising(Append(s, e))
<1>1. ASSUME NEW x, Before(s, x), e.todo = x.todo => e.version <= x.version
      PROVE  Before(Append(s, e), x)
  BY <1>1, AppendIs DEF Before
<1>2. ASSUME Rising(s), Before(s, e) PROVE Rising(Append(s, e))
  <2> SUFFICES ASSUME NEW i \in DOMAIN Append(s, e), NEW j \in DOMAIN Append(s, e),
                      i < j, Append(s, e)[i].todo = Append(s, e)[j].todo
               PROVE  Append(s, e)[i].version <= Append(s, e)[j].version
    BY DEF Rising
  <2>1. /\ Len(s) \in Nat /\ Append(s, e)[Len(s) + 1] = e
        /\ \A n \in DOMAIN s : Append(s, e)[n] = s[n] /\ n \in Nat /\ n <= Len(s)
        /\ i \in DOMAIN s \/ i = Len(s) + 1
        /\ j \in DOMAIN s \/ j = Len(s) + 1
    BY AppendIs
  <2>2. i \in DOMAIN s
    BY <2>1
  <2>3. CASE j \in DOMAIN s
    BY <1>2, <2>1, <2>2, <2>3 DEF Rising
  <2>4. CASE j = Len(s) + 1
    BY <1>2, <2>1, <2>2, <2>4 DEF Before
  <2> QED BY <2>1, <2>3, <2>4
<1> QED BY <1>1, <1>2

LEMMA TailBefore ==
  ASSUME NEW s \in Seq(Task), s # <<>>
  PROVE  /\ \A x : Before(s, x) => Before(Tail(s), x)
         /\ Rising(s) => Rising(Tail(s))
         /\ Rising(s) => \A j \in DOMAIN Tail(s) :
                             s[1].todo = Tail(s)[j].todo =>
                                 s[1].version <= Tail(s)[j].version
<1>1. ASSUME NEW x, Before(s, x) PROVE Before(Tail(s), x)
  BY <1>1, TailIs DEF Before
<1>2. ASSUME Rising(s) PROVE Rising(Tail(s))
  <2> SUFFICES ASSUME NEW i \in DOMAIN Tail(s), NEW j \in DOMAIN Tail(s),
                      i < j, Tail(s)[i].todo = Tail(s)[j].todo
               PROVE  Tail(s)[i].version <= Tail(s)[j].version
    BY DEF Rising
  <2>1. /\ i + 1 \in DOMAIN s /\ Tail(s)[i] = s[i + 1] /\ i \in Nat
        /\ j + 1 \in DOMAIN s /\ Tail(s)[j] = s[j + 1] /\ j \in Nat
    BY TailIs
  <2>2. i + 1 < j + 1
    BY <2>1
  <2> QED BY <1>2, <2>1, <2>2 DEF Rising
<1>3. ASSUME Rising(s), NEW j \in DOMAIN Tail(s), s[1].todo = Tail(s)[j].todo
      PROVE  s[1].version <= Tail(s)[j].version
  <2>1. /\ 1 \in DOMAIN s /\ j + 1 \in DOMAIN s /\ Tail(s)[j] = s[j + 1]
        /\ j \in DOMAIN Tail(s) /\ DOMAIN Tail(s) \subseteq Nat
        /\ Len(Tail(s)) \in Nat
    BY TailIs
  <2>2. j \in 1 .. Len(Tail(s))
    BY <2>1, TailIs
  <2>3. 1 < j + 1
    BY <2>1, <2>2
  <2> QED BY <1>3, <2>1, <2>3 DEF Rising
<1> QED BY <1>1, <1>2, <1>3

LEMMA OrderKept ==
  ASSUME Ordered, UNCHANGED <<hub, tasks>>,
         \A k \in Workers : worker'[k].phase = "publish" => worker'[k] = worker[k]
  PROVE  Ordered'
<1>1. \A k \in Workers :
         worker'[k].phase = "publish" =>
             /\ worker[k].phase = "publish"
             /\ worker'[k].event = worker[k].event
  OBVIOUS
<1> QED BY <1>1 DEF Ordered, Before, Rising

\* The event a handler reads is the newest of its to-do.
LEMMA ReadOrder ==
  ASSUME ServerInv, StreamInv, Ordered, NEW k \in Workers, NEW j \in jobs, Read(k, j)
  PROVE  Ordered'
<1>1. /\ UNCHANGED <<row, hub, tasks>>
      /\ worker' = [worker EXCEPT ![k] =
                       [phase |-> "publish", job |-> j,
                        event |-> [todo |-> j.todo, version |-> row[j.todo].version,
                                   place |-> RowPlace(j.todo)]]]
  BY DEF Read, stream
<1>2. worker \in [Workers -> [phase : {"idle", "publish", "mark"},
                               job : jobs \cup {Null}, event : Event \cup {Null}]]
  BY DEF ServerInv, ServerTypes
<1>3. /\ worker'[k].event.todo = j.todo /\ worker'[k].event.version = row[j.todo].version
      /\ \A l \in Workers : l # k => worker'[l] = worker[l]
  BY <1>1, <1>2
<1>4. j.todo \in Todos
  BY DEF ServerInv, ServerTypes
<1>5. ASSUME NEW s \in Seq(Task), Happened(s) PROVE Before(s, worker'[k].event)
  <2> SUFFICES ASSUME NEW i \in DOMAIN s, s[i].todo = j.todo
               PROVE  s[i].version <= row[j.todo].version
    BY <1>3 DEF Before
  <2>1. s[i] # Resync
    BY <1>4, Constants DEF Resync
  <2> QED BY <1>5, <2>1 DEF Happened, Past
<1>6. Before(hub, worker'[k].event) /\ Before(tasks, worker'[k].event)
  BY <1>5, HubIsStream DEF StreamInv
<1> QED BY <1>1, <1>3, <1>6 DEF Ordered, Before, Rising

LEMMA PublishOrder ==
  ASSUME OneWorker, ServerInv, StreamInv, Ordered, NEW k \in Workers, Publish(k)
  PROVE  Ordered'
<1>1. PICK e : e = worker[k].event
  OBVIOUS
<1>2. e \in Task /\ worker[k].phase = "publish" /\ tasks' = tasks
  BY <1>1, PublishServer DEF Task, Publish
<1>3. \A l \in Workers : worker'[l].phase # "publish"
  <2>1. worker' = [worker EXCEPT ![k].phase = "mark"]
    BY DEF Publish
  <2>2. worker'[k].phase = "mark"
    BY <2>1 DEF ServerInv, ServerTypes
  <2> QED BY <2>2 DEF OneWorker
<1>4. /\ hub \in Seq(Task) /\ tasks \in Seq(Task) /\ hub \in Seq(Event)
      /\ Rising(hub) /\ Rising(tasks)
      /\ \A j \in DOMAIN hub : Before(tasks, hub[j])
      /\ Before(tasks, e) /\ Before(hub, e)
  BY <1>1, <1>2, HubIsStream DEF StreamInv, Ordered
<1>5. ASSUME NEW s \in Seq(Task), Rising(s), Before(s, e),
             \A j \in DOMAIN s : Before(tasks, s[j])
      PROVE  /\ Rising(Append(s, e))
             /\ \A j \in DOMAIN Append(s, e) : Before(tasks, Append(s, e)[j])
  BY <1>2, <1>4, <1>5, AppendBefore, AppendIs
<1>6. \/ hub' = hub
      \/ hub' = Append(hub, e)
      \/ hub # <<>> /\ hub' = Append(Tail(hub), e)
  <2>1. \/ hub' = hub
        \/ hub' = Append(hub, e)
        \/ ~(Len(hub) < Capacity) /\ hub' = Append(Tail(hub), e)
    BY <1>1 DEF Publish
  <2>2. ASSUME hub = <<>> PROVE Len(hub) < Capacity
    BY <2>2, EmptySeq, Constants
  <2> QED BY <2>1, <2>2
<1>7. Rising(hub') /\ \A j \in DOMAIN hub' : Before(tasks, hub'[j])
  <2>1. CASE hub' = hub
    BY <1>4, <2>1
  <2>2. CASE hub' = Append(hub, e)
    BY <1>4, <1>5, <2>2
  <2>3. CASE hub # <<>> /\ hub' = Append(Tail(hub), e)
    <3>1. Tail(hub) \in Seq(Task) /\ Rising(Tail(hub)) /\ Before(Tail(hub), e)
      BY <1>4, <2>3, TailBefore, TailIs
    <3>2. \A j \in DOMAIN Tail(hub) : Before(tasks, Tail(hub)[j])
      BY <1>4, <2>3, TailIs
    <3> QED BY <1>5, <2>3, <3>1, <3>2
  <2> QED BY <1>6, <2>1, <2>2, <2>3
<1> QED BY <1>2, <1>3, <1>4, <1>7 DEF Ordered, Rising, Before

LEMMA DeliverOrder ==
  ASSUME ServerInv, StreamInv, Ordered, Deliver
  PROVE  Ordered'
<1>1. /\ hub # <<>> /\ hub' = Tail(hub) /\ tasks' = Append(tasks, hub[1])
      /\ UNCHANGED worker
  BY DEF Deliver, server
<1>2. /\ hub \in Seq(Task) /\ tasks \in Seq(Task) /\ hub[1] \in Task
      /\ 1 \in DOMAIN hub
      /\ Rising(hub) /\ Rising(tasks)
      /\ \A j \in DOMAIN hub : Before(tasks, hub[j])
  BY <1>1, HubIsStream, TailIs DEF StreamInv, Ordered
<1>3. Rising(Tail(hub)) /\ Rising(Append(tasks, hub[1]))
  BY <1>1, <1>2, TailBefore, AppendBefore
<1>4. \A j \in DOMAIN Tail(hub) : Before(Append(tasks, hub[1]), Tail(hub)[j])
  <2> SUFFICES ASSUME NEW j \in DOMAIN Tail(hub)
               PROVE  Before(Append(tasks, hub[1]), Tail(hub)[j])
    OBVIOUS
  <2>1. Before(tasks, Tail(hub)[j])
    BY <1>1, <1>2, TailIs
  <2>2. hub[1].todo = Tail(hub)[j].todo => hub[1].version <= Tail(hub)[j].version
    BY <1>1, <1>2, TailBefore
  <2> QED BY <1>2, <2>1, <2>2, AppendBefore
<1>5. ASSUME NEW k \in Workers, worker[k].phase = "publish"
      PROVE  /\ Before(Append(tasks, hub[1]), worker[k].event)
             /\ Before(Tail(hub), worker[k].event)
  <2>1. Before(tasks, worker[k].event) /\ Before(hub, worker[k].event)
    BY <1>5 DEF Ordered
  <2>2. hub[1].todo = worker[k].event.todo => hub[1].version <= worker[k].event.version
    BY <1>2, <2>1 DEF Before
  <2> QED BY <1>1, <1>2, <2>1, <2>2, AppendBefore, TailBefore
<1> QED BY <1>1, <1>3, <1>4, <1>5 DEF Ordered, Rising, Before

\* A resync is no event of a to-do.
LEMMA ResyncBefore ==
  ASSUME ServerInv, StreamInv
  PROVE  /\ \A j \in DOMAIN hub : Resync.todo # hub[j].todo
         /\ \A k \in Workers : worker[k].phase = "publish" =>
                                   Resync.todo # worker[k].event.todo
         /\ Before(tasks, Resync)
<1>1. Resync \in Task /\ Resync.todo = 0 /\ Resync.version = 0 /\ 0 \notin Todos
  BY Constants DEF Resync, Task
<1>2. \A e \in Event : e.todo # Resync.todo
  BY <1>1 DEF Event
<1>3. \A j \in DOMAIN hub : hub[j] \in Event
  BY ElementOfSeq DEF StreamInv
<1>4. \A k \in Workers : worker[k].phase = "publish" => worker[k].event \in Event
  BY DEF ServerInv, Works, AtWork, Idle
<1>5. Before(tasks, Resync)
  <2> SUFFICES ASSUME NEW i \in DOMAIN tasks, tasks[i].todo = Resync.todo
               PROVE  tasks[i].version <= Resync.version
    BY DEF Before
  <2>1. tasks[i] \in Task
    BY ElementOfSeq DEF StreamInv
  <2>2. tasks[i] = Resync
    BY <1>2, <2>1 DEF Task
  <2> QED BY <1>1, <2>2
<1> QED BY <1>2, <1>3, <1>4, <1>5

LEMMA ConnectOrder ==
  ASSUME ServerInv, StreamInv, Ordered, Connect
  PROVE  Ordered'
<1>1. tasks' = Append(tasks, Resync) /\ UNCHANGED <<hub, worker>>
  BY DEF Connect, server
<1>2. tasks \in Seq(Task) /\ Resync \in Task
  BY DEF StreamInv, Task
<1>3. Rising(Append(tasks, Resync))
  BY <1>2, ResyncBefore, AppendBefore DEF Ordered
<1>4. \A j \in DOMAIN hub : Before(Append(tasks, Resync), hub[j])
  BY <1>2, ResyncBefore, AppendBefore DEF Ordered
<1>5. \A k \in Workers : worker[k].phase = "publish" =>
                             Before(Append(tasks, Resync), worker[k].event)
  BY <1>2, ResyncBefore, AppendBefore DEF Ordered
<1> QED BY <1>1, <1>3, <1>4, <1>5 DEF Ordered, Rising, Before

LEMMA DisconnectOrder ==
  ASSUME ServerInv, StreamInv, Ordered, NEW reload \in BOOLEAN, Disconnect(reload)
  PROVE  Ordered'
<1>1. /\ hub' = <<>> /\ UNCHANGED worker
      /\ tasks' = tasks \/ tasks' = <<Resync>>
  BY DEF Disconnect, server
<1>2. Rising(<<Resync>>)
  BY DEF Rising
<1>3. \A k \in Workers : worker[k].phase = "publish" =>
                             Before(<<Resync>>, worker[k].event)
  BY ResyncBefore DEF Before
<1>4. CASE tasks' = tasks
  BY <1>1, <1>4 DEF Ordered, Rising, Before
<1>5. CASE tasks' = <<Resync>>
  BY <1>1, <1>2, <1>3, <1>5 DEF Ordered, Rising, Before
<1> QED BY <1>1, <1>4, <1>5

LEMMA TasksOrder ==
  ASSUME StreamInv, Ordered, UNCHANGED <<hub, worker>>,
         tasks' = <<>> \/ (tasks # <<>> /\ tasks' = Tail(tasks))
  PROVE  Ordered'
<1>1. CASE tasks' = <<>>
  BY <1>1 DEF Ordered, Rising, Before
<1>2. CASE tasks # <<>> /\ tasks' = Tail(tasks)
  <2>1. tasks \in Seq(Task)
    BY DEF StreamInv
  <2>2. Rising(Tail(tasks)) /\ \A x : Before(tasks, x) => Before(Tail(tasks), x)
    BY <1>2, <2>1, TailBefore DEF Ordered
  <2>3. \A j \in DOMAIN hub : Before(Tail(tasks), hub[j])
    BY <2>2 DEF Ordered
  <2>4. \A k \in Workers : worker[k].phase = "publish" =>
                               Before(Tail(tasks), worker[k].event)
    BY <2>2 DEF Ordered
  <2> QED BY <1>2, <2>2, <2>3, <2>4 DEF Ordered, Rising, Before
<1> QED BY <1>1, <1>2

LEMMA OrderStep ==
  ASSUME OneWorker, IInv, Ordered, [Next]_vars
  PROVE  Ordered'
<1> USE DEF IInv
<1>1. ASSUME UNCHANGED <<hub, tasks, worker>> PROVE Ordered'
  BY <1>1, OrderKept
<1>2. ASSUME NEW w \in Writers, NEW t \in Todos, NEW time \in {clock, clock + 1},
             Begin(w, t, time)
      PROVE  Ordered'
  BY <1>1, <1>2 DEF Begin, stream
<1>3. ASSUME NEW w \in Writers, NEW open \in BOOLEAN, Commit(w, open) PROVE Ordered'
  BY <1>1, <1>3 DEF Commit, stream
<1>4. ASSUME NEW k \in Workers, NEW j \in jobs, Read(k, j) PROVE Ordered'
  BY <1>4, ReadOrder
<1>5. ASSUME NEW k \in Workers, Publish(k) PROVE Ordered'
  BY <1>5, PublishOrder
<1>6. ASSUME NEW k \in Workers, Mark(k) \/ Repeat(k) PROVE Ordered'
  <2>1. UNCHANGED <<hub, tasks>> /\ worker' = [worker EXCEPT ![k] = Idle]
    BY <1>6 DEF Mark, Repeat, stream
  <2>2. \A l \in Workers : worker'[l] = Idle \/ worker'[l] = worker[l]
    BY <2>1 DEF ServerInv, ServerTypes
  <2> QED BY <2>1, <2>2, OrderKept DEF Idle
<1>7. CASE Connect
  BY <1>7, ConnectOrder
<1>8. CASE Subscribe
  BY <1>1, <1>8 DEF Subscribe, server
<1>9. CASE Deliver
  BY <1>9, DeliverOrder
<1>10. ASSUME NEW reload \in BOOLEAN, Disconnect(reload) PROVE Ordered'
  BY <1>10, DisconnectOrder
<1>11. CASE StartPull \/ NextPull
  <2>1. UNCHANGED <<hub, worker>> /\ tasks' = <<>>
    BY <1>11 DEF StartPull, NextPull, Ask, server, stream
  <2> QED BY <2>1, TasksOrder
<1>12. CASE AnswerPull \/ ApplyPage
  BY <1>1, <1>12 DEF AnswerPull, ApplyPage, server, stream
<1>13. CASE ApplyEvent
  <2>1. UNCHANGED <<hub, worker>> /\ tasks # <<>> /\ tasks' = Tail(tasks)
    BY <1>13 DEF ApplyEvent, server, stream
  <2> QED BY <2>1, TasksOrder
<1>14. CASE UNCHANGED vars
  BY <1>1, <1>14 DEF vars
<1> QED BY <1>2, <1>3, <1>4, <1>5, <1>6, <1>7, <1>8, <1>9, <1>10, <1>11, <1>12,
           <1>13, <1>14 DEF Next

-----------------------------------------------------------------------------
\* A change that the client has not been shown is still on its way, unless its
\* event was lost.

Holds(s, t, v) == \E i \in DOMAIN s : s[i].todo = t /\ s[i].version = v

Only(s, t, v) == \A i \in DOMAIN s : s[i].todo = t => s[i].version = v

\* A job of the change that has not been published yet.
Waits(t, v) ==
    \E j \in jobs : /\ j.todo = t /\ j.version = v
                    /\ \A k \in Workers :
                          ~(worker[k].phase = "mark" /\ worker[k].job = j)

\* The client has the version, and nothing that comes will take it back.
Shown(t, v) ==
    /\ copy[t] = v
    /\ Only(hub, t, v) /\ Only(tasks, t, v)
    /\ \A k \in Workers : worker[k].phase = "publish" /\ worker[k].event.todo = t
                              => worker[k].event.version = v

ToldOf(t, v) == Waits(t, v) \/ Holds(hub, t, v) \/ Holds(tasks, t, v) \/ Shown(t, v)

Told == \A t \in Todos \ lost : ToldOf(t, row[t].version)

LEMMA LatestHolds ==
  \A s : \A t \in Todos : t \in LatestIn(s) <=> Holds(s, t, row[t].version)
BY DEF LatestIn, Holds

LEMMA AppendHolds ==
  ASSUME NEW s \in Seq(Task), NEW e \in Task, NEW t, NEW v
  PROVE  /\ Holds(s, t, v) => Holds(Append(s, e), t, v)
         /\ e.todo = t /\ e.version = v => Holds(Append(s, e), t, v)
         /\ Only(s, t, v) /\ (e.todo = t => e.version = v) => Only(Append(s, e), t, v)
<1>1. ASSUME Holds(s, t, v) PROVE Holds(Append(s, e), t, v)
  BY <1>1, AppendIs DEF Holds
<1>2. ASSUME e.todo = t, e.version = v PROVE Holds(Append(s, e), t, v)
  BY <1>2, AppendIs DEF Holds
<1>3. ASSUME Only(s, t, v), e.todo = t => e.version = v
      PROVE  Only(Append(s, e), t, v)
  BY <1>3, AppendIs DEF Only
<1> QED BY <1>1, <1>2, <1>3

LEMMA TailHolds ==
  ASSUME NEW s \in Seq(Task), s # <<>>, NEW t, NEW v
  PROVE  /\ Holds(s, t, v) => \/ Holds(Tail(s), t, v)
                              \/ s[1].todo = t /\ s[1].version = v
         /\ Only(s, t, v) => Only(Tail(s), t, v) /\ (s[1].todo = t => s[1].version = v)
<1>1. ASSUME Holds(s, t, v)
      PROVE  Holds(Tail(s), t, v) \/ (s[1].todo = t /\ s[1].version = v)
  <2>1. PICK i \in DOMAIN s : s[i].todo = t /\ s[i].version = v
    BY <1>1 DEF Holds
  <2>2. i = 1 \/ (i - 1 \in DOMAIN Tail(s) /\ Tail(s)[i - 1] = s[i])
    BY TailIs
  <2> QED BY <2>1, <2>2 DEF Holds
<1>2. ASSUME Only(s, t, v)
      PROVE  Only(Tail(s), t, v) /\ (s[1].todo = t => s[1].version = v)
  BY <1>2, TailIs DEF Only
<1> QED BY <1>1, <1>2

\* A step that moves no event, takes no job away and marks none.
LEMMA ToldKept ==
  ASSUME Told, UNCHANGED <<row, hub, tasks, copy>>, jobs \subseteq jobs',
         lost \subseteq lost',
         \A k \in Workers : worker'[k].phase \in {"publish", "mark"} =>
                                worker'[k] = worker[k]
  PROVE  Told'
<1> SUFFICES ASSUME NEW t \in Todos \ lost'
             PROVE  ToldOf(t, row[t].version)'
  BY DEF Told
<1> DEFINE v == row[t].version
<1>1. ToldOf(t, v) /\ v' = v
  BY DEF Told
<1>2. ASSUME Waits(t, v) PROVE Waits(t, v)'
  BY <1>1, <1>2 DEF Waits
<1>3. ASSUME Holds(hub, t, v) PROVE Holds(hub, t, v)'
  BY <1>1, <1>3 DEF Holds
<1>4. ASSUME Holds(tasks, t, v) PROVE Holds(tasks, t, v)'
  BY <1>1, <1>4 DEF Holds
<1>5. ASSUME Shown(t, v) PROVE Shown(t, v)'
  BY <1>1, <1>5 DEF Shown, Only
<1> QED BY <1>1, <1>2, <1>3, <1>4, <1>5 DEF ToldOf

\* A change enqueues a job that no handler has.
LEMMA CommitTold ==
  ASSUME ServerInv, Told, NEW w \in Writers, NEW open \in BOOLEAN, Commit(w, open)
  PROVE  Told'
<1>1. PICK u \in Todos, time \in Nat :
         /\ row[u].version \in Nat
         /\ row'[u] = [time |-> time, version |-> row[u].version + 1, open |-> open]
         /\ \A t \in Todos : t # u => row'[t] = row[t]
         /\ jobs' = jobs \cup {[todo |-> u, version |-> row'[u].version]}
         /\ lost' = lost \ {u}
  <2>1. PICK u \in Todos, time \in Nat :
           /\ u = writer[w].todo
           /\ row[u].version \in Nat
           /\ row'[u] = [time |-> time, version |-> row[u].version + 1, open |-> open]
           /\ \A t \in Todos : t # u => row'[t] = row[t]
    BY CommitIs
  <2>2. /\ jobs' = jobs \cup {[todo |-> u, version |-> row[u].version + 1]}
        /\ lost' = lost \ {u}
    BY <2>1 DEF Commit
  <2> QED BY <2>1, <2>2
<1>2. row'[u].version = row[u].version + 1
  BY <1>1
<1>3. UNCHANGED <<worker, hub, tasks, copy>>
  BY DEF Commit, stream, client
<1> SUFFICES ASSUME NEW t \in Todos \ lost'
             PROVE  ToldOf(t, row[t].version)'
  BY DEF Told
<1>4. CASE t = u
  <2> DEFINE j == [todo |-> u, version |-> row'[u].version]
  <2>1. j \in jobs' /\ j.todo = t /\ j.version = row'[t].version
    BY <1>1, <1>4
  <2>2. ASSUME NEW k \in Workers, worker'[k].phase = "mark" PROVE worker'[k].job # j
    <3>1. worker[k].phase = "mark" /\ worker[k] # Idle
      BY <1>3, <2>2 DEF Idle
    <3>2. worker[k].job \in jobs
      BY <3>1 DEF ServerInv, Works, AtWork
    <3>3. worker[k].job.version <= row[worker[k].job.todo].version
      BY <3>2 DEF ServerInv, Works
    <3>4. ASSUME worker[k].job = j PROVE FALSE
      BY <1>1, <1>2, <3>3, <3>4
    <3> QED BY <1>3, <3>4
  <2>3. Waits(t, row[t].version)'
    BY <2>1, <2>2 DEF Waits
  <2> QED BY <2>3 DEF ToldOf
<1>5. CASE t # u
  <2> DEFINE v == row[t].version
  <2>1. ToldOf(t, v) /\ v' = v
    BY <1>1, <1>5 DEF Told
  <2>2. ASSUME Waits(t, v) PROVE Waits(t, v)'
    BY <1>1, <1>3, <2>1, <2>2 DEF Waits
  <2>3. ASSUME Holds(hub, t, v) PROVE Holds(hub, t, v)'
    BY <1>3, <2>1, <2>3 DEF Holds
  <2>4. ASSUME Holds(tasks, t, v) PROVE Holds(tasks, t, v)'
    BY <1>3, <2>1, <2>4 DEF Holds
  <2>5. ASSUME Shown(t, v) PROVE Shown(t, v)'
    BY <1>3, <2>1, <2>5 DEF Shown, Only
  <2> QED BY <2>1, <2>2, <2>3, <2>4, <2>5 DEF ToldOf
<1> QED BY <1>4, <1>5

LEMMA ReadTold ==
  ASSUME ServerInv, Told, NEW k \in Workers, NEW j \in jobs, Read(k, j)
  PROVE  Told'
<1>1. /\ UNCHANGED <<row, jobs, hub, tasks, copy, lost>>
      /\ worker' = [worker EXCEPT ![k] =
                       [phase |-> "publish", job |-> j,
                        event |-> [todo |-> j.todo, version |-> row[j.todo].version,
                                   place |-> RowPlace(j.todo)]]]
  BY DEF Read, stream, client
<1>2. worker \in [Workers -> [phase : {"idle", "publish", "mark"},
                               job : jobs \cup {Null}, event : Event \cup {Null}]]
  BY DEF ServerInv, ServerTypes
<1>3. /\ worker'[k].phase = "publish"
      /\ worker'[k].event.todo = j.todo /\ worker'[k].event.version = row[j.todo].version
      /\ \A l \in Workers : l # k => worker'[l] = worker[l]
  BY <1>1, <1>2
<1> SUFFICES ASSUME NEW t \in Todos \ lost'
             PROVE  ToldOf(t, row[t].version)'
  BY DEF Told
<1> DEFINE v == row[t].version
<1>4. ToldOf(t, v) /\ v' = v
  BY <1>1 DEF Told
<1>5. ASSUME Waits(t, v) PROVE Waits(t, v)'
  BY <1>1, <1>3, <1>4, <1>5 DEF Waits
<1>6. ASSUME Holds(hub, t, v) PROVE Holds(hub, t, v)'
  BY <1>1, <1>4, <1>6 DEF Holds
<1>7. ASSUME Holds(tasks, t, v) PROVE Holds(tasks, t, v)'
  BY <1>1, <1>4, <1>7 DEF Holds
<1>8. ASSUME Shown(t, v) PROVE Shown(t, v)'
  BY <1>1, <1>3, <1>4, <1>8 DEF Shown, Only
<1> QED BY <1>4, <1>5, <1>6, <1>7, <1>8 DEF ToldOf

\* An event of the latest version goes to the hub, or is lost; what the hub drops
\* for it is lost too.
LEMMA PublishTold ==
  ASSUME ServerInv, StreamInv, Told, NEW k \in Workers, Publish(k)
  PROVE  Told'
<1>1. PICK e : e = worker[k].event
  OBVIOUS
<1>2. /\ worker[k].phase = "publish" /\ worker' = [worker EXCEPT ![k].phase = "mark"]
      /\ UNCHANGED <<row, jobs, tasks, copy>> /\ lost \subseteq lost'
  BY DEF Publish, client
<1>3. /\ e \in Task /\ e.todo = worker[k].job.todo /\ e.todo \in Todos
      /\ worker[k].job.version <= e.version /\ e.version <= row[e.todo].version
      /\ worker[k].job \in jobs
  BY <1>1, <1>2 DEF ServerInv, Works, AtWork, Idle, Task, Event
<1>4. /\ worker'[k].phase = "mark" /\ worker'[k].job = worker[k].job
      /\ \A l \in Workers : l # k => worker'[l] = worker[l]
  BY <1>2 DEF ServerInv, ServerTypes
<1>5. hub \in Seq(Task)
  BY HubIsStream DEF StreamInv
<1>6. \/ hub' = hub /\ lost' = lost \cup LatestIn(<<e>>)
      \/ hub' = Append(hub, e)
      \/ hub # <<>> /\ hub' = Append(Tail(hub), e) /\ lost' = lost \cup LatestIn(<<hub[1]>>)
  <2>1. \/ hub' = hub /\ lost' = lost \cup LatestIn(<<e>>)
        \/ hub' = Append(hub, e)
        \/ /\ ~(Len(hub) < Capacity)
           /\ hub' = Append(Tail(hub), e) /\ lost' = lost \cup LatestIn(<<hub[1]>>)
    BY <1>1 DEF Publish
  <2>2. ASSUME hub = <<>> PROVE Len(hub) < Capacity
    BY <2>2, EmptySeq, Constants
  <2> QED BY <2>1, <2>2
<1>7. \A x : \A u \in Todos : x.todo = u /\ x.version = row[u].version
                                  => u \in LatestIn(<<x>>)
  BY DEF LatestIn
<1> SUFFICES ASSUME NEW t \in Todos \ lost'
             PROVE  ToldOf(t, row[t].version)'
  BY DEF Told
<1> DEFINE v == row[t].version
<1>8. ToldOf(t, v) /\ v' = v
  BY <1>2 DEF Told
<1>9. ASSUME Holds(hub, t, v) PROVE Holds(hub', t, v)
  <2>1. CASE hub' = hub
    BY <1>9, <2>1
  <2>2. CASE hub' = Append(hub, e)
    BY <1>3, <1>5, <1>9, <2>2, AppendHolds
  <2>3. CASE /\ hub # <<>> /\ hub' = Append(Tail(hub), e)
             /\ lost' = lost \cup LatestIn(<<hub[1]>>)
    <3>1. Tail(hub) \in Seq(Task)
      BY <1>5, <2>3, TailIs
    <3>2. ~(hub[1].todo = t /\ hub[1].version = v)
      BY <1>7, <2>3
    <3>3. Holds(Tail(hub), t, v)
      BY <1>5, <1>9, <2>3, <3>2, TailHolds
    <3> QED BY <1>3, <2>3, <3>1, <3>3, AppendHolds
  <2> QED BY <1>6, <2>1, <2>2, <2>3
<1>10. ASSUME e.todo = t, e.version = v PROVE Holds(hub', t, v)
  <2>1. ~(hub' = hub /\ lost' = lost \cup LatestIn(<<e>>))
    BY <1>7, <1>10
  <2>2. CASE hub' = Append(hub, e)
    BY <1>3, <1>5, <1>10, <2>2, AppendHolds
  <2>3. CASE hub # <<>> /\ hub' = Append(Tail(hub), e)
    <3>1. Tail(hub) \in Seq(Task)
      BY <1>5, <2>3, TailIs
    <3> QED BY <1>3, <1>10, <2>3, <3>1, AppendHolds
  <2> QED BY <1>6, <2>1, <2>2, <2>3
<1>11. ASSUME Waits(t, v) PROVE Waits(t, v)' \/ Holds(hub', t, v)
  <2>1. PICK j \in jobs : /\ j.todo = t /\ j.version = v
                          /\ \A l \in Workers :
                                ~(worker[l].phase = "mark" /\ worker[l].job = j)
    BY <1>11 DEF Waits
  <2>2. CASE j = worker[k].job
    <3>1. row[t].version \in Nat /\ e.version \in Nat
      BY <1>1, <1>2, <1>3, VersionTypes DEF ServerInv, ServerTypes, Works, AtWork, Idle, Event
    <3>2. e.todo = t /\ e.version = v
      BY <1>3, <2>1, <2>2, <3>1
    <3> QED BY <1>10, <3>2
  <2>3. CASE j # worker[k].job
    <3>1. \A l \in Workers : ~(worker'[l].phase = "mark" /\ worker'[l].job = j)
      BY <1>4, <2>1, <2>3
    <3>2. j \in jobs'
      BY <1>2, <2>1
    <3> QED BY <1>8, <2>1, <3>1, <3>2 DEF Waits
  <2> QED BY <2>2, <2>3
<1>12. ASSUME Shown(t, v) PROVE Shown(t, v)'
  <2>1. e.todo = t => e.version = v
    BY <1>1, <1>2, <1>12 DEF Shown
  <2>2. Only(hub, t, v)
    BY <1>12 DEF Shown
  <2>3. Only(hub', t, v)
    <3>1. CASE hub' = hub
      BY <2>2, <3>1
    <3>2. CASE hub' = Append(hub, e)
      BY <1>3, <1>5, <2>1, <2>2, <3>2, AppendHolds
    <3>3. CASE hub # <<>> /\ hub' = Append(Tail(hub), e)
      <4>1. Tail(hub) \in Seq(Task) /\ Only(Tail(hub), t, v)
        BY <1>5, <2>2, <3>3, TailIs, TailHolds
      <4> QED BY <1>3, <2>1, <3>3, <4>1, AppendHolds
    <3> QED BY <1>6, <3>1, <3>2, <3>3
  <2>4. \A l \in Workers : worker'[l].phase = "publish" => worker'[l] = worker[l]
    BY <1>4
  <2> QED BY <1>2, <1>8, <1>12, <2>3, <2>4 DEF Shown, Only
<1>13. ASSUME Holds(tasks, t, v) PROVE Holds(tasks', t, v)
  BY <1>2, <1>13
<1>14. ToldOf(t, v)' <=> \/ Waits(t, v)' \/ Holds(hub', t, v)
                         \/ Holds(tasks', t, v) \/ Shown(t, v)'
  BY <1>8 DEF ToldOf, Holds
<1> QED BY <1>8, <1>9, <1>11, <1>12, <1>13, <1>14 DEF ToldOf

\* Only the job of the handler goes, whose event is out.
LEMMA MarkTold ==
  ASSUME ServerInv, Told, NEW k \in Workers, Mark(k)
  PROVE  Told'
<1>1. /\ worker[k].phase = "mark" /\ worker' = [worker EXCEPT ![k] = Idle]
      /\ jobs' = jobs \ {worker[k].job}
      /\ UNCHANGED <<row, hub, tasks, copy, lost>>
  BY DEF Mark, stream, client
<1>2. \A l \in Workers : worker'[l] = Idle \/ worker'[l] = worker[l]
  BY <1>1 DEF ServerInv, ServerTypes
<1> SUFFICES ASSUME NEW t \in Todos \ lost'
             PROVE  ToldOf(t, row[t].version)'
  BY DEF Told
<1> DEFINE v == row[t].version
<1>3. ToldOf(t, v) /\ v' = v
  BY <1>1 DEF Told
<1>4. ASSUME Waits(t, v) PROVE Waits(t, v)'
  BY <1>1, <1>2, <1>3, <1>4 DEF Waits, Idle
<1>5. ASSUME Holds(hub, t, v) PROVE Holds(hub, t, v)'
  BY <1>1, <1>3, <1>5 DEF Holds
<1>6. ASSUME Holds(tasks, t, v) PROVE Holds(tasks, t, v)'
  BY <1>1, <1>3, <1>6 DEF Holds
<1>7. ASSUME Shown(t, v) PROVE Shown(t, v)'
  BY <1>1, <1>2, <1>3, <1>7 DEF Shown, Only, Idle
<1> QED BY <1>3, <1>4, <1>5, <1>6, <1>7 DEF ToldOf

LEMMA ConnectTold ==
  ASSUME StreamInv, Told, Connect
  PROVE  Told'
<1>1. /\ tasks' = Append(tasks, Resync)
      /\ UNCHANGED <<row, jobs, worker, hub, copy, lost>>
  BY DEF Connect, server, client
<1>2. tasks \in Seq(Task) /\ Resync \in Task /\ Resync.todo = 0 /\ 0 \notin Todos
  BY Constants DEF StreamInv, Task, Resync
<1> SUFFICES ASSUME NEW t \in Todos \ lost'
             PROVE  ToldOf(t, row[t].version)'
  BY DEF Told
<1> DEFINE v == row[t].version
<1>3. ToldOf(t, v) /\ v' = v
  BY <1>1 DEF Told
<1>4. Holds(tasks, t, v) => Holds(tasks', t, v)
  BY <1>1, <1>2, AppendHolds
<1>5. Only(tasks, t, v) => Only(tasks', t, v)
  BY <1>1, <1>2, AppendHolds
<1>6. Waits(t, v) => Waits(t, v)'
  BY <1>1, <1>3 DEF Waits
<1>7. ASSUME Shown(t, v) PROVE Shown(t, v)'
  BY <1>1, <1>3, <1>5, <1>7 DEF Shown, Only
<1>8. ToldOf(t, v)' <=> \/ Waits(t, v)' \/ Holds(hub', t, v)
                         \/ Holds(tasks', t, v) \/ Shown(t, v)'
  BY <1>3 DEF ToldOf, Holds
<1> QED BY <1>1, <1>3, <1>4, <1>6, <1>7, <1>8 DEF ToldOf

LEMMA DeliverTold ==
  ASSUME StreamInv, Told, Deliver
  PROVE  Told'
<1>1. /\ hub # <<>> /\ hub' = Tail(hub) /\ tasks' = Append(tasks, hub[1])
      /\ UNCHANGED <<row, jobs, worker, copy, lost>>
  BY DEF Deliver, server, client
<1>2. hub \in Seq(Task) /\ tasks \in Seq(Task) /\ hub[1] \in Task
  BY <1>1, HubIsStream, TailIs DEF StreamInv
<1> SUFFICES ASSUME NEW t \in Todos \ lost'
             PROVE  ToldOf(t, row[t].version)'
  BY DEF Told
<1> DEFINE v == row[t].version
<1>3. ToldOf(t, v) /\ v' = v
  BY <1>1 DEF Told
<1>4. Holds(hub, t, v) => Holds(hub', t, v) \/ Holds(tasks', t, v)
  BY <1>1, <1>2, TailHolds, AppendHolds
<1>5. Holds(tasks, t, v) => Holds(tasks', t, v)
  BY <1>1, <1>2, AppendHolds
<1>6. Only(hub, t, v) /\ Only(tasks, t, v) => Only(hub', t, v) /\ Only(tasks', t, v)
  BY <1>1, <1>2, TailHolds, AppendHolds
<1>7. Waits(t, v) => Waits(t, v)'
  BY <1>1, <1>3 DEF Waits
<1>8. ASSUME Shown(t, v) PROVE Shown(t, v)'
  BY <1>1, <1>3, <1>6, <1>8 DEF Shown, Only
<1>9. ToldOf(t, v)' <=> \/ Waits(t, v)' \/ Holds(hub', t, v)
                         \/ Holds(tasks', t, v) \/ Shown(t, v)'
  BY <1>3 DEF ToldOf, Holds
<1> QED BY <1>3, <1>4, <1>5, <1>7, <1>8, <1>9 DEF ToldOf

\* What a break of the connection or a pull drops is lost.
LEMMA DropTold ==
  ASSUME Told, UNCHANGED <<row, jobs, worker, copy>>, lost \subseteq lost',
         \/ hub' = hub
         \/ hub' = <<>> /\ LatestIn(hub) \subseteq lost',
         \/ tasks' = tasks
         \/ tasks' \in {<<>>, <<Resync>>} /\ LatestIn(tasks) \subseteq lost'
  PROVE  Told'
<1> SUFFICES ASSUME NEW t \in Todos \ lost'
             PROVE  ToldOf(t, row[t].version)'
  BY DEF Told
<1> DEFINE v == row[t].version
<1>1. ToldOf(t, v) /\ v' = v
  BY DEF Told
<1>2. Holds(hub, t, v) => Holds(hub', t, v)
  BY LatestHolds
<1>3. Holds(tasks, t, v) => Holds(tasks', t, v)
  BY LatestHolds
<1>4. Only(hub, t, v) => Only(hub', t, v)
  BY DEF Only
<1>5. Only(tasks, t, v) => Only(tasks', t, v)
  <2>1. Only(<<>>, t, v)
    BY DEF Only
  <2>2. Resync.todo # t
    BY Constants DEF Resync
  <2>3. Only(<<Resync>>, t, v)
    BY <2>2 DEF Only
  <2> QED BY <2>1, <2>3
<1>6. Waits(t, v) => Waits(t, v)'
  BY <1>1 DEF Waits
<1>7. ASSUME Shown(t, v) PROVE Shown(t, v)'
  BY <1>1, <1>4, <1>5, <1>7 DEF Shown, Only
<1>8. ToldOf(t, v)' <=> \/ Waits(t, v)' \/ Holds(hub', t, v)
                         \/ Holds(tasks', t, v) \/ Shown(t, v)'
  BY <1>1 DEF ToldOf, Holds
<1> QED BY <1>1, <1>2, <1>3, <1>6, <1>7, <1>8 DEF ToldOf

\* A page never takes back what the client has of a to-do.
LEMMA PageTold ==
  ASSUME ServerInv, PullInv, Told, ApplyPage
  PROVE  Told'
<1>1. UNCHANGED <<row, jobs, worker, hub, tasks, lost>>
  BY DEF ApplyPage, server, stream
<1>2. /\ pull.phase = "answered"
      /\ copy' = [t \in Todos |-> IF t \in {u \in Todos : pull.page[u] > 0}
                                  THEN pull.page[t] ELSE copy[t]]
  BY DEF ApplyPage
<1> SUFFICES ASSUME NEW t \in Todos \ lost'
             PROVE  ToldOf(t, row[t].version)'
  BY DEF Told
<1> DEFINE v == row[t].version
<1>3. ToldOf(t, v) /\ v' = v
  BY <1>1 DEF Told
<1>4. ASSUME copy[t] = v PROVE copy'[t] = v
  <2>1. /\ pull.page[t] <= v /\ (pull.page[t] = 0 \/ copy[t] <= pull.page[t])
    BY <1>2 DEF PullInv, NotAhead, Seen
  <2>2. v \in Nat /\ pull.page[t] \in Nat
    BY VersionTypes DEF ServerInv, ServerTypes, PullInv, ClientTypes
  <2> QED BY <1>2, <1>4, <2>1, <2>2
<1>5. Waits(t, v) => Waits(t, v)'
  BY <1>1, <1>3 DEF Waits
<1>6. ASSUME Shown(t, v) PROVE Shown(t, v)'
  BY <1>1, <1>3, <1>4, <1>6 DEF Shown, Only
<1>7. ToldOf(t, v)' <=> \/ Waits(t, v)' \/ Holds(hub', t, v)
                         \/ Holds(tasks', t, v) \/ Shown(t, v)'
  BY <1>3 DEF ToldOf, Holds
<1> QED BY <1>1, <1>3, <1>5, <1>6, <1>7 DEF ToldOf

\* The latest event of a to-do is the last: behind it come only its repeats.
LEMMA EventTold ==
  ASSUME IInv, Ordered, Told, ApplyEvent
  PROVE  Told'
<1>1. PICK e : e = tasks[1]
  OBVIOUS
<1>2. /\ tasks # <<>> /\ e # Resync /\ tasks' = Tail(tasks)
      /\ copy' = [copy EXCEPT ![e.todo] = e.version]
      /\ UNCHANGED <<row, jobs, worker, hub, lost>>
  BY <1>1 DEF ApplyEvent, server, stream
<1>3. tasks \in Seq(Task) /\ hub \in Seq(Task) /\ Happened(tasks) /\ Happened(hub)
  BY HubIsStream DEF IInv, StreamInv
<1>4. e \in Event /\ 1 \in DOMAIN tasks
  BY <1>1, <1>2, <1>3, TailIs DEF Task
<1>5. /\ e.todo \in Todos
      /\ copy'[e.todo] = e.version
      /\ \A t \in Todos : t # e.todo => copy'[t] = copy[t]
  BY <1>2, <1>4 DEF IInv, PullInv, ClientTypes, Event
<1> SUFFICES ASSUME NEW t \in Todos \ lost'
             PROVE  ToldOf(t, row[t].version)'
  BY DEF Told
<1> DEFINE v == row[t].version
<1>6. ToldOf(t, v) /\ v' = v
  BY <1>2 DEF Told
<1>7. v \in Nat /\ \A x \in Event : x.version \in Nat
  BY VersionTypes DEF IInv, ServerInv, ServerTypes, Event
<1>8. ASSUME NEW x \in Task, Past(x), x.todo = t
      PROVE  x.version <= v /\ x \in Event
  <2>1. x # Resync
    BY <1>8, Constants DEF Resync
  <2> QED BY <1>8, <2>1 DEF Past, Task
<1>9. ASSUME e.todo = t, e.version = v PROVE Shown(t, v)'
  <2>1. copy'[t] = v
    BY <1>5, <1>9
  <2>2. ASSUME NEW i \in DOMAIN Tail(tasks), Tail(tasks)[i].todo = t
        PROVE  Tail(tasks)[i].version = v
    <3>1. e.version <= Tail(tasks)[i].version
      BY <1>1, <1>2, <1>3, <1>9, <2>2, TailBefore DEF Ordered
    <3>2. Tail(tasks)[i] \in Task /\ Past(Tail(tasks)[i])
      BY <1>2, <1>3, TailIs, ElementOfSeq DEF Happened
    <3>3. Tail(tasks)[i].version <= v /\ Tail(tasks)[i].version \in Nat
      BY <1>7, <1>8, <2>2, <3>2
    <3> QED BY <1>7, <1>9, <3>1, <3>3
  <2>3. ASSUME NEW i \in DOMAIN hub, hub[i].todo = t PROVE hub[i].version = v
    <3>1. e.version <= hub[i].version
      BY <1>1, <1>4, <1>9, <2>3 DEF Ordered, Before
    <3>2. hub[i] \in Task /\ Past(hub[i])
      BY <1>3, ElementOfSeq DEF Happened
    <3>3. hub[i].version <= v /\ hub[i].version \in Nat
      BY <1>7, <1>8, <2>3, <3>2
    <3> QED BY <1>7, <1>9, <3>1, <3>3
  <2>4. ASSUME NEW k \in Workers, worker[k].phase = "publish", worker[k].event.todo = t
        PROVE  worker[k].event.version = v
    <3>1. e.version <= worker[k].event.version
      BY <1>1, <1>4, <1>9, <2>4 DEF Ordered, Before
    <3>2. worker[k].event \in Event /\ worker[k].event.version <= v
      BY <2>4 DEF IInv, ServerInv, Works, AtWork, Idle
    <3> QED BY <1>7, <1>9, <3>1, <3>2
  <2> QED BY <1>2, <1>6, <2>1, <2>2, <2>3, <2>4 DEF Shown, Only
<1>10. Holds(tasks, t, v) => Holds(tasks', t, v) \/ Shown(t, v)'
  BY <1>1, <1>2, <1>3, <1>9, TailHolds
<1>11. ASSUME Shown(t, v) PROVE Shown(t, v)'
  <2>1. Only(tasks, t, v) /\ copy[t] = v
    BY <1>11 DEF Shown
  <2>2. Only(tasks', t, v) /\ (e.todo = t => e.version = v)
    BY <1>1, <1>2, <1>3, <2>1, TailHolds
  <2>3. copy'[t] = v
    BY <1>5, <2>1, <2>2
  <2> QED BY <1>2, <1>6, <1>11, <2>2, <2>3 DEF Shown, Only
<1>12. Waits(t, v) => Waits(t, v)'
  BY <1>2, <1>6 DEF Waits
<1>13. ToldOf(t, v)' <=> \/ Waits(t, v)' \/ Holds(hub', t, v)
                         \/ Holds(tasks', t, v) \/ Shown(t, v)'
  BY <1>6 DEF ToldOf, Holds
<1> QED BY <1>2, <1>6, <1>10, <1>11, <1>12, <1>13 DEF ToldOf

LEMMA ToldStep ==
  ASSUME IInv, Ordered, Told, [Next]_vars
  PROVE  Told'
<1> USE DEF IInv
<1>1. ASSUME UNCHANGED <<row, jobs, worker, hub, tasks, copy, lost>> PROVE Told'
  BY <1>1, ToldKept
<1>2. ASSUME NEW w \in Writers, NEW t \in Todos, NEW time \in {clock, clock + 1},
             Begin(w, t, time)
      PROVE  Told'
  BY <1>1, <1>2 DEF Begin, stream, client
<1>3. ASSUME NEW w \in Writers, NEW open \in BOOLEAN, Commit(w, open) PROVE Told'
  BY <1>3, CommitTold
<1>4. ASSUME NEW k \in Workers, NEW j \in jobs, Read(k, j) PROVE Told'
  BY <1>4, ReadTold
<1>5. ASSUME NEW k \in Workers, Publish(k) PROVE Told'
  BY <1>5, PublishTold
<1>6. ASSUME NEW k \in Workers, Mark(k) PROVE Told'
  BY <1>6, MarkTold
<1>7. ASSUME NEW k \in Workers, Repeat(k) PROVE Told'
  <2>1. UNCHANGED <<row, jobs, hub, tasks, copy, lost>> /\ worker' = [worker EXCEPT ![k] = Idle]
    BY <1>7 DEF Repeat, stream, client
  <2>2. \A l \in Workers : worker'[l] = Idle \/ worker'[l] = worker[l]
    BY <2>1 DEF ServerInv, ServerTypes
  <2> QED BY <2>1, <2>2, ToldKept DEF Idle
<1>8. CASE Connect
  BY <1>8, ConnectTold
<1>9. CASE Subscribe
  BY <1>1, <1>9 DEF Subscribe, server, client
<1>10. CASE Deliver
  BY <1>10, DeliverTold
<1>11. ASSUME NEW reload \in BOOLEAN, Disconnect(reload) PROVE Told'
  <2>1. /\ UNCHANGED <<row, jobs, worker, copy>> /\ lost \subseteq lost'
        /\ hub' = <<>> /\ LatestIn(hub) \subseteq lost'
        /\ \/ tasks' = tasks
           \/ tasks' = <<Resync>> /\ LatestIn(tasks) \subseteq lost'
    BY <1>11 DEF Disconnect, server
  <2> QED BY <2>1, DropTold
<1>12. CASE StartPull \/ NextPull
  <2>1. /\ UNCHANGED <<row, jobs, worker, hub, copy>> /\ lost \subseteq lost'
        /\ tasks' = <<>> /\ LatestIn(tasks) \subseteq lost'
    BY <1>12 DEF StartPull, NextPull, Ask, server, stream
  <2> QED BY <2>1, DropTold
<1>13. CASE AnswerPull
  BY <1>1, <1>13 DEF AnswerPull, server, stream
<1>14. CASE ApplyPage
  BY <1>14, PageTold
<1>15. CASE ApplyEvent
  BY <1>15, EventTold
<1>16. CASE UNCHANGED vars
  BY <1>1, <1>16 DEF vars
<1> QED BY <1>2, <1>3, <1>4, <1>5, <1>6, <1>7, <1>8, <1>9, <1>10, <1>11, <1>12,
           <1>13, <1>14, <1>15, <1>16 DEF Next

LEMMA InitTold == Init => Ordered /\ Told
<1> SUFFICES ASSUME Init PROVE Ordered /\ Told
  OBVIOUS
<1>1. Ordered
  <2>1. /\ hub = <<>> /\ tasks = <<Resync>>
        /\ \A k \in Workers : worker[k].phase = "idle"
    BY DEF Init, Idle
  <2> QED BY <2>1 DEF Ordered, Rising, Before
<1>2. ASSUME NEW t \in Todos \ lost PROVE Shown(t, row[t].version)
  <2>1. row[t] = Absent \/ row[t] = Existing
    BY InitRows
  <2>2. row[t].version = 0
    BY <1>2, <2>1 DEF Init, Present, Absent, Existing
  <2>3. /\ hub = <<>> /\ tasks = <<Resync>> /\ copy[t] = 0 /\ Resync.version = 0
        /\ \A k \in Workers : worker[k].phase = "idle"
    BY DEF Init, Idle, Resync
  <2> QED BY <2>2, <2>3 DEF Shown, Only
<1> QED BY <1>1, <1>2 DEF Told, ToldOf

TInv == IInv /\ Ordered /\ Told

LEMMA TInvStep == ASSUME OneWorker PROVE TInv /\ [Next]_vars => TInv'
BY InvStep, OrderStep, ToldStep DEF TInv

\* What the next pull will not bring got behind the checkpoint, or is beyond the
\* head of a backfill.
LEMMA ReachOfPull ==
  ASSUME ServerInv, PullInv, NEW t \in Todos, Stale(t), OutOfReach(t)
  PROVE  t \in skipped \/ BeyondBackfill(t)
<1> SUFFICES ASSUME t \notin skipped PROVE BeyondBackfill(t)
  OBVIOUS
<1>1. /\ RowPlace(t) \in Nat /\ copy[t] \in Nat /\ checkpoint.place \in Nat
      /\ checkpoint.head \in Nat \cup {Null} /\ RowsTyped
      /\ checkpoint \in CheckpointType /\ checkpoint.mode \in {"live", "incremental"}
  BY ClientNumbers, VersionTypes DEF PullInv, ServerInv, ClientTypes
<1>2. /\ RowPlace(t) > checkpoint.place
      /\ checkpoint.mode = "live" /\ copy[t] > 0 =>
            \/ RowPlace(t) <= checkpoint.place
            \/ checkpoint.head # Null /\ RowPlace(t) > checkpoint.head
  BY DEF PullInv, Behind
<1>3. t \in Present /\ (row[t].open \/ copy[t] > 0)
  BY DEF Stale, Present
<1>4. CASE checkpoint.mode = "incremental"
  <2>1. Asked(checkpoint) = checkpoint
    BY <1>4 DEF Asked
  <2> QED BY <1>2, <1>3, <1>4, <2>1 DEF OutOfReach, Candidates
<1>5. CASE checkpoint.mode = "live" /\ checkpoint.head # Null
  <2>1. Asked(checkpoint) = checkpoint
    BY <1>1, <1>5 DEF Asked, BackfillHead, CheckpointType
  <2>2. ~(row[t].open /\ RowPlace(t) <= checkpoint.head)
    BY <1>2, <1>3, <2>1 DEF OutOfReach, Candidates
  <2>3. RowPlace(t) > checkpoint.head
    BY <1>1, <1>2, <1>3, <1>5, <2>2
  <2> QED BY <1>5, <2>3 DEF BeyondBackfill
<1>6. CASE checkpoint.mode = "live" /\ checkpoint.head = Null
  <2>1. /\ Asked(checkpoint).place = checkpoint.place
        /\ Asked(checkpoint).head = TableHead
    BY <1>1, <1>6 DEF Asked, BackfillHead, CheckpointType
  <2>2. row[t].open
    BY <1>1, <1>3, <1>6 DEF PullInv, Pulls
  <2>3. RowPlace(t) <= TableHead
    BY <1>1, <1>3, HeadIsLast
  <2> QED BY <1>2, <1>3, <2>1, <2>2, <2>3 DEF OutOfReach, Candidates
<1> QED BY <1>1, <1>4, <1>5, <1>6

LEMMA TInvGaps == TInv => GapsAreExplained /\ EventsSuffice
<1> SUFFICES ASSUME TInv PROVE GapsAreExplained /\ EventsSuffice
  OBVIOUS
<1>1. ASSUME NEW t \in Todos, Stale(t), t \notin lost PROVE UnderWay(t)
  <2>1. ToldOf(t, row[t].version) /\ ~Shown(t, row[t].version)
    BY <1>1 DEF TInv, Told, Stale, Shown
  <2> QED BY <2>1, LatestHolds DEF ToldOf, UnderWay, Waits
<1>2. GapsAreExplained
  <2> SUFFICES ASSUME NEW t \in Todos, Stale(t), OutOfReach(t)
               PROVE  /\ t \in skipped \/ BeyondBackfill(t)
                      /\ UnderWay(t) \/ t \in lost
    BY DEF GapsAreExplained
  <2>1. t \in skipped \/ BeyondBackfill(t)
    BY ReachOfPull DEF TInv, IInv
  <2> QED BY <1>1, <2>1
<1>3. EventsSuffice
  <2> SUFFICES ASSUME jobs = {}, hub = <<>>, tasks = <<>>, NEW t \in Todos, Stale(t),
                      t \notin lost
               PROVE  FALSE
    BY DEF EventsSuffice
  <2>1. UnderWay(t)
    BY <1>1
  <2> QED BY <2>1 DEF UnderWay, LatestIn
<1> QED BY <1>2, <1>3

\* However many handlers run, a change that the client misses and that its next
\* pull will not bring was put behind the checkpoint by a late commit or by the
\* event of a later change, or lies beyond the head of a backfill that has not
\* ended: within a backfill, pages and reconnections skip nothing.
THEOREM PullsSkipNothing ==
  Spec => [](\A t \in Todos : Stale(t) /\ OutOfReach(t) =>
                                 t \in skipped \/ BeyondBackfill(t))
<1>1. IInv => \A t \in Todos : Stale(t) /\ OutOfReach(t) =>
                                  t \in skipped \/ BeyondBackfill(t)
  BY ReachOfPull DEF IInv
<1> QED BY <1>1, InitInv, InvStep, PTL DEF Spec

\* With one handler at a time (GLOBAL_MAX_CONCURRENT of the local runtime), the
\* client misses a change that its next pull will not bring only if the change got
\* behind the checkpoint or lies beyond the head of an unended backfill, and its
\* own event was lost or is still under way.
THEOREM GapsExplained == ASSUME OneWorker PROVE Spec => []GapsAreExplained
<1>1. Init => TInv
  BY InitInv, InitTold DEF TInv
<1> QED BY <1>1, TInvStep, TInvGaps, PTL DEF Spec

\* With one handler at a time, once nothing is under way every to-do is shown as
\* it is, unless the event of its last change was lost.
THEOREM EventsAreEnough == ASSUME OneWorker PROVE Spec => []EventsSuffice
<1>1. Init => TInv
  BY InitInv, InitTold DEF TInv
<1> QED BY <1>1, TInvStep, TInvGaps, PTL DEF Spec
==============================================================================
