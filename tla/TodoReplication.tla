---------------------------- MODULE TodoReplication ----------------------------
(***************************************************************************)
(* How a browser keeps its copy of the to-dos: transactions change rows and *)
(* enqueue event jobs, the todo-event handler publishes the rows' current   *)
(* state, an in-memory hub queues it for the subscriber, and the client     *)
(* (RxDB) applies events and, whenever it connects, pulls what lies beyond  *)
(* its checkpoint.                                                          *)
(*                                                                         *)
(* A row's place in the pull order is (updatedAt, id), and updatedAt is the *)
(* time its request began, not the time it was committed.  One user's      *)
(* authorised to-dos are modelled: rows hidden from him, and checkpoints of *)
(* old clients that carry no mode, are left out.                            *)
(***************************************************************************)
EXTENDS Naturals, Sequences, FiniteSets

CONSTANTS
    Writers,        \* transactions, each commits one change of one to-do
    NTodos,         \* to-dos are numbered by their ids
    Workers,        \* todo-event jobs that may be handled at one time
    Limit,          \* batch size of a pull
    Capacity,       \* of the subscriber's sliding queue
    Initially,      \* bound: the sets of to-dos there before the client is
    MaxClock,       \* bound: milliseconds
    MaxFaults,      \* bound: lost connections, reloads and repeated event jobs
    Null

ASSUME ReplicationAssumption ==
    /\ {NTodos, Limit, Capacity} \subseteq Nat \ {0}
    /\ {MaxClock, MaxFaults} \subseteq Nat
    /\ IsFiniteSet(Writers)
    /\ Null \notin Nat

Todos == 1 .. NTodos

VARIABLES
    clock,      \* milliseconds
    writer,     \* transaction -> its to-do and request time
    row,        \* to-do -> its row: time (updatedAt), version, open
    jobs,       \* todo-event jobs: [todo, version]
    worker,     \* handler -> its job and what it has read
    hub,        \* the subscriber's queue in the hub
    subscribed, \* the hub has the queue
    connected,  \* the client's socket is open
    tasks,      \* what the stream has given the client
    copy,       \* to-do -> version the client has
    checkpoint, \* the client's
    pull,       \* the pull in progress
    faults,     \* lost connections, reloads and repeated event jobs so far
    lost,       \* history: to-dos, the event of whose last change was dropped
    skipped     \* history: to-dos that changed behind the checkpoint

vars == <<clock, writer, row, jobs, worker, hub, subscribed, connected, tasks,
          copy, checkpoint, pull, faults, lost, skipped>>

server == <<clock, writer, row, jobs, worker>>
stream == <<hub, subscribed, connected>>
client == <<copy, checkpoint, pull>>

Absent == [time |-> 0, version |-> 0, open |-> FALSE]

Existing == [time |-> 1, version |-> 1, open |-> TRUE]

Versions == 0 .. Cardinality(Writers) + 1

Event == [todo : Todos, version : Versions, place : Nat]

Resync == [todo |-> 0, version |-> 0, place |-> 0]

Idle == [phase |-> "idle", job |-> Null, event |-> Null]

Done == [phase |-> "done", todo |-> Null, time |-> 0]

NoPage == [t \in Todos |-> 0]

\* No checkpoint: the first pull.
Beginning == [mode |-> "live", place |-> 0, head |-> Null]

NoPull == [phase |-> "idle", page |-> NoPage, checkpoint |-> Beginning]

\* The to-dos whose last change is among the events.
LatestIn(s) ==
    {t \in Todos : \E i \in DOMAIN s :
                        s[i].todo = t /\ s[i].version = row[t].version}

-----------------------------------------------------------------------------
\* The pull order and its queries.

\* (updatedAt, id) as one number.
Place(t, time) == time * (NTodos + 1) + t

RowPlace(t) == Place(t, row[t].time)

Present == {t \in Todos : row[t].version > 0}

\* getTodoReplicationHead: deleted rows count.
TableHead ==
    IF Present = {} THEN 0
    ELSE CHOOSE p \in {RowPlace(t) : t \in Present} :
            \A t \in Present : RowPlace(t) <= p

HeadOfNow(c) == TableHead

\* A live backfill keeps the head its first page was given.
BackfillHead(c) == IF c.head = Null THEN TableHead ELSE c.head

\* The checkpoint a page is asked for with.
Asked(c) == IF c.mode = "live" THEN [c EXCEPT !.head = BackfillHead(c)] ELSE c

\* The WHERE clause of pullTodo: in a live backfill open rows up to the head,
\* afterwards all rows, beyond the checkpoint.
Candidates(c) ==
    {t \in Present :
        /\ RowPlace(t) > c.place
        /\ c.mode = "live" => row[t].open /\ RowPlace(t) <= c.head}

\* ORDER BY updatedAt, id LIMIT n.
Page(c) ==
    LET rows == Candidates(c) IN
    {t \in rows : Cardinality({u \in rows : RowPlace(u) < RowPlace(t)}) < Limit}

LastPlace(page) ==
    CHOOSE p \in {RowPlace(t) : t \in page} : \A t \in page : RowPlace(t) <= p

\* The checkpoint of pullTodo's answer.
NextCheckpoint(c, page) ==
    CASE c.mode = "live" /\ Cardinality(page) < Limit ->
            [mode |-> "incremental", place |-> c.head, head |-> Null]
      [] c.mode = "live" /\ Cardinality(page) = Limit ->
            [mode |-> "live", place |-> LastPlace(page), head |-> c.head]
      [] c.mode = "incremental" /\ page # {} ->
            [c EXCEPT !.place = LastPlace(page)]
      [] OTHER -> c

\* How far the client has been told not to look back: its checkpoint, the one
\* that is on its way, and the head of a backfill.
Passed ==
    LET seen(c) == {c.place} \cup ({c.head} \ {Null})
        places == seen(checkpoint) \cup seen(pull.checkpoint)
    IN  CHOOSE p \in places : \A q \in places : q <= p

-----------------------------------------------------------------------------
\* Some to-dos are there before the client is: their events are past.
Init ==
    /\ clock = 1
    /\ writer = [w \in Writers |-> [phase |-> "idle", todo |-> Null, time |-> 0]]
    /\ \E present \in Initially :
          row = [t \in Todos |-> IF t \in present THEN Existing ELSE Absent]
    /\ jobs = {}
    /\ worker = [k \in Workers |-> Idle]
    /\ hub = <<>>
    /\ subscribed = FALSE
    /\ connected = FALSE
    /\ tasks = <<Resync>>
    /\ copy = [t \in Todos |-> 0]
    /\ checkpoint = Beginning
    /\ pull = NoPull
    /\ faults = 0
    /\ lost = Present
    /\ skipped = {}

-----------------------------------------------------------------------------
\* Transactions that change to-dos.

\* A request begins; it may begin in the millisecond of the one before.
Begin(w, t, time) ==
    /\ writer[w].phase = "idle"
    /\ time <= MaxClock
    /\ clock' = time
    /\ writer' = [writer EXCEPT ![w] = [phase |-> "begun", todo |-> t,
                                        time |-> time]]
    /\ UNCHANGED <<row, jobs, worker, stream, tasks, client, faults, lost,
                   skipped>>

\* Its transaction creates the to-do, changes it or closes it (_deleted), stamps
\* it with the request's time, and enqueues a todo-event job.
Commit(w, open) ==
    LET t == writer[w].todo
        new == [time |-> writer[w].time, version |-> row[t].version + 1,
                open |-> open]
    IN
    /\ writer[w].phase = "begun"
    /\ IF row[t].version = 0 THEN open ELSE row[t].open
    /\ row' = [row EXCEPT ![t] = new]
    /\ jobs' = jobs \cup {[todo |-> t, version |-> new.version]}
    /\ writer' = [writer EXCEPT ![w] = Done]
    /\ skipped' = IF Place(t, new.time) <= Passed THEN skipped \cup {t}
                                                  ELSE skipped \ {t}
    /\ lost' = lost \ {t}
    /\ UNCHANGED <<clock, worker, stream, tasks, client, faults>>

-----------------------------------------------------------------------------
\* The todo-event handler.

StaleRead(k, j) ==
    /\ worker[k] = Idle
    /\ j \in jobs
    /\ \A l \in Workers : worker[l].job # j
    /\ worker' = [worker EXCEPT ![k] =
                     [phase |-> "publish", job |-> j,
                      event |-> [todo |-> j.todo, version |-> j.version,
                                 place |-> RowPlace(j.todo)]]]
    /\ UNCHANGED <<clock, writer, row, jobs, stream, tasks, client, faults, lost,
                   skipped>>

\* A worker takes a job and reads the row as it is now, in a transaction of its
\* own.
Read(k, j) ==
    /\ worker[k] = Idle
    /\ j \in jobs
    /\ \A l \in Workers : worker[l].job # j
    /\ worker' = [worker EXCEPT ![k] =
                     [phase |-> "publish", job |-> j,
                      event |-> [todo |-> j.todo,
                                 version |-> row[j.todo].version,
                                 place |-> RowPlace(j.todo)]]]
    /\ UNCHANGED <<clock, writer, row, jobs, stream, tasks, client, faults, lost,
                   skipped>>

PublishUnbounded(k) ==
    LET e == worker[k].event IN
    /\ worker[k].phase = "publish"
    /\ worker' = [worker EXCEPT ![k].phase = "mark"]
    /\ hub' = IF subscribed THEN Append(hub, e) ELSE hub
    /\ lost' = IF subscribed THEN lost ELSE lost \cup LatestIn(<<e>>)
    /\ UNCHANGED <<clock, writer, row, jobs, subscribed, connected, tasks, client,
                   faults, skipped>>

\* Publishing offers the event to the queue of a subscriber: a full sliding
\* queue drops its oldest event.
Publish(k) ==
    LET e == worker[k].event IN
    /\ worker[k].phase = "publish"
    /\ worker' = [worker EXCEPT ![k].phase = "mark"]
    /\ IF ~subscribed
       THEN /\ lost' = lost \cup LatestIn(<<e>>)
            /\ UNCHANGED hub
       ELSE IF Len(hub) < Capacity
       THEN /\ hub' = Append(hub, e)
            /\ UNCHANGED lost
       ELSE /\ hub' = Append(Tail(hub), e)
            /\ lost' = lost \cup LatestIn(<<hub[1]>>)
    /\ UNCHANGED <<clock, writer, row, jobs, subscribed, connected, tasks, client,
                   faults, skipped>>

\* Only then is the job marked as completed.
Mark(k) ==
    /\ worker[k].phase = "mark"
    /\ jobs' = jobs \ {worker[k].job}
    /\ worker' = [worker EXCEPT ![k] = Idle]
    /\ UNCHANGED <<clock, writer, row, stream, tasks, client, faults, lost,
                   skipped>>

\* A handler that fails or dies leaves its job to be delivered again.
Repeat(k) ==
    /\ worker[k].phase # "idle"
    /\ faults < MaxFaults
    /\ faults' = faults + 1
    /\ worker' = [worker EXCEPT ![k] = Idle]
    /\ UNCHANGED <<clock, writer, row, jobs, stream, tasks, client, lost, skipped>>

-----------------------------------------------------------------------------
\* The stream.

\* The socket is connected: the client resyncs at once, its subscription reaches
\* the hub later.
Connect ==
    /\ ~connected
    /\ connected' = TRUE
    /\ tasks' = Append(tasks, Resync)
    /\ UNCHANGED <<server, hub, subscribed, client, faults, lost, skipped>>

Subscribe ==
    /\ connected /\ ~subscribed
    /\ subscribed' = TRUE
    /\ UNCHANGED <<server, hub, connected, tasks, client, faults, lost, skipped>>

Deliver ==
    /\ hub # <<>>
    /\ hub' = Tail(hub)
    /\ tasks' = Append(tasks, hub[1])
    /\ UNCHANGED <<server, subscribed, connected, client, faults, lost, skipped>>

\* The connection breaks, or the page is reloaded: queued events are gone, in
\* the second case also the client's tasks and its pull.
Disconnect(reload) ==
    /\ connected
    /\ faults < MaxFaults
    /\ faults' = faults + 1
    /\ connected' = FALSE
    /\ subscribed' = FALSE
    /\ hub' = <<>>
    /\ IF reload
       THEN /\ tasks' = <<Resync>>
            /\ pull' = NoPull
            /\ lost' = lost \cup LatestIn(hub) \cup LatestIn(tasks)
       ELSE /\ lost' = lost \cup LatestIn(hub)
            /\ UNCHANGED <<tasks, pull>>
    /\ UNCHANGED <<server, copy, checkpoint, skipped>>

-----------------------------------------------------------------------------
\* The client: one task at a time.

\* Asking for a page begins with the head of the table; its rows are read in a
\* statement of their own.  Whatever the stream has given before is dropped: the
\* pull is expected to hold it.
Ask(c) ==
    /\ pull' = [phase |-> "asked", page |-> NoPage, checkpoint |-> Asked(c)]
    /\ tasks' = <<>>
    /\ lost' = lost \cup LatestIn(tasks)
    /\ UNCHANGED <<server, stream, copy, checkpoint, faults, skipped>>

\* RESYNC: pages are asked for until one is not full.
StartPull ==
    /\ pull.phase = "idle"
    /\ tasks # <<>> /\ tasks[1] = Resync
    /\ Ask(checkpoint)

NextPull ==
    /\ pull.phase = "more"
    /\ Ask(checkpoint)

AnswerPull ==
    LET page == Page(pull.checkpoint) IN
    /\ pull.phase = "asked"
    /\ pull' = [phase |-> "answered",
                page |-> [t \in Todos |-> IF t \in page THEN row[t].version ELSE 0],
                checkpoint |-> NextCheckpoint(pull.checkpoint, page)]
    /\ UNCHANGED <<server, stream, tasks, copy, checkpoint, faults, lost, skipped>>

Current(c) == {t \in Todos : c[t] = row[t].version}

\* A page is written, and its checkpoint with it; the checkpoint of an empty
\* page is ignored.
ApplyPage ==
    LET page == {t \in Todos : pull.page[t] > 0} IN
    /\ pull.phase = "answered"
    /\ copy' = [t \in Todos |-> IF t \in page THEN pull.page[t] ELSE copy[t]]
    /\ checkpoint' = IF page = {} THEN checkpoint ELSE pull.checkpoint
    /\ pull' = IF Cardinality(page) = Limit THEN [NoPull EXCEPT !.phase = "more"]
                                            ELSE NoPull
    /\ skipped' = skipped \ Current(copy')
    /\ UNCHANGED <<server, stream, tasks, faults, lost>>

\* What an event puts behind the checkpoint without a pull: the rows it jumps
\* over, and its own row when it carries an older version of it.
JumpedTo(e) ==
    {t \in Present : RowPlace(t) > checkpoint.place /\ RowPlace(t) <= e.place}
        \cup {e.todo}

\* An event is written with its checkpoint, which ends a backfill and may lie
\* before or far beyond the client's.
ApplyEvent ==
    LET e == tasks[1] IN
    /\ pull.phase = "idle"
    /\ tasks # <<>> /\ e # Resync
    /\ tasks' = Tail(tasks)
    /\ copy' = [copy EXCEPT ![e.todo] = e.version]
    /\ checkpoint' = [mode |-> "incremental", place |-> e.place, head |-> Null]
    /\ skipped' = (skipped \cup JumpedTo(e)) \ Current(copy')
    /\ UNCHANGED <<server, stream, pull, faults, lost>>

-----------------------------------------------------------------------------
Next ==
    \/ \E w \in Writers :
          \/ \E t \in Todos, time \in {clock, clock + 1} : Begin(w, t, time)
          \/ \E open \in BOOLEAN : Commit(w, open)
    \/ \E k \in Workers :
          \/ \E j \in jobs : Read(k, j)
          \/ Publish(k)
          \/ Mark(k)
          \/ Repeat(k)
    \/ Connect
    \/ Subscribe
    \/ Deliver
    \/ \E reload \in BOOLEAN : Disconnect(reload)
    \/ StartPull
    \/ NextPull
    \/ AnswerPull
    \/ ApplyPage
    \/ ApplyEvent

Spec == Init /\ [][Next]_vars

-----------------------------------------------------------------------------
\* Properties.

\* Values of the state: the hub never holds more than its capacity, and the
\* client's backfill has a head once it has a page.
CheckpointType ==
    [mode : {"live", "incremental"}, place : Nat, head : Nat \cup {Null}]

TypeOK ==
    /\ clock \in Nat
    /\ writer \in [Writers -> [phase : {"idle", "begun", "done"},
                               todo : Todos \cup {Null}, time : Nat]]
    /\ row \in [Todos -> [time : Nat, version : Versions, open : BOOLEAN]]
    /\ jobs \subseteq [todo : Todos, version : Versions]
    /\ worker \in [Workers -> [phase : {"idle", "publish", "mark"},
                               job : jobs \cup {Null}, event : Event \cup {Null}]]
    /\ hub \in Seq(Event) /\ Len(hub) <= Capacity
    /\ {subscribed, connected} \subseteq BOOLEAN /\ (subscribed => connected)
    /\ tasks \in Seq(Event \cup {Resync})
    /\ copy \in [Todos -> Versions]
    /\ checkpoint \in CheckpointType
    /\ checkpoint.mode = "live" /\ checkpoint.place > 0 => checkpoint.head # Null
    /\ pull \in [phase : {"idle", "asked", "answered", "more"},
                 page : [Todos -> Versions], checkpoint : CheckpointType]
    /\ faults \in 0 .. MaxFaults
    /\ lost \subseteq Todos
    /\ skipped \subseteq Todos

\* What the client shows of the to-do is wrong: it shows an old version, or does
\* not show an open to-do.
Stale(t) ==
    /\ row[t].version > 0
    /\ row[t].open \/ copy[t] > 0
    /\ copy[t] # row[t].version

\* The change's event has still to reach the client.
UnderWay(t) ==
    \/ \E j \in jobs : j.todo = t
    \/ \E s \in {hub, tasks} : t \in LatestIn(s)

\* The next pull will not bring the change.
OutOfReach(t) == t \notin Candidates(Asked(checkpoint))

\* A backfill is under way and the change is beyond its head.
BeyondBackfill(t) ==
    /\ checkpoint.mode = "live" /\ checkpoint.head # Null
    /\ RowPlace(t) > checkpoint.head

\* The client misses a change that its next pull will not bring for one of three
\* reasons: the change was committed late, behind the checkpoint; the event of a
\* later change jumped over it; or a backfill has not come to its end, which after
\* a last page that is exactly full it never does.  In each case the change's own
\* event is under way or was lost.  Within a backfill, pages, frozen heads and
\* reconnections skip nothing.
GapsAreExplained ==
    \A t \in Todos :
        Stale(t) /\ OutOfReach(t) =>
            /\ t \in skipped \/ BeyondBackfill(t)
            /\ UnderWay(t) \/ t \in lost

\* The stream alone keeps the client right: once nothing is under way every to-do
\* is shown as it is unless the event of its last change was lost, whatever the
\* order of the jobs, however often they are delivered, and however pulls and
\* events overtake one another.
EventsSuffice ==
    /\ jobs = {} /\ hub = <<>> /\ tasks = <<>> /\ pull.phase = "idle"
    => \A t \in Todos : Stale(t) => t \in lost

\* pullTodo's comment: "Freeze the initial table HEAD across every live-backfill
\* page.  Later writes remain beyond that boundary for incremental pulls."  When
\* nothing is under way, the next pull brings every change that did not get behind
\* the checkpoint.
LaterWritesArePulled ==
    /\ jobs = {} /\ hub = <<>> /\ tasks = <<>> /\ pull.phase = "idle"
    => \A t \in Todos : Stale(t) /\ OutOfReach(t) => t \in skipped
=============================================================================
