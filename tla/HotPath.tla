------------------------------ MODULE HotPath ------------------------------
(***************************************************************************)
(* The hot path: the Kafka consumer that buckets trip events into event-   *)
(* time tumbling windows held in memory and upserts them into PostgreSQL   *)
(* (hot_path/consumer.py, windows.py, db.py).                              *)
(*                                                                         *)
(* Three stores outlive the process: the topic `log', the group's          *)
(* `committed' offsets and the PostgreSQL `table'.  Everything else is     *)
(* process memory, lost when the container stops.  The steps are the       *)
(* points at which the outside world can tell two states of the loop       *)
(* apart: a poll (with the eviction of closed windows that follows it in   *)
(* the same iteration), a database transaction, an offset commit.          *)
(*                                                                         *)
(* The metrics of a (window, zone) cell are sums over the events added to  *)
(* it, so a cell is modelled by HOW OFTEN each message was added: a lost   *)
(* event is a 0, a double count a 2, whatever the metric.                  *)
(***************************************************************************)
EXTENDS Integers, Sequences, FiniteSetsExt

CONSTANTS
    Partitions,        \* the topic's partitions (one in docker-compose.yml)
    TripZones,         \* the zone_id values a trip may carry, None among them or not
    None,              \* Python's None: no zone, and the key of the citywide rollup
    Poison,            \* a message that does not parse as a TripEventView
    Size,              \* WINDOW_MINUTES
    Grace,             \* GRACE_MINUTES
    Hour,              \* minutes in an hour, the grid windows are floored on
    MaxTime,           \* bound: pickup times are 0 .. MaxTime minutes
    MaxLog,            \* bound: messages per partition
    MaxDisorder,       \* how far behind the newest pickup an event may arrive
    MaxStops,          \* bound: crashes and shutdowns
    MaxWriteFailures   \* bound: transactions PostgreSQL refuses

ASSUME SizeAssumption == Size \in Nat \ {0}
ASSUME GraceAssumption == Grace \in Nat
ASSUME HourAssumption == Hour \in Nat \ {0}
ASSUME BoundsAssumption ==
    /\ MaxTime \in Nat
    /\ MaxLog \in Nat
    /\ MaxDisorder \in Nat
    /\ MaxStops \in Nat
    /\ MaxWriteFailures \in Nat

Time == 0 .. MaxTime
Offset == 0 .. MaxLog - 1
NoOffset == -1
NoTime == -1

Event == [time : Time, zone : TripZones]
Message == Event \cup {Poison}
ASSUME PoisonAssumption == Poison \notin Event

MsgId == Partitions \X Offset
Keys == TripZones \cup {None}

(***************************************************************************)
(* window_start_for: the MINUTE OF THE HOUR is floored to a multiple of    *)
(* the window size, not the time since some epoch.                         *)
(***************************************************************************)
WindowStart(t) == t - ((t % Hour) % Size)

Starts == {WindowStart(t) : t \in Time}

(***************************************************************************)
(* Aggregates: an absent cell of the zones dict is one nothing was added   *)
(* to.                                                                     *)
(***************************************************************************)
Aggregate == [MsgId -> Nat]
Nothing == [m \in MsgId |-> 0]

AggregateAdd(zones, key, m) == [zones EXCEPT ![key][m] = @ + 1]

Window == [zones : [Keys -> Aggregate],
           min_offsets : [Partitions -> Offset \cup {NoOffset}]]

NewWindow == [zones |-> [k \in Keys |-> Nothing],
              min_offsets |-> [p \in Partitions |-> NoOffset]]

\* for key in (zone, None): the two keys are the same for a trip with no zone.
WindowAdd(w, e, p, o) ==
    [zones |-> AggregateAdd(AggregateAdd(w.zones, e.zone, <<p, o>>),
                            None, <<p, o>>),
     min_offsets |-> [w.min_offsets EXCEPT
                        ![p] = IF @ = NoOffset \/ o < @ THEN o ELSE @]]

Row == [agg : Aggregate, is_final : BOOLEAN]
NoRow == [agg |-> Nothing, is_final |-> FALSE]

VARIABLES
    log,            \* the topic: one sequence of messages per partition
    committed,      \* the consumer group's committed offsets
    table,          \* trip_window_metrics, by window start and zone key
    pc,             \* where the process stands in its loop, "down" if nowhere
    position,       \* next offset the consumer fetches
    windows,        \* WindowStore._windows
    watermark,      \* WindowStore._watermark
    last_offsets,   \* WindowStore._last_offsets
    late_events,    \* WindowStore.late_events
    closing,        \* the windows of `closed' in main(): evicted, not yet written
    stops,          \* how many times the process has stopped
    writeFailures   \* how many transactions PostgreSQL has refused

store == <<windows, watermark, last_offsets, late_events>>
durable == <<log, committed, table>>
vars == <<log, committed, table, pc, position, windows, watermark,
          last_offsets, late_events, closing, stops, writeFailures>>

NoWindows == [s \in {} |-> NewWindow]

PCs == {"down", "poll", "finalize", "commit", "stopwrite", "stopcommit"}

Init ==
    /\ log = [p \in Partitions |-> <<>>]
    /\ committed = [p \in Partitions |-> 0]
    /\ table = [c \in Starts \X Keys |-> NoRow]
    /\ pc = "down"
    /\ position = [p \in Partitions |-> 0]
    /\ windows = NoWindows
    /\ watermark = NoTime
    /\ last_offsets = [p \in Partitions |-> NoOffset]
    /\ late_events = 0
    /\ closing = NoWindows
    /\ stops = 0
    /\ writeFailures = 0

-----------------------------------------------------------------------------
(***************************************************************************)
(* The environment: the gateway appends a message.  The simulator replays  *)
(* in ascending pickup order (MaxDisorder = 0); retries, several clients   *)
(* or a second replay of earlier dates make it larger.                     *)
(***************************************************************************)
InOrder(e) ==
    \A p \in Partitions : \A i \in DOMAIN log[p] :
        log[p][i] # Poison => log[p][i].time <= e.time + MaxDisorder

Produce(p) ==
    /\ Len(log[p]) < MaxLog
    /\ \E m \in Message :
        /\ m # Poison => InOrder(m)
        /\ log' = [log EXCEPT ![p] = Append(@, m)]
    /\ UNCHANGED <<committed, table, pc, position, store, closing, stops,
                   writeFailures>>

-----------------------------------------------------------------------------
(***************************************************************************)
(* WindowStore                                                             *)
(***************************************************************************)
\* Mutants: no grace, windows without length, a strict comparison.
ClosedWithoutGrace(s, wm) == wm # NoTime /\ s + Size <= wm
ClosedAtStart(s, wm) == wm # NoTime /\ s + Grace <= wm
ClosedStrictly(s, wm) == wm # NoTime /\ s + Size + Grace < wm

\* A window starting at s has been passed, grace included, by the watermark wm.
Closed(s, wm) == wm # NoTime /\ s + Size + Grace <= wm

\* take_closed_rows: evict every closed window; what is evicted gets written.
TakeClosed(ws, wm) ==
    LET closed == {s \in DOMAIN ws : Closed(s, wm)} IN
    /\ closing' = [s \in closed |-> ws[s]]
    /\ windows' = [s \in DOMAIN ws \ closed |-> ws[s]]
    /\ pc' = IF closed = {} THEN "poll" ELSE "finalize"

\* A window that is neither open nor closed yet is opened; a window that was
\* closed and evicted is not reopened.  Mutant: it is.
AcceptsLate(s) == s \in Starts

Accepts(s) == s \in DOMAIN windows \/ ~Closed(s, watermark)

\* Mutant: a window no message of the partition fed is not skipped.
OpenMinsUnfiltered(p) == {windows[s].min_offsets[p] : s \in DOMAIN windows}

OpenMins(p) ==
    {windows[s].min_offsets[p] : s \in DOMAIN windows} \ {NoOffset}

\* Mutant: commit what was consumed.
CommitConsumed(p) ==
    IF last_offsets[p] = NoOffset THEN committed[p] ELSE last_offsets[p] + 1

\* safe_commit_offsets: the first offset of the oldest open window, or one past
\* the last message.  A partition nothing was read from is not committed.
SafeCommitOffset(p) ==
    IF last_offsets[p] = NoOffset THEN committed[p]
    ELSE IF OpenMins(p) = {} THEN last_offsets[p] + 1
    ELSE Min(OpenMins(p))

-----------------------------------------------------------------------------
(***************************************************************************)
(* MetricsSink.write: one transaction that SETs a row for every non-empty  *)
(* cell of the windows given, and leaves every other row alone.            *)
(***************************************************************************)
\* Mutant: a row that was final stays marked so.
UpsertKeepsFinal(ws, final) ==
    table' = [c \in Starts \X Keys |->
                IF c[1] \in DOMAIN ws /\ ws[c[1]].zones[c[2]] # Nothing
                THEN [agg |-> ws[c[1]].zones[c[2]], is_final |-> final \/ table[c].is_final]
                ELSE table[c]]

Upsert(ws, final) ==
    table' = [c \in Starts \X Keys |->
                IF c[1] \in DOMAIN ws /\ ws[c[1]].zones[c[2]] # Nothing
                THEN [agg |-> ws[c[1]].zones[c[2]], is_final |-> final]
                ELSE table[c]]

\* A transaction that fails is rolled back and raises out of the loop.
WriteFails ==
    /\ writeFailures < MaxWriteFailures
    /\ writeFailures' = writeFailures + 1
    /\ UNCHANGED table

-----------------------------------------------------------------------------
(***************************************************************************)
(* The consumer loop                                                       *)
(***************************************************************************)
\* Mutant: the group has no stable id, so a restart reads from the beginning.
StartFromEarliest ==
    /\ pc = "down"
    /\ pc' = "poll"
    /\ position' = [p \in Partitions |-> 0]
    /\ UNCHANGED <<durable, store, closing, stops, writeFailures>>

\* connect, apply_schema, subscribe: a fresh store, reading from the commit.
Start ==
    /\ pc = "down"
    /\ pc' = "poll"
    /\ position' = committed
    /\ UNCHANGED <<durable, store, closing, stops, writeFailures>>

Fetched(p) == log[p][position[p] + 1]

CanPoll(p) == pc = "poll" /\ position[p] < Len(log[p])

Consume(p) ==
    /\ position' = [position EXCEPT ![p] = @ + 1]
    /\ last_offsets' = [last_offsets EXCEPT ![p] = position[p]]
    /\ UNCHANGED <<durable, stops, writeFailures>>

\* A trip is added to its window and moves the watermark up to its pickup.
PollTrip(p) ==
    /\ CanPoll(p)
    /\ Fetched(p) # Poison
    /\ LET e == Fetched(p)
           s == WindowStart(e.time)
           w == IF s \in DOMAIN windows THEN windows[s] ELSE NewWindow
           added == WindowAdd(w, e, p, position[p])
           wm == IF watermark = NoTime \/ e.time > watermark
                 THEN e.time ELSE watermark
       IN /\ Accepts(s)
          /\ watermark' = wm
          /\ TakeClosed([x \in DOMAIN windows \cup {s} |->
                            IF x = s THEN added ELSE windows[x]], wm)
    /\ Consume(p)
    /\ UNCHANGED late_events

\* Mutant: a late event is dropped without being counted.
PollLateSilently(p) ==
    /\ CanPoll(p)
    /\ Fetched(p) # Poison
    /\ ~Accepts(WindowStart(Fetched(p).time))
    /\ TakeClosed(windows, watermark)
    /\ Consume(p)
    /\ UNCHANGED <<watermark, late_events>>

\* A late event is counted, not aggregated, and does not move the watermark.
PollLate(p) ==
    /\ CanPoll(p)
    /\ Fetched(p) # Poison
    /\ ~Accepts(WindowStart(Fetched(p).time))
    /\ late_events' = late_events + 1
    /\ TakeClosed(windows, watermark)
    /\ Consume(p)
    /\ UNCHANGED watermark

\* A poison message is stepped over; its offset is noted.
PollPoison(p) ==
    /\ CanPoll(p)
    /\ Fetched(p) = Poison
    /\ TakeClosed(windows, watermark)
    /\ Consume(p)
    /\ UNCHANGED <<watermark, late_events>>

\* poll() returns None, a partition EOF or an unknown topic.
PollNothing ==
    /\ pc = "poll"
    /\ TakeClosed(windows, watermark)
    /\ UNCHANGED <<durable, position, watermark, last_offsets, late_events,
                   stops, writeFailures>>

\* sink.write(closed)
WriteClosed ==
    /\ pc = "finalize"
    /\ Upsert(closing, TRUE)
    /\ pc' = "commit"
    /\ closing' = NoWindows
    /\ UNCHANGED <<log, committed, position, store, stops, writeFailures>>

\* The exception leaves the loop for `finally'; the evicted windows are gone.
WriteClosedFails ==
    /\ pc = "finalize"
    /\ WriteFails
    /\ pc' = "stopwrite"
    /\ closing' = NoWindows
    /\ UNCHANGED <<log, committed, position, store, stops>>

\* _commit: the request may fail for some partitions; the exception is logged.
CommitOffsets ==
    \E landed \in SUBSET Partitions :
        committed' = [p \in Partitions |->
                        IF p \in landed THEN SafeCommitOffset(p)
                        ELSE committed[p]]

Commit ==
    /\ pc = "commit"
    /\ CommitOffsets
    /\ pc' = "poll"
    /\ UNCHANGED <<log, table, position, store, closing, stops, writeFailures>>

\* Mutant: the liveness flush commits what was consumed.
FlushAndCommit ==
    /\ pc = "poll"
    /\ Upsert(windows, FALSE)
    /\ committed' = position
    /\ UNCHANGED <<log, pc, position, store, closing, stops, writeFailures>>

\* The liveness flush: every open window as non-final rows, no commit.
Flush ==
    /\ pc = "poll"
    /\ Upsert(windows, FALSE)
    /\ UNCHANGED <<log, committed, pc, position, store, closing, stops,
                   writeFailures>>

FlushFails ==
    /\ pc = "poll"
    /\ windows # NoWindows
    /\ WriteFails
    /\ pc' = "stopwrite"
    /\ UNCHANGED <<log, committed, position, store, closing, stops>>

-----------------------------------------------------------------------------
(***************************************************************************)
(* Stopping                                                                *)
(***************************************************************************)
\* SIGTERM: the flag is tested between iterations.
RequestShutdown ==
    /\ pc = "poll"
    /\ stops < MaxStops
    /\ stops' = stops + 1
    /\ pc' = "stopwrite"
    /\ UNCHANGED <<durable, position, store, closing, writeFailures>>

\* The end of the process: memory is gone.
Exit ==
    /\ pc' = "down"
    /\ windows' = NoWindows
    /\ watermark' = NoTime
    /\ last_offsets' = [p \in Partitions |-> NoOffset]
    /\ late_events' = 0
    /\ closing' = NoWindows

\* finally: sink.write(store.open_rows()) ...
StopWrite ==
    /\ pc = "stopwrite"
    /\ Upsert(windows, FALSE)
    /\ pc' = "stopcommit"
    /\ UNCHANGED <<log, committed, position, store, closing, stops,
                   writeFailures>>

\* ... whose failure skips the commit ...
StopWriteFails ==
    /\ pc = "stopwrite"
    /\ windows # NoWindows
    /\ WriteFails
    /\ Exit
    /\ UNCHANGED <<log, committed, position, stops>>

\* ... and then the commit.
StopCommit ==
    /\ pc = "stopcommit"
    /\ CommitOffsets
    /\ Exit
    /\ UNCHANGED <<log, table, position, stops, writeFailures>>

\* SIGKILL, the OOM killer, a lost host, or a connection that broke.
Crash ==
    /\ pc # "down"
    /\ stops < MaxStops
    /\ stops' = stops + 1
    /\ Exit
    /\ UNCHANGED <<durable, position, writeFailures>>

-----------------------------------------------------------------------------
Poll(p) == PollTrip(p) \/ PollLate(p) \/ PollPoison(p)

Next ==
    \/ \E p \in Partitions : Produce(p) \/ Poll(p)
    \/ PollNothing
    \/ WriteClosed \/ WriteClosedFails
    \/ Commit
    \/ Flush \/ FlushFails
    \/ RequestShutdown
    \/ StopWrite \/ StopWriteFails \/ StopCommit
    \/ Crash \/ Start

Spec == Init /\ [][Next]_vars

(***************************************************************************)
(* The loop runs: a message at the fetch position is polled, a write and a *)
(* commit return, the liveness flush comes round every                     *)
(* FLUSH_INTERVAL_SECONDS, and `restart: unless-stopped' starts a stopped  *)
(* container.  Nothing forces a trip to be produced or a fault to happen.  *)
(***************************************************************************)
Fairness ==
    /\ \A p \in Partitions : WF_vars(Poll(p))
    /\ WF_vars(WriteClosed)
    /\ WF_vars(Commit)
    /\ WF_vars(Flush)
    /\ WF_vars(StopWrite)
    /\ WF_vars(StopCommit)
    /\ WF_vars(Start)

FairSpec == Spec /\ Fairness
-----------------------------------------------------------------------------
(***************************************************************************)
(* What is true of the topic, independently of how it was consumed.        *)
(***************************************************************************)
Trips == {m \in MsgId : m[2] < Len(log[m[1]]) /\ log[m[1]][m[2] + 1] # Poison}

Trip(m) == log[m[1]][m[2] + 1]

\* The cells trip m belongs to: its zone's and the citywide one.
CellsOf(m) == {WindowStart(Trip(m).time)} \X {Trip(m).zone, None}

\* A cell computed from scratch from every trip below the offsets `upto'.
Recount(c, upto) ==
    [m \in MsgId |->
        IF m \in Trips /\ m[2] < upto[m[1]] /\ c \in CellsOf(m) THEN 1 ELSE 0]

LogEnd == [p \in Partitions |-> Len(log[p])]

-----------------------------------------------------------------------------
(***************************************************************************)
(* Properties                                                              *)
(***************************************************************************)
\* Every variable has the type of the field it stands for.
WindowMap(ws) ==
    /\ DOMAIN ws \subseteq Starts
    /\ \A s \in DOMAIN ws : ws[s] \in Window

TypeOK ==
    /\ log \in [Partitions -> Seq(Message)]
    /\ \A p \in Partitions : Len(log[p]) <= MaxLog
    /\ committed \in [Partitions -> Nat]
    /\ table \in [Starts \X Keys -> Row]
    /\ pc \in PCs
    /\ position \in [Partitions -> Nat]
    /\ WindowMap(windows)
    /\ watermark \in Time \cup {NoTime}
    /\ last_offsets \in [Partitions -> Offset \cup {NoOffset}]
    /\ late_events \in Nat
    /\ WindowMap(closing)
    /\ stops \in 0 .. MaxStops
    /\ writeFailures \in 0 .. MaxWriteFailures

\* Whatever the order of the events, the number of partitions, the crashes and
\* the failed writes: the group's committed offset is never past the first
\* message of a window that is still open (windows.py:30-32, "only ever commits
\* min(offset) across windows still open").  A window that was evicted and whose
\* write was refused is not open any more: the commit of the shutdown does pass
\* it (consumer.py:198-199), which CommittedTripsAreFinal is about.
CommitFloor ==
    \A p \in Partitions :
        /\ committed[p] <= Len(log[p])
        /\ \A s \in DOMAIN windows :
            windows[s].min_offsets[p] # NoOffset
                => committed[p] <= windows[s].min_offsets[p]

\* A committed offset never moves backwards, although each commit is computed
\* from memory that a restart has emptied (consumer.py _commit).
CommittedNeverGoesBack ==
    [][\A p \in Partitions : committed'[p] >= committed[p]]_vars

\* An open window holds every trip of its time that the consumer has read past,
\* each once: after a restart it is rebuilt in full (windows.py:32-35).
OpenWindowsComplete ==
    \A s \in DOMAIN windows : \A k \in Keys :
        windows[s].zones[k] = Recount(<<s, k>>, position)

\* A row marked final counts every trip of its window and zone in the topic,
\* each once (windows.py:12-14, 27-35).
FinalRowsExact ==
    \A c \in Starts \X Keys :
        table[c].is_final => table[c].agg = Recount(c, LogEnd)

\* Committing past a trip is forgetting it: it must already be in the final
\* rows of its zone and of the city (db.py:121-122, "offsets must not advance
\* past a failed write").
CommittedTripsAreFinal ==
    \A m \in Trips : m[2] < committed[m[1]] =>
        \A c \in CellsOf(m) : table[c].is_final /\ table[c].agg[m] >= 1

\* A row marked final is not written again with anything else (schema.sql:32-34,
\* "the row will not change again").
FinalRowsNeverChange ==
    [][\A c \in Starts \X Keys :
        table[c].is_final => table'[c] = table[c]]_vars

\* Nothing is silently dropped: every trip read is in an open window, in an
\* evicted one, in a final row, or in the late counter, and in just one of
\* them (windows.py:146-147, "counted, not silently dropped").
InWindow(ws, m) == \E s \in DOMAIN ws : ws[s].zones[None][m] > 0
InFinalRow(m) ==
    \E s \in Starts : table[<<s, None>>].is_final /\ table[<<s, None>>].agg[m] > 0

EveryTripAccountedFor ==
    LET read == {m \in Trips : m[2] < position[m[1]]}
        open == {m \in read : InWindow(windows, m)}
        evicted == {m \in read : InWindow(closing, m)}
        final == {m \in read : InFinalRow(m)}
    IN pc # "down" =>
        Cardinality(read) = Cardinality(open) + Cardinality(evicted)
                              + Cardinality(final) + late_events

\* With arrival no more out of order than the grace period nothing is late, in
\* one life of a consumer of one partition (windows.py:19-20, "the grace period
\* absorbs mild out-of-order arrival").
WithinGrace ==
    \A p \in Partitions : \A j \in DOMAIN log[p] : \A i \in 1 .. j :
        log[p][i] # Poison /\ log[p][j] # Poison
            => log[p][i].time <= log[p][j].time + Grace
NothingIsLate == WithinGrace => late_events = 0

\* Every trip gets to the dashboard, and from some point on stays there,
\* whatever is dropped and rebuilt in between (consumer.py:9-14).
Visible(m) == m \in Trips /\ \A c \in CellsOf(m) : table[c].agg[m] = 1

EveryTripBecomesVisible ==
    \A m \in MsgId : [](m \in Trips => <>[]Visible(m))

\* Every window that the topic's events have passed, grace included, ends up
\* final for good, even when a crash made a final row provisional again.
Passed(m) ==
    m \in Trips /\ \E n \in Trips :
        WindowStart(Trip(m).time) + Size + Grace <= Trip(n).time
Finalized(m) == m \in Trips /\ \A c \in CellsOf(m) : table[c].is_final

PassedWindowsBecomeFinal ==
    \A m \in MsgId : [](Passed(m) => <>[]Finalized(m))
=============================================================================
