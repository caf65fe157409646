------------------------------ MODULE ColdPath ------------------------------
(***************************************************************************)
(* The batch layer: two Airflow DAGs over one lake, one staging table and  *)
(* one serving table.                                                      *)
(*                                                                         *)
(*   backfill     bulk_load of every month, aggregate_history, merge       *)
(*   incremental  stream_to_lake, aggregate_daily, merge, every 3 minutes  *)
(*                                                                         *)
(* Each DAG runs once at a time; the two interleave.  A trip is modelled   *)
(* by its natural key, so that trips the lake cannot tell apart are one    *)
(* member of Trips, and a rollup row by how often it counts each trip:     *)
(* all its metrics are functions of that.  A row that counts nothing does  *)
(* not exist.                                                              *)
(***************************************************************************)
EXTENDS Integers, Sequences, FiniteSets

CONSTANTS
    Trips,      \* natural keys of trips
    Pickup,     \* pickup_datetime of each
    DayOf,      \* the date of that
    Zone,       \* pickup_location.zone_id of each, or Citywide for NULL
    Zones,      \* the zones
    Citywide,   \* the NULL zone_id of a day's own row
    Cutoff,     \* config.CUTOFF
    CutoffDay,  \* its date, the default of --since
    Months,     \* the months of MONTHS, each at or before the cutoff
    DaysOf,     \* the days of each
    RawFile,    \* the trips in each month's raw file, strays included
    Replayed,   \* the trips producers may send
    NoTable,    \* the staging table before its first aggregation
    MaxLoads,   \* max_active_tis_per_dag of bulk_load
    Retries,    \* its retries
    MaxLog,     \* bound: messages on the topic
    MaxFaults,   \* bound: trims, failures and resets together
    MaxBackfills \* bound: triggers of the backfill

Days == {DayOf[t] : t \in Trips}
History == {t \in Trips : Pickup[t] <= Cutoff}

ASSUME TripsAssumption ==
    /\ Pickup \in [Trips -> Int]
    /\ DayOf \in [Trips -> Int]
    /\ Zone \in [Trips -> Zones \cup {Citywide}]
    /\ Citywide \notin Zones
ASSUME CutoffAssumption ==
    /\ Cutoff \in Int
    /\ CutoffDay \in Int
    /\ \A t \in Trips : Pickup[t] > Cutoff => DayOf[t] >= CutoffDay
\* The cutoff is the last instant of its day, 23:59:59 as configured.
ASSUME CutoffEndsItsDay ==
    \A t \in History, u \in Trips \ History : DayOf[t] # DayOf[u]
Stream == "stream"
ASSUME MonthsAssumption ==
    /\ DaysOf \in [Months -> SUBSET Int]
    /\ RawFile \in [Months -> SUBSET Trips]
    /\ Stream \notin Months
    /\ Replayed \subseteq Trips
    /\ \A m, n \in Months : m # n => DaysOf[m] \cap DaysOf[n] = {}
ASSUME BoundsAssumption ==
    {MaxLoads, Retries, MaxLog, MaxFaults, MaxBackfills} \subseteq Nat

Dags == {"backfill", "incremental"}
Other(d) == IF d = "backfill" THEN "incremental" ELSE "backfill"
Writers == Months \cup {Stream}

VARIABLES
    topic,      \* what retention has left of the topic, oldest first
    lake,       \* how many copies of each trip the lake holds
    writing,    \* the days each lake writer has yet to replace
    recount,    \* the rows stream_to_lake is writing
    loads,      \* each month's bulk_load: "none", "running", "done", "failed"
    attempts,   \* its failed attempts
    pc,        \* the task each DAG is at, "idle" between runs
    unstaged,   \* rollup rows an aggregation has yet to insert
    staging,    \* cold_daily_zone_metrics_staging
    serving,    \* cold_daily_zone_metrics
    created,    \* does the serving table exist?
    published,  \* auxiliary: the last backfill run succeeded
    shared,     \* auxiliary: the DAGs have used the staging table at once
    trims,       \* messages retention has removed
    failures,    \* tasks, other than loads, that died on their own
    resets,      \* fresh serving-store volumes
    backfills    \* triggers of the backfill

lakeVars == <<topic, lake, writing, recount, loads, attempts>>
stores == <<unstaged, staging, serving, created>>
counters == <<trims, failures, resets, backfills>>
vars == <<topic, lake, writing, recount, loads, attempts, pc,
          unstaged, staging, serving, created, published, shared, trims,
          failures, resets, backfills>>

Nothing == [t \in Trips |-> 0]
Keys == Days \X (Zones \cup {Citywide})

Init ==
    /\ topic = <<>>
    /\ lake = Nothing
    /\ writing = [w \in Writers |-> {}]
    /\ recount = Nothing
    /\ loads = [m \in Months |-> "none"]
    /\ attempts = [m \in Months |-> 0]
    /\ pc = [d \in Dags |-> "idle"]
    /\ unstaged = [d \in Dags |-> {}]
    /\ staging = NoTable
    /\ serving = [k \in Keys |-> Nothing]
    /\ created = FALSE
    /\ published = FALSE
    /\ shared = FALSE
    /\ trims = 0
    /\ failures = 0
    /\ resets = 0
    /\ backfills = 0

-----------------------------------------------------------------------------
(***************************************************************************)
(* The world: producers, replays included, append; retention removes;      *)
(* someone recreates the serving store's volume.                           *)
(***************************************************************************)
FaultsLeft == trims + failures + resets < MaxFaults

Produce ==
    /\ Len(topic) + trims < MaxLog
    /\ \E t \in Replayed : topic' = Append(topic, t)
    /\ UNCHANGED <<lake, writing, recount, loads, attempts, pc,
                   stores, published, shared, counters>>

Trim ==
    /\ FaultsLeft
    /\ topic # <<>>
    /\ topic' = Tail(topic)
    /\ trims' = trims + 1
    /\ UNCHANGED <<lake, writing, recount, loads, attempts, pc,
                   stores, published, shared, failures, resets, backfills>>

FreshVolume ==
    /\ FaultsLeft
    /\ resets' = resets + 1
    /\ created' = FALSE
    /\ serving' = [k \in Keys |-> Nothing]
    /\ staging' = NoTable
    /\ UNCHANGED <<lakeVars, pc, unstaged, published, shared, trims,
                   failures, backfills>>

-----------------------------------------------------------------------------
(***************************************************************************)
(* A failed task ends its run: the tasks after it never start.             *)
(***************************************************************************)

\* Mutant: the merge runs however the aggregation ended.
MergeAnyway(d) ==
    /\ pc' = [pc EXCEPT ![d] = IF @ = "staging" THEN "defining" ELSE "idle"]
    /\ unstaged' = [unstaged EXCEPT ![d] = {}]

EndRun(d) ==
    /\ pc' = [pc EXCEPT ![d] = "idle"]
    /\ unstaged' = [unstaged EXCEPT ![d] = {}]

TaskFails(d) ==
    /\ FaultsLeft
    /\ pc[d] \notin {"idle", "loading"}
    /\ EndRun(d)
    /\ IF d = "incremental"
       THEN /\ writing' = [writing EXCEPT ![Stream] = {}]
            /\ recount' = Nothing
       ELSE UNCHANGED <<writing, recount>>
    /\ failures' = failures + 1
    /\ UNCHANGED <<topic, lake, loads, attempts, staging, serving, created,
                   published, shared, trims, resets, backfills>>

(***************************************************************************)
(* ensure_schema: CREATE TABLE IF NOT EXISTS.  It runs beside the Spark    *)
(* tasks, but only the merge looks at the table, so that the last moment   *)
(* before the merge is the only one worth telling apart.                   *)
(***************************************************************************)
EnsureSchema(d) ==
    /\ pc[d] = "defining"
    /\ created' = TRUE
    /\ pc' = [pc EXCEPT ![d] = "merging"]
    /\ UNCHANGED <<lakeVars, unstaged, staging, serving, published, shared,
                   counters>>

-----------------------------------------------------------------------------
(***************************************************************************)
(* stream_to_lake.  Both writers replace exactly the partitions they have  *)
(* rows for, one day after the other.                                      *)
(***************************************************************************)
ReplaceDay(day, rows) ==
    lake' = [t \in Trips |-> IF DayOf[t] = day THEN rows[t] ELSE lake[t]]

Copies(log, t) == Cardinality({i \in DOMAIN log : log[i] = t})

\* Mutant: the filter keeps the instant of the cutoff itself.
FromCutoff(t) == Pickup[t] >= Cutoff

PostCutoff(t) == Pickup[t] > Cutoff

\* Mutant: duplicates are kept.
AsTheyAre(n) == n

Deduplicated(n) == IF n > 0 THEN 1 ELSE 0

RecountOf(log) ==
    [t \in Trips |-> IF PostCutoff(t) THEN Deduplicated(Copies(log, t)) ELSE 0]
Recount == RecountOf(topic)

StartIncremental ==
    /\ pc["incremental"] = "idle"
    /\ pc' = [pc EXCEPT !["incremental"] = "reading"]
    /\ UNCHANGED <<lakeVars, stores, published, shared, counters>>

ReadTopic ==
    /\ pc["incremental"] = "reading"
    /\ recount' = Recount
    /\ writing' = [writing EXCEPT
                     ![Stream] = {DayOf[t] : t \in {u \in Trips : Recount[u] > 0}}]
    /\ pc' = [pc EXCEPT !["incremental"] =
                IF writing'[Stream] = {} THEN "aggregating" ELSE "writing"]
    /\ UNCHANGED <<topic, lake, loads, attempts, stores, published, shared,
                   counters>>

WriteStreamDay ==
    /\ pc["incremental"] = "writing"
    /\ \E day \in writing[Stream] :
        /\ ReplaceDay(day, recount)
        /\ writing' = [writing EXCEPT ![Stream] = @ \ {day}]
    /\ IF writing'[Stream] = {}
       THEN /\ recount' = Nothing
            /\ pc' = [pc EXCEPT !["incremental"] = "aggregating"]
       ELSE UNCHANGED <<recount, pc>>
    /\ UNCHANGED <<topic, loads, attempts, stores, published, shared, counters>>

-----------------------------------------------------------------------------
(***************************************************************************)
(* bulk_load, one mapped task per month.                                   *)
(***************************************************************************)
Adapted(m) == {t \in RawFile[m] : DayOf[t] \in DaysOf[m]}

UpToCutoff(trips) == {t \in trips : Pickup[t] <= Cutoff}

MonthRows(m) == [t \in Trips |-> IF t \in UpToCutoff(Adapted(m)) THEN 1 ELSE 0]

StartBackfill ==
    /\ backfills < MaxBackfills
    /\ pc["backfill"] = "idle"
    /\ pc' = [pc EXCEPT !["backfill"] = "loading"]
    /\ published' = FALSE
    /\ backfills' = backfills + 1
    /\ UNCHANGED <<lakeVars, stores, shared, trims, failures, resets>>

LoadMonth(m) ==
    /\ pc["backfill"] = "loading"
    /\ loads[m] = "none"
    /\ Cardinality({n \in Months : loads[n] = "running"}) < MaxLoads
    /\ writing' = [writing EXCEPT ![m] = {DayOf[t] : t \in UpToCutoff(Adapted(m))}]
    /\ loads' = [loads EXCEPT ![m] =
                   IF writing'[m] = {} THEN "done" ELSE "running"]
    /\ UNCHANGED <<topic, lake, recount, attempts, pc, stores, published,
                   shared, counters>>

WriteMonthDay(m) ==
    /\ \E day \in writing[m] :
        /\ ReplaceDay(day, MonthRows(m))
        /\ writing' = [writing EXCEPT ![m] = @ \ {day}]
    /\ loads' = [loads EXCEPT ![m] =
                   IF writing'[m] = {} THEN "done" ELSE "running"]
    /\ UNCHANGED <<topic, recount, attempts, pc, stores, published, shared,
                   counters>>

\* Mutant: one attempt too many.
RetriesInclusive(m) == attempts[m] <= Retries

RetriesLeft(m) == attempts[m] < Retries

LoadFails(m) ==
    /\ loads[m] = "running"
    /\ loads' = [loads EXCEPT ![m] =
                   IF RetriesLeft(m) THEN "none" ELSE "failed"]
    /\ attempts' = [attempts EXCEPT ![m] = @ + 1]
    /\ writing' = [writing EXCEPT ![m] = {}]
    /\ UNCHANGED <<topic, lake, recount, pc, stores, published, shared, counters>>

\* The next run has task instances of its own.
ForgetLoads ==
    /\ loads' = [m \in Months |-> "none"]
    /\ attempts' = [m \in Months |-> 0]

AllLoaded ==
    /\ pc["backfill"] = "loading"
    /\ \A m \in Months : loads[m] = "done"
    /\ ForgetLoads
    /\ pc' = [pc EXCEPT !["backfill"] = "aggregating"]
    /\ UNCHANGED <<topic, lake, writing, recount, stores, published, shared,
                   counters>>

SomeLoadFailed ==
    /\ pc["backfill"] = "loading"
    /\ \A m \in Months : loads[m] \in {"done", "failed"}
    /\ \E m \in Months : loads[m] = "failed"
    /\ ForgetLoads
    /\ EndRun("backfill")
    /\ UNCHANGED <<topic, lake, writing, recount, staging, serving, created,
                   published, shared, counters>>

-----------------------------------------------------------------------------
(***************************************************************************)
(* aggregate_daily: the write is what makes Spark read, so that the        *)
(* staging table is dropped and recreated first, then the lake is scanned, *)
(* then the rows of the two groupings are inserted.                        *)
(***************************************************************************)
Metrics(grain, day, zone, by) ==
    [by |-> by, grain |-> grain, key |-> <<day, zone>>,
     trips |-> [t \in Trips |->
        IF DayOf[t] = day /\ (grain = "day" \/ Zone[t] = zone)
        THEN lake[t] ELSE 0]]

AtStaging == {"scanning", "staging", "defining", "merging"}

\* Mutant: the backfill aggregates from the default date, too.
SinceCutoff(d) == {day \in Days : day >= CutoffDay}

InScope(d) ==
    {day \in Days : d = "incremental" => day >= CutoffDay}

Rollups(d) ==
    LET rows == {Metrics("zone", k[1], k[2], d) : k \in InScope(d) \X (Zones \cup {Citywide})}
                    \cup {Metrics("day", day, Citywide, d) : day \in InScope(d)}
    IN  {r \in rows : r.trips # Nothing}

\* spark.read fails on a path nothing was ever written to.
NoLake(d) ==
    /\ pc[d] = "aggregating"
    /\ lake = Nothing
    /\ EndRun(d)
    /\ UNCHANGED <<lakeVars, staging, serving, created, published, shared,
                   counters>>

CreateStaging(d) ==
    /\ pc[d] = "aggregating"
    /\ lake # Nothing
    /\ staging' = {}
    /\ shared' = (shared \/ pc[Other(d)] \in AtStaging)
    /\ pc' = [pc EXCEPT ![d] = "scanning"]
    /\ UNCHANGED <<lakeVars, unstaged, serving, created, published, counters>>

\* A file listed by the scan is gone when it is read: the other DAG replaced it.
ScanFails(d) ==
    /\ pc[d] = "scanning"
    /\ IF d = "backfill" THEN writing[Stream] # {}
       ELSE \E m \in Months : writing[m] # {}
    /\ EndRun(d)
    /\ UNCHANGED <<lakeVars, staging, serving, created, published, shared,
                   counters>>

Scan(d) ==
    /\ pc[d] = "scanning"
    /\ unstaged' = [unstaged EXCEPT ![d] = Rollups(d)]
    /\ pc' = [pc EXCEPT ![d] = IF Rollups(d) = {} THEN "defining" ELSE "staging"]
    /\ UNCHANGED <<lakeVars, staging, serving, created, published, shared,
                   counters>>

\* One of the write's transactions.  The rows of one grouping share one here;
\* coalesce leaves that open.
Stage(d) ==
    /\ pc[d] = "staging"
    /\ staging # NoTable
    /\ \E row \in unstaged[d] :
        LET part == {r \in unstaged[d] : r.grain = row.grain}
        IN  /\ staging' = staging \cup part
            /\ unstaged' = [unstaged EXCEPT ![d] = @ \ part]
    /\ pc' = [pc EXCEPT ![d] = IF unstaged'[d] = {} THEN "defining" ELSE "staging"]
    /\ UNCHANGED <<lakeVars, serving, created, published, shared, counters>>

\* The table vanished with its volume while rows were being inserted.
StagingLost(d) ==
    /\ pc[d] = "staging"
    /\ staging = NoTable
    /\ EndRun(d)
    /\ UNCHANGED <<lakeVars, staging, serving, created, published, shared,
                   counters>>

-----------------------------------------------------------------------------
(***************************************************************************)
(* merge_daily.sql: one INSERT ... ON CONFLICT DO UPDATE of whatever the   *)
(* staging table holds.  The statement is refused when it would have to    *)
(* touch a row it has already changed.                                     *)
(***************************************************************************)
StagedFor(k) == IF staging = NoTable THEN {} ELSE {r \in staging : r.key = k}

\* Mutant: ON CONFLICT DO NOTHING.
OnlyNew(k) == {r \in StagedFor(k) : serving[k] = Nothing}

Changing(k) == {r \in StagedFor(k) : r.trips # serving[k]}

Merge(d) ==
    /\ pc[d] = "merging"
    /\ created
    /\ staging # NoTable
    /\ \A k \in Keys : Cardinality(Changing(k)) <= 1
    /\ serving' = [k \in Keys |->
                     IF Changing(k) = {} THEN serving[k]
                     ELSE (CHOOSE r \in Changing(k) : TRUE).trips]
    /\ EndRun(d)
    /\ published' = (published \/ d = "backfill")
    /\ UNCHANGED <<lakeVars, staging, created, shared, counters>>

MergeRefused(d) ==
    /\ pc[d] = "merging"
    /\ \/ ~created
       \/ staging = NoTable
       \/ \E k \in Keys : Changing(k) # {} /\ Cardinality(StagedFor(k)) > 1
    /\ EndRun(d)
    /\ UNCHANGED <<lakeVars, staging, serving, created, published, shared,
                   counters>>

-----------------------------------------------------------------------------
Tasks(d) ==
    \/ EnsureSchema(d)
    \/ NoLake(d)
    \/ ScanFails(d)
    \/ CreateStaging(d)
    \/ Scan(d)
    \/ Stage(d)
    \/ StagingLost(d)
    \/ Merge(d)
    \/ MergeRefused(d)

Incremental ==
    \/ StartIncremental
    \/ ReadTopic
    \/ WriteStreamDay
    \/ Tasks("incremental")

Backfill ==
    \/ \E m \in Months : LoadMonth(m) \/ WriteMonthDay(m)
    \/ AllLoaded
    \/ SomeLoadFailed
    \/ Tasks("backfill")

Next ==
    \/ Produce
    \/ Trim
    \/ FreshVolume
    \/ StartBackfill
    \/ Incremental
    \/ Backfill
    \/ \E d \in Dags : TaskFails(d)
    \/ \E m \in Months : LoadFails(m)

Spec == Init /\ [][Next]_vars

\* The scheduler starts a run of the incremental DAG every three minutes and
\* the tasks of both whenever what they wait for has finished.  Nothing says
\* that anyone triggers the backfill, replays a trip or breaks anything.
FairSpec == Spec /\ WF_vars(Incremental) /\ WF_vars(Backfill)

-----------------------------------------------------------------------------
Row == [by : Dags, grain : {"zone", "day"}, key : Keys, trips : [Trips -> Nat]]
Places == {"idle", "reading", "writing", "loading", "aggregating"} \cup AtStaging

\* Every variable has the type its declaration promises.
TypeOK ==
    /\ topic \in Seq(Trips)
    /\ lake \in [Trips -> Nat]
    /\ recount \in [Trips -> Nat]
    /\ writing \in [Writers -> SUBSET Days]
    /\ loads \in [Months -> {"none", "running", "done", "failed"}]
    /\ attempts \in [Months -> 0 .. Retries + 1]
    /\ pc \in [Dags -> Places]
    /\ unstaged \in [Dags -> SUBSET Row]
    /\ staging = NoTable \/ staging \in SUBSET Row
    /\ serving \in [Keys -> [Trips -> Nat]]
    /\ {created, published, shared} \subseteq BOOLEAN
    /\ {trims, failures, resets, backfills} \subseteq Nat

(***************************************************************************)
(* The two lake writers overwrite partitions of one directory tree.  No    *)
(* write ever takes a trip out of a backfilled day, nor, until retention   *)
(* has removed messages, out of a streamed one: neither writer touches a   *)
(* day of the other's, and a rerun, a retry or a task that died between    *)
(* two days leaves nothing missing that was there.                         *)
(***************************************************************************)
LakeKeepsItsTrips ==
    [][\A t \in Trips : t \in History \/ trims = 0 => lake'[t] >= lake[t]]_vars

\* However often a trip is replayed, and whatever the DAGs stage over each
\* other, no published number counts it twice.
CountedOnce == \A k \in Keys, t \in Trips : serving[k][t] <= 1

\* Why the lake keeps its trips.  Each writer is only ever about to replace
\* days of its own side of the cutoff; a backfilled day holds nothing its
\* month's file does not; and while nothing was removed from the topic, a
\* streamed day holds no more than the recount about to replace it.
WritersApart ==
    /\ \A m \in Months : \A day \in writing[m] :
        day \in DaysOf[m] /\ \E t \in History : DayOf[t] = day
    /\ \A day \in writing[Stream] : \E t \in Trips \ History : DayOf[t] = day
HistoryFromFiles ==
    \A m \in Months, t \in History :
        DayOf[t] \in DaysOf[m] => lake[t] <= MonthRows(m)[t]
StreamGrows ==
    trims = 0 =>
        \A t \in Trips \ History :
            /\ lake[t] <= Recount[t]
            /\ recount[t] <= Recount[t]
            /\ DayOf[t] \in writing[Stream] => lake[t] <= recount[t]
LakeInv ==
    /\ topic \in Seq(Trips)
    /\ trims \in Nat
    /\ lake \in [Trips -> 0 .. 1]
    /\ recount \in [Trips -> 0 .. 1]
    /\ writing \in [Writers -> SUBSET Days]
    /\ WritersApart
    /\ HistoryFromFiles
    /\ StreamGrows

(***************************************************************************)
(* A day's own row counts what the rows of its zones count together,      *)
(* although they come from separate aggregations and are inserted by       *)
(* separate transactions.  Not once the DAGs have shared the staging       *)
(* table, and not for a streamed day that retention has shortened, as the  *)
(* merge never deletes.                                                    *)
(***************************************************************************)
DayTotalsAgree ==
    ~shared /\ trims = 0 =>
        \A t \in Trips :
            serving[<<DayOf[t], Citywide>>][t] = serving[<<DayOf[t], Zone[t]>>][t]

\* After a successful backfill every backfilled day reads as the lake has it.
HistoryPublished ==
    \A t \in History :
        /\ serving[<<DayOf[t], Zone[t]>>][t] = lake[t]
        /\ serving[<<DayOf[t], Citywide>>][t] = lake[t]

\* cold_path_backfill.py: the final tasks of the DAG run together with its
\* loads, so that no month is in the lake and absent from the serving store.
BackfillPublishes == published /\ resets = 0 => HistoryPublished

\* The same, when the DAGs have not shared the staging table.
LoneBackfillPublishes == ~shared => BackfillPublishes

(***************************************************************************)
(* Whatever tasks die and whoever recreates the serving store, the         *)
(* incremental DAG ends up showing every post-cutoff trip on the topic,   *)
(* once, and keeps doing so: until retention removes messages.             *)
(***************************************************************************)
StreamShown ==
    \A k \in Keys, t \in Trips \ History :
        serving[k][t] = IF DayOf[t] = k[1] /\ k[2] \in {Zone[t], Citywide}
                        THEN Recount[t] ELSE 0

EventuallyShown == [](trims = 0) => <>[]StreamShown
=============================================================================
