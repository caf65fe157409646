--------------------------- MODULE ColdPathProofs ---------------------------
(***************************************************************************)
(* What ColdPath guarantees for every set of trips, every cutoff that is   *)
(* the last instant of its day, every calendar of months, any bounds: no   *)
(* writer takes a trip out of the lake, no published number counts a trip  *)
(* twice, a day's total is that of its zones, a backfill that had the      *)
(* staging table to itself is published, and the variables keep their      *)
(* types.                                                                  *)
(***************************************************************************)
EXTENDS ColdPath, FiniteSetTheorems, TLAPS

\* A recount holds a trip once if it is past the cutoff and on the topic.
LEMMA RecountIsPresence ==
    ASSUME NEW log \in Seq(Trips)
    PROVE  /\ RecountOf(log) \in [Trips -> 0 .. 1]
           /\ \A t \in Trips : RecountOf(log)[t] = 1 <=>
                /\ PostCutoff(t)
                /\ \E i \in DOMAIN log : log[i] = t
<1>1. ASSUME NEW t \in Trips
      PROVE  Copies(log, t) > 0 <=> \E i \in DOMAIN log : log[i] = t
  <2> DEFINE at == {i \in DOMAIN log : log[i] = t}
  <2>1. Len(log) \in Nat /\ DOMAIN log = 1 .. Len(log)
    OBVIOUS
  <2>2. IsFiniteSet(1 .. Len(log))
    BY <2>1, FS_Interval
  <2>3. IsFiniteSet(at)
    BY <2>1, <2>2, FS_Subset
  <2>4. Cardinality(at) \in Nat /\ (Cardinality(at) = 0 <=> at = {})
    BY <2>3, FS_CardinalityType, FS_EmptySet
  <2>5. Copies(log, t) = Cardinality(at)
    BY DEF Copies
  <2>6. QED
    BY <2>4, <2>5
<1>2. ASSUME NEW t \in Trips
      PROVE  RecountOf(log)[t]
                = IF PostCutoff(t) /\ Copies(log, t) > 0 THEN 1 ELSE 0
  BY DEF RecountOf, Deduplicated
<1>3. RecountOf(log) \in [Trips -> 0 .. 1]
  BY DEF RecountOf, Deduplicated
<1>4. QED
  BY <1>1, <1>2, <1>3

\* Past the cutoff and part of the history exclude each other.
LEMMA CutoffDivides ==
    ASSUME NEW t \in Trips
    PROVE  PostCutoff(t) <=> t \notin History
  BY TripsAssumption, CutoffAssumption DEF PostCutoff, History

\* A month's rows are its file's trips of its days, up to the cutoff, once.
LEMMA MonthRowsType ==
    ASSUME NEW m \in Months
    PROVE  MonthRows(m) \in [Trips -> 0 .. 1]
  BY DEF MonthRows

-----------------------------------------------------------------------------
(***************************************************************************)
(* The lake                                                                *)
(***************************************************************************)
\* The empty lake.
LEMMA LakeInvInit == Init => LakeInv
<1> SUFFICES ASSUME Init PROVE LakeInv
  OBVIOUS
<1> USE DEF Init, Nothing
<1>1. topic \in Seq(Trips) /\ trims \in Nat
  OBVIOUS
<1>2. /\ lake \in [Trips -> 0 .. 1]
      /\ recount \in [Trips -> 0 .. 1]
      /\ writing \in [Writers -> SUBSET Days]
  OBVIOUS
<1>3. WritersApart
  BY DEF WritersApart, Writers
<1>4. HistoryFromFiles
  BY MonthRowsType DEF HistoryFromFiles, History
<1>5. StreamGrows
  <2>1. Recount \in [Trips -> 0 .. 1]
    BY <1>1, RecountIsPresence DEF Recount
  <2>2. QED
    BY <2>1 DEF StreamGrows
<1>6. QED
  BY <1>1, <1>2, <1>3, <1>4, <1>5 DEF LakeInv

\* What the topic allows a streamed day to hold only grows when trips arrive.
LEMMA RecountGrows ==
    ASSUME NEW log \in Seq(Trips), NEW u \in Trips
    PROVE  /\ Append(log, u) \in Seq(Trips)
           /\ \A t \in Trips : RecountOf(log)[t] <= RecountOf(Append(log, u))[t]
<1>1. Append(log, u) \in Seq(Trips)
  OBVIOUS
<1>2. ASSUME NEW t \in Trips, NEW i \in DOMAIN log, log[i] = t
      PROVE  i \in DOMAIN Append(log, u) /\ Append(log, u)[i] = t
  BY <1>2
<1>3. ASSUME NEW t \in Trips
      PROVE  RecountOf(log)[t] = 1 => RecountOf(Append(log, u))[t] = 1
  BY <1>1, <1>2, RecountIsPresence
<1>4. /\ RecountOf(log) \in [Trips -> 0 .. 1]
      /\ RecountOf(Append(log, u)) \in [Trips -> 0 .. 1]
  BY <1>1, RecountIsPresence
<1>5. QED
  BY <1>1, <1>3, <1>4

\* What LakeInv looks at.
watched == <<topic, lake, writing, recount, trims>>

\* No trip that the lake is bound to keep leaves it in this step.
Kept == \A t \in Trips : t \in History \/ trims = 0 => lake'[t] >= lake[t]

\* A step that leaves the lake, its writers and the topic alone.
LEMMA QuietStep ==
    ASSUME LakeInv, UNCHANGED watched
    PROVE  LakeInv' /\ Kept
<1>1. LakeInv'
  BY DEF watched, LakeInv, WritersApart, HistoryFromFiles, StreamGrows, Recount
<1>2. Kept
  BY DEF watched, Kept, LakeInv
<1>3. QED
  BY <1>1, <1>2

\* A trip arrives on the topic.
LEMMA ProduceStep ==
    ASSUME LakeInv, Produce
    PROVE  LakeInv' /\ Kept
<1>1. PICK u \in Replayed : topic' = Append(topic, u)
  BY DEF Produce
<1>2. topic \in Seq(Trips) /\ u \in Trips
  BY MonthsAssumption DEF LakeInv
<1>3. /\ topic' \in Seq(Trips)
      /\ \A t \in Trips : Recount[t] <= Recount'[t]
  BY <1>1, <1>2, RecountGrows DEF Recount
<1>4. Recount \in [Trips -> 0 .. 1] /\ Recount' \in [Trips -> 0 .. 1]
  BY <1>2, <1>3, RecountIsPresence DEF Recount
<1>5. UNCHANGED <<lake, writing, recount, trims>>
  BY DEF Produce, counters
<1>6. StreamGrows'
  BY <1>3, <1>4, <1>5 DEF LakeInv, StreamGrows
<1>7. WritersApart' /\ HistoryFromFiles'
  BY <1>5 DEF LakeInv, WritersApart, HistoryFromFiles
<1>8. QED
  BY <1>3, <1>5, <1>6, <1>7 DEF LakeInv, Kept

\* Retention removes a message: from here on streamed days may shrink.
LEMMA TrimStep ==
    ASSUME LakeInv, Trim
    PROVE  LakeInv' /\ Kept
<1>1. /\ topic' = Tail(topic)
      /\ topic # <<>>
      /\ trims' = trims + 1
      /\ UNCHANGED <<lake, writing, recount>>
  BY DEF Trim
<1>2. topic' \in Seq(Trips) /\ trims' \in Nat /\ trims' # 0
  BY <1>1 DEF LakeInv
<1>3. StreamGrows'
  BY <1>2 DEF StreamGrows
<1>4. WritersApart' /\ HistoryFromFiles'
  BY <1>1 DEF LakeInv, WritersApart, HistoryFromFiles
<1>5. QED
  BY <1>1, <1>2, <1>3, <1>4 DEF LakeInv, Kept

\* A writer gives up the days it has not replaced.
LEMMA GiveUpStep ==
    ASSUME LakeInv, NEW w \in Writers,
           writing' = [writing EXCEPT ![w] = {}],
           recount' = recount \/ recount' = Nothing,
           w # Stream => recount' = recount,
           UNCHANGED <<topic, lake, trims>>
    PROVE  LakeInv' /\ Kept
<1>1. \A x \in Writers : writing'[x] \subseteq writing[x]
  BY DEF LakeInv
<1>2. writing' \in [Writers -> SUBSET Days]
  BY DEF LakeInv
<1>3. WritersApart'
  BY <1>1 DEF LakeInv, WritersApart, Writers
<1>4. HistoryFromFiles'
  BY DEF LakeInv, HistoryFromFiles
<1>5. Recount \in [Trips -> 0 .. 1] /\ Recount' = Recount
  BY RecountIsPresence DEF LakeInv, Recount
<1>6. recount' \in [Trips -> 0 .. 1]
  BY DEF LakeInv, Nothing
<1>7. w = Stream => writing'[Stream] = {}
  BY DEF LakeInv
<1>8. StreamGrows'
  <2>1. ASSUME NEW t \in Trips PROVE recount'[t] <= recount[t]
    BY DEF Nothing, LakeInv
  <2>2. ASSUME NEW t \in Trips, DayOf[t] \in writing'[Stream]
        PROVE  DayOf[t] \in writing[Stream] /\ recount'[t] = recount[t]
    BY <1>1, <1>7, <2>2 DEF Writers
  <2>3. \A t \in Trips : {lake[t], recount[t], recount'[t], Recount[t]} \subseteq Nat
    BY <1>5, <1>6 DEF LakeInv
  <2>4. QED
    BY <1>5, <2>1, <2>2, <2>3 DEF LakeInv, StreamGrows
<1>9. QED
  BY <1>2, <1>3, <1>4, <1>6, <1>8 DEF LakeInv, Kept

\* A day that one side of the cutoff has trips on, the other has none on.
LEMMA DaysApart ==
    ASSUME NEW t \in History, NEW u \in Trips, DayOf[t] = DayOf[u]
    PROVE  u \in History
  BY CutoffEndsItsDay

\* stream_to_lake takes its recount.
LEMMA ReadTopicStep ==
    ASSUME LakeInv, ReadTopic
    PROVE  LakeInv' /\ Kept
<1> DEFINE days == {DayOf[t] : t \in {u \in Trips : Recount[u] > 0}}
<1>1. /\ recount' = Recount
      /\ writing' = [writing EXCEPT ![Stream] = days]
      /\ UNCHANGED <<topic, lake, trims>>
  BY DEF ReadTopic, counters
<1>2. /\ Recount \in [Trips -> 0 .. 1]
      /\ \A t \in Trips : Recount[t] = 1 => PostCutoff(t)
  BY RecountIsPresence DEF LakeInv, Recount
<1>3. Stream \in Writers /\ \A m \in Months : m \in Writers /\ m # Stream
  BY MonthsAssumption DEF Writers
<1>4. days \subseteq Days
  BY DEF Days
<1>5. writing' \in [Writers -> SUBSET Days]
  BY <1>1, <1>4 DEF LakeInv
<1>6. /\ writing'[Stream] = days
      /\ \A m \in Months : writing'[m] = writing[m]
  BY <1>1, <1>3 DEF LakeInv
<1>7. \A day \in days : \E t \in Trips \ History : DayOf[t] = day
  <2>1. ASSUME NEW t \in Trips, Recount[t] > 0
        PROVE  t \in Trips \ History
    BY <1>2, <2>1, CutoffDivides
  <2>2. QED
    BY <2>1
<1>8. WritersApart'
  BY <1>6, <1>7 DEF LakeInv, WritersApart
<1>9. HistoryFromFiles'
  BY <1>1 DEF LakeInv, HistoryFromFiles
<1>10. Recount' = Recount
  BY <1>1 DEF Recount
<1>11. StreamGrows'
  BY <1>1, <1>2, <1>10 DEF LakeInv, StreamGrows
<1>12. QED
  BY <1>1, <1>2, <1>5, <1>8, <1>9, <1>11 DEF LakeInv, Kept

\* stream_to_lake replaces a day: one that the history has no part of.
LEMMA WriteStreamDayStep ==
    ASSUME LakeInv, WriteStreamDay
    PROVE  LakeInv' /\ Kept
<1>1. PICK day \in writing[Stream] :
        /\ ReplaceDay(day, recount)
        /\ writing' = [writing EXCEPT ![Stream] = @ \ {day}]
  BY DEF WriteStreamDay
<1>2. /\ UNCHANGED <<topic, trims>>
      /\ recount' = recount \/ (recount' = Nothing /\ writing'[Stream] = {})
  BY DEF WriteStreamDay, counters
<1>3. Stream \in Writers /\ \A m \in Months : m \in Writers /\ m # Stream
  BY MonthsAssumption DEF Writers
<1>4. /\ writing' \in [Writers -> SUBSET Days]
      /\ writing'[Stream] = writing[Stream] \ {day}
      /\ \A m \in Months : writing'[m] = writing[m]
  BY <1>1, <1>3 DEF LakeInv
<1>5. ASSUME NEW t \in History PROVE lake'[t] = lake[t]
  <2>1. DayOf[t] # day
    BY DaysApart DEF LakeInv, WritersApart
  <2>2. QED
    BY <1>1, <2>1 DEF ReplaceDay, History
<1>6. ASSUME NEW t \in Trips
      PROVE  /\ DayOf[t] = day => lake'[t] = recount[t]
             /\ DayOf[t] # day => lake'[t] = lake[t]
  BY <1>1 DEF ReplaceDay
<1>7. /\ lake' \in [Trips -> 0 .. 1]
      /\ recount' \in [Trips -> 0 .. 1]
  BY <1>1, <1>2 DEF ReplaceDay, LakeInv, Nothing
<1>8. WritersApart'
  BY <1>4 DEF LakeInv, WritersApart
<1>9. HistoryFromFiles'
  BY <1>5 DEF LakeInv, HistoryFromFiles
<1>10. Recount' = Recount /\ Recount \in [Trips -> 0 .. 1]
  BY <1>2, RecountIsPresence DEF Recount, LakeInv
<1>11. ASSUME NEW t \in Trips \ History, trims = 0
       PROVE  /\ lake[t] <= lake'[t]
              /\ lake'[t] <= Recount[t]
  BY <1>1, <1>6, <1>11 DEF LakeInv, StreamGrows
<1>12. StreamGrows'
  <2>1. ASSUME NEW t \in Trips \ History, trims = 0
        PROVE  recount'[t] <= Recount[t]
    BY <1>2, <1>10, <2>1 DEF LakeInv, StreamGrows, Nothing
  <2>2. ASSUME NEW t \in Trips \ History, trims = 0,
               DayOf[t] \in writing'[Stream]
        PROVE  lake'[t] <= recount'[t]
    BY <1>2, <1>4, <1>6, <2>2 DEF LakeInv, StreamGrows
  <2>3. QED
    BY <1>2, <1>10, <1>11, <2>1, <2>2 DEF StreamGrows
<1>13. Kept
  BY <1>5, <1>7, <1>11 DEF Kept, History
<1>14. QED
  BY <1>2, <1>4, <1>7, <1>8, <1>9, <1>12, <1>13 DEF LakeInv

\* bulk_load takes up a month: its own days, up to the cutoff.
LEMMA LoadMonthStep ==
    ASSUME LakeInv, NEW m \in Months, LoadMonth(m)
    PROVE  LakeInv' /\ Kept
<1> DEFINE days == {DayOf[t] : t \in UpToCutoff(Adapted(m))}
<1>1. /\ writing' = [writing EXCEPT ![m] = days]
      /\ UNCHANGED <<topic, lake, recount, trims>>
  BY DEF LoadMonth, counters
<1>2. Stream \in Writers /\ \A n \in Months : n \in Writers /\ n # Stream
  BY MonthsAssumption DEF Writers
<1>3. \A day \in days : /\ day \in DaysOf[m]
                        /\ day \in Days
                        /\ \E t \in History : DayOf[t] = day
  BY MonthsAssumption DEF UpToCutoff, Adapted, History, Days
<1>4. /\ writing' \in [Writers -> SUBSET Days]
      /\ writing'[m] = days
      /\ \A w \in Writers \ {m} : writing'[w] = writing[w]
  BY <1>1, <1>2, <1>3 DEF LakeInv
<1>5. WritersApart'
  BY <1>2, <1>3, <1>4 DEF LakeInv, WritersApart
<1>6. HistoryFromFiles'
  BY <1>1 DEF LakeInv, HistoryFromFiles
<1>7. StreamGrows'
  BY <1>1, <1>2, <1>4 DEF LakeInv, StreamGrows, Recount
<1>8. QED
  BY <1>1, <1>4, <1>5, <1>6, <1>7 DEF LakeInv, Kept

\* bulk_load replaces a day: by all that its file has for it, and no streamed
\* trip is on it.
LEMMA WriteMonthDayStep ==
    ASSUME LakeInv, NEW m \in Months, WriteMonthDay(m)
    PROVE  LakeInv' /\ Kept
<1>1. PICK day \in writing[m] :
        /\ ReplaceDay(day, MonthRows(m))
        /\ writing' = [writing EXCEPT ![m] = @ \ {day}]
  BY DEF WriteMonthDay
<1>2. UNCHANGED <<topic, recount, trims>>
  BY DEF WriteMonthDay, counters
<1>3. m \in Writers /\ Stream \in Writers /\ m # Stream
  BY MonthsAssumption DEF Writers
<1>4. /\ writing' \in [Writers -> SUBSET Days]
      /\ \A w \in Writers : writing'[w] \subseteq writing[w]
      /\ writing'[Stream] = writing[Stream]
  BY <1>1, <1>3 DEF LakeInv
<1>5. day \in DaysOf[m] /\ \E t \in History : DayOf[t] = day
  BY DEF LakeInv, WritersApart
<1>6. ASSUME NEW t \in Trips \ History PROVE lake'[t] = lake[t]
  <2>1. DayOf[t] # day
    BY <1>5, DaysApart
  <2>2. QED
    BY <1>1, <2>1 DEF ReplaceDay
<1>7. ASSUME NEW t \in Trips
      PROVE  /\ DayOf[t] = day => lake'[t] = MonthRows(m)[t]
             /\ DayOf[t] # day => lake'[t] = lake[t]
  BY <1>1 DEF ReplaceDay
<1>8. lake' \in [Trips -> 0 .. 1]
  BY <1>1, MonthRowsType DEF ReplaceDay, LakeInv
<1>9. ASSUME NEW t \in History PROVE lake[t] <= lake'[t]
  <2>1. t \in Trips /\ lake[t] \in Nat
    BY DEF History, LakeInv
  <2>2. DayOf[t] = day => lake[t] <= MonthRows(m)[t]
    BY <1>5 DEF LakeInv, HistoryFromFiles
  <2>3. QED
    BY <1>7, <2>1, <2>2
<1>10. WritersApart'
  BY <1>4 DEF LakeInv, WritersApart, Writers
<1>11. HistoryFromFiles'
  <2>1. ASSUME NEW n \in Months, NEW t \in History, DayOf[t] \in DaysOf[n]
        PROVE  lake'[t] <= MonthRows(n)[t]
    <3>1. t \in Trips
      BY DEF History
    <3>2. CASE DayOf[t] = day
      <4>1. n = m
        BY <1>5, <2>1, <3>2, MonthsAssumption
      <4>2. MonthRows(n)[t] \in 0 .. 1
        BY <3>1, MonthRowsType
      <4>3. QED
        BY <1>7, <3>1, <3>2, <4>1, <4>2
    <3>3. CASE DayOf[t] # day
      BY <1>7, <2>1, <3>1, <3>3 DEF LakeInv, HistoryFromFiles
    <3>4. QED
      BY <3>2, <3>3
  <2>2. QED
    BY <2>1 DEF HistoryFromFiles
<1>12. StreamGrows'
  BY <1>2, <1>4, <1>6 DEF LakeInv, StreamGrows, Recount
<1>13. Kept
  BY <1>6, <1>8, <1>9 DEF Kept, LakeInv
<1>14. QED
  BY <1>2, <1>4, <1>8, <1>10, <1>11, <1>12, <1>13 DEF LakeInv

\* The tasks both DAGs have in common read the lake and never write it.
LEMMA TasksAreQuiet ==
    ASSUME NEW d \in Dags, Tasks(d)
    PROVE  UNCHANGED watched
<1> USE DEF watched, lakeVars, counters
<1>1. CASE EnsureSchema(d)
  BY <1>1 DEF EnsureSchema
<1>2. CASE NoLake(d)
  BY <1>2 DEF NoLake
<1>3. CASE ScanFails(d)
  BY <1>3 DEF ScanFails
<1>4. CASE CreateStaging(d)
  BY <1>4 DEF CreateStaging
<1>5. CASE Scan(d)
  BY <1>5 DEF Scan
<1>6. CASE Stage(d)
  BY <1>6 DEF Stage
<1>7. CASE StagingLost(d)
  BY <1>7 DEF StagingLost
<1>8. CASE Merge(d)
  BY <1>8 DEF Merge
<1>9. CASE MergeRefused(d)
  BY <1>9 DEF MergeRefused
<1>10. QED
  BY <1>1, <1>2, <1>3, <1>4, <1>5, <1>6, <1>7, <1>8, <1>9 DEF Tasks

\* Every step preserves the invariant and keeps the lake's trips.
LEMMA LakeInvStep == LakeInv /\ [Next]_vars => LakeInv' /\ Kept
<1> SUFFICES ASSUME LakeInv, [Next]_vars
             PROVE  LakeInv' /\ Kept
  OBVIOUS
<1>1. CASE Produce
  BY <1>1, ProduceStep
<1>2. CASE Trim
  BY <1>2, TrimStep
<1>3. CASE FreshVolume
  BY <1>3, QuietStep DEF FreshVolume, watched, lakeVars
<1>4. CASE StartBackfill
  BY <1>4, QuietStep DEF StartBackfill, watched, lakeVars
<1>5. CASE Incremental
  <2>1. CASE StartIncremental
    BY <2>1, QuietStep DEF StartIncremental, watched, lakeVars, counters
  <2>2. CASE ReadTopic
    BY <2>2, ReadTopicStep
  <2>3. CASE WriteStreamDay
    BY <2>3, WriteStreamDayStep
  <2>4. CASE Tasks("incremental")
    BY <2>4, TasksAreQuiet, QuietStep DEF Dags
  <2>5. QED
    BY <1>5, <2>1, <2>2, <2>3, <2>4 DEF Incremental
<1>6. CASE Backfill
  <2>1. CASE \E m \in Months : LoadMonth(m)
    BY <2>1, LoadMonthStep
  <2>2. CASE \E m \in Months : WriteMonthDay(m)
    BY <2>2, WriteMonthDayStep
  <2>3. CASE AllLoaded
    BY <2>3, QuietStep DEF AllLoaded, watched, counters
  <2>4. CASE SomeLoadFailed
    BY <2>4, QuietStep DEF SomeLoadFailed, watched, counters
  <2>5. CASE Tasks("backfill")
    BY <2>5, TasksAreQuiet, QuietStep DEF Dags
  <2>6. QED
    BY <1>6, <2>1, <2>2, <2>3, <2>4, <2>5 DEF Backfill
<1>7. CASE \E d \in Dags : TaskFails(d)
  <2>1. PICK d \in Dags : TaskFails(d)
    BY <1>7
  <2>2. CASE d = "incremental"
    BY <2>1, <2>2, GiveUpStep DEF TaskFails, Writers
  <2>3. CASE d # "incremental"
    BY <2>1, <2>3, QuietStep DEF TaskFails, watched
  <2>4. QED
    BY <2>2, <2>3
<1>8. CASE \E m \in Months : LoadFails(m)
  <2>1. PICK m \in Months : LoadFails(m)
    BY <1>8
  <2>2. m \in Writers /\ m # Stream
    BY MonthsAssumption DEF Writers
  <2>3. QED
    BY <2>1, <2>2, GiveUpStep DEF LoadFails, counters
<1>9. CASE UNCHANGED vars
  BY <1>9, QuietStep DEF vars, watched
<1>10. QED
  BY <1>1, <1>2, <1>3, <1>4, <1>5, <1>6, <1>7, <1>8, <1>9 DEF Next

\* The lake's invariant holds always: writers stay on their side of the cutoff
\* and every recount about to be written covers what it replaces.
THEOREM LakeInvariant == Spec => []LakeInv
<1>1. Init => LakeInv
  BY LakeInvInit
<1>2. LakeInv /\ [Next]_vars => LakeInv'
  BY LakeInvStep
<1>3. QED
  BY <1>1, <1>2, PTL DEF Spec

(***************************************************************************)
(* bulk_load.py and stream_to_lake.py replace partitions of one tree: no   *)
(* write of either ever takes a trip out of a backfilled day, nor, before  *)
(* retention removes a message, out of a streamed one.                     *)
(***************************************************************************)
THEOREM LakeIsKept == Spec => LakeKeepsItsTrips
<1>1. LakeInv /\ [Next]_vars =>
        [\A t \in Trips : t \in History \/ trims = 0 => lake'[t] >= lake[t]]_vars
  BY LakeInvStep DEF Kept
<1>2. QED
  BY <1>1, LakeInvariant, PTL DEF Spec, LakeKeepsItsTrips

-----------------------------------------------------------------------------
(***************************************************************************)
(* The numbers                                                             *)
(***************************************************************************)
\* Rows that count no trip twice.
Single(rows) == \A r \in rows : r.trips \in [Trips -> 0 .. 1]

\* So are all rows on their way to the serving table, and those in it.
NumbersInv ==
    /\ pc \in [Dags -> Places]
    /\ DOMAIN unstaged = Dags
    /\ \A d \in Dags : Single(unstaged[d])
    /\ staging # NoTable => Single(staging)
    /\ serving \in [Keys -> [Trips -> 0 .. 1]]

\* An aggregation of a lake that holds each trip once counts each trip once.
LEMMA RollupsCountOnce ==
    ASSUME LakeInv, NEW d \in Dags
    PROVE  Single(Rollups(d))
<1>1. ASSUME NEW g, NEW day, NEW z
      PROVE  Metrics(g, day, z, d).trips \in [Trips -> 0 .. 1]
  BY DEF Metrics, LakeInv
<1>2. QED
  BY <1>1 DEF Single, Rollups

\* The merge sets a row to one the staging table holds or leaves it.
LEMMA MergeCountsOnce ==
    ASSUME NumbersInv, NEW d \in Dags, Merge(d)
    PROVE  serving' \in [Keys -> [Trips -> 0 .. 1]]
<1>1. serving' = [k \in Keys |->
                    IF Changing(k) = {} THEN serving[k]
                    ELSE (CHOOSE r \in Changing(k) : TRUE).trips]
  BY DEF Merge
<1>2. staging # NoTable
  BY DEF Merge
<1>3. ASSUME NEW k \in Keys, Changing(k) # {}
      PROVE  (CHOOSE r \in Changing(k) : TRUE).trips \in [Trips -> 0 .. 1]
  <2>1. (CHOOSE r \in Changing(k) : TRUE) \in Changing(k)
    BY <1>3
  <2>2. Changing(k) \subseteq staging
    BY <1>2 DEF Changing, StagedFor
  <2>3. QED
    BY <1>2, <2>1, <2>2 DEF NumbersInv, Single
<1>4. QED
  BY <1>1, <1>3 DEF NumbersInv

\* A step that neither stages nor merges.
LEMMA StoresUntouched ==
    ASSUME NumbersInv, UNCHANGED stores, pc' \in [Dags -> Places]
    PROVE  NumbersInv'
  BY DEF NumbersInv, stores

\* A run ends.
LEMMA EndRunStep ==
    ASSUME NumbersInv, NEW d \in Dags, EndRun(d)
    PROVE  /\ pc' \in [Dags -> Places]
           /\ DOMAIN unstaged' = Dags
           /\ \A e \in Dags : Single(unstaged'[e])
  BY DEF NumbersInv, EndRun, Places, Single

\* The tasks of a DAG handle only rows that count each trip once.
LEMMA TasksCountOnce ==
    ASSUME LakeInv, NumbersInv, NEW d \in Dags, Tasks(d)
    PROVE  NumbersInv'
<1> USE DEF NumbersInv, Places, AtStaging
<1>1. CASE EnsureSchema(d)
  BY <1>1 DEF EnsureSchema
<1>2. CASE NoLake(d)
  BY <1>2, EndRunStep DEF NoLake
<1>3. CASE ScanFails(d)
  BY <1>3, EndRunStep DEF ScanFails
<1>4. CASE CreateStaging(d)
  BY <1>4 DEF CreateStaging, Single
<1>5. CASE Scan(d)
  BY <1>5, RollupsCountOnce DEF Scan
<1>6. CASE Stage(d)
  BY <1>6 DEF Stage, Single
<1>7. CASE StagingLost(d)
  BY <1>7, EndRunStep DEF StagingLost
<1>8. CASE Merge(d)
  BY <1>8, EndRunStep, MergeCountsOnce DEF Merge
<1>9. CASE MergeRefused(d)
  BY <1>9, EndRunStep DEF MergeRefused
<1>10. QED
  BY <1>1, <1>2, <1>3, <1>4, <1>5, <1>6, <1>7, <1>8, <1>9 DEF Tasks

\* Nothing is counted to begin with.
LEMMA NumbersInvInit == Init => NumbersInv
  BY DEF Init, NumbersInv, Single, Nothing, Places

\* Every step keeps to rows that count each trip once.
LEMMA NumbersInvStep ==
    LakeInv /\ NumbersInv /\ [Next]_vars => NumbersInv'
<1> SUFFICES ASSUME LakeInv, NumbersInv, [Next]_vars
             PROVE  NumbersInv'
  OBVIOUS
<1> USE DEF Places
<1>1. CASE Produce \/ Trim
  BY <1>1, StoresUntouched DEF Produce, Trim, NumbersInv
<1>2. CASE FreshVolume
  BY <1>2 DEF FreshVolume, NumbersInv, Nothing
<1>3. CASE StartBackfill
  BY <1>3, StoresUntouched DEF StartBackfill, NumbersInv
<1>4. CASE Incremental
  <2>1. CASE StartIncremental
    BY <2>1, StoresUntouched DEF StartIncremental, NumbersInv
  <2>2. CASE ReadTopic
    BY <2>2, StoresUntouched DEF ReadTopic, NumbersInv
  <2>3. CASE WriteStreamDay
    BY <2>3, StoresUntouched DEF WriteStreamDay, NumbersInv
  <2>4. CASE Tasks("incremental")
    BY <2>4, TasksCountOnce DEF Dags
  <2>5. QED
    BY <1>4, <2>1, <2>2, <2>3, <2>4 DEF Incremental
<1>5. CASE Backfill
  <2>1. CASE \E m \in Months : LoadMonth(m) \/ WriteMonthDay(m)
    BY <2>1, StoresUntouched DEF LoadMonth, WriteMonthDay, NumbersInv
  <2>2. CASE AllLoaded
    BY <2>2, StoresUntouched DEF AllLoaded, NumbersInv
  <2>3. CASE SomeLoadFailed
    BY <2>3, EndRunStep DEF SomeLoadFailed, NumbersInv, Dags
  <2>4. CASE Tasks("backfill")
    BY <2>4, TasksCountOnce DEF Dags
  <2>5. QED
    BY <1>5, <2>1, <2>2, <2>3, <2>4 DEF Backfill
<1>6. CASE \E d \in Dags : TaskFails(d)
  BY <1>6, EndRunStep DEF TaskFails, NumbersInv
<1>7. CASE \E m \in Months : LoadFails(m)
  BY <1>7, StoresUntouched DEF LoadFails, NumbersInv
<1>8. CASE UNCHANGED vars
  BY <1>8, StoresUntouched DEF vars, stores, NumbersInv
<1>9. QED
  BY <1>1, <1>2, <1>3, <1>4, <1>5, <1>6, <1>7, <1>8 DEF Next

(***************************************************************************)
(* stream_to_lake.py:62-66 and merge_daily.sql:16-18: however often trips  *)
(* are replayed, tasks die and the DAGs overwrite each other's staging     *)
(* table, no published number counts a trip twice.                         *)
(***************************************************************************)
THEOREM NothingIsCountedTwice == Spec => []CountedOnce
<1>1. Init => NumbersInv
  BY NumbersInvInit
<1>2. LakeInv /\ NumbersInv /\ [Next]_vars => NumbersInv'
  BY NumbersInvStep
<1>3. NumbersInv => CountedOnce
  BY DEF NumbersInv, CountedOnce
<1>4. QED
  BY <1>1, <1>2, <1>3, LakeInvariant, PTL DEF Spec

-----------------------------------------------------------------------------
(***************************************************************************)
(* Rollups of one scan of the lake, and what a merge makes of them         *)
(***************************************************************************)
\* The rows that DAG d makes of a scan that saw snap.
MetricsOf(snap, grain, day, zone, d) ==
    [by |-> d, grain |-> grain, key |-> <<day, zone>>,
     trips |-> [t \in Trips |->
        IF DayOf[t] = day /\ (grain = "day" \/ Zone[t] = zone)
        THEN snap[t] ELSE 0]]
ZoneRows(snap, d) ==
    {MetricsOf(snap, "zone", k[1], k[2], d) : k \in InScope(d) \X (Zones \cup {Citywide})}
DayRows(snap, d) == {MetricsOf(snap, "day", day, Citywide, d) : day \in InScope(d)}
RollupsOf(snap, d) ==
    {r \in ZoneRows(snap, d) \cup DayRows(snap, d) : r.trips # Nothing}

ZoneKey(t) == <<DayOf[t], Zone[t]>>
DayKey(t) == <<DayOf[t], Citywide>>

\* A trip's two keys are keys of the serving table.
LEMMA KeysOfTrip ==
    ASSUME NEW t \in Trips
    PROVE  ZoneKey(t) \in Keys /\ DayKey(t) \in Keys /\ DayOf[t] \in Days
  BY TripsAssumption DEF ZoneKey, DayKey, Keys, Days

\* An aggregation is a scan of the lake as it is.
LEMMA RollupsAreOfTheLake ==
    ASSUME NEW d \in Dags
    PROVE  Rollups(d) = RollupsOf(lake, d)
<1>1. \A g, day, z : Metrics(g, day, z, d) = MetricsOf(lake, g, day, z, d)
  BY DEF Metrics, MetricsOf
<1>2. QED
  BY <1>1 DEF Rollups, RollupsOf, ZoneRows, DayRows

\* What the rows of a scan say of a trip of their day.
LEMMA RowSays ==
    ASSUME NEW snap \in [Trips -> 0 .. 1], NEW d \in Dags, NEW r \in RollupsOf(snap, d),
           NEW t \in Trips
    PROVE  /\ r.key[1] \in InScope(d)
           /\ r.grain \in {"zone", "day"} /\ (r.grain = "day" => r.key[2] = Citywide)
           /\ r = MetricsOf(snap, r.grain, r.key[1], r.key[2], d)
           /\ r.trips \in [Trips -> 0 .. 1]
           /\ r.trips[t] = IF DayOf[t] = r.key[1]
                              /\ (r.grain = "day" \/ Zone[t] = r.key[2])
                           THEN snap[t] ELSE 0
<1>1. CASE r \in ZoneRows(snap, d)
  <2>1. PICK k \in InScope(d) \X (Zones \cup {Citywide}) :
            r = MetricsOf(snap, "zone", k[1], k[2], d)
    BY <1>1 DEF ZoneRows
  <2>2. k[1] \in InScope(d) /\ r.key = <<k[1], k[2]>> /\ r.grain = "zone"
    BY <2>1 DEF MetricsOf
  <2>3. QED
    BY <2>1, <2>2 DEF MetricsOf
<1>2. CASE r \in DayRows(snap, d)
  <2>1. PICK day \in InScope(d) : r = MetricsOf(snap, "day", day, Citywide, d)
    BY <1>2 DEF DayRows
  <2>2. r.key = <<day, Citywide>> /\ r.grain = "day"
    BY <2>1 DEF MetricsOf
  <2>3. QED
    BY <2>1, <2>2 DEF MetricsOf
<1>3. QED
  BY <1>1, <1>2 DEF RollupsOf

\* A trip that was seen has a row of its zone and one of its day.
LEMMA SeenTripsHaveRows ==
    ASSUME NEW snap \in [Trips -> 0 .. 1], NEW d \in Dags, NEW t \in Trips,
           snap[t] = 1, DayOf[t] \in InScope(d)
    PROVE  /\ \E r \in RollupsOf(snap, d) : r.key = ZoneKey(t) /\ r.grain = "zone"
           /\ \E r \in RollupsOf(snap, d) : r.key = DayKey(t) /\ r.grain = "day"
<1> DEFINE zr == MetricsOf(snap, "zone", DayOf[t], Zone[t], d)
           dr == MetricsOf(snap, "day", DayOf[t], Citywide, d)
<1>1. zr.trips[t] = 1 /\ dr.trips[t] = 1
  BY DEF MetricsOf
<1>2. zr.trips # Nothing /\ dr.trips # Nothing
  BY <1>1 DEF Nothing
<1>3. <<DayOf[t], Zone[t]>> \in InScope(d) \X (Zones \cup {Citywide})
  BY TripsAssumption
<1>4. zr \in ZoneRows(snap, d)
  BY <1>3 DEF ZoneRows
<1>5. dr \in DayRows(snap, d)
  BY DEF DayRows
<1>6. /\ zr.key = ZoneKey(t) /\ zr.grain = "zone"
      /\ dr.key = DayKey(t) /\ dr.grain = "day"
  BY DEF MetricsOf, ZoneKey, DayKey
<1> HIDE DEF zr, dr
<1>7. QED
  BY <1>2, <1>4, <1>5, <1>6 DEF RollupsOf

\* The statement goes through only if no key has two rows that change it.
LEMMA OneChange ==
    ASSUME NEW snap \in [Trips -> 0 .. 1], NEW d \in Dags,
           staging # NoTable, staging = RollupsOf(snap, d), NEW k \in Keys,
           Cardinality(Changing(k)) <= 1, NEW r \in Changing(k), NEW q \in Changing(k)
    PROVE  r = q
<1> DEFINE zr == MetricsOf(snap, "zone", k[1], k[2], d)
           dr == MetricsOf(snap, "day", k[1], k[2], d)
<1>1. Changing(k) \subseteq {zr, dr}
  <2> SUFFICES ASSUME NEW x \in Changing(k)
               PROVE  x = zr \/ x = dr
    OBVIOUS
  <2>1. x \in RollupsOf(snap, d) /\ x.key = k
    BY DEF Changing, StagedFor
  <2>2. Trips # {}
    BY DEF Keys, Days
  <2>3. QED
    BY <2>1, <2>2, RowSays
<1> HIDE DEF zr, dr
<1>2. IsFiniteSet({zr, dr})
  <2>1. IsFiniteSet({zr})
    BY FS_Singleton
  <2>2. IsFiniteSet({zr} \cup {dr})
    BY <2>1, FS_AddElement
  <2>3. {zr, dr} = {zr} \cup {dr}
    OBVIOUS
  <2>4. QED
    BY <2>2, <2>3
<1>3. IsFiniteSet(Changing(k))
  BY <1>1, <1>2, FS_Subset
<1>4. SUFFICES ASSUME r # q PROVE FALSE
  OBVIOUS
<1>5. Cardinality({r}) = 1 /\ IsFiniteSet({r}) /\ q \notin {r}
  BY <1>4, FS_Singleton
<1>6. Cardinality({r} \cup {q}) = 2 /\ IsFiniteSet({r} \cup {q})
  BY <1>5, FS_AddElement
<1>7. {r} \cup {q} \subseteq Changing(k)
  OBVIOUS
<1>8. Cardinality({r} \cup {q}) <= Cardinality(Changing(k))
  BY <1>3, <1>7, FS_Subset
<1>9. Cardinality(Changing(k)) \in Nat
  BY <1>3, FS_CardinalityType
<1>10. QED
  BY <1>6, <1>8, <1>9

\* A merge sets a key to the one staged row that differs from it, if there is one.
LEMMA MergeSets ==
    ASSUME NEW d \in Dags, Merge(d), NEW k \in Keys,
           NEW snap \in [Trips -> 0 .. 1], staging = RollupsOf(snap, d)
    PROVE  /\ Changing(k) = {} => serving'[k] = serving[k]
           /\ \A q \in Changing(k) : serving'[k] = q.trips
           /\ \A r \in staging : r.key = k => r \in Changing(k) \/ r.trips = serving[k]
           /\ \A q \in Changing(k) : q \in staging /\ q.key = k
<1>1. staging # NoTable /\ Cardinality(Changing(k)) <= 1
  BY DEF Merge
<1>2. serving'[k] = IF Changing(k) = {} THEN serving[k]
                    ELSE (CHOOSE r \in Changing(k) : TRUE).trips
  BY DEF Merge
<1>3. ASSUME NEW q \in Changing(k)
      PROVE  serving'[k] = q.trips
  <2>1. (CHOOSE r \in Changing(k) : TRUE) \in Changing(k)
    OBVIOUS
  <2>2. (CHOOSE r \in Changing(k) : TRUE) = q
    BY <1>1, <2>1, OneChange
  <2>3. QED
    BY <1>2, <2>2
<1>4. QED
  BY <1>1, <1>2, <1>3 DEF Changing, StagedFor

\* After a merge the trips of the days in its scope read as the scan saw them, in
\* the rows of their zones and in the rows of their days: the rows of a day and
\* of its trips without a zone have one key, and the statement is refused then.
LEMMA MergeShows ==
    ASSUME NumbersInv, NEW d \in Dags, Merge(d),
           NEW snap \in [Trips -> 0 .. 1], staging = RollupsOf(snap, d),
           NEW t \in Trips, DayOf[t] \in InScope(d),
           \A u \in Trips : DayOf[u] = DayOf[t] => \A k \in Keys : serving[k][u] <= snap[u],
           \A u \in Trips : DayOf[u] = DayOf[t] /\ Zone[u] = Citywide
                                => serving[DayKey(u)][u] = 0
    PROVE  /\ serving'[ZoneKey(t)][t] = snap[t] /\ serving'[DayKey(t)][t] = snap[t]
           /\ Zone[t] = Citywide => snap[t] = 0
<1>1. /\ ZoneKey(t) \in Keys /\ DayKey(t) \in Keys
      /\ \A k \in Keys : serving[k] \in [Trips -> 0 .. 1]
  BY KeysOfTrip DEF NumbersInv
<1>2. ASSUME NEW u \in Trips, DayOf[u] = DayOf[t], Zone[u] = Citywide
      PROVE  snap[u] = 0
  <2>1. SUFFICES ASSUME snap[u] = 1 PROVE FALSE
    OBVIOUS
  <2>2. PICK z \in RollupsOf(snap, d) : z.key = ZoneKey(u) /\ z.grain = "zone"
    BY <1>2, <2>1, SeenTripsHaveRows
  <2>3. PICK y \in RollupsOf(snap, d) : y.key = DayKey(u) /\ y.grain = "day"
    BY <1>2, <2>1, SeenTripsHaveRows
  <2>4. ZoneKey(u) = DayKey(u) /\ DayKey(u) \in Keys
    BY <1>2, KeysOfTrip DEF ZoneKey, DayKey
  <2>5. z.trips[u] = 1 /\ y.trips[u] = 1
    BY <2>1, <2>2, <2>3, RowSays DEF ZoneKey, DayKey
  <2>6. serving[DayKey(u)][u] = 0
    BY <1>2
  <2>7. z \in Changing(DayKey(u)) /\ y \in Changing(DayKey(u))
    BY <2>2, <2>3, <2>4, <2>5, <2>6, MergeSets
  <2>8. z = y
    BY <2>4, <2>7, OneChange DEF Merge
  <2>9. QED
    BY <2>2, <2>3, <2>8
<1>3. CASE snap[t] = 0
  <2>1. ASSUME NEW k \in Keys
        PROVE  serving'[k][t] = 0
    <3>1. serving[k][t] = 0
      BY <1>1, <1>3
    <3>2. ASSUME NEW q \in Changing(k)
          PROVE  q.trips[t] = 0
      BY <1>3, MergeSets, RowSays
    <3>3. QED
      BY <3>1, <3>2, MergeSets
  <2>2. QED
    BY <1>1, <1>3, <2>1
<1>4. CASE snap[t] = 1
  <2>1. Zone[t] # Citywide
    BY <1>2, <1>4
  <2>2. PICK z \in RollupsOf(snap, d) : z.key = ZoneKey(t) /\ z.grain = "zone"
    BY <1>4, SeenTripsHaveRows
  <2>3. PICK y \in RollupsOf(snap, d) : y.key = DayKey(t) /\ y.grain = "day"
    BY <1>4, SeenTripsHaveRows
  <2>4. z.trips[t] = 1 /\ y.trips[t] = 1
    BY <1>4, <2>2, <2>3, RowSays DEF ZoneKey, DayKey
  <2>5. serving'[ZoneKey(t)][t] = 1
    <3>1. CASE z \in Changing(ZoneKey(t))
      BY <1>1, <2>4, <3>1, MergeSets
    <3>2. CASE Changing(ZoneKey(t)) = {}
      BY <1>1, <2>2, <2>4, <3>2, MergeSets
    <3>3. ASSUME NEW q \in Changing(ZoneKey(t))
          PROVE  q.trips[t] = 1
      <4>1. q \in RollupsOf(snap, d) /\ q.key = ZoneKey(t)
        BY <1>1, MergeSets
      <4>2. q.trips[t] = snap[t]
        BY <2>1, <4>1, RowSays DEF ZoneKey
      <4>3. QED
        BY <1>4, <4>2
    <3>4. QED
      BY <1>1, <3>2, <3>3, MergeSets
  <2>6. serving'[DayKey(t)][t] = 1
    <3>1. CASE Changing(DayKey(t)) = {}
      BY <1>1, <2>3, <2>4, <3>1, MergeSets
    <3>2. ASSUME NEW q \in Changing(DayKey(t))
          PROVE  q.trips[t] = 1
      <4>1. q \in RollupsOf(snap, d) /\ q.key = DayKey(t)
        BY <1>1, MergeSets
      <4>2. CASE q.grain = "day"
        BY <1>4, <4>1, <4>2, RowSays DEF DayKey
      <4>3. CASE q.grain = "zone"
        <5>1. \A u \in Trips : q.trips[u] =
                 IF DayOf[u] = DayOf[t] /\ Zone[u] = Citywide THEN snap[u] ELSE 0
          BY <4>1, <4>3, RowSays DEF DayKey
        <5>2. \A u \in Trips : q.trips[u] = 0
          BY <1>2, <5>1
        <5>3. q.trips \in [Trips -> 0 .. 1] /\ q.trips # Nothing
          BY <4>1, RowSays DEF RollupsOf
        <5>4. QED
          BY <5>2, <5>3 DEF Nothing
      <4>4. QED
        BY <4>1, <4>2, <4>3, RowSays
    <3>3. QED
      BY <1>1, <3>1, <3>2, MergeSets
  <2>7. QED
    BY <1>4, <2>1, <2>5, <2>6
<1>5. QED
  BY <1>2, <1>3, <1>4

\* A merge leaves the days outside its scope alone, and shows no trip that the
\* scan did not see or that was not shown before.
LEMMA MergeBounds ==
    ASSUME NumbersInv, NEW d \in Dags, Merge(d), NEW k \in Keys, NEW t \in Trips,
           NEW snap \in [Trips -> 0 .. 1], staging = RollupsOf(snap, d)
    PROVE  /\ serving'[k][t] = serving[k][t] \/ serving'[k][t] <= snap[t]
           /\ k[1] \notin InScope(d) => serving'[k] = serving[k]
<1>1. ASSUME NEW q \in Changing(k)
      PROVE  q \in RollupsOf(snap, d) /\ q.key = k /\ serving'[k] = q.trips
  BY MergeSets
<1>2. CASE Changing(k) = {}
  BY <1>2, MergeSets
<1>3. CASE Changing(k) # {}
  <2>1. PICK q \in Changing(k) : TRUE
    BY <1>3
  <2>2. q.trips[t] = snap[t] \/ q.trips[t] = 0
    BY <1>1, <2>1, RowSays
  <2>3. k[1] \in InScope(d)
    BY <1>1, <2>1, RowSays
  <2>4. snap[t] \in 0 .. 1
    OBVIOUS
  <2>5. QED
    BY <1>1, <2>2, <2>3, <2>4
<1>4. QED
  BY <1>2, <1>3

-----------------------------------------------------------------------------
(***************************************************************************)
(* One DAG at the staging table                                            *)
(***************************************************************************)
\* Months are written only while the backfill loads, and what it published stands
\* until it is triggered again.
LoadsInv ==
    /\ DOMAIN loads = Months /\ resets \in Nat
    /\ \A m \in Months : writing[m] # {} => loads[m] = "running"
    /\ pc["backfill"] # "loading" => \A m \in Months : writing[m] = {}
    /\ published => pc["backfill"] = "idle"

\* Only a merge of the backfill publishes.
LEMMA Publishes ==
    ASSUME [Next]_vars
    PROVE  published' => published \/ Merge("backfill")
  BY DEF Next, Produce, Trim, FreshVolume, StartBackfill, Incremental, Backfill,
         StartIncremental, ReadTopic, WriteStreamDay, LoadMonth, WriteMonthDay,
         AllLoaded, SomeLoadFailed, TaskFails, LoadFails, Tasks, EnsureSchema,
         NoLake, ScanFails, CreateStaging, Scan, Stage, StagingLost, Merge,
         MergeRefused, Dags, vars

\* The tasks after the loads leave the loads alone.
LEMMA TasksLeaveLoads ==
    ASSUME NEW d \in Dags, Tasks(d), NumbersInv
    PROVE  /\ UNCHANGED <<writing, loads, resets>>
           /\ \A e \in Dags : (pc'[e] # "loading" /\ e = d) \/ pc'[e] = pc[e]
           /\ pc[d] \in AtStaging \cup {"aggregating"}
  BY DEF Tasks, EnsureSchema, NoLake, ScanFails, CreateStaging, Scan, Stage,
         StagingLost, Merge, MergeRefused, EndRun, lakeVars, counters, NumbersInv,
         AtStaging

\* Every step keeps it.
LEMMA LoadsInvStep ==
    LakeInv /\ NumbersInv /\ LoadsInv /\ [Next]_vars => LoadsInv'
<1> SUFFICES ASSUME LakeInv, NumbersInv, LoadsInv, [Next]_vars
             PROVE  LoadsInv'
  OBVIOUS
<1> USE DEF LoadsInv
<1>1. /\ Stream \in Writers /\ \A m \in Months : m \in Writers /\ m # Stream
      /\ DOMAIN writing = Writers /\ DOMAIN pc = Dags
      /\ "backfill" \in Dags /\ "incremental" \in Dags
  BY MonthsAssumption DEF Writers, LakeInv, NumbersInv, Dags
<1>2. CASE Produce \/ Trim \/ FreshVolume
  BY <1>2 DEF Produce, Trim, FreshVolume, lakeVars, counters
<1>3. CASE StartBackfill
  BY <1>1, <1>3 DEF StartBackfill, lakeVars
<1>4. CASE StartIncremental \/ ReadTopic \/ WriteStreamDay
  BY <1>1, <1>4 DEF StartIncremental, ReadTopic, WriteStreamDay, lakeVars, counters
<1>5. ASSUME NEW d \in Dags, Tasks(d)
      PROVE  LoadsInv'
  <2>1. /\ UNCHANGED <<writing, loads, resets>>
        /\ \A e \in Dags : (pc'[e] # "loading" /\ e = d) \/ pc'[e] = pc[e]
        /\ pc[d] \in AtStaging \cup {"aggregating"}
    BY <1>5, TasksLeaveLoads
  <2>2. pc[d] \notin {"loading", "idle"}
    BY <2>1 DEF AtStaging
  <2>3. published' => pc'["backfill"] = "idle"
    <3>1. CASE Merge("backfill")
      BY <1>1, <3>1 DEF Merge, EndRun
    <3>2. CASE published' /\ published
      BY <1>1, <2>1, <2>2, <3>2
    <3>3. QED
      BY <3>1, <3>2, Publishes
  <2>4. pc'["backfill"] # "loading" => pc["backfill"] # "loading"
    BY <1>1, <2>1, <2>2
  <2>5. QED
    BY <2>1, <2>3, <2>4
<1>6. ASSUME NEW m \in Months, LoadMonth(m)
      PROVE  LoadsInv'
  BY <1>1, <1>6 DEF LoadMonth, counters
<1>7. ASSUME NEW m \in Months, WriteMonthDay(m)
      PROVE  LoadsInv'
  <2>1. writing[m] # {} /\ pc["backfill"] = "loading"
    BY <1>7 DEF WriteMonthDay
  <2>2. QED
    BY <1>1, <1>7, <2>1 DEF WriteMonthDay, counters
<1>8. CASE AllLoaded
  <2>1. \A m \in Months : writing[m] = {}
    BY <1>8 DEF AllLoaded
  <2>2. QED
    BY <1>1, <1>8, <2>1 DEF AllLoaded, ForgetLoads, counters
<1>9. CASE SomeLoadFailed
  <2>1. \A m \in Months : writing[m] = {}
    BY <1>9 DEF SomeLoadFailed
  <2>2. QED
    BY <1>1, <1>9, <2>1 DEF SomeLoadFailed, ForgetLoads, EndRun, counters
<1>10. ASSUME NEW d \in Dags, TaskFails(d)
       PROVE  LoadsInv'
  <2>1. /\ \A m \in Months : writing'[m] = writing[m]
        /\ UNCHANGED <<loads, published, resets>>
    BY <1>1, <1>10 DEF TaskFails
  <2>2. /\ pc' = [pc EXCEPT ![d] = "idle"] /\ pc[d] # "loading"
    BY <1>10 DEF TaskFails, EndRun
  <2>3. QED
    BY <1>1, <2>1, <2>2
<1>11. ASSUME NEW m \in Months, LoadFails(m)
       PROVE  LoadsInv'
  BY <1>1, <1>11 DEF LoadFails, counters
<1>12. CASE UNCHANGED vars
  BY <1>12 DEF vars
<1>13. QED
  BY <1>1, <1>2, <1>3, <1>4, <1>5, <1>6, <1>7, <1>8, <1>9, <1>10, <1>11, <1>12
     DEF Next, Incremental, Backfill

\* While no month is being written, the lake's history stands.
LEMMA HistoryStands ==
    ASSUME LakeInv, [Next]_vars, \A m \in Months : writing[m] = {}
    PROVE  \A t \in History : lake'[t] = lake[t]
<1>1. CASE WriteStreamDay
  <2>1. PICK day \in writing[Stream] : ReplaceDay(day, recount)
    BY <1>1 DEF WriteStreamDay
  <2>2. ASSUME NEW t \in History
        PROVE  DayOf[t] # day
    BY DaysApart DEF LakeInv, WritersApart
  <2>3. QED
    BY <2>1, <2>2 DEF ReplaceDay, History
<1>2. lake' = lake \/ WriteStreamDay
  <2>1. \A m \in Months : ~WriteMonthDay(m)
    BY DEF WriteMonthDay
  <2>2. QED
    BY <2>1, TasksAreQuiet
       DEF Next, Produce, Trim, FreshVolume, StartBackfill, Incremental, Backfill,
           StartIncremental, ReadTopic, LoadMonth, AllLoaded, SomeLoadFailed,
           TaskFails, LoadFails, Dags, vars, lakeVars, watched
<1>3. QED
  BY <1>1, <1>2

\* The trips the lake is bound to keep.
Lasting(t) == t \in History \/ trims = 0

\* What the lake was when DAG d scanned it, as far as it matters: it holds no lasting
\* trip that the lake does not, nor misses one that is shown; the staging table and
\* the rows to come are its rollups; and what the backfill scanned, and what anyone
\* scans while its numbers stand, is the history that the lake still has.
Snapshot(d, snap) ==
    /\ \A t \in Trips : Lasting(t) =>
            /\ snap[t] <= lake[t]
            /\ \A k \in Keys : serving[k][t] <= snap[t]
    /\ staging # NoTable => staging \cup unstaged[d] = RollupsOf(snap, d)
    /\ pc[d] # "staging" => unstaged[d] = {}
    /\ d = "backfill" \/ published => \A t \in History : snap[t] = lake[t]

OneAtATime == \A d \in Dags : pc[d] \in AtStaging => pc[Other(d)] \notin AtStaging
TableIsFresh == \A d \in Dags : pc[d] = "scanning" => staging \in {NoTable, {}}
ScansAreKnown ==
    \A d \in Dags : pc[d] \in AtStaging \ {"scanning"} =>
        \E snap \in [Trips -> 0 .. 1] : Snapshot(d, snap)
ReadsAreSound ==
    \A t \in Trips : Lasting(t) =>
        /\ \A k \in Keys : serving[k][t] <= lake[t]
        /\ serving[DayKey(t)][t] = serving[ZoneKey(t)][t]
        /\ Zone[t] = Citywide => serving[DayKey(t)][t] = 0

\* While the DAGs have not been at the staging table at once, each merges the
\* rollups of its own scan, whole.
AloneInv ==
    ~shared => /\ OneAtATime
               /\ TableIsFresh
               /\ ScansAreKnown
               /\ ReadsAreSound
               /\ BackfillPublishes

\* Retention never gives a message back.
LEMMA TrimsGrow ==
    ASSUME LakeInv, [Next]_vars
    PROVE  \A t \in Trips : Lasting(t)' => Lasting(t)
<1>1. trims' = trims \/ Trim
  BY TasksAreQuiet
     DEF Next, Produce, FreshVolume, StartBackfill, Incremental, Backfill,
         StartIncremental, ReadTopic, WriteStreamDay, LoadMonth, WriteMonthDay,
         AllLoaded, SomeLoadFailed, TaskFails, LoadFails, Dags, counters, vars, watched
<1>2. trims' = 0 => trims = 0
  BY <1>1 DEF Trim, LakeInv
<1>3. QED
  BY <1>2 DEF Lasting

\* What is shown stays sound while nothing is merged.
LEMMA ReadsStand ==
    ASSUME LakeInv, NumbersInv, LoadsInv, [Next]_vars, ReadsAreSound, BackfillPublishes,
           serving' = serving, published' => published, resets' = 0 => resets = 0
    PROVE  ReadsAreSound' /\ BackfillPublishes'
<1>1. Kept /\ LakeInv'
  BY LakeInvStep
<1>2. ASSUME NEW t \in Trips, Lasting(t)'
      PROVE  Lasting(t) /\ lake'[t] >= lake[t]
  BY <1>1, <1>2, TrimsGrow DEF Lasting, Kept
<1>3. ReadsAreSound'
  <2>1. \A t \in Trips, k \in Keys :
            lake[t] \in Nat /\ lake'[t] \in Nat /\ serving[k][t] \in Nat
    BY <1>1 DEF LakeInv, NumbersInv
  <2>2. QED
    BY <1>2, <2>1 DEF ReadsAreSound, ZoneKey, DayKey
<1>4. BackfillPublishes'
  <2>1. SUFFICES ASSUME published', resets' = 0
                 PROVE  HistoryPublished'
    BY DEF BackfillPublishes
  <2>2. published /\ resets = 0 /\ HistoryPublished
    BY <2>1 DEF BackfillPublishes
  <2>3. \A m \in Months : writing[m] = {}
    BY <2>2 DEF LoadsInv
  <2>4. QED
    BY <2>2, <2>3, HistoryStands DEF HistoryPublished
<1>5. QED
  BY <1>3, <1>4

\* A scan stays known while its DAG stays at the staging table and nobody else
\* touches that or the serving table.
LEMMA ScanStands ==
    ASSUME LakeInv, NumbersInv, LoadsInv, [Next]_vars,
           UNCHANGED <<serving, staging>>, published' => published,
           NEW d \in Dags, pc[d] \in AtStaging, unstaged'[d] = unstaged[d],
           pc'[d] = "staging" \/ pc[d] # "staging",
           NEW snap \in [Trips -> 0 .. 1], Snapshot(d, snap)
    PROVE  Snapshot(d, snap)'
<1>1. Kept /\ LakeInv'
  BY LakeInvStep
<1>2. ASSUME NEW t \in Trips, Lasting(t)'
      PROVE  Lasting(t) /\ lake'[t] >= lake[t]
  BY <1>1, <1>2, TrimsGrow DEF Lasting, Kept
<1>3. ASSUME NEW t \in Trips, Lasting(t)'
      PROVE  /\ snap[t] <= lake'[t]
             /\ \A k \in Keys : serving'[k][t] <= snap[t]
  <2>1. /\ snap[t] <= lake[t]
        /\ \A k \in Keys : serving[k][t] <= snap[t]
    BY <1>2, <1>3 DEF Snapshot
  <2>2. lake'[t] >= lake[t] /\ lake[t] \in Nat /\ lake'[t] \in Nat /\ snap[t] \in Nat
    BY <1>1, <1>2, <1>3 DEF LakeInv
  <2>3. snap[t] <= lake'[t]
    BY <2>1, <2>2
  <2>4. QED
    BY <2>1, <2>3
<1>4. staging' # NoTable => staging' \cup unstaged'[d] = RollupsOf(snap, d)
  BY DEF Snapshot
<1>5. pc'[d] # "staging" => unstaged'[d] = {}
  BY DEF Snapshot
<1>6. ASSUME d = "backfill" \/ published'
      PROVE  \A t \in History : snap[t] = lake'[t]
  <2>1. \A t \in History : snap[t] = lake[t]
    BY <1>6 DEF Snapshot
  <2>2. pc["backfill"] # "loading"
    BY <1>6 DEF LoadsInv, AtStaging
  <2>3. \A m \in Months : writing[m] = {}
    BY <2>2 DEF LoadsInv
  <2>4. QED
    BY <2>1, <2>3, HistoryStands
<1>7. RollupsOf(snap, d)' = RollupsOf(snap, d)
  BY DEF RollupsOf, ZoneRows, DayRows, MetricsOf, InScope
<1>8. QED
  BY <1>3, <1>4, <1>5, <1>6, <1>7 DEF Snapshot

\* A step that leaves both tables alone, and each DAG where it is, or before the
\* statement it is about to execute, or away from them.
LEMMA AloneQuiet ==
    ASSUME LakeInv, NumbersInv, LoadsInv, AloneInv, [Next]_vars,
           UNCHANGED <<serving, staging, shared, resets>>, published' => published,
           \A d \in Dags :
              \/ /\ pc'[d] = pc[d] \/ (pc[d] = "defining" /\ pc'[d] = "merging")
                 /\ unstaged'[d] = unstaged[d]
              \/ pc'[d] \notin AtStaging
    PROVE  AloneInv'
<1> SUFFICES ASSUME ~shared' PROVE AloneInv'
  BY DEF AloneInv
<1>1. OneAtATime /\ TableIsFresh /\ ScansAreKnown /\ ReadsAreSound /\ BackfillPublishes
  BY DEF AloneInv
<1>2. \A d \in Dags : pc'[d] \in AtStaging =>
        /\ pc[d] \in AtStaging /\ unstaged'[d] = unstaged[d]
        /\ pc'[d] = pc[d] \/ (pc[d] = "defining" /\ pc'[d] = "merging")
  BY DEF AtStaging
<1>3. \A d \in Dags : Other(d) \in Dags
  BY DEF Dags, Other
<1>4. OneAtATime'
  BY <1>1, <1>2, <1>3 DEF OneAtATime
<1>5. TableIsFresh'
  BY <1>1, <1>2 DEF TableIsFresh, AtStaging
<1>6. ScansAreKnown'
  <2>1. SUFFICES ASSUME NEW d \in Dags, pc'[d] \in AtStaging \ {"scanning"}
                 PROVE  \E snap \in [Trips -> 0 .. 1] : Snapshot(d, snap)'
    BY DEF ScansAreKnown
  <2>2. pc[d] \in AtStaging \ {"scanning"}
    BY <1>2, <2>1 DEF AtStaging
  <2>3. PICK snap \in [Trips -> 0 .. 1] : Snapshot(d, snap)
    BY <1>1, <2>2 DEF ScansAreKnown
  <2>4. unstaged'[d] = unstaged[d] /\ (pc'[d] = "staging" \/ pc[d] # "staging")
    BY <1>2, <2>1
  <2>5. Snapshot(d, snap)'
    BY <2>2, <2>3, <2>4, ScanStands
  <2>6. QED
    BY <2>5
<1>7. ReadsAreSound' /\ BackfillPublishes'
  BY <1>1, ReadsStand
<1>8. QED
  BY <1>4, <1>5, <1>6, <1>7 DEF AloneInv

\* The serving store starts over: nothing is shown, nothing is staged.
LEMMA AloneFreshVolume ==
    ASSUME LakeInv, NumbersInv, LoadsInv, AloneInv, FreshVolume
    PROVE  AloneInv'
<1> SUFFICES ASSUME ~shared' PROVE AloneInv'
  BY DEF AloneInv
<1>1. /\ OneAtATime /\ TableIsFresh /\ ScansAreKnown /\ ReadsAreSound /\ BackfillPublishes
      /\ serving' = [k \in Keys |-> Nothing] /\ staging' = NoTable /\ resets' = resets + 1
      /\ UNCHANGED <<lake, pc, unstaged, published, trims>>
  BY DEF AloneInv, FreshVolume, lakeVars
<1>2. OneAtATime' /\ TableIsFresh'
  BY <1>1 DEF OneAtATime, TableIsFresh
<1>3. \A k \in Keys, t \in Trips : serving'[k][t] = 0
  BY <1>1 DEF Nothing
<1>4. ReadsAreSound'
  <2>1. \A t \in Trips : lake[t] \in Nat
    BY DEF LakeInv
  <2>2. QED
    BY <1>1, <1>3, <2>1, KeysOfTrip DEF ReadsAreSound
<1>5. ScansAreKnown'
  <2>1. SUFFICES ASSUME NEW d \in Dags, pc[d] \in AtStaging \ {"scanning"}
                 PROVE  \E snap \in [Trips -> 0 .. 1] : Snapshot(d, snap)'
    BY <1>1 DEF ScansAreKnown
  <2>2. PICK snap \in [Trips -> 0 .. 1] : Snapshot(d, snap)
    BY <1>1, <2>1 DEF ScansAreKnown
  <2>3. \A t \in Trips : snap[t] \in Nat
    OBVIOUS
  <2>4. Snapshot(d, snap)'
    BY <1>1, <1>3, <2>2, <2>3 DEF Snapshot, Lasting
  <2>5. QED
    BY <2>4
<1>6. resets' # 0
  BY <1>1 DEF LoadsInv
<1>7. QED
  BY <1>2, <1>4, <1>5, <1>6 DEF AloneInv, BackfillPublishes

\* What the DAG is called that is not d.
LEMMA TheOther ==
    ASSUME NEW d \in Dags
    PROVE  /\ Other(d) \in Dags /\ Other(d) # d /\ Other(Other(d)) = d
           /\ Dags = {d, Other(d)}
  BY DEF Dags, Other

\* An aggregation starts the table over.  If the other DAG is at it, it is shared.
LEMMA AloneCreate ==
    ASSUME LakeInv, NumbersInv, LoadsInv, AloneInv, [Next]_vars,
           NEW d \in Dags, CreateStaging(d)
    PROVE  AloneInv'
<1> SUFFICES ASSUME ~shared' PROVE AloneInv'
  BY DEF AloneInv
<1>1. /\ ~shared /\ pc[Other(d)] \notin AtStaging
      /\ pc' = [pc EXCEPT ![d] = "scanning"] /\ staging' = {}
      /\ UNCHANGED <<serving, published, resets>>
  BY DEF CreateStaging, counters
<1>2. ReadsAreSound /\ BackfillPublishes
  BY <1>1 DEF AloneInv
<1>3. pc'[d] = "scanning" /\ pc'[Other(d)] = pc[Other(d)]
  BY <1>1, TheOther DEF NumbersInv
<1>4. OneAtATime' /\ TableIsFresh' /\ ScansAreKnown'
  BY <1>1, <1>3, TheOther DEF OneAtATime, TableIsFresh, ScansAreKnown, AtStaging
<1>5. ReadsAreSound' /\ BackfillPublishes'
  BY <1>1, <1>2, ReadsStand
<1>6. QED
  BY <1>4, <1>5 DEF AloneInv

\* A scan sees the lake as it is.
LEMMA AloneScan ==
    ASSUME LakeInv, NumbersInv, LoadsInv, AloneInv, [Next]_vars,
           NEW d \in Dags, Scan(d)
    PROVE  AloneInv'
<1> SUFFICES ASSUME ~shared' PROVE AloneInv'
  BY DEF AloneInv
<1>1. /\ ~shared /\ pc[d] = "scanning"
      /\ unstaged' = [unstaged EXCEPT ![d] = Rollups(d)]
      /\ pc' = [pc EXCEPT ![d] = IF Rollups(d) = {} THEN "defining" ELSE "staging"]
      /\ UNCHANGED <<lake, serving, staging, published, trims, resets>>
  BY DEF Scan, counters, lakeVars
<1>2. OneAtATime /\ TableIsFresh /\ ReadsAreSound /\ BackfillPublishes
  BY <1>1 DEF AloneInv
<1>3. /\ pc'[d] = IF Rollups(d) = {} THEN "defining" ELSE "staging"
      /\ pc'[Other(d)] = pc[Other(d)]
      /\ unstaged'[d] = Rollups(d)
  BY <1>1, TheOther DEF NumbersInv
<1>4. pc[Other(d)] \notin AtStaging /\ staging \in {NoTable, {}}
  BY <1>1, <1>2 DEF OneAtATime, TableIsFresh, AtStaging
<1>5. OneAtATime' /\ TableIsFresh'
  BY <1>3, <1>4, TheOther DEF OneAtATime, TableIsFresh, AtStaging
<1>6. lake \in [Trips -> 0 .. 1] /\ lake' = lake
  BY <1>1 DEF LakeInv
<1>7. Snapshot(d, lake)'
  <2>1. ASSUME NEW t \in Trips, Lasting(t)'
        PROVE  lake[t] <= lake[t] /\ \A k \in Keys : serving[k][t] <= lake[t]
    BY <1>1, <1>2, <1>6, <2>1 DEF ReadsAreSound, Lasting
  <2>2. staging' # NoTable => staging' \cup unstaged'[d] = RollupsOf(lake, d)
    BY <1>1, <1>3, <1>4, RollupsAreOfTheLake
  <2>3. pc'[d] # "staging" => unstaged'[d] = {}
    BY <1>3
  <2>4. RollupsOf(lake, d)' = RollupsOf(lake, d)
    BY <1>6 DEF RollupsOf, ZoneRows, DayRows, MetricsOf, InScope
  <2>5. QED
    BY <1>1, <2>1, <2>2, <2>3, <2>4 DEF Snapshot
<1>8. ScansAreKnown'
  BY <1>3, <1>4, <1>6, <1>7, TheOther DEF ScansAreKnown
<1>9. ReadsAreSound' /\ BackfillPublishes'
  BY <1>1, <1>2, ReadsStand
<1>10. QED
  BY <1>5, <1>8, <1>9 DEF AloneInv

\* Rows move from one to the other, and are the same rows together.
LEMMA AloneStage ==
    ASSUME LakeInv, NumbersInv, LoadsInv, AloneInv, [Next]_vars,
           NEW d \in Dags, Stage(d)
    PROVE  AloneInv'
<1> SUFFICES ASSUME ~shared' PROVE AloneInv'
  BY DEF AloneInv
<1>1. PICK part \in SUBSET unstaged[d] :
        /\ staging' = staging \cup part
        /\ unstaged' = [unstaged EXCEPT ![d] = @ \ part]
  BY DEF Stage
<1>2. /\ ~shared /\ pc[d] = "staging" /\ staging # NoTable
      /\ pc' = [pc EXCEPT ![d] = IF unstaged'[d] = {} THEN "defining" ELSE "staging"]
      /\ UNCHANGED <<lake, serving, published, trims, resets>>
  BY DEF Stage, counters, lakeVars
<1>3. OneAtATime /\ ScansAreKnown /\ ReadsAreSound /\ BackfillPublishes
  BY <1>2 DEF AloneInv
<1>4. /\ pc'[d] = IF unstaged'[d] = {} THEN "defining" ELSE "staging"
      /\ pc'[Other(d)] = pc[Other(d)]
      /\ unstaged'[d] = unstaged[d] \ part
  BY <1>1, <1>2, TheOther DEF NumbersInv
<1>5. pc[Other(d)] \notin AtStaging
  BY <1>2, <1>3 DEF OneAtATime, AtStaging
<1>6. OneAtATime' /\ TableIsFresh'
  BY <1>4, <1>5, TheOther DEF OneAtATime, TableIsFresh, AtStaging
<1>7. PICK snap \in [Trips -> 0 .. 1] : Snapshot(d, snap)
  BY <1>2, <1>3 DEF ScansAreKnown, AtStaging
<1>8. Snapshot(d, snap)'
  <2>1. staging' \cup unstaged'[d] = RollupsOf(snap, d)
    BY <1>1, <1>2, <1>4, <1>7 DEF Snapshot
  <2>2. pc'[d] # "staging" => unstaged'[d] = {}
    BY <1>4
  <2>3. RollupsOf(snap, d)' = RollupsOf(snap, d)
    BY DEF RollupsOf, ZoneRows, DayRows, MetricsOf, InScope
  <2>4. QED
    BY <1>2, <1>7, <2>1, <2>2, <2>3 DEF Snapshot, Lasting
<1>9. ScansAreKnown'
  BY <1>4, <1>5, <1>8, TheOther DEF ScansAreKnown
<1>10. ReadsAreSound' /\ BackfillPublishes'
  BY <1>2, <1>3, ReadsStand
<1>11. QED
  BY <1>6, <1>9, <1>10 DEF AloneInv

\* A merge of a scan's rollups, whole.
LEMMA AloneMerge ==
    ASSUME LakeInv, NumbersInv, LoadsInv, AloneInv, NEW d \in Dags, Merge(d)
    PROVE  AloneInv'
<1> SUFFICES ASSUME ~shared' PROVE AloneInv'
  BY DEF AloneInv
<1>1. /\ ~shared /\ pc[d] = "merging" /\ staging # NoTable
      /\ pc' = [pc EXCEPT ![d] = "idle"]
      /\ published' = (published \/ d = "backfill")
      /\ UNCHANGED <<lake, staging, trims, resets>>
  BY DEF Merge, EndRun, counters, lakeVars
<1>2. OneAtATime /\ ScansAreKnown /\ ReadsAreSound /\ BackfillPublishes
  BY <1>1 DEF AloneInv
<1>3. pc'[d] = "idle" /\ pc'[Other(d)] = pc[Other(d)]
  BY <1>1, TheOther DEF NumbersInv
<1>4. pc[Other(d)] \notin AtStaging
  BY <1>1, <1>2 DEF OneAtATime, AtStaging
<1>5. OneAtATime' /\ TableIsFresh' /\ ScansAreKnown'
  BY <1>3, <1>4, TheOther DEF OneAtATime, TableIsFresh, ScansAreKnown, AtStaging
<1>6. PICK snap \in [Trips -> 0 .. 1] : Snapshot(d, snap)
  BY <1>1, <1>2 DEF ScansAreKnown, AtStaging
<1>7. staging = RollupsOf(snap, d)
  BY <1>1, <1>6 DEF Snapshot
<1>8. ASSUME NEW t \in Trips, Lasting(t), NEW u \in Trips, DayOf[u] = DayOf[t]
      PROVE  Lasting(u)
  BY <1>8, DaysApart DEF Lasting
<1>9. ASSUME NEW t \in Trips, Lasting(t), DayOf[t] \in InScope(d)
      PROVE  /\ serving'[ZoneKey(t)][t] = snap[t] /\ serving'[DayKey(t)][t] = snap[t]
             /\ Zone[t] = Citywide => snap[t] = 0
  <2>1. \A u \in Trips : DayOf[u] = DayOf[t] => \A k \in Keys : serving[k][u] <= snap[u]
    BY <1>6, <1>8, <1>9 DEF Snapshot
  <2>2. \A u \in Trips : DayOf[u] = DayOf[t] /\ Zone[u] = Citywide
                            => serving[DayKey(u)][u] = 0
    BY <1>2, <1>8, <1>9 DEF ReadsAreSound
  <2>3. QED
    BY <1>7, <1>9, <2>1, <2>2, MergeShows
<1>10. ASSUME NEW t \in Trips, DayOf[t] \notin InScope(d)
       PROVE  /\ serving'[ZoneKey(t)][t] = serving[ZoneKey(t)][t]
              /\ serving'[DayKey(t)][t] = serving[DayKey(t)][t]
  BY <1>7, <1>10, MergeBounds, KeysOfTrip DEF ZoneKey, DayKey
<1>11. ReadsAreSound'
  <2>1. SUFFICES ASSUME NEW t \in Trips, Lasting(t)
                 PROVE  /\ \A k \in Keys : serving'[k][t] <= lake[t]
                        /\ serving'[DayKey(t)][t] = serving'[ZoneKey(t)][t]
                        /\ Zone[t] = Citywide => serving'[DayKey(t)][t] = 0
    BY <1>1 DEF ReadsAreSound, Lasting, DayKey, ZoneKey
  <2>2. ASSUME NEW k \in Keys
        PROVE  serving'[k][t] <= lake[t]
    <3>1. serving[k][t] <= lake[t] /\ snap[t] <= lake[t]
      BY <1>2, <1>6, <2>1 DEF ReadsAreSound, Snapshot
    <3>2. CASE serving'[k][t] = serving[k][t]
      BY <3>1, <3>2
    <3>3. CASE serving'[k][t] <= snap[t]
      <4>1. serving'[k][t] \in Nat /\ snap[t] \in Nat /\ lake[t] \in Nat
        BY MergeCountsOnce DEF LakeInv
      <4>2. QED
        BY <3>1, <3>3, <4>1
    <3>4. QED
      BY <1>7, <3>2, <3>3, MergeBounds
  <2>3. CASE DayOf[t] \in InScope(d)
    BY <1>9, <2>1, <2>2, <2>3
  <2>4. CASE DayOf[t] \notin InScope(d)
    BY <1>2, <1>10, <2>1, <2>2, <2>4 DEF ReadsAreSound
  <2>5. QED
    BY <2>3, <2>4
<1>12. BackfillPublishes'
  <2>1. SUFFICES ASSUME published', resets = 0, NEW t \in History
                 PROVE  /\ serving'[ZoneKey(t)][t] = lake[t]
                        /\ serving'[DayKey(t)][t] = lake[t]
    BY <1>1 DEF BackfillPublishes, HistoryPublished, ZoneKey, DayKey
  <2>2. t \in Trips /\ Lasting(t)
    BY DEF History, Lasting
  <2>3. d = "backfill" \/ published
    BY <1>1, <2>1
  <2>4. snap[t] = lake[t]
    BY <1>6, <2>3 DEF Snapshot
  <2>5. CASE DayOf[t] \in InScope(d)
    BY <1>9, <2>2, <2>4, <2>5
  <2>6. CASE DayOf[t] \notin InScope(d)
    <3>1. published
      BY <2>2, <2>3, <2>6, KeysOfTrip DEF InScope
    <3>2. serving[ZoneKey(t)][t] = lake[t] /\ serving[DayKey(t)][t] = lake[t]
      BY <1>2, <2>1, <3>1 DEF BackfillPublishes, HistoryPublished, ZoneKey, DayKey
    <3>3. QED
      BY <1>10, <2>2, <2>6, <3>2
  <2>7. QED
    BY <2>5, <2>6
<1>13. QED
  BY <1>5, <1>11, <1>12 DEF AloneInv

\* The tasks of a DAG keep to its own rows.
LEMMA TasksAlone ==
    ASSUME LakeInv, NumbersInv, LoadsInv, AloneInv, [Next]_vars,
           NEW d \in Dags, Tasks(d)
    PROVE  AloneInv'
<1> USE DEF AtStaging, NumbersInv, counters
<1>1. CASE EnsureSchema(d)
  BY <1>1, AloneQuiet DEF EnsureSchema
<1>2. CASE NoLake(d)
  BY <1>2, AloneQuiet DEF NoLake, EndRun
<1>3. CASE ScanFails(d)
  BY <1>3, AloneQuiet DEF ScanFails, EndRun
<1>4. CASE CreateStaging(d)
  BY <1>4, AloneCreate
<1>5. CASE Scan(d)
  BY <1>5, AloneScan
<1>6. CASE Stage(d)
  BY <1>6, AloneStage
<1>7. CASE StagingLost(d)
  BY <1>7, AloneQuiet DEF StagingLost, EndRun
<1>8. CASE Merge(d)
  BY <1>8, AloneMerge
<1>9. CASE MergeRefused(d)
  BY <1>9, AloneQuiet DEF MergeRefused, EndRun
<1>10. QED
  BY <1>1, <1>2, <1>3, <1>4, <1>5, <1>6, <1>7, <1>8, <1>9 DEF Tasks

\* Nothing is staged or shown to begin with.
LEMMA AloneInvInit == Init => LoadsInv /\ AloneInv
<1> SUFFICES ASSUME Init PROVE LoadsInv /\ AloneInv
  OBVIOUS
<1>1. /\ \A d \in Dags : pc[d] = "idle"
      /\ \A k \in Keys, t \in Trips : serving[k][t] = 0
      /\ \A t \in Trips : lake[t] = 0
      /\ published = FALSE
  BY DEF Init, Nothing
<1>2. LoadsInv
  BY DEF Init, LoadsInv, Dags, Writers
<1>3. ReadsAreSound
  BY <1>1, KeysOfTrip DEF ReadsAreSound
<1>4. OneAtATime /\ TableIsFresh /\ ScansAreKnown
  BY <1>1 DEF OneAtATime, TableIsFresh, ScansAreKnown, AtStaging
<1>5. QED
  BY <1>1, <1>2, <1>3, <1>4 DEF AloneInv, BackfillPublishes

\* Every step keeps it.
LEMMA AloneInvStep ==
    LakeInv /\ NumbersInv /\ LoadsInv /\ AloneInv /\ [Next]_vars => AloneInv'
<1> SUFFICES ASSUME LakeInv, NumbersInv, LoadsInv, AloneInv, [Next]_vars
             PROVE  AloneInv'
  OBVIOUS
<1>1. CASE Produce \/ Trim
  BY <1>1, AloneQuiet DEF Produce, Trim, stores, counters
<1>2. CASE FreshVolume
  BY <1>2, AloneFreshVolume
<1>3. CASE StartBackfill
  BY <1>3, AloneQuiet DEF StartBackfill, stores, NumbersInv, AtStaging
<1>4. CASE StartIncremental \/ ReadTopic \/ WriteStreamDay
  BY <1>4, AloneQuiet
     DEF StartIncremental, ReadTopic, WriteStreamDay, stores, counters, NumbersInv, AtStaging
<1>5. ASSUME NEW d \in Dags, Tasks(d)
      PROVE  AloneInv'
  BY <1>5, TasksAlone
<1>6. CASE \E m \in Months : LoadMonth(m) \/ WriteMonthDay(m) \/ LoadFails(m)
  BY <1>6, AloneQuiet DEF LoadMonth, WriteMonthDay, LoadFails, stores, counters
<1>7. CASE AllLoaded
  BY <1>7, AloneQuiet DEF AllLoaded, stores, counters, NumbersInv, AtStaging
<1>8. CASE SomeLoadFailed
  BY <1>8, AloneQuiet DEF SomeLoadFailed, EndRun, counters, NumbersInv, AtStaging
<1>9. ASSUME NEW d \in Dags, TaskFails(d)
      PROVE  AloneInv'
  BY <1>9, AloneQuiet DEF TaskFails, EndRun, NumbersInv, AtStaging
<1>10. CASE UNCHANGED vars
  BY <1>10, AloneQuiet DEF vars
<1>11. QED
  BY <1>1, <1>2, <1>3, <1>4, <1>5, <1>6, <1>7, <1>8, <1>9, <1>10
     DEF Next, Incremental, Backfill, Dags

\* The four invariants of the cold path hold together.
LEMMA ColdPathInvariants ==
    Spec => [](LakeInv /\ NumbersInv /\ LoadsInv /\ AloneInv)
<1>1. Init => LakeInv /\ NumbersInv /\ LoadsInv /\ AloneInv
  BY LakeInvInit, NumbersInvInit, AloneInvInit
<1>2. LakeInv /\ NumbersInv /\ LoadsInv /\ AloneInv /\ [Next]_vars
        => LakeInv' /\ NumbersInv' /\ LoadsInv' /\ AloneInv'
  BY LakeInvStep, NumbersInvStep, LoadsInvStep, AloneInvStep
<1>3. QED
  BY <1>1, <1>2, PTL DEF Spec

(***************************************************************************)
(* aggregate_daily.py:93-119 and merge_daily.sql: the rows of a day and    *)
(* those of its zones come from two aggregations, are inserted by separate *)
(* transactions and merged key by key, and still count the same trips:     *)
(* whatever fails or is recreated in between, unless the DAGs were at the  *)
(* staging table at once or retention has shortened the topic.             *)
(***************************************************************************)
THEOREM DaysAreTheirZones == Spec => []DayTotalsAgree
<1>1. AloneInv => DayTotalsAgree
  BY DEF AloneInv, ReadsAreSound, DayTotalsAgree, Lasting, DayKey, ZoneKey
<1>2. QED
  BY <1>1, ColdPathInvariants, PTL

(***************************************************************************)
(* cold_path_backfill.py:5-10: after a backfill that succeeded, no month   *)
(* is in the lake and absent from the serving table, and the incremental   *)
(* runs that follow, which aggregate the day of the cutoff again, change   *)
(* nothing about that: unless the DAGs were at the staging table at once.  *)
(***************************************************************************)
THEOREM BackfillIsPublished == Spec => []LoneBackfillPublishes
<1>1. AloneInv => LoneBackfillPublishes
  BY DEF AloneInv, LoneBackfillPublishes
<1>2. QED
  BY <1>1, ColdPathInvariants, PTL

-----------------------------------------------------------------------------
(***************************************************************************)
(* Types                                                                   *)
(***************************************************************************)
LoadStates == {"none", "running", "done", "failed"}

\* What the other invariants leave open: a load that has not failed has an attempt
\* left, rows are rows of the two groupings, and the rest has its type.
TypeInv ==
    /\ loads \in [Months -> LoadStates]
    /\ attempts \in [Months -> 0 .. Retries + 1]
    /\ \A m \in Months : loads[m] # "failed" => attempts[m] <= Retries
    /\ unstaged \in [Dags -> SUBSET Row]
    /\ staging = NoTable \/ staging \in SUBSET Row
    /\ created \in BOOLEAN /\ published \in BOOLEAN /\ shared \in BOOLEAN
    /\ trims \in Nat /\ failures \in Nat /\ resets \in Nat /\ backfills \in Nat

\* An aggregation inserts rows of the table's type.
LEMMA RollupsAreRows ==
    ASSUME LakeInv, NEW d \in Dags
    PROVE  Rollups(d) \in SUBSET Row
<1>1. ASSUME NEW g \in {"zone", "day"}, NEW day \in Days, NEW z \in Zones \cup {Citywide}
      PROVE  Metrics(g, day, z, d) \in Row
  <2>1. [t \in Trips |-> IF DayOf[t] = day /\ (g = "day" \/ Zone[t] = z)
                         THEN lake[t] ELSE 0] \in [Trips -> Nat]
    BY DEF LakeInv
  <2>2. <<day, z>> \in Keys
    BY DEF Keys
  <2>3. QED
    BY <2>1, <2>2 DEF Metrics, Row
<1>2. InScope(d) \subseteq Days
  BY DEF InScope
<1>3. QED
  BY <1>1, <1>2 DEF Rollups

\* The tasks after the loads keep the types.
LEMMA TasksType ==
    ASSUME LakeInv, NumbersInv, TypeInv, NEW d \in Dags, Tasks(d)
    PROVE  TypeInv'
<1> USE DEF TypeInv, lakeVars, counters
<1>1. CASE EnsureSchema(d)
  BY <1>1 DEF EnsureSchema
<1>2. CASE NoLake(d)
  BY <1>2 DEF NoLake, EndRun
<1>3. CASE ScanFails(d)
  BY <1>3 DEF ScanFails, EndRun
<1>4. CASE CreateStaging(d)
  <2>1. shared' \in BOOLEAN
    BY <1>4 DEF CreateStaging
  <2>2. QED
    BY <1>4, <2>1 DEF CreateStaging
<1>5. CASE Scan(d)
  BY <1>5, RollupsAreRows DEF Scan
<1>6. CASE Stage(d)
  <2>1. PICK part \in SUBSET unstaged[d] :
          /\ staging' = staging \cup part
          /\ unstaged' = [unstaged EXCEPT ![d] = @ \ part]
    BY <1>6 DEF Stage
  <2>2. staging # NoTable
    BY <1>6 DEF Stage
  <2>3. QED
    BY <1>6, <2>1, <2>2 DEF Stage
<1>7. CASE StagingLost(d)
  BY <1>7 DEF StagingLost, EndRun
<1>8. CASE Merge(d)
  <2>1. published' \in BOOLEAN
    BY <1>8 DEF Merge
  <2>2. QED
    BY <1>8, <2>1 DEF Merge, EndRun
<1>9. CASE MergeRefused(d)
  BY <1>9 DEF MergeRefused, EndRun
<1>10. QED
  BY <1>1, <1>2, <1>3, <1>4, <1>5, <1>6, <1>7, <1>8, <1>9 DEF Tasks

\* A new run's loads have no attempts behind them.
LEMMA NoAttemptYet ==
    ASSUME ForgetLoads
    PROVE  /\ loads' \in [Months -> LoadStates]
           /\ attempts' \in [Months -> 0 .. Retries + 1]
           /\ \A m \in Months : loads'[m] # "failed" => attempts'[m] <= Retries
<1>1. Retries \in Nat
  BY BoundsAssumption
<1>2. 0 \in 0 .. Retries + 1 /\ 0 <= Retries
  BY <1>1
<1>3. QED
  BY <1>2 DEF ForgetLoads, LoadStates

\* Every step keeps the types.
LEMMA TypeInvStep ==
    LakeInv /\ NumbersInv /\ LoadsInv /\ TypeInv /\ [Next]_vars => TypeInv'
<1> SUFFICES ASSUME LakeInv, NumbersInv, LoadsInv, TypeInv, [Next]_vars
             PROVE  TypeInv'
  OBVIOUS
<1> USE DEF TypeInv, LoadStates
<1>1. CASE Produce \/ Trim
  BY <1>1 DEF Produce, Trim, stores, counters
<1>2. CASE FreshVolume
  <2>1. created' \in BOOLEAN
    BY <1>2 DEF FreshVolume
  <2>2. QED
    BY <1>2, <2>1 DEF FreshVolume, lakeVars
<1>3. CASE StartBackfill
  <2>1. published' \in BOOLEAN
    BY <1>3 DEF StartBackfill
  <2>2. QED
    BY <1>3, <2>1 DEF StartBackfill, lakeVars, stores
<1>4. CASE StartIncremental \/ ReadTopic \/ WriteStreamDay
  BY <1>4 DEF StartIncremental, ReadTopic, WriteStreamDay, lakeVars, stores, counters
<1>5. ASSUME NEW d \in Dags, Tasks(d)
      PROVE  TypeInv'
  BY <1>5, TasksType
<1>6. ASSUME NEW m \in Months, LoadMonth(m)
      PROVE  TypeInv'
  BY <1>6 DEF LoadMonth, stores, counters
<1>7. ASSUME NEW m \in Months, WriteMonthDay(m)
      PROVE  TypeInv'
  <2>1. loads[m] = "running"
    BY <1>7 DEF WriteMonthDay, LoadsInv
  <2>2. QED
    BY <1>7, <2>1 DEF WriteMonthDay, stores, counters
<1>8. ASSUME NEW m \in Months, LoadFails(m)
      PROVE  TypeInv'
  <2>1. attempts[m] <= Retries /\ Retries \in Nat
    BY <1>8, BoundsAssumption DEF LoadFails
  <2>2. attempts' \in [Months -> 0 .. Retries + 1]
    BY <1>8, <2>1 DEF LoadFails
  <2>3. \A n \in Months : loads'[n] # "failed" => attempts'[n] <= Retries
    BY <1>8, <2>1 DEF LoadFails, RetriesLeft
  <2>4. QED
    BY <1>8, <2>2, <2>3 DEF LoadFails, stores, counters
<1>9. CASE AllLoaded
  BY <1>9, NoAttemptYet DEF AllLoaded, stores, counters
<1>10. CASE SomeLoadFailed
  BY <1>10, NoAttemptYet DEF SomeLoadFailed, EndRun, counters
<1>11. ASSUME NEW d \in Dags, TaskFails(d)
       PROVE  TypeInv'
  BY <1>11 DEF TaskFails, EndRun
<1>12. CASE UNCHANGED vars
  BY <1>12 DEF vars
<1>13. QED
  BY <1>1, <1>2, <1>3, <1>4, <1>5, <1>6, <1>7, <1>8, <1>9, <1>10, <1>11, <1>12
     DEF Next, Incremental, Backfill, Dags

\* The stores, the tasks' progress and the counters always have their types: a
\* load is tried at most Retries + 1 times (cold_path_backfill.py).
THEOREM ColdPathTypes == Spec => []TypeOK
<1>1. Init => TypeInv
  <2> SUFFICES ASSUME Init PROVE TypeInv
    OBVIOUS
  <2>1. Retries \in Nat
    BY BoundsAssumption
  <2>2. /\ loads \in [Months -> LoadStates]
        /\ attempts \in [Months -> 0 .. Retries + 1]
        /\ \A m \in Months : attempts[m] <= Retries
    BY <2>1 DEF Init, LoadStates
  <2>3. created \in BOOLEAN /\ published \in BOOLEAN /\ shared \in BOOLEAN
    BY DEF Init
  <2>4. unstaged \in [Dags -> SUBSET Row] /\ staging = NoTable
    BY DEF Init
  <2>5. trims = 0 /\ failures = 0 /\ resets = 0 /\ backfills = 0
    BY DEF Init
  <2>6. QED
    BY <2>2, <2>3, <2>4, <2>5 DEF TypeInv
<1>2. LakeInv /\ NumbersInv /\ LoadsInv /\ TypeInv /\ [Next]_vars => TypeInv'
  BY TypeInvStep
<1>3. LakeInv /\ NumbersInv /\ TypeInv => TypeOK
  <2> SUFFICES ASSUME LakeInv, NumbersInv, TypeInv PROVE TypeOK
    OBVIOUS
  <2>1. lake \in [Trips -> Nat] /\ recount \in [Trips -> Nat]
    BY DEF LakeInv
  <2>2. serving \in [Keys -> [Trips -> Nat]]
    BY DEF NumbersInv
  <2>3. QED
    BY <2>1, <2>2 DEF TypeOK, TypeInv, LoadStates, LakeInv, NumbersInv
<1>4. QED
  BY <1>1, <1>2, <1>3, ColdPathInvariants, PTL DEF Spec
=============================================================================
