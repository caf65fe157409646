---------------------- MODULE HotPathRefinementProofs ----------------------
(***************************************************************************)
(* Theorems about HotPath where the deployment puts it: a topic of one     *)
(* partition, filled in pickup order with trips that have a zone.  Any     *)
(* window size, grace and hour, any length of the topic, any number of     *)
(* crashes and shutdowns.  Refused transactions are allowed up to the last *)
(* section, in which HotPath is shown to implement LiveMetrics.            *)
(***************************************************************************)
EXTENDS HotPathRefinement, HotPathProofs

\* docker-compose.yml gives a topic one partition, the simulator replays in pickup
\* order, and TLCTripInput requires a pickup zone.
OneOrderedPartition ==
    /\ Partitions = {ThePartition}
    /\ MaxDisorder = 0
    /\ None \notin TripZones

-----------------------------------------------------------------------------
(***************************************************************************)
(* The inductive invariant                                                 *)
(***************************************************************************)
Topic == log[ThePartition]
Pos == position[ThePartition]
Com == committed[ThePartition]

TripOffsets == {i \in Offset : i < Len(Topic) /\ Topic[i + 1] # Poison}
TimeAt(i) == Topic[i + 1].time
StartAt(i) == WindowStart(TimeAt(i))

Cell == Starts \X Keys

\* The trip at offset i is one of cell c.
Belongs(i, c) ==
    i \in TripOffsets /\ c[1] = StartAt(i) /\ c[2] \in {Topic[i + 1].zone, None}

\* A count from scratch of the messages below offset n.
Count(c, n) ==
    [m \in MsgId |-> IF m[2] < n /\ Belongs(m[2], c) THEN 1 ELSE 0]

\* A trip at or below offset n is of a later window than s, so that with pickups
\* in order nothing beyond n is of window s.
LeftBehind(s, n) == \E j \in TripOffsets : j <= n /\ s < StartAt(j)

InPickupOrder ==
    \A i, j \in TripOffsets : i <= j => TimeAt(i) <= TimeAt(j)

WatermarkIsNewest ==
    watermark # NoTime =>
        \A i \in TripOffsets : i < Pos => TimeAt(i) <= watermark

\* The windows of ws hold what a count from scratch gives.
Complete(ws, n) ==
    \A s \in DOMAIN ws : \A k \in Keys : ws[s].zones[k] = Count(<<s, k>>, n)

\* The offset of an open window is its first trip's.
FromFirst(ws, n) ==
    \A s \in DOMAIN ws :
        LET o == ws[s].min_offsets[ThePartition] IN
        /\ o \in TripOffsets /\ o < n /\ StartAt(o) = s
        /\ \A i \in TripOffsets : i < n /\ StartAt(i) = s => o <= i

\* No open window has been passed by the watermark.
Unpassed(ws, wm) == \A s \in DOMAIN ws : wm # NoTime /\ ~Closed(s, wm)

\* A window that was read from and is not open gets no more trips.
ReadIsOpenOrLeft ==
    pc # "down" =>
        \A i \in TripOffsets : i < Pos =>
            StartAt(i) \in DOMAIN windows \/ LeftBehind(StartAt(i), Pos)

\* The committed offset separates windows: no window has trips on both sides.
CommittedIsLeft ==
    \A i \in TripOffsets : i < Com => LeftBehind(StartAt(i), Com)

ClosingIsPassed ==
    \A s \in DOMAIN closing :
        \E n \in TripOffsets : n < Pos /\ s + Size + Grace <= TimeAt(n)

FinalIsExact ==
    \A c \in Cell : table[c].is_final =>
        /\ table[c].agg = Count(c, Len(Topic))
        /\ LeftBehind(c[1], Len(Topic))

\* OpenWindowsComplete and FinalRowsExact are not inductive: a window is complete
\* because the process started reading between two windows, that is because
\* every commit falls between two windows, which holds because the windows that
\* are open are complete and in pickup order.
OrderInv ==
    /\ CommitInv
    /\ WatermarkIsRead
    /\ Com <= Pos
    /\ InPickupOrder
    /\ WatermarkIsNewest
    /\ Complete(windows, Pos)
    /\ Complete(closing, Pos)
    /\ FromFirst(windows, Pos)
    /\ Unpassed(windows, watermark)
    /\ ReadIsOpenOrLeft
    /\ CommittedIsLeft
    /\ ClosingIsPassed
    /\ FinalIsExact

-----------------------------------------------------------------------------
(***************************************************************************)
(* Lemmas about the topic and the counts                                   *)
(***************************************************************************)
\* What is at the offsets of the trips.
LEMMA TopicFacts ==
    ASSUME OneOrderedPartition, CommitInv
    PROVE  /\ Topic \in Seq(Message) /\ Len(Topic) \in Nat /\ Len(Topic) <= MaxLog
           /\ Pos \in Nat /\ Pos <= Len(Topic)
           /\ Com \in Nat /\ Com <= Len(Topic)
           /\ pc # "down" => Com <= Pos
  BY DEF OneOrderedPartition, CommitInv, TypeOK, Topic, Pos, Com

LEMMA TripFacts ==
    ASSUME Topic \in Seq(Message), NEW i \in TripOffsets
    PROVE  /\ i \in Nat /\ i \in Offset /\ i < Len(Topic)
           /\ Topic[i + 1] \in Event /\ Topic[i + 1].zone \in TripZones
           /\ TimeAt(i) \in Nat /\ TimeAt(i) \in Time
           /\ StartAt(i) \in Int /\ StartAt(i) \in Starts
           /\ StartAt(i) <= TimeAt(i) /\ TimeAt(i) < StartAt(i) + Size
<1>1. i \in Nat /\ i \in Offset /\ i < Len(Topic) /\ Len(Topic) \in Nat
      /\ Topic[i + 1] # Poison
  BY BoundsAssumption DEF TripOffsets, Offset
<1>2. Topic[i + 1] \in Event
  BY <1>1 DEF Message
<1>3. TimeAt(i) \in Time /\ Topic[i + 1].zone \in TripZones
  BY <1>2 DEF Event, TimeAt
<1>4. TimeAt(i) \in Nat
  BY <1>3, BoundsAssumption DEF Time
<1>5. QED
  BY <1>1, <1>2, <1>3, <1>4, WindowStartIsClose, WindowStartType DEF StartAt

\* Later trips are of the same window or of a later one.
LEMMA StartsInOrder ==
    ASSUME Topic \in Seq(Message), InPickupOrder,
           NEW i \in TripOffsets, NEW j \in TripOffsets, i <= j
    PROVE  StartAt(i) <= StartAt(j)
  BY TripFacts, WindowStartMonotone DEF InPickupOrder, StartAt

\* A window that is left behind has no trip beyond.
LEMMA LeftIsComplete ==
    ASSUME Topic \in Seq(Message), InPickupOrder, NEW n \in Nat, NEW s,
           LeftBehind(s, n), NEW i \in TripOffsets, StartAt(i) = s
    PROVE  i < n
<1>1. PICK j \in TripOffsets : j <= n /\ s < StartAt(j)
  BY DEF LeftBehind
<1>2. i \in Nat /\ j \in Nat /\ StartAt(i) \in Int /\ StartAt(j) \in Int
  BY TripFacts
<1>3. ~(j <= i)
  BY <1>1, <1>2, StartsInOrder
<1>4. QED
  BY <1>1, <1>2, <1>3

\* What is left behind stays so when more is read.
LEMMA LeftStays ==
    ASSUME Topic \in Seq(Message), NEW n \in Nat, NEW k \in Nat, n <= k, NEW s,
           LeftBehind(s, n)
    PROVE  LeftBehind(s, k)
  BY TripFacts DEF LeftBehind

\* Counting on changes nothing in a cell none of whose trips lies between.
LEMMA CountOn ==
    ASSUME NEW c, NEW n, NEW k,
           \A i \in Offset : Belongs(i, c) => (i < n <=> i < k)
    PROVE  Count(c, n) = Count(c, k)
<1>1. \A m \in MsgId : (m[2] < n /\ Belongs(m[2], c)) <=> (m[2] < k /\ Belongs(m[2], c))
  BY DEF MsgId
<1>2. QED
  BY <1>1 DEF Count

\* The recount of the properties, said of the one partition's offsets.
LEMMA RecountIsCount ==
    ASSUME OneOrderedPartition, NEW c \in Cell, NEW upto
    PROVE  Recount(c, upto) = Count(c, upto[ThePartition])
<1>1. ASSUME NEW m \in MsgId
      PROVE  (m \in Trips /\ m[2] < upto[m[1]] /\ c \in CellsOf(m))
                <=> (m[2] < upto[ThePartition] /\ Belongs(m[2], c))
  <2>1. m[1] = ThePartition /\ m[2] \in Offset
    BY DEF MsgId, OneOrderedPartition
  <2>2. m \in Trips <=> m[2] \in TripOffsets
    BY <2>1 DEF Trips, TripOffsets, Topic
  <2>3. c = <<c[1], c[2]>>
    BY DEF Cell
  <2>4. c \in CellsOf(m) <=> c[1] = StartAt(m[2]) /\ c[2] \in {Topic[m[2] + 1].zone, None}
    BY <2>1, <2>3 DEF CellsOf, Trip, StartAt, TimeAt, Topic
  <2>5. QED
    BY <2>1, <2>2, <2>4 DEF Belongs
<1>2. QED
  BY <1>1 DEF Recount, Count

\* With the topic unchanged, so is all that is said of its trips.
LEMMA SameTopic ==
    ASSUME log' = log
    PROVE  /\ Topic' = Topic /\ TripOffsets' = TripOffsets
           /\ \A i : TimeAt(i)' = TimeAt(i) /\ StartAt(i)' = StartAt(i)
           /\ \A c, n : Count(c, n)' = Count(c, n)
           /\ \A s, n : LeftBehind(s, n)' <=> LeftBehind(s, n)
<1>1. Topic' = Topic
  BY DEF Topic
<1>2. TripOffsets' = TripOffsets
  BY <1>1 DEF TripOffsets
<1>3. \A i : TimeAt(i)' = TimeAt(i) /\ StartAt(i)' = StartAt(i)
  BY <1>1 DEF TimeAt, StartAt
<1>4. \A i, c : Belongs(i, c)' <=> Belongs(i, c)
  BY <1>1, <1>2, <1>3 DEF Belongs
<1>5. \A c, n : Count(c, n)' = Count(c, n)
  BY <1>4 DEF Count
<1>6. \A s, n : LeftBehind(s, n)' <=> LeftBehind(s, n)
  BY <1>2, <1>3 DEF LeftBehind
<1>7. QED
  BY <1>1, <1>2, <1>3, <1>5, <1>6

\* Initially nothing is read, open or shown.
LEMMA InitOrder == ASSUME OneOrderedPartition PROVE Init => OrderInv
<1> SUFFICES ASSUME Init PROVE OrderInv
  OBVIOUS
<1> USE DEF Init
<1>1. CommitInv /\ WatermarkIsRead
  BY InitCommitInv DEF WatermarkIsRead
<1>2. Topic = <<>> /\ Pos = 0 /\ Com = 0
  BY DEF OneOrderedPartition, Topic, Pos, Com
<1>3. TripOffsets = {}
  BY <1>2, BoundsAssumption DEF TripOffsets, Offset
<1>4. DOMAIN windows = {} /\ DOMAIN closing = {}
  BY DEF NoWindows
<1>5. InPickupOrder /\ WatermarkIsNewest /\ ReadIsOpenOrLeft /\ CommittedIsLeft
  BY <1>3 DEF InPickupOrder, WatermarkIsNewest, ReadIsOpenOrLeft, CommittedIsLeft
<1>6. /\ Complete(windows, Pos) /\ Complete(closing, Pos) /\ ClosingIsPassed
      /\ FromFirst(windows, Pos) /\ Unpassed(windows, watermark)
  BY <1>4 DEF Complete, FromFirst, Unpassed, ClosingIsPassed
<1>7. FinalIsExact
  BY DEF FinalIsExact, Cell, NoRow
<1>8. QED
  BY <1>1, <1>2, <1>5, <1>6, <1>7 DEF OrderInv

-----------------------------------------------------------------------------
(***************************************************************************)
(* The producer                                                            *)
(***************************************************************************)
\* What a message appended in pickup order changes: there may be one more trip,
\* no earlier than any other.
LEMMA ProduceAppends ==
    ASSUME OneOrderedPartition, OrderInv, Produce(ThePartition)
    PROVE  /\ \E m \in Message : /\ Topic' = Append(Topic, m)
                                 /\ m # Poison => \A i \in TripOffsets : TimeAt(i) <= m.time
           /\ Len(Topic') = Len(Topic) + 1
           /\ \A i \in TripOffsets :
                /\ i \in TripOffsets'
                /\ TimeAt(i)' = TimeAt(i) /\ StartAt(i)' = StartAt(i)
           /\ \A i \in TripOffsets' :
                \/ i \in TripOffsets
                \/ /\ i = Len(Topic)
                   /\ \A j \in TripOffsets : TimeAt(j)' <= TimeAt(i)'
           /\ \A i : i < Len(Topic) =>
                \A c : Belongs(i, c)' <=> Belongs(i, c)
<1>1. CommitInv /\ Topic \in Seq(Message) /\ Len(Topic) \in Nat
  BY TopicFacts DEF OrderInv
<1>2. PICK m \in Message :
        /\ m # Poison => InOrder(m)
        /\ log' = [log EXCEPT ![ThePartition] = Append(@, m)]
  BY DEF Produce
<1>3. ThePartition \in Partitions /\ log \in [Partitions -> Seq(Message)]
  BY <1>1 DEF OneOrderedPartition, CommitInv, TypeOK
<1>4. Topic' = Append(Topic, m)
  BY <1>2, <1>3 DEF Topic
<1>5. /\ Len(Topic') = Len(Topic) + 1
      /\ \A i \in 1 .. Len(Topic) : Topic'[i] = Topic[i]
      /\ Topic'[Len(Topic) + 1] = m
      /\ DOMAIN Topic = 1 .. Len(Topic)
  BY <1>1, <1>4
<1>6. ASSUME m # Poison, NEW i \in TripOffsets
      PROVE  TimeAt(i) <= m.time
  <2>1. i + 1 \in DOMAIN Topic /\ Topic[i + 1] # Poison
    BY <1>1, <1>5, TripFacts DEF TripOffsets
  <2>2. TimeAt(i) <= m.time + MaxDisorder
    BY <1>2, <1>3, <1>6, <2>1 DEF InOrder, Topic, TimeAt
  <2>3. m.time \in Nat
    BY <1>6, BoundsAssumption DEF Message, Event, Time
  <2>4. QED
    BY <2>2, <2>3 DEF OneOrderedPartition
<1>7. ASSUME NEW i \in Offset, i < Len(Topic)
      PROVE  /\ Topic'[i + 1] = Topic[i + 1]
             /\ i \in TripOffsets' <=> i \in TripOffsets
             /\ TimeAt(i)' = TimeAt(i) /\ StartAt(i)' = StartAt(i)
             /\ \A c : Belongs(i, c)' <=> Belongs(i, c)
  <2>1. i + 1 \in 1 .. Len(Topic) /\ i < Len(Topic')
    BY <1>1, <1>5, <1>7, BoundsAssumption DEF Offset
  <2>2. Topic'[i + 1] = Topic[i + 1]
    BY <1>5, <2>1
  <2>3. i \in TripOffsets' <=> i \in TripOffsets
    BY <1>7, <2>1, <2>2 DEF TripOffsets
  <2>4. TimeAt(i)' = TimeAt(i) /\ StartAt(i)' = StartAt(i)
    BY <2>2 DEF TimeAt, StartAt
  <2>5. QED
    BY <2>2, <2>3, <2>4 DEF Belongs
<1>8. ASSUME NEW i, i < Len(Topic), NEW c
      PROVE  Belongs(i, c)' <=> Belongs(i, c)
  <2>1. CASE i \in Offset
    BY <1>7, <1>8, <2>1
  <2>2. CASE i \notin Offset
    BY <2>2 DEF Belongs, TripOffsets
  <2>3. QED
    BY <2>1, <2>2
<1>9. ASSUME NEW i \in TripOffsets', i \notin TripOffsets
      PROVE  /\ i = Len(Topic)
             /\ \A j \in TripOffsets : TimeAt(j)' <= TimeAt(i)'
  <2>1. i \in Offset /\ i \in Nat /\ i < Len(Topic) + 1 /\ Topic'[i + 1] # Poison
    BY <1>5, BoundsAssumption DEF TripOffsets, Offset
  <2>2. i = Len(Topic)
    BY <1>1, <1>7, <1>9, <2>1
  <2>3. TimeAt(i)' = m.time /\ m # Poison
    BY <1>5, <2>1, <2>2 DEF TimeAt
  <2>4. \A j \in TripOffsets : TimeAt(j)' = TimeAt(j)
    BY <1>1, <1>7, TripFacts
  <2>5. QED
    BY <1>6, <2>2, <2>3, <2>4
<1>10. ASSUME NEW i \in TripOffsets
       PROVE  i \in TripOffsets' /\ TimeAt(i)' = TimeAt(i) /\ StartAt(i)' = StartAt(i)
  BY <1>1, <1>7, TripFacts
<1>11. QED
  BY <1>4, <1>5, <1>6, <1>8, <1>9, <1>10

\* Producing in pickup order keeps the invariant: a new trip is of no window
\* that trips were left behind for.
LEMMA ProduceKeepsOrder ==
    ASSUME OneOrderedPartition, OrderInv, CommitInv', WatermarkIsRead',
           Produce(ThePartition)
    PROVE  OrderInv'
<1>1. /\ Topic \in Seq(Message) /\ Len(Topic) \in Nat
      /\ Topic' \in Seq(Message) /\ Len(Topic') = Len(Topic) + 1
      /\ Pos \in Nat /\ Pos <= Len(Topic) /\ Com \in Nat /\ Com <= Len(Topic)
  <2>1. Topic' \in Seq(Message)
    BY DEF CommitInv, TypeOK, OneOrderedPartition, Topic
  <2>2. QED
    BY <2>1, TopicFacts, ProduceAppends DEF OrderInv
<1>2. /\ UNCHANGED <<committed, table, pc, position, windows, watermark, closing>>
      /\ Pos' = Pos /\ Com' = Com
  BY DEF Produce, store, Pos, Com
<1>3. \A i \in TripOffsets :
        /\ i \in TripOffsets' /\ i \in Nat /\ i < Len(Topic)
        /\ TimeAt(i)' = TimeAt(i) /\ StartAt(i)' = StartAt(i)
  BY <1>1, ProduceAppends, TripFacts
<1>4. \A i \in TripOffsets' :
        i \in TripOffsets
          \/ (i = Len(Topic) /\ \A j \in TripOffsets : TimeAt(j)' <= TimeAt(i)')
  BY ProduceAppends
<1>5. \A n \in 0 .. Len(Topic) : \A c : Count(c, n)' = Count(c, n)
  <2>1. SUFFICES ASSUME NEW n \in 0 .. Len(Topic), NEW c, NEW m \in MsgId
                 PROVE  (m[2] < n /\ Belongs(m[2], c)') <=> (m[2] < n /\ Belongs(m[2], c))
    BY DEF Count
  <2>2. m[2] \in Nat
    BY BoundsAssumption DEF MsgId, Offset
  <2>3. m[2] < n => m[2] < Len(Topic)
    BY <1>1, <2>2
  <2>4. QED
    BY <2>3, ProduceAppends
<1>6. \A s, n : LeftBehind(s, n) => LeftBehind(s, n)'
  BY <1>3 DEF LeftBehind
<1>7. \A i \in TripOffsets' : i < Len(Topic) => i \in TripOffsets
  BY <1>1, <1>4
<1>8. \A n \in 0 .. Len(Topic) : \A i \in TripOffsets' : i < n => i \in TripOffsets
  <2>1. SUFFICES ASSUME NEW n \in 0 .. Len(Topic), NEW i \in TripOffsets', i < n
                 PROVE  i \in TripOffsets
    OBVIOUS
  <2>2. i \in Nat
    BY BoundsAssumption DEF TripOffsets, Offset
  <2>3. QED
    BY <1>1, <1>7, <2>1, <2>2
<1>9. \A i \in TripOffsets' :
        /\ i \in Nat /\ TimeAt(i)' \in Nat
        /\ StartAt(i)' = WindowStart(TimeAt(i)') /\ StartAt(i)' \in Int
  <2>1. SUFFICES ASSUME NEW i \in TripOffsets'
                 PROVE  /\ i \in Nat /\ TimeAt(i)' \in Nat
                        /\ StartAt(i)' = WindowStart(TimeAt(i)') /\ StartAt(i)' \in Int
    OBVIOUS
  <2>2. Topic'[i + 1] \in Event /\ i \in Nat
    BY <1>1, BoundsAssumption DEF Message, TripOffsets, Offset
  <2>3. TimeAt(i)' \in Nat
    BY <2>2, BoundsAssumption DEF Event, Time, TimeAt
  <2>4. QED
    BY <2>2, <2>3, WindowStartIsClose DEF StartAt
<1>10. InPickupOrder'
  <2>1. SUFFICES ASSUME NEW i \in TripOffsets', NEW j \in TripOffsets', i <= j
                 PROVE  TimeAt(i)' <= TimeAt(j)'
    BY DEF InPickupOrder
  <2>2. CASE i \in TripOffsets /\ j \in TripOffsets
    BY <1>3, <2>1, <2>2 DEF OrderInv, InPickupOrder
  <2>3. CASE i \in TripOffsets /\ j \notin TripOffsets
    BY <1>4, <2>3
  <2>4. CASE i \notin TripOffsets
    <3>1. i = Len(Topic) /\ j = Len(Topic)
      BY <1>1, <1>3, <1>4, <2>1, <2>4
    <3>2. QED
      BY <1>9, <3>1
  <2>5. QED
    BY <2>2, <2>3, <2>4
<1>11. WatermarkIsNewest'
  BY <1>1, <1>2, <1>3, <1>8 DEF OrderInv, WatermarkIsNewest
<1>12. Complete(windows, Pos)' /\ Complete(closing, Pos)'
  BY <1>1, <1>2, <1>5 DEF OrderInv, Complete
<1>13. FromFirst(windows, Pos)' /\ Unpassed(windows, watermark)'
  BY <1>1, <1>2, <1>3, <1>8 DEF OrderInv, FromFirst, Unpassed, Closed
<1>14. ReadIsOpenOrLeft'
  BY <1>1, <1>2, <1>3, <1>6, <1>8 DEF OrderInv, ReadIsOpenOrLeft
<1>15. CommittedIsLeft'
  BY <1>1, <1>2, <1>3, <1>6, <1>8 DEF OrderInv, CommittedIsLeft
<1>16. ClosingIsPassed'
  BY <1>2, <1>3 DEF OrderInv, ClosingIsPassed
<1>17. FinalIsExact'
  <2>1. PICK n \in Nat : n = Len(Topic)
    BY <1>1
  <2>2. SUFFICES ASSUME NEW c \in Cell, table[c].is_final
                 PROVE  table[c].agg = Count(c, n + 1)' /\ LeftBehind(c[1], n + 1)'
    BY <1>1, <1>2, <2>1 DEF FinalIsExact
  <2>3. table[c].agg = Count(c, n) /\ LeftBehind(c[1], n)
    BY <2>1, <2>2 DEF OrderInv, FinalIsExact
  <2>4. LeftBehind(c[1], n)' /\ LeftBehind(c[1], n + 1)'
    <3>1. LeftBehind(c[1], n)'
      BY <1>6, <2>3
    <3>2. QED
      BY <1>1, <2>1, <2>3, <1>3 DEF LeftBehind
  <2>5. ASSUME NEW i \in TripOffsets', StartAt(i)' = c[1]
        PROVE  i < n
    <3>1. PICK j \in TripOffsets' : j <= n /\ c[1] < StartAt(j)'
      BY <2>4 DEF LeftBehind
    <3>2. CASE n <= i
      <4>1. TimeAt(j)' <= TimeAt(i)'
        BY <1>10, <1>9, <3>1, <3>2 DEF InPickupOrder
      <4>2. StartAt(j)' <= StartAt(i)'
        BY <1>9, <4>1, WindowStartMonotone
      <4>3. QED
        BY <1>9, <2>5, <3>1, <4>2
    <3>3. QED
      BY <1>9, <3>2
  <2>6. Count(c, n + 1)' = Count(c, n)'
    <3>1. ASSUME NEW m \in MsgId
          PROVE  (m[2] < n + 1 /\ Belongs(m[2], c)') <=> (m[2] < n /\ Belongs(m[2], c)')
      <4>1. m[2] \in Nat
        BY BoundsAssumption DEF MsgId, Offset
      <4>2. QED
        BY <2>5, <4>1 DEF Belongs
    <3>2. QED
      BY <3>1 DEF Count
  <2>7. Count(c, n)' = Count(c, n)
    BY <1>1, <1>5, <2>1
  <2>8. QED
    BY <2>3, <2>4, <2>6, <2>7
<1>18. QED
  BY <1>1, <1>2, <1>10, <1>11, <1>12, <1>13, <1>14, <1>15, <1>16, <1>17
     DEF OrderInv

-----------------------------------------------------------------------------
(***************************************************************************)
(* Reading                                                                 *)
(***************************************************************************)
\* The watermark is the pickup of one of the trips read, at its offset.
LEMMA WatermarkTrip ==
    ASSUME OneOrderedPartition, OrderInv, watermark # NoTime
    PROVE  \E n \in TripOffsets : n < Pos /\ TimeAt(n) = watermark
<1>1. PICK i \in 1 .. Pos : Topic[i] # Poison /\ Topic[i].time = watermark
  BY DEF OrderInv, WatermarkIsRead, OneOrderedPartition, Topic, Pos
<1>2. /\ Pos \in Nat /\ Pos <= Len(Topic) /\ Len(Topic) \in Nat /\ Len(Topic) <= MaxLog
  BY TopicFacts DEF OrderInv
<1>3. /\ i - 1 \in Offset /\ i - 1 < Pos /\ i - 1 < Len(Topic) /\ (i - 1) + 1 = i
  BY <1>2, BoundsAssumption DEF Offset
<1>4. i - 1 \in TripOffsets /\ TimeAt(i - 1) = watermark
  BY <1>1, <1>3 DEF TripOffsets, TimeAt
<1>5. QED
  BY <1>3, <1>4

\* The message fetched is the one at offset Pos.
LEMMA FetchedFacts ==
    ASSUME OneOrderedPartition, OrderInv, CanPoll(ThePartition)
    PROVE  /\ Fetched(ThePartition) = Topic[Pos + 1]
           /\ Pos \in Offset /\ Pos \in Nat /\ Pos < Len(Topic)
           /\ Pos \in TripOffsets <=> Fetched(ThePartition) # Poison
           /\ pc = "poll" /\ DOMAIN closing = {}
<1>1. position[ThePartition] \in Offset
  BY FetchedType DEF OrderInv, CommitInv, OneOrderedPartition
<1>2. QED
  BY <1>1, TopicFacts
     DEF OrderInv, CommitInv, CanPoll, Fetched, Topic, Pos, TripOffsets

\* A trip whose window is not open is the first of it that is read.
LEMMA FirstOfItsWindow ==
    ASSUME OneOrderedPartition, OrderInv, pc # "down", Pos \in TripOffsets,
           StartAt(Pos) \notin DOMAIN windows,
           NEW i \in TripOffsets, i < Pos
    PROVE  StartAt(i) # StartAt(Pos)
<1>1. SUFFICES ASSUME StartAt(i) = StartAt(Pos) PROVE FALSE
  OBVIOUS
<1>2. LeftBehind(StartAt(Pos), Pos)
  BY <1>1 DEF OrderInv, ReadIsOpenOrLeft
<1>3. Pos < Pos
  BY <1>2, TopicFacts, LeftIsComplete DEF OrderInv
<1>4. QED
  BY <1>3, TopicFacts DEF OrderInv

\* In pickup order the trip fetched is the newest, so that its window is not
\* passed: nothing is late.
LEMMA FetchedIsNewest ==
    ASSUME OneOrderedPartition, OrderInv, CanPoll(ThePartition), Pos \in TripOffsets
    PROVE  /\ watermark # NoTime => watermark <= TimeAt(Pos) /\ watermark \in Nat
           /\ ~Closed(StartAt(Pos), watermark)
           /\ ~Closed(StartAt(Pos), TimeAt(Pos))
<1>1. /\ Topic \in Seq(Message) /\ Pos \in Nat
  BY TopicFacts DEF OrderInv
<1>2. /\ TimeAt(Pos) \in Nat /\ StartAt(Pos) \in Int
      /\ TimeAt(Pos) < StartAt(Pos) + Size
  BY <1>1, TripFacts
<1>3. watermark # NoTime => watermark <= TimeAt(Pos) /\ watermark \in Nat
  <2>1. SUFFICES ASSUME watermark # NoTime
                 PROVE  watermark <= TimeAt(Pos) /\ watermark \in Nat
    OBVIOUS
  <2>2. PICK n \in TripOffsets : n < Pos /\ TimeAt(n) = watermark
    BY <2>1, WatermarkTrip
  <2>3. QED
    BY <1>1, <2>2, TripFacts DEF OrderInv, InPickupOrder
<1>4. QED
  BY <1>2, <1>3, SizeAssumption, GraceAssumption DEF Closed

\* Evicting the closed windows, when what is read so far reaches up to offset n:
\* ws is split into complete windows, and what is evicted is left behind because
\* the watermark is one of the trips below n.
LEMMA EvictionKeeps ==
    ASSUME OneOrderedPartition, CommitInv, InPickupOrder,
           NEW ws, NEW wm, NEW n \in Nat, TakeClosed(ws, wm),
           DOMAIN ws \subseteq Starts, DOMAIN ws # {} => wm # NoTime,
           Complete(ws, n), FromFirst(ws, n),
           wm # NoTime => \E j \in TripOffsets : j < n /\ TimeAt(j) = wm,
           \A i \in TripOffsets : i < n =>
                StartAt(i) \in DOMAIN ws \/ LeftBehind(StartAt(i), n)
    PROVE  /\ Complete(windows', n) /\ Complete(closing', n)
           /\ FromFirst(windows', n) /\ Unpassed(windows', wm)
           /\ \A s \in DOMAIN closing' :
                \E j \in TripOffsets : j < n /\ s + Size + Grace <= TimeAt(j)
           /\ \A i \in TripOffsets : i < n =>
                StartAt(i) \in DOMAIN windows' \/ LeftBehind(StartAt(i), n)
<1> DEFINE closed == {s \in DOMAIN ws : Closed(s, wm)}
<1>1. /\ closing' = [s \in closed |-> ws[s]]
      /\ windows' = [s \in DOMAIN ws \ closed |-> ws[s]]
  BY DEF TakeClosed
<1>2. Topic \in Seq(Message)
  BY TopicFacts
<1>3. Complete(windows', n) /\ Complete(closing', n)
  BY <1>1 DEF Complete
<1>4. FromFirst(windows', n)
  BY <1>1 DEF FromFirst
<1>5. Unpassed(windows', wm)
  BY <1>1 DEF Unpassed
<1>6. ASSUME NEW s \in closed
      PROVE  \E j \in TripOffsets : j < n /\ s + Size + Grace <= TimeAt(j)
  BY DEF Closed
<1>7. ASSUME NEW s \in closed
      PROVE  LeftBehind(s, n)
  <2>1. PICK j \in TripOffsets : j < n /\ s + Size + Grace <= TimeAt(j)
    BY <1>6
  <2>2. /\ j \in Nat /\ TimeAt(j) \in Nat /\ StartAt(j) \in Int
        /\ TimeAt(j) < StartAt(j) + Size /\ s \in Int
    BY <1>2, TripFacts, StartsAreInt
  <2>3. s < StartAt(j) /\ j <= n
    BY <2>1, <2>2, SizeAssumption, GraceAssumption
  <2>4. QED
    BY <2>3 DEF LeftBehind
<1>8. \A i \in TripOffsets : i < n =>
        StartAt(i) \in DOMAIN windows' \/ LeftBehind(StartAt(i), n)
  BY <1>1, <1>7
<1>9. QED
  BY <1>1, <1>3, <1>4, <1>5, <1>6, <1>8

\* The part of the invariant about the topic, the commit and the table does not
\* depend on what is read.
LEMMA UnreadKept ==
    ASSUME OrderInv, UNCHANGED <<log, committed, table>>
    PROVE  InPickupOrder' /\ CommittedIsLeft' /\ FinalIsExact' /\ Com' = Com
<1>1. Com' = Com
  BY DEF Com
<1>2. QED
  BY <1>1, SameTopic
     DEF OrderInv, InPickupOrder, CommittedIsLeft, FinalIsExact

\* One iteration that reads up to offset n and evicts keeps the invariant.
LEMMA IterationKeepsOrder ==
    ASSUME OneOrderedPartition, OrderInv, CommitInv', WatermarkIsRead',
           UNCHANGED <<log, committed, table>>,
           NEW ws, NEW wm, NEW n \in Nat, Pos' = n, Pos <= n,
           watermark' = wm, TakeClosed(ws, wm),
           DOMAIN ws \subseteq Starts, DOMAIN ws # {} => wm # NoTime,
           Complete(ws, n), FromFirst(ws, n),
           wm # NoTime =>
                /\ \E j \in TripOffsets : j < n /\ TimeAt(j) = wm
                /\ \A i \in TripOffsets : i < n => TimeAt(i) <= wm,
           \A i \in TripOffsets : i < n =>
                StartAt(i) \in DOMAIN ws \/ LeftBehind(StartAt(i), n)
    PROVE  OrderInv'
<1>1. /\ Complete(windows', n) /\ Complete(closing', n)
      /\ FromFirst(windows', n) /\ Unpassed(windows', wm)
      /\ \A s \in DOMAIN closing' :
            \E j \in TripOffsets : j < n /\ s + Size + Grace <= TimeAt(j)
      /\ \A i \in TripOffsets : i < n =>
            StartAt(i) \in DOMAIN windows' \/ LeftBehind(StartAt(i), n)
  BY EvictionKeeps DEF OrderInv
<1>2. InPickupOrder' /\ CommittedIsLeft' /\ FinalIsExact' /\ Com' = Com
  BY UnreadKept
<1>3. /\ Topic' = Topic /\ TripOffsets' = TripOffsets
      /\ \A i : TimeAt(i)' = TimeAt(i) /\ StartAt(i)' = StartAt(i)
      /\ \A c, k : Count(c, k)' = Count(c, k)
      /\ \A s, k : LeftBehind(s, k)' <=> LeftBehind(s, k)
  BY SameTopic
<1>4. Com' <= Pos'
  BY <1>2, TopicFacts DEF OrderInv
<1>5. WatermarkIsNewest'
  BY <1>3 DEF WatermarkIsNewest
<1>6. Complete(windows, Pos)' /\ Complete(closing, Pos)'
  BY <1>1, <1>3 DEF Complete
<1>7. FromFirst(windows, Pos)' /\ Unpassed(windows, watermark)'
  BY <1>1, <1>3 DEF FromFirst, Unpassed, Closed
<1>8. ReadIsOpenOrLeft' /\ ClosingIsPassed'
  BY <1>1, <1>3 DEF ReadIsOpenOrLeft, ClosingIsPassed
<1>9. QED
  BY <1>2, <1>4, <1>5, <1>6, <1>7, <1>8 DEF OrderInv

\* What adding a trip does to the counts of its window.
LEMMA WindowAddCounts ==
    ASSUME None \notin TripZones, NEW w \in Window, NEW e \in Event,
           NEW p \in Partitions, NEW o \in Offset, NEW k \in Keys, NEW m \in MsgId
    PROVE  WindowAdd(w, e, p, o).zones[k][m] =
                IF m = <<p, o>> /\ k \in {e.zone, None}
                THEN w.zones[k][m] + 1 ELSE w.zones[k][m]
<1>1. /\ w.zones \in [Keys -> [MsgId -> Nat]] /\ e.zone \in Keys /\ None \in Keys
      /\ e.zone # None /\ <<p, o>> \in MsgId
  BY DEF Window, Aggregate, Event, Keys, MsgId
<1> DEFINE z == AggregateAdd(w.zones, e.zone, <<p, o>>)
<1>2. /\ z \in [Keys -> [MsgId -> Nat]]
      /\ z[k][m] = IF k = e.zone /\ m = <<p, o>> THEN w.zones[k][m] + 1 ELSE w.zones[k][m]
  BY <1>1 DEF AggregateAdd
<1> HIDE DEF z
<1>3. AggregateAdd(z, None, <<p, o>>)[k][m] =
        IF k = None /\ m = <<p, o>> THEN z[k][m] + 1 ELSE z[k][m]
  BY <1>1, <1>2 DEF AggregateAdd
<1>4. WindowAdd(w, e, p, o).zones = AggregateAdd(z, None, <<p, o>>)
  BY DEF WindowAdd, z
<1>5. QED
  BY <1>1, <1>2, <1>3, <1>4

\* The window of the trip fetched, with the trip added, is what a count from
\* scratch gives one message further on.
LEMMA AddedIsComplete ==
    ASSUME OneOrderedPartition, OrderInv, CanPoll(ThePartition),
           Pos \in TripOffsets, NEW w \in Window, NEW k \in Keys,
           w.zones[k] = Count(<<StartAt(Pos), k>>, Pos)
    PROVE  WindowAdd(w, Topic[Pos + 1], ThePartition, Pos).zones[k]
                = Count(<<StartAt(Pos), k>>, Pos + 1)
<1> DEFINE e == Topic[Pos + 1]
           c == <<StartAt(Pos), k>>
           added == WindowAdd(w, e, ThePartition, Pos)
<1>1. /\ Topic \in Seq(Message) /\ Pos \in Offset /\ Pos \in Nat
      /\ ThePartition \in Partitions
  BY TopicFacts, FetchedFacts DEF OrderInv, OneOrderedPartition
<1>2. e \in Event /\ StartAt(Pos) \in Starts
  BY <1>1, TripFacts
<1>3. added.zones \in [Keys -> [MsgId -> Nat]]
  BY <1>1, <1>2, WindowAddType DEF Window, Aggregate
<1>4. ASSUME NEW m \in MsgId
      PROVE  added.zones[k][m] = Count(c, Pos + 1)[m]
  <2>1. added.zones[k][m] = IF m = <<ThePartition, Pos>> /\ k \in {e.zone, None}
                            THEN w.zones[k][m] + 1 ELSE w.zones[k][m]
    BY <1>1, <1>2, WindowAddCounts DEF OneOrderedPartition
  <2>2. w.zones[k][m] = IF m[2] < Pos /\ Belongs(m[2], c) THEN 1 ELSE 0
    BY DEF Count
  <2>3. /\ m[1] = ThePartition /\ m[2] \in Nat
        /\ m = <<ThePartition, Pos>> <=> m[2] = Pos
    BY BoundsAssumption DEF MsgId, Offset, OneOrderedPartition
  <2>4. Belongs(Pos, c) <=> k \in {e.zone, None}
    BY DEF Belongs
  <2>5. Count(c, Pos + 1)[m] = IF m[2] < Pos + 1 /\ Belongs(m[2], c) THEN 1 ELSE 0
    BY DEF Count
  <2> HIDE DEF added, c
  <2>6. CASE m[2] = Pos
    BY <1>1, <2>1, <2>2, <2>3, <2>4, <2>5, <2>6
  <2>7. CASE m[2] # Pos
    BY <1>1, <2>1, <2>2, <2>3, <2>5, <2>7
  <2>8. QED
    BY <2>6, <2>7
<1>5. Count(c, Pos + 1) = [m \in MsgId |-> Count(c, Pos + 1)[m]]
  BY DEF Count
<1>6. added.zones[k] = [m \in MsgId |-> added.zones[k][m]]
  BY <1>3
<1>7. QED
  BY <1>4, <1>5, <1>6

\* Counting one message further changes only the cells of that message.
LEMMA CountPast ==
    ASSUME NEW n \in Nat, NEW c, ~Belongs(n, c)
    PROVE  Count(c, n) = Count(c, n + 1)
<1>1. \A i \in Offset : Belongs(i, c) => (i < n <=> i < n + 1)
  BY BoundsAssumption DEF Offset
<1>2. QED
  BY <1>1, CountOn

\* A trip read is added to its window, a new one or an open one, whose count
\* stays that of a count from scratch.
LEMMA PollTripKeepsOrder ==
    ASSUME OneOrderedPartition, OrderInv, CommitInv', WatermarkIsRead',
           PollTrip(ThePartition)
    PROVE  OrderInv'
<1> DEFINE P == ThePartition
           e == Topic[Pos + 1]
           s == StartAt(Pos)
           w == IF s \in DOMAIN windows THEN windows[s] ELSE NewWindow
           added == WindowAdd(w, e, P, Pos)
           ws == [x \in DOMAIN windows \cup {s} |->
                        IF x = s THEN added ELSE windows[x]]
           n == Pos + 1
<1>1. /\ CanPoll(P) /\ Consume(P) /\ Fetched(P) # Poison /\ P \in Partitions
  BY DEF PollTrip, OneOrderedPartition
<1>2. /\ Topic \in Seq(Message) /\ Pos \in Offset /\ Pos \in Nat /\ Pos < Len(Topic)
      /\ Fetched(P) = e /\ Pos \in TripOffsets /\ pc = "poll"
  BY <1>1, TopicFacts, FetchedFacts DEF OrderInv
<1>3. /\ e \in Event /\ s \in Starts /\ TimeAt(Pos) = e.time /\ TimeAt(Pos) \in Nat
      /\ s = WindowStart(e.time)
  BY <1>2, TripFacts DEF TimeAt, StartAt
<1>4. watermark' = TimeAt(Pos)
  <2>1. watermark' = IF watermark = NoTime \/ e.time > watermark THEN e.time ELSE watermark
    BY <1>2 DEF PollTrip
  <2>2. QED
    BY <1>1, <1>2, <1>3, <2>1, FetchedIsNewest
<1>5. TakeClosed(ws, TimeAt(Pos))
  <2>1. TakeClosed([x \in DOMAIN windows \cup {s} |->
                        IF x = s THEN added ELSE windows[x]], watermark')
    BY <1>2, <1>3 DEF PollTrip, Pos
  <2>2. QED
    BY <1>4, <2>1
<1>6. UNCHANGED <<log, committed, table>> /\ Pos' = n
  BY <1>1, <1>2 DEF Consume, durable, Pos, OrderInv, CommitInv, TypeOK
<1>7. w \in Window
  BY NewWindowType DEF OrderInv, CommitInv, TypeOK, WindowMap
<1>8. DOMAIN ws = DOMAIN windows \cup {s} /\ DOMAIN ws \subseteq Starts
      /\ s \in DOMAIN ws
  BY <1>3 DEF OrderInv, CommitInv, TypeOK, WindowMap
<1>9. /\ ws[s] = added
      /\ \A x \in DOMAIN ws : x # s => x \in DOMAIN windows /\ ws[x] = windows[x]
  OBVIOUS
<1>10. \A k \in Keys : w.zones[k] = Count(<<s, k>>, Pos)
  <2>1. SUFFICES ASSUME NEW k \in Keys PROVE w.zones[k] = Count(<<s, k>>, Pos)
    OBVIOUS
  <2>2. CASE s \in DOMAIN windows
    BY <2>2 DEF OrderInv, Complete
  <2>3. CASE s \notin DOMAIN windows
    <3>1. w.zones[k] = [m \in MsgId |-> 0]
      BY <2>3 DEF NewWindow, Nothing
    <3>2. \A i \in TripOffsets : i < Pos => StartAt(i) # s
      BY <1>2, <2>3, FirstOfItsWindow
    <3>3. \A m \in MsgId : ~(m[2] < Pos /\ Belongs(m[2], <<s, k>>))
      BY <3>2 DEF Belongs
    <3>4. QED
      BY <3>1, <3>3 DEF Count
  <2>4. QED
    BY <2>2, <2>3
<1>11. \A k \in Keys : added.zones[k] = Count(<<s, k>>, n)
  BY <1>1, <1>2, <1>7, <1>10, AddedIsComplete
<1>12. added.min_offsets[P] = IF s \in DOMAIN windows THEN windows[s].min_offsets[P] ELSE Pos
  <2>1. w.min_offsets \in [Partitions -> Offset \cup {NoOffset}]
    BY <1>7 DEF Window
  <2>2. added.min_offsets[P] =
            IF w.min_offsets[P] = NoOffset \/ Pos < w.min_offsets[P]
            THEN Pos ELSE w.min_offsets[P]
    BY <1>1, <2>1 DEF WindowAdd
  <2>3. s \notin DOMAIN windows => w.min_offsets[P] = NoOffset
    BY <1>1 DEF NewWindow
  <2>4. s \in DOMAIN windows => /\ w.min_offsets[P] \in Nat
                               /\ w.min_offsets[P] < Pos
    BY <1>2, TripFacts DEF OrderInv, FromFirst
  <2>5. s \in DOMAIN windows => w.min_offsets[P] # NoOffset /\ ~(Pos < w.min_offsets[P])
    BY <1>2, <2>4 DEF NoOffset
  <2>6. QED
    BY <2>2, <2>3, <2>5
<1> HIDE DEF w, added, ws, n, s, e, P
<1>13. n \in Nat /\ Pos <= n /\ Pos < n /\ n = Pos + 1
  BY <1>2 DEF n
<1>14. Complete(ws, n)
  <2>1. SUFFICES ASSUME NEW x \in DOMAIN ws, NEW k \in Keys
                 PROVE  ws[x].zones[k] = Count(<<x, k>>, n)
    BY DEF Complete
  <2>2. CASE x = s
    BY <1>9, <1>11, <2>2
  <2>3. CASE x # s
    <3>1. x \in DOMAIN windows /\ ws[x] = windows[x]
      BY <1>9, <2>3
    <3>2. ws[x].zones[k] = Count(<<x, k>>, Pos)
      BY <3>1 DEF OrderInv, Complete
    <3>3. ~Belongs(Pos, <<x, k>>)
      BY <2>3 DEF Belongs, s
    <3>4. QED
      BY <1>2, <1>13, <3>2, <3>3, CountPast
  <2>4. QED
    BY <2>2, <2>3
<1>15. \A i \in TripOffsets : i < n => i < Pos \/ i = Pos
  BY <1>2, <1>13, TripFacts
<1>16. FromFirst(ws, n)
  <2>1. SUFFICES ASSUME NEW x \in DOMAIN ws
                 PROVE  LET o == ws[x].min_offsets[ThePartition] IN
                        /\ o \in TripOffsets /\ o < n /\ StartAt(o) = x
                        /\ \A i \in TripOffsets : i < n /\ StartAt(i) = x => o <= i
    BY DEF FromFirst
  <2>2. CASE x \in DOMAIN windows
    <3> DEFINE o == windows[x].min_offsets[ThePartition]
    <3>1. /\ o \in TripOffsets /\ o < Pos /\ StartAt(o) = x
          /\ \A i \in TripOffsets : i < Pos /\ StartAt(i) = x => o <= i
      BY <2>2 DEF OrderInv, FromFirst
    <3>2. ws[x].min_offsets[ThePartition] = o
      BY <1>9, <1>12, <2>2 DEF P
    <3> HIDE DEF o
    <3>3. o \in Nat /\ o < n /\ o <= Pos
      BY <1>2, <1>13, <3>1, TripFacts
    <3>4. QED
      BY <1>15, <3>1, <3>2, <3>3
  <2>3. CASE x \notin DOMAIN windows
    <3>1. x = s /\ ws[x].min_offsets[ThePartition] = Pos
      BY <1>9, <1>12, <2>3 DEF P
    <3>2. \A i \in TripOffsets : i < Pos => StartAt(i) # s
      BY <1>2, <2>3, <3>1, FirstOfItsWindow DEF s
    <3>3. QED
      BY <1>2, <1>13, <1>15, <3>1, <3>2 DEF s
  <2>4. QED
    BY <2>2, <2>3
<1>17. \A i \in TripOffsets : i < n => TimeAt(i) <= TimeAt(Pos)
  <2>1. \A i \in TripOffsets : i < n => i <= Pos
    BY <1>2, <1>15, TripFacts
  <2>2. QED
    BY <1>2, <2>1 DEF OrderInv, InPickupOrder
<1>18. \A i \in TripOffsets : i < n =>
            StartAt(i) \in DOMAIN ws \/ LeftBehind(StartAt(i), n)
  <2>1. SUFFICES ASSUME NEW i \in TripOffsets, i < n
                 PROVE  StartAt(i) \in DOMAIN ws \/ LeftBehind(StartAt(i), n)
    OBVIOUS
  <2>2. CASE i = Pos
    BY <1>8, <2>2 DEF s
  <2>3. CASE i < Pos
    <3>1. StartAt(i) \in DOMAIN windows \/ LeftBehind(StartAt(i), Pos)
      BY <1>2, <2>3 DEF OrderInv, ReadIsOpenOrLeft
    <3>2. QED
      BY <1>2, <1>8, <1>13, <3>1, LeftStays
  <2>4. QED
    BY <1>15, <2>1, <2>2, <2>3
<1>19. TimeAt(Pos) # NoTime
  BY <1>3 DEF NoTime
<1>20. QED
  BY <1>2, <1>4, <1>5, <1>6, <1>8, <1>13, <1>14, <1>16, <1>17, <1>18, <1>19,
     IterationKeepsOrder

\* A poison message, or none, is no trip: what is complete up to Pos is complete
\* past it.
LEMMA PollPoisonKeepsOrder ==
    ASSUME OneOrderedPartition, OrderInv, CommitInv', WatermarkIsRead',
           PollPoison(ThePartition) \/ PollNothing
    PROVE  OrderInv'
<1>1. Topic \in Seq(Message) /\ Pos \in Nat
  BY TopicFacts DEF OrderInv
<1>2. PICK n \in Nat : /\ n = Pos \/ (n = Pos + 1 /\ Pos \notin TripOffsets)
                      /\ Pos' = n
  <2>1. CASE PollPoison(ThePartition)
    <3>1. Pos \notin TripOffsets
      BY <2>1, FetchedFacts DEF PollPoison
    <3>2. Pos' = Pos + 1
      BY <2>1 DEF PollPoison, Consume, Pos, OneOrderedPartition, OrderInv, CommitInv, TypeOK
    <3>3. QED
      BY <1>1, <3>1, <3>2
  <2>2. CASE PollNothing
    BY <1>1, <2>2 DEF PollNothing, Pos
  <2>3. QED
    BY <2>1, <2>2
<1>3. /\ UNCHANGED <<log, committed, table, watermark>> /\ pc = "poll"
      /\ TakeClosed(windows, watermark)
  BY DEF PollPoison, PollNothing, Consume, CanPoll, durable
<1>4. Pos <= n
  BY <1>1, <1>2
<1>5. \A i \in TripOffsets : i < n <=> i < Pos
  <2>1. SUFFICES ASSUME NEW i \in TripOffsets PROVE i < n <=> i < Pos
    OBVIOUS
  <2>2. i \in Nat
    BY <1>1, TripFacts
  <2>3. CASE n = Pos
    BY <2>3
  <2>4. CASE n = Pos + 1 /\ Pos \notin TripOffsets
    BY <1>1, <2>1, <2>2, <2>4
  <2>5. QED
    BY <1>2, <2>3, <2>4
<1>6. Complete(windows, n)
  <2>1. \A c : Count(c, Pos) = Count(c, n)
    BY <1>5, CountOn DEF Belongs
  <2>2. QED
    BY <2>1 DEF OrderInv, Complete
<1>7. FromFirst(windows, n)
  BY <1>5 DEF OrderInv, FromFirst
<1>8. \A i \in TripOffsets : i < n =>
            StartAt(i) \in DOMAIN windows \/ LeftBehind(StartAt(i), n)
  BY <1>1, <1>2, <1>3, <1>4, <1>5, LeftStays DEF OrderInv, ReadIsOpenOrLeft
<1>9. watermark # NoTime =>
            /\ \E j \in TripOffsets : j < n /\ TimeAt(j) = watermark
            /\ \A i \in TripOffsets : i < n => TimeAt(i) <= watermark
  BY <1>5, WatermarkTrip DEF OrderInv, WatermarkIsNewest
<1>10. DOMAIN windows \subseteq Starts /\ (DOMAIN windows # {} => watermark # NoTime)
  BY DEF OrderInv, CommitInv, TypeOK, WindowMap, Unpassed
<1>11. QED
  BY <1>2, <1>3, <1>4, <1>6, <1>7, <1>8, <1>9, <1>10, IterationKeepsOrder

\* Nothing is late.
LEMMA NeverLate ==
    ASSUME OneOrderedPartition, OrderInv, PollLate(ThePartition)
    PROVE  FALSE
<1>1. /\ CanPoll(ThePartition) /\ Fetched(ThePartition) # Poison
      /\ Closed(WindowStart(Fetched(ThePartition).time), watermark)
  BY DEF PollLate, Accepts
<1>2. Pos \in TripOffsets /\ Closed(StartAt(Pos), watermark)
  BY <1>1, FetchedFacts DEF StartAt, TimeAt
<1>3. QED
  BY <1>1, <1>2, FetchedIsNewest

-----------------------------------------------------------------------------
(***************************************************************************)
(* Writing, committing, stopping                                           *)
(***************************************************************************)
\* Steps that leave the topic, the fetch position and the open windows alone
\* keep what the invariant says of them.
LEMMA StoreKept ==
    ASSUME OrderInv, UNCHANGED <<log, position, windows, watermark>>
    PROVE  /\ InPickupOrder' /\ WatermarkIsNewest' /\ Complete(windows, Pos)'
           /\ FromFirst(windows, Pos)' /\ Unpassed(windows, watermark)'
           /\ Pos' = Pos
<1>1. Pos' = Pos
  BY DEF Pos
<1>2. QED
  BY <1>1, SameTopic
     DEF OrderInv, InPickupOrder, WatermarkIsNewest, Complete, FromFirst, Unpassed, Closed

\* An Exit leaves a process without windows, of which everything is true.
LEMMA ExitKept ==
    ASSUME OrderInv, UNCHANGED <<log, position>>, Exit
    PROVE  /\ InPickupOrder' /\ WatermarkIsNewest' /\ Complete(windows, Pos)'
           /\ Complete(closing, Pos)' /\ FromFirst(windows, Pos)'
           /\ Unpassed(windows, watermark)' /\ ReadIsOpenOrLeft' /\ ClosingIsPassed'
           /\ Pos' = Pos
<1>1. Pos' = Pos /\ DOMAIN windows' = {} /\ DOMAIN closing' = {}
      /\ watermark' = NoTime /\ pc' = "down"
  BY DEF Pos, Exit, NoWindows
<1>2. QED
  BY <1>1, SameTopic
     DEF OrderInv, InPickupOrder, WatermarkIsNewest, Complete, FromFirst, Unpassed,
         ReadIsOpenOrLeft, ClosingIsPassed

\* A commit falls between two windows: at the first trip of an open one, before
\* which every trip read is of an earlier window, or, with no window open, at
\* the fetch position.
LEMMA CommitKeeps ==
    ASSUME OneOrderedPartition, OrderInv, pc # "down", CommitOffsets,
           UNCHANGED <<log, position>>
    PROVE  CommittedIsLeft' /\ Com' <= Pos'
<1> DEFINE P == ThePartition
           safe == SafeCommitOffset(P)
<1>1. P \in Partitions /\ Pos' = Pos
  BY DEF OneOrderedPartition, Pos
<1>2. /\ Topic \in Seq(Message) /\ Pos \in Nat /\ Com \in Nat
  BY TopicFacts DEF OrderInv
<1>3. Com' = Com \/ Com' = safe
  BY <1>1 DEF CommitOffsets, Com
<1>4. safe \in Nat /\ safe <= Pos
  BY <1>1, SafeCommitOffsetBounds DEF OrderInv, Pos
<1>5. ASSUME NEW i \in TripOffsets, i < safe, last_offsets[P] # NoOffset
      PROVE  LeftBehind(StartAt(i), safe)
  <2>1. CASE OpenMins(P) = {}
    <3>1. safe = Pos
      BY <1>1, <1>5, <2>1 DEF SafeCommitOffset, OrderInv, CommitInv, Pos
    <3>2. \A s \in DOMAIN windows : windows[s].min_offsets[P] = NoOffset
      BY <2>1 DEF OpenMins
    <3>3. \A s \in DOMAIN windows : windows[s].min_offsets[P] \in Nat
      BY <1>2, TripFacts DEF OrderInv, FromFirst
    <3>4. \A s \in DOMAIN windows : FALSE
      BY <3>2, <3>3 DEF NoOffset
    <3>5. QED
      BY <1>5, <3>1, <3>4 DEF OrderInv, ReadIsOpenOrLeft
  <2>2. CASE OpenMins(P) # {}
    <3>1. OpenMins(P) \in SUBSET Nat
      BY <1>1 DEF OrderInv, CommitInv, TypeOK, OpenMins, WindowMap, Window, Offset, NoOffset
    <3>2. safe \in OpenMins(P) /\ \A o \in OpenMins(P) : safe <= o
      BY <1>5, <2>2, <3>1, MinOfNaturals DEF SafeCommitOffset
    <3>3. PICK s \in DOMAIN windows : safe = windows[s].min_offsets[P]
      BY <3>2 DEF OpenMins
    <3>4. safe \in TripOffsets /\ safe < Pos /\ StartAt(safe) = s
          /\ \A j \in TripOffsets : j < Pos /\ StartAt(j) = s => safe <= j
      BY <3>3 DEF OrderInv, FromFirst
    <3>5. i \in Nat /\ i < Pos /\ StartAt(i) \in Int /\ StartAt(safe) \in Int
      BY <1>2, <1>4, <1>5, <3>4, TripFacts
    <3>6. StartAt(i) # s
      BY <1>4, <1>5, <3>4, <3>5
    <3>7. StartAt(i) <= StartAt(safe)
      BY <1>2, <1>4, <1>5, <3>4, <3>5, StartsInOrder DEF OrderInv
    <3>8. QED
      BY <1>4, <3>4, <3>5, <3>6, <3>7 DEF LeftBehind
  <2>3. QED
    BY <2>1, <2>2
<1>6. last_offsets[P] = NoOffset => safe = Com
  BY DEF SafeCommitOffset, Com
<1>7. \A i \in TripOffsets : i < Com' => LeftBehind(StartAt(i), Com')
  BY <1>3, <1>5, <1>6 DEF OrderInv, CommittedIsLeft
<1>8. CommittedIsLeft'
  BY <1>7, SameTopic DEF CommittedIsLeft
<1>9. QED
  BY <1>1, <1>3, <1>4, <1>8 DEF OrderInv

\* A transaction that writes complete windows, if as final ones then windows that
\* were passed, keeps the final rows exact.
LEMMA UpsertKeepsExact ==
    ASSUME OneOrderedPartition, OrderInv, UNCHANGED log,
           NEW ws, NEW final \in BOOLEAN, Upsert(ws, final), Complete(ws, Pos),
           final => \A s \in DOMAIN ws : \E n \in TripOffsets :
                        n < Pos /\ s + Size + Grace <= TimeAt(n)
    PROVE  FinalIsExact'
<1>1. /\ Topic \in Seq(Message) /\ Len(Topic) \in Nat
      /\ Pos \in Nat /\ Pos <= Len(Topic)
  BY TopicFacts DEF OrderInv
<1>2. SUFFICES ASSUME NEW c \in Cell, table'[c].is_final
               PROVE  /\ table'[c].agg = Count(c, Len(Topic))
                      /\ LeftBehind(c[1], Len(Topic))
  BY SameTopic DEF FinalIsExact
<1>3. table'[c] = IF c[1] \in DOMAIN ws /\ ws[c[1]].zones[c[2]] # Nothing
                  THEN [agg |-> ws[c[1]].zones[c[2]], is_final |-> final]
                  ELSE table[c]
  BY DEF Upsert, Cell
<1>4. CASE c[1] \in DOMAIN ws /\ ws[c[1]].zones[c[2]] # Nothing
  <2>1. final /\ table'[c].agg = ws[c[1]].zones[c[2]]
    BY <1>2, <1>3, <1>4
  <2>2. c = <<c[1], c[2]>> /\ c[1] \in Int /\ c[2] \in Keys
    <3>1. c = <<c[1], c[2]>> /\ c[1] \in Starts /\ c[2] \in Keys
      BY DEF Cell
    <3>2. QED
      BY <3>1, StartsAreInt
  <2>3. table'[c].agg = Count(c, Pos)
    BY <1>4, <2>1, <2>2 DEF Complete
  <2>4. PICK n \in TripOffsets : n < Pos /\ c[1] + Size + Grace <= TimeAt(n)
    BY <1>4, <2>1
  <2>5. LeftBehind(c[1], Pos)
    <3>1. /\ n \in Nat /\ TimeAt(n) \in Nat /\ StartAt(n) \in Int
          /\ TimeAt(n) < StartAt(n) + Size
      BY <1>1, TripFacts
    <3>2. c[1] < StartAt(n) /\ n <= Pos
      BY <1>1, <2>2, <2>4, <3>1, SizeAssumption, GraceAssumption
    <3>3. QED
      BY <3>2 DEF LeftBehind
  <2>6. \A i \in TripOffsets : StartAt(i) = c[1] => i < Pos /\ i < Len(Topic)
    BY <1>1, <2>5, LeftIsComplete, TripFacts DEF OrderInv
  <2>7. Count(c, Pos) = Count(c, Len(Topic))
    BY <2>6, CountOn DEF Belongs
  <2>8. QED
    BY <1>1, <2>3, <2>5, <2>7, LeftStays
<1>5. CASE ~(c[1] \in DOMAIN ws /\ ws[c[1]].zones[c[2]] # Nothing)
  BY <1>2, <1>3, <1>5 DEF OrderInv, FinalIsExact
<1>6. QED
  BY <1>4, <1>5

\* Every step keeps the invariant.
LEMMA NextOrder ==
    ASSUME OneOrderedPartition
    PROVE  OrderInv /\ [Next]_vars => OrderInv'
<1> SUFFICES ASSUME OrderInv, [Next]_vars
             PROVE  OrderInv'
  OBVIOUS
<1>1. CommitInv /\ CommitInv' /\ WatermarkIsRead'
  BY NextCommitInv, NextWatermark DEF OrderInv
<1>2. /\ Topic \in Seq(Message) /\ Pos \in Nat /\ Com \in Nat
  BY <1>1, TopicFacts
<1>3. ASSUME NEW p \in Partitions, Produce(p) \/ Poll(p)
      PROVE  OrderInv'
  <2>1. p = ThePartition
    BY DEF OneOrderedPartition
  <2>2. QED
    BY <1>1, <1>3, <2>1, ProduceKeepsOrder, PollTripKeepsOrder,
       PollPoisonKeepsOrder, NeverLate DEF Poll
<1>4. CASE PollNothing
  BY <1>1, <1>4, PollPoisonKeepsOrder
<1>5. CASE WriteClosed \/ WriteClosedFails
  <2>1. /\ UNCHANGED <<log, committed, position, windows, watermark>>
        /\ DOMAIN closing' = {} /\ pc = "finalize" /\ pc' # "down"
        /\ Upsert(closing, TRUE) \/ UNCHANGED table
    BY <1>5 DEF WriteClosed, WriteClosedFails, WriteFails, store, NoWindows
  <2>2. Com' = Com
    BY <2>1 DEF Com
  <2>3. FinalIsExact'
    <3>1. CASE Upsert(closing, TRUE)
      BY <2>1, <3>1, UpsertKeepsExact DEF OrderInv, ClosingIsPassed
    <3>2. CASE UNCHANGED table
      BY <2>1, <2>2, <3>2, UnreadKept
    <3>3. QED
      BY <2>1, <3>1, <3>2
  <2>4. ReadIsOpenOrLeft'
    BY <2>1, SameTopic, StoreKept DEF OrderInv, ReadIsOpenOrLeft
  <2>5. CommittedIsLeft'
    BY <2>1, <2>2, SameTopic DEF OrderInv, CommittedIsLeft
  <2>6. Complete(closing, Pos)' /\ ClosingIsPassed'
    BY <2>1 DEF Complete, ClosingIsPassed
  <2>7. QED
    BY <1>1, <2>1, <2>2, <2>3, <2>4, <2>5, <2>6, StoreKept DEF OrderInv
<1>6. CASE Flush \/ FlushFails \/ RequestShutdown \/ StopWrite
  <2>1. /\ UNCHANGED <<log, committed, position, windows, watermark, closing>>
        /\ pc # "down"
        /\ Upsert(windows, FALSE) \/ UNCHANGED table
    BY <1>6 DEF Flush, FlushFails, RequestShutdown, StopWrite, WriteFails, store,
                durable
  <2>2. Com' = Com
    BY <2>1 DEF Com
  <2>3. FinalIsExact'
    <3>1. CASE Upsert(windows, FALSE)
      BY <2>1, <3>1, UpsertKeepsExact DEF OrderInv
    <3>2. CASE UNCHANGED table
      BY <2>1, <2>2, <3>2, UnreadKept
    <3>3. QED
      BY <2>1, <3>1, <3>2
  <2>4. ReadIsOpenOrLeft'
    BY <2>1, SameTopic, StoreKept DEF OrderInv, ReadIsOpenOrLeft
  <2>5. CommittedIsLeft'
    BY <2>1, <2>2, SameTopic DEF OrderInv, CommittedIsLeft
  <2>6. Complete(closing, Pos)' /\ ClosingIsPassed'
    BY <2>1, SameTopic, StoreKept DEF OrderInv, Complete, ClosingIsPassed
  <2>7. QED
    BY <1>1, <2>1, <2>2, <2>3, <2>4, <2>5, <2>6, StoreKept DEF OrderInv
<1>7. CASE Commit
  <2>1. /\ UNCHANGED <<log, table, position, windows, watermark, closing>>
        /\ pc # "down" /\ CommitOffsets
    BY <1>7 DEF Commit, store
  <2>2. FinalIsExact'
    BY <2>1, SameTopic DEF OrderInv, FinalIsExact
  <2>3. ReadIsOpenOrLeft'
    BY <2>1, SameTopic, StoreKept DEF OrderInv, ReadIsOpenOrLeft
  <2>4. Complete(closing, Pos)' /\ ClosingIsPassed'
    BY <2>1, SameTopic, StoreKept DEF OrderInv, Complete, ClosingIsPassed
  <2>5. QED
    BY <1>1, <2>1, <2>2, <2>3, <2>4, StoreKept, CommitKeeps DEF OrderInv
<1>8. CASE StopCommit
  <2>1. /\ UNCHANGED <<log, table, position>> /\ pc # "down" /\ CommitOffsets /\ Exit
    BY <1>8 DEF StopCommit
  <2>2. FinalIsExact'
    BY <2>1, SameTopic DEF OrderInv, FinalIsExact
  <2>3. QED
    BY <1>1, <2>1, <2>2, ExitKept, CommitKeeps DEF OrderInv
<1>9. CASE StopWriteFails \/ Crash
  <2>1. UNCHANGED <<log, committed, table, position>> /\ Exit
    BY <1>9 DEF StopWriteFails, WriteFails, Crash, durable
  <2>2. QED
    BY <1>1, <2>1, ExitKept, UnreadKept DEF OrderInv
<1>10. CASE Start
  <2>1. /\ UNCHANGED <<log, committed, table, windows, watermark, closing>>
        /\ pc = "down" /\ position' = committed
    BY <1>10 DEF Start, store, durable
  <2>2. /\ DOMAIN windows = {} /\ DOMAIN closing = {} /\ watermark = NoTime
        /\ Pos' = Com
    BY <2>1 DEF OrderInv, CommitInv, WatermarkIsRead, Pos, Com
  <2>3. InPickupOrder' /\ CommittedIsLeft' /\ FinalIsExact' /\ Com' = Com
    BY <2>1, UnreadKept
  <2>4. ReadIsOpenOrLeft'
    BY <2>1, <2>2, SameTopic DEF OrderInv, CommittedIsLeft, ReadIsOpenOrLeft
  <2>5. /\ WatermarkIsNewest' /\ Complete(windows, Pos)' /\ Complete(closing, Pos)'
        /\ FromFirst(windows, Pos)' /\ Unpassed(windows, watermark)'
        /\ ClosingIsPassed'
    BY <2>1, <2>2
       DEF WatermarkIsNewest, Complete, FromFirst, Unpassed, ClosingIsPassed
  <2>6. QED
    BY <1>1, <1>2, <2>2, <2>3, <2>4, <2>5 DEF OrderInv
<1>11. CASE UNCHANGED vars
  <2>1. /\ UNCHANGED <<log, committed, table, position, windows, watermark, closing, pc>>
        /\ Com' = Com
    BY <1>11 DEF vars, Com
  <2>2. ReadIsOpenOrLeft'
    BY <2>1, SameTopic, StoreKept DEF OrderInv, ReadIsOpenOrLeft
  <2>3. Complete(closing, Pos)' /\ ClosingIsPassed'
    BY <2>1, SameTopic, StoreKept DEF OrderInv, Complete, ClosingIsPassed
  <2>4. QED
    BY <1>1, <2>1, <2>2, <2>3, StoreKept, UnreadKept DEF OrderInv
<1>12. QED
  BY <1>3, <1>4, <1>5, <1>6, <1>7, <1>8, <1>9, <1>10, <1>11 DEF Next

\* OrderInv is an invariant.
LEMMA OrderInvariant ==
    ASSUME OneOrderedPartition
    PROVE  Spec => []OrderInv
<1>1. Init => OrderInv
  BY InitOrder
<1>2. OrderInv /\ [Next]_vars => OrderInv'
  BY NextOrder
<1>3. QED
  BY <1>1, <1>2, PTL DEF Spec

\* An open window holds each trip of its time that was read past, once: restarts
\* begin between two windows, so every window is rebuilt from its first trip on.
THEOREM OpenWindowsAreComplete ==
    ASSUME OneOrderedPartition
    PROVE  Spec => []OpenWindowsComplete
<1>1. OrderInv => OpenWindowsComplete
  <2>1. SUFFICES ASSUME OrderInv, NEW s \in DOMAIN windows, NEW k \in Keys
                 PROVE  windows[s].zones[k] = Recount(<<s, k>>, position)
    BY DEF OpenWindowsComplete
  <2>2. <<s, k>> \in Cell
    <3>1. s \in Starts
      BY <2>1 DEF OrderInv, CommitInv, TypeOK, WindowMap
    <3>2. QED
      BY <3>1 DEF Cell
  <2>3. Recount(<<s, k>>, position) = Count(<<s, k>>, Pos)
    BY <2>2, RecountIsCount DEF Pos
  <2>4. QED
    BY <2>1, <2>3 DEF OrderInv, Complete
<1>2. QED
  BY <1>1, OrderInvariant, PTL

\* A final row counts each trip of its cell on the topic, once, and no trip of it
\* is still to come; even when transactions are refused in between.
THEOREM FinalRowsAreExactCounts ==
    ASSUME OneOrderedPartition
    PROVE  Spec => []FinalRowsExact
<1>1. OrderInv => FinalRowsExact
  <2>1. SUFFICES ASSUME OrderInv, NEW c \in Cell, table[c].is_final
                 PROVE  table[c].agg = Recount(c, LogEnd)
    BY DEF FinalRowsExact, Cell
  <2>2. LogEnd[ThePartition] = Len(Topic)
    BY DEF LogEnd, Topic, OneOrderedPartition
  <2>3. QED
    BY <2>1, <2>2, RecountIsCount DEF OrderInv, FinalIsExact
<1>2. QED
  BY <1>1, OrderInvariant, PTL

-----------------------------------------------------------------------------
(***************************************************************************)
(* Committing is forgetting: what is committed is in final rows            *)
(***************************************************************************)
\* No transaction is refused.  With one refused, the windows evicted for it are
\* lost and what fed them is committed (run hot_failed_write).
NothingRefused == MaxWriteFailures = 0

Finals(i) == \A c \in Cell : Belongs(i, c) => table[c].is_final

CommittedIsFinal == \A i \in TripOffsets : i < Com => Finals(i)

\* Where a trip that was read is: in memory, or in its final rows.
ReadIsAccounted ==
    pc # "down" =>
        \A i \in TripOffsets : i < Pos =>
            \/ StartAt(i) \in DOMAIN windows
            \/ StartAt(i) \in DOMAIN closing
            \/ Finals(i)

FinalInv == OrderInv /\ CommittedIsFinal /\ ReadIsAccounted

\* Rows that are final, and stay so, keep a trip's.
LEMMA FinalsKept ==
    ASSUME UNCHANGED log, NEW i, Finals(i),
           \A c \in Cell : Belongs(i, c) /\ table[c].is_final => table'[c].is_final
    PROVE  Finals(i)'
<1>1. \A c : Belongs(i, c)' <=> Belongs(i, c)
  BY SameTopic DEF Belongs, Topic
<1>2. QED
  BY <1>1 DEF Finals

\* Reading moves a trip into a window; evicting moves its window to `closing'.
LEMMA IterationKeepsFinal ==
    ASSUME FinalInv, UNCHANGED <<log, committed, table>>, pc = "poll",
           DOMAIN closing = {},
           NEW ws, NEW wm, TakeClosed(ws, wm), DOMAIN windows \subseteq DOMAIN ws,
           \A i \in TripOffsets : i < Pos' => i < Pos \/ StartAt(i) \in DOMAIN ws
    PROVE  CommittedIsFinal' /\ ReadIsAccounted'
<1>1. DOMAIN ws = DOMAIN windows' \cup DOMAIN closing'
  BY DEF TakeClosed
<1>2. \A i : Finals(i) => Finals(i)'
  BY FinalsKept
<1>3. CommittedIsFinal'
  BY <1>2, SameTopic DEF FinalInv, CommittedIsFinal, Com
<1>4. ReadIsAccounted'
  BY <1>1, <1>2, SameTopic DEF FinalInv, ReadIsAccounted
<1>5. QED
  BY <1>3, <1>4

\* A trip below an open window's first offset is not in that window.
LEMMA BelowTheFirst ==
    ASSUME OneOrderedPartition, OrderInv, NEW n \in Nat, n <= Pos,
           NEW i \in TripOffsets, i < n,
           \A s \in DOMAIN windows :
                windows[s].min_offsets[ThePartition] # NoOffset
                    => n <= windows[s].min_offsets[ThePartition]
    PROVE  StartAt(i) \notin DOMAIN windows
<1>1. SUFFICES ASSUME StartAt(i) \in DOMAIN windows PROVE FALSE
  OBVIOUS
<1> DEFINE o == windows[StartAt(i)].min_offsets[ThePartition]
<1>2. Topic \in Seq(Message) /\ Pos \in Nat
  BY TopicFacts DEF OrderInv
<1>3. o \in TripOffsets /\ (i < Pos => o <= i)
  BY <1>1 DEF OrderInv, FromFirst
<1>4. o \in Nat /\ i \in Nat
  BY <1>2, <1>3, TripFacts
<1>5. o # NoOffset /\ n <= o
  BY <1>1, <1>4 DEF NoOffset
<1>6. QED
  BY <1>2, <1>3, <1>4, <1>5

\* The committed trips are in no open window.
LEMMA CommittedIsClosed ==
    ASSUME OneOrderedPartition, OrderInv, NEW i \in TripOffsets, i < Com
    PROVE  StartAt(i) \notin DOMAIN windows
<1>1. Com \in Nat /\ Com <= Pos
  BY TopicFacts DEF OrderInv
<1>2. \A s \in DOMAIN windows :
        windows[s].min_offsets[ThePartition] # NoOffset
            => Com <= windows[s].min_offsets[ThePartition]
  BY DEF OrderInv, CommitInv, Fed, OneOrderedPartition, Com
<1>3. QED
  BY <1>1, <1>2, BelowTheFirst

\* A write of the open windows touches no row of a trip whose window is not open.
LEMMA FlushKeepsFinal ==
    ASSUME OneOrderedPartition, FinalInv, pc # "down",
           UNCHANGED <<log, committed, position, windows, closing>>,
           Upsert(windows, FALSE)
    PROVE  CommittedIsFinal' /\ ReadIsAccounted'
<1>1. ASSUME NEW i, Finals(i), StartAt(i) \notin DOMAIN windows
      PROVE  Finals(i)'
  <2>1. \A c \in Cell : Belongs(i, c) => table'[c] = table[c]
    BY <1>1 DEF Upsert, Cell, Belongs
  <2>2. QED
    BY <1>1, <2>1, FinalsKept
<1>2. CommittedIsFinal'
  BY <1>1, CommittedIsClosed, SameTopic DEF FinalInv, CommittedIsFinal, Com
<1>3. ReadIsAccounted'
  BY <1>1, SameTopic DEF FinalInv, ReadIsAccounted, Pos
<1>4. QED
  BY <1>2, <1>3

\* The write of the evicted windows makes every row of their trips final.
LEMMA WriteClosedKeepsFinal ==
    ASSUME OneOrderedPartition, FinalInv, WriteClosed
    PROVE  CommittedIsFinal' /\ ReadIsAccounted'
<1>1. /\ UNCHANGED <<log, committed, position, windows>> /\ pc = "finalize"
      /\ Upsert(closing, TRUE)
  BY DEF WriteClosed, store
<1>2. \A c \in Cell : table[c].is_final => table'[c].is_final
  BY <1>1 DEF Upsert, Cell
<1>3. \A i : Finals(i) => Finals(i)'
  BY <1>1, <1>2, FinalsKept
<1>4. ASSUME NEW i \in TripOffsets, i < Pos, StartAt(i) \in DOMAIN closing
      PROVE  Finals(i)'
  <2>1. SUFFICES ASSUME NEW c \in Cell, Belongs(i, c)'
                 PROVE  table'[c].is_final
    BY DEF Finals
  <2>2. Belongs(i, c)
    BY <1>1, <2>1, SameTopic DEF Belongs, Topic
  <2>3. /\ c[1] \in DOMAIN closing /\ c[2] \in Keys /\ c = <<c[1], c[2]>>
    BY <1>4, <2>2 DEF Belongs, Cell
  <2>4. closing[c[1]].zones[c[2]] = Count(c, Pos)
    BY <2>3 DEF FinalInv, OrderInv, Complete
  <2>5. <<ThePartition, i>> \in MsgId
    BY TopicFacts, TripFacts DEF FinalInv, OrderInv, MsgId, OneOrderedPartition
  <2>6. Count(c, Pos)[<<ThePartition, i>>] = 1
    BY <1>4, <2>2, <2>5 DEF Count
  <2>7. Nothing[<<ThePartition, i>>] = 0
    BY <2>5 DEF Nothing
  <2>8. closing[c[1]].zones[c[2]] # Nothing
    BY <2>4, <2>6, <2>7
  <2>9. QED
    BY <1>1, <2>3, <2>8 DEF Upsert, Cell
<1>5. CommittedIsFinal'
  BY <1>1, <1>3, SameTopic DEF FinalInv, CommittedIsFinal, Com
<1>6. ReadIsAccounted'
  BY <1>1, <1>3, <1>4, SameTopic DEF FinalInv, ReadIsAccounted, Pos
<1>7. QED
  BY <1>5, <1>6

\* A commit commits no trip of an open window, and with nothing waiting to be
\* written the others that were read are final.
LEMMA CommitKeepsFinal ==
    ASSUME OneOrderedPartition, FinalInv, pc \in {"commit", "stopcommit"},
           CommitOffsets, UNCHANGED <<log, table>>
    PROVE  CommittedIsFinal'
<1>1. /\ ThePartition \in Partitions /\ DOMAIN closing = {} /\ pc # "down"
      /\ Topic \in Seq(Message) /\ Pos \in Nat
  BY TopicFacts DEF FinalInv, OrderInv, CommitInv, OneOrderedPartition
<1>2. PICK safe : safe = SafeCommitOffset(ThePartition)
  OBVIOUS
<1>3. Com' = Com \/ Com' = safe
  BY <1>1, <1>2 DEF CommitOffsets, Com
<1>4. /\ safe \in Nat /\ safe <= Pos
      /\ \A s \in DOMAIN windows :
            windows[s].min_offsets[ThePartition] # NoOffset
                => safe <= windows[s].min_offsets[ThePartition]
  BY <1>1, <1>2, SafeCommitOffsetBounds DEF FinalInv, OrderInv, Pos
<1>5. ASSUME NEW i \in TripOffsets, i < safe
      PROVE  Finals(i)
  <2>1. StartAt(i) \notin DOMAIN windows
    BY <1>4, <1>5, BelowTheFirst DEF FinalInv
  <2>2. i < Pos
    BY <1>1, <1>4, <1>5, TripFacts
  <2>3. QED
    BY <1>1, <2>1, <2>2 DEF FinalInv, ReadIsAccounted
<1>6. \A i \in TripOffsets : i < Com' => Finals(i)
  BY <1>3, <1>5 DEF FinalInv, CommittedIsFinal
<1>7. QED
  BY <1>6, SameTopic, FinalsKept DEF CommittedIsFinal

\* Every step keeps the invariant.
LEMMA NextFinal ==
    ASSUME OneOrderedPartition, NothingRefused
    PROVE  FinalInv /\ [Next]_vars => FinalInv'
<1> SUFFICES ASSUME FinalInv, [Next]_vars
             PROVE  CommittedIsFinal' /\ ReadIsAccounted'
  BY NextOrder DEF FinalInv
<1>1. OrderInv /\ CommitInv /\ Topic \in Seq(Message) /\ Pos \in Nat
      /\ Com \in Nat /\ Com <= Pos
  BY TopicFacts DEF FinalInv, OrderInv
<1>2. ~WriteFails
  BY <1>1 DEF WriteFails, NothingRefused, CommitInv, TypeOK
<1>3. ASSUME UNCHANGED <<log, table>>
      PROVE  \A i : Finals(i) => Finals(i)'
  BY <1>3, FinalsKept
<1>4. ASSUME NEW p \in Partitions, Produce(p)
      PROVE  CommittedIsFinal' /\ ReadIsAccounted'
  <2>1. Produce(ThePartition)
    BY <1>4 DEF OneOrderedPartition
  <2>2. /\ Pos' = Pos /\ Com' = Com /\ UNCHANGED <<table, pc, windows, closing>>
        /\ Pos <= Len(Topic) /\ Len(Topic) \in Nat
    BY <1>1, <2>1, TopicFacts DEF Produce, store, Pos, Com
  <2>3. ASSUME NEW i \in TripOffsets', i < Pos
        PROVE  /\ i \in TripOffsets /\ StartAt(i)' = StartAt(i)
               /\ Finals(i) => Finals(i)'
    <3>1. i \in Nat /\ i < Len(Topic)
      BY <1>1, <2>2, <2>3, BoundsAssumption DEF TripOffsets, Offset
    <3>2. i \in TripOffsets /\ StartAt(i)' = StartAt(i)
      BY <1>1, <2>1, <2>3, <3>1, ProduceAppends
    <3>3. \A c : Belongs(i, c)' <=> Belongs(i, c)
      BY <1>1, <2>1, <3>1, ProduceAppends
    <3>4. QED
      BY <2>2, <3>2, <3>3 DEF Finals
  <2>4. \A i \in TripOffsets' : i < Com => i < Pos
    BY <1>1, BoundsAssumption DEF TripOffsets, Offset
  <2>5. QED
    BY <2>2, <2>3, <2>4 DEF FinalInv, CommittedIsFinal, ReadIsAccounted
<1>5. ASSUME NEW p \in Partitions, Poll(p)
      PROVE  CommittedIsFinal' /\ ReadIsAccounted'
  <2>1. Poll(ThePartition)
    BY <1>5 DEF OneOrderedPartition
  <2>2. CanPoll(ThePartition) /\ Consume(ThePartition)
    BY <2>1 DEF Poll, PollTrip, PollLate, PollPoison
  <2>3. /\ UNCHANGED <<log, committed, table>> /\ pc = "poll" /\ DOMAIN closing = {}
        /\ Pos' = Pos + 1 /\ Fetched(ThePartition) = Topic[Pos + 1]
        /\ Pos \in TripOffsets <=> Fetched(ThePartition) # Poison
    BY <1>1, <2>2, FetchedFacts
       DEF Consume, durable, Pos, CommitInv, TypeOK, OneOrderedPartition
  <2>4. \A i \in TripOffsets : i < Pos' => i < Pos \/ i = Pos
    BY <1>1, <2>3, TripFacts
  <2>5. CASE PollTrip(ThePartition)
    <3> DEFINE e == Topic[Pos + 1]
               s == WindowStart(e.time)
               w == IF s \in DOMAIN windows THEN windows[s] ELSE NewWindow
               ws == [x \in DOMAIN windows \cup {s} |->
                        IF x = s THEN WindowAdd(w, e, ThePartition, position[ThePartition])
                        ELSE windows[x]]
    <3>1. TakeClosed(ws, watermark')
      BY <2>3, <2>5 DEF PollTrip
    <3>2. DOMAIN windows \subseteq DOMAIN ws /\ StartAt(Pos) \in DOMAIN ws
      BY DEF StartAt, TimeAt
    <3> HIDE DEF e, s, w, ws
    <3>3. QED
      BY <2>3, <2>4, <3>1, <3>2, IterationKeepsFinal
  <2>6. CASE PollPoison(ThePartition)
    <3>1. TakeClosed(windows, watermark) /\ Pos \notin TripOffsets
      BY <2>3, <2>6 DEF PollPoison
    <3>2. QED
      BY <2>3, <2>4, <3>1, IterationKeepsFinal
  <2>7. QED
    BY <1>1, <2>1, <2>5, <2>6, NeverLate DEF Poll
<1>6. CASE PollNothing
  <2>1. /\ TakeClosed(windows, watermark) /\ UNCHANGED <<log, committed, table>>
        /\ pc = "poll" /\ DOMAIN closing = {} /\ Pos' = Pos
    BY <1>1, <1>6 DEF PollNothing, durable, CommitInv, Pos
  <2>2. QED
    BY <2>1, IterationKeepsFinal
<1>7. CASE WriteClosed
  BY <1>7, WriteClosedKeepsFinal
<1>8. CASE WriteClosedFails \/ FlushFails \/ StopWriteFails
  BY <1>2, <1>8 DEF WriteClosedFails, FlushFails, StopWriteFails
<1>9. CASE Flush \/ StopWrite
  <2>1. /\ pc # "down" /\ UNCHANGED <<log, committed, position, windows, closing>>
        /\ Upsert(windows, FALSE)
    BY <1>9 DEF Flush, StopWrite, store
  <2>2. QED
    BY <2>1, FlushKeepsFinal
<1>10. CASE Commit
  <2>1. /\ pc = "commit" /\ CommitOffsets
        /\ UNCHANGED <<log, table, position, windows, closing>>
    BY <1>10 DEF Commit, store
  <2>2. ReadIsAccounted'
    BY <1>3, <2>1, SameTopic DEF FinalInv, ReadIsAccounted, Pos
  <2>3. QED
    BY <2>1, <2>2, CommitKeepsFinal
<1>11. CASE StopCommit
  <2>1. pc = "stopcommit" /\ CommitOffsets /\ UNCHANGED <<log, table>> /\ pc' = "down"
    BY <1>11 DEF StopCommit, Exit
  <2>2. QED
    BY <2>1, CommitKeepsFinal DEF ReadIsAccounted
<1>12. CASE UNCHANGED <<log, committed, table, position, windows, closing>>
            /\ pc # "down"
  BY <1>3, <1>12, SameTopic DEF FinalInv, CommittedIsFinal, ReadIsAccounted, Pos, Com
<1>13. CASE UNCHANGED <<log, committed, table>> /\ pc' = "down"
  BY <1>3, <1>13, SameTopic DEF FinalInv, CommittedIsFinal, ReadIsAccounted, Com
<1>14. CASE Start
  <2>1. /\ UNCHANGED <<log, committed, table>> /\ Pos' = Com /\ Com' = Com
    BY <1>14 DEF Start, durable, Pos, Com
  <2>2. QED
    BY <1>3, <2>1, SameTopic DEF FinalInv, CommittedIsFinal, ReadIsAccounted
<1>15. CASE RequestShutdown
  BY <1>12, <1>15 DEF RequestShutdown, durable, store
<1>16. CASE Crash
  BY <1>13, <1>16 DEF Crash, Exit, durable
<1>17. CASE UNCHANGED vars
  <2>1. CASE pc = "down"
    BY <1>13, <1>17, <2>1 DEF vars
  <2>2. CASE pc # "down"
    BY <1>12, <1>17, <2>2 DEF vars
  <2>3. QED
    BY <2>1, <2>2
<1>18. QED
  BY <1>4, <1>5, <1>6, <1>7, <1>8, <1>9, <1>10, <1>11, <1>14, <1>15, <1>16, <1>17
     DEF Next

\* FinalInv is an invariant.
LEMMA FinalInvariant ==
    ASSUME OneOrderedPartition, NothingRefused
    PROVE  Spec => []FinalInv
<1>1. Init => FinalInv
  <2>1. SUFFICES ASSUME Init PROVE FinalInv
    OBVIOUS
  <2>2. TripOffsets = {}
    BY <2>1, BoundsAssumption
       DEF Init, Topic, TripOffsets, Offset, OneOrderedPartition
  <2>3. QED
    BY <2>1, <2>2, InitOrder DEF FinalInv, CommittedIsFinal, ReadIsAccounted
<1>2. FinalInv /\ [Next]_vars => FinalInv'
  BY NextFinal
<1>3. QED
  BY <1>1, <1>2, PTL DEF Spec

\* What is behind the committed offset, and so never read again, is counted in the
\* final rows of its zone and of the city.
THEOREM CommittedTripsStayFinal ==
    ASSUME OneOrderedPartition, NothingRefused
    PROVE  Spec => []CommittedTripsAreFinal
<1>1. FinalInv => CommittedTripsAreFinal
  <2>1. SUFFICES ASSUME FinalInv, NEW m \in Trips, m[2] < committed[m[1]],
                        NEW c \in CellsOf(m)
                 PROVE  table[c].is_final /\ table[c].agg[m] >= 1
    BY DEF CommittedTripsAreFinal
  <2>2. /\ m \in MsgId /\ m[1] = ThePartition /\ m[2] \in TripOffsets
        /\ Topic \in Seq(Message)
    <3>1. m \in MsgId /\ m[1] = ThePartition /\ m[2] \in TripOffsets
      BY DEF Trips, MsgId, OneOrderedPartition, TripOffsets, Topic
    <3>2. QED
      BY <2>1, <3>1, TopicFacts DEF FinalInv, OrderInv
  <2>3. /\ StartAt(m[2]) \in Starts /\ Topic[m[2] + 1].zone \in Keys
        /\ None \in Keys /\ m[2] < Len(Topic)
    BY <2>2, TripFacts DEF Keys
  <2>4. c \in {StartAt(m[2])} \X {Topic[m[2] + 1].zone, None}
    BY <2>2 DEF CellsOf, Trip, StartAt, TimeAt, Topic
  <2>5. c \in Cell /\ Belongs(m[2], c)
    BY <2>2, <2>3, <2>4 DEF Cell, Belongs
  <2>6. m[2] < Com
    BY <2>1, <2>2 DEF Com
  <2>7. table[c].is_final
    BY <2>1, <2>2, <2>5, <2>6 DEF FinalInv, CommittedIsFinal, Finals
  <2>8. table[c].agg[m] = 1
    BY <2>1, <2>2, <2>3, <2>5, <2>7 DEF FinalInv, OrderInv, FinalIsExact, Count
  <2>9. QED
    BY <2>7, <2>8
<1>2. QED
  BY <1>1, FinalInvariant, PTL

-----------------------------------------------------------------------------
(***************************************************************************)
(* The refinement of LiveMetrics                                           *)
(***************************************************************************)
\* The two modules name the same cells.
LEMMA LiveNames ==
    /\ \A t : Live!StartOf(t) = WindowStart(t)
    /\ Live!Cells = Cell
    /\ Live!Position = 1 .. MaxLog
<1>1. \A t : Live!StartOf(t) = WindowStart(t)
  BY DEF Live!StartOf, WindowStart
<1>2. Live!Windows = Starts
  BY <1>1 DEF Live!Windows, Starts, Time
<1>3. QED
  BY <1>1, <1>2 DEF Live!Cells, Cell, Live!Position

\* LiveMetrics numbers the messages from 1, the offsets begin at 0.
LEMMA FeedsIsBelongs ==
    ASSUME Topic \in Seq(Message), Len(Topic) <= MaxLog, NEW c, NEW i \in Nat \ {0}
    PROVE  /\ Live!IsTrip(i) <=> i - 1 \in TripOffsets
           /\ Live!Feeds(i, c) <=> Belongs(i - 1, c)
<1>1. /\ i \in DOMAIN Topic <=> i - 1 < Len(Topic)
      /\ i - 1 < Len(Topic) => i - 1 \in Offset
      /\ (i - 1) + 1 = i
  BY BoundsAssumption DEF Offset
<1>2. Live!IsTrip(i) <=> i - 1 \in TripOffsets
  BY <1>1 DEF Live!IsTrip, TripOffsets, Topic
<1>3. Live!Feeds(i, c) <=> Belongs(i - 1, c)
  BY <1>1, <1>2, LiveNames DEF Live!Feeds, Belongs, StartAt, TimeAt, Topic
<1>4. QED
  BY <1>2, <1>3

\* A trip that passed window s, grace included, was read below offset n.
PassedBelow(s, n) ==
    \E j \in TripOffsets : j < n /\ s + Size + Grace <= TimeAt(j)

\* A row as LiveMetrics shows it is a count from scratch.
LEMMA AsOfIsCount ==
    ASSUME OneOrderedPartition, Topic \in Seq(Message), Len(Topic) <= MaxLog,
           NEW n \in Nat, NEW c
    PROVE  /\ Live!AsOf(n, c).counted
                = [i \in 1 .. MaxLog |-> Count(c, n)[<<ThePartition, i - 1>>]]
           /\ Live!AsOf(n, c).is_final <=> PassedBelow(c[1], n)
           /\ Live!AsOf(n, c).is_final \in BOOLEAN
           /\ Live!AsOf(n, c) = [counted |-> Live!AsOf(n, c).counted,
                                is_final |-> Live!AsOf(n, c).is_final]
<1>1. ASSUME NEW i \in 1 .. MaxLog
      PROVE  Count(c, n)[<<ThePartition, i - 1>>]
                = IF i <= n /\ Live!Feeds(i, c) THEN 1 ELSE 0
  <2>1. <<ThePartition, i - 1>> \in MsgId
    BY BoundsAssumption DEF MsgId, Offset, OneOrderedPartition
  <2>2. i - 1 < n <=> i <= n
    BY BoundsAssumption
  <2>3. Live!Feeds(i, c) <=> Belongs(i - 1, c)
    BY BoundsAssumption, FeedsIsBelongs
  <2>4. QED
    BY <2>1, <2>2, <2>3 DEF Count
<1>2. Live!AsOf(n, c).counted = [i \in 1 .. MaxLog |-> IF i <= n /\ Live!Feeds(i, c) THEN 1 ELSE 0]
  BY LiveNames DEF Live!AsOf
<1>3. (\E i \in 1 .. n : Live!IsTrip(i) /\ c[1] + Size + Grace <= Topic[i].time)
        <=> PassedBelow(c[1], n)
  <2>1. ASSUME NEW i \in 1 .. n, Live!IsTrip(i), c[1] + Size + Grace <= Topic[i].time
        PROVE  PassedBelow(c[1], n)
    <3>1. i - 1 \in TripOffsets /\ i - 1 < n /\ TimeAt(i - 1) = Topic[i].time
      BY <2>1, FeedsIsBelongs DEF TimeAt
    <3>2. QED
      BY <2>1, <3>1 DEF PassedBelow
  <2>2. ASSUME NEW j \in TripOffsets, j < n, c[1] + Size + Grace <= TimeAt(j)
        PROVE  \E i \in 1 .. n : Live!IsTrip(i) /\ c[1] + Size + Grace <= Topic[i].time
    <3>1. /\ j \in Nat /\ j + 1 \in Nat \ {0} /\ (j + 1) - 1 = j /\ j + 1 \in 1 .. n
      BY <2>2, TripFacts
    <3>2. Live!IsTrip(j + 1)
      BY <3>1, FeedsIsBelongs
    <3>3. QED
      BY <2>2, <3>1, <3>2 DEF TimeAt
  <2>3. QED
    BY <2>1, <2>2 DEF PassedBelow
<1>4. QED
  BY <1>1, <1>2, <1>3 DEF Live!AsOf, Topic

\* A cell without trips is the one LiveMetrics leaves out.
LEMMA EmptyCells ==
    ASSUME OneOrderedPartition, Topic \in Seq(Message), Len(Topic) <= MaxLog,
           NEW n \in Nat, NEW c
    PROVE  Count(c, n) # Nothing <=> Live!AsOf(n, c).counted # Live!NoRow.counted
<1>1. Live!NoRow.counted = [i \in 1 .. MaxLog |-> 0]
  BY LiveNames DEF Live!NoRow
<1>2. CASE Count(c, n) = Nothing
  <2>1. \A i \in 1 .. MaxLog : <<ThePartition, i - 1>> \in MsgId
    BY BoundsAssumption DEF MsgId, Offset, OneOrderedPartition
  <2>2. QED
    BY <1>1, <1>2, <2>1, AsOfIsCount DEF Nothing
<1>3. CASE Count(c, n) # Nothing
  <2>1. PICK m \in MsgId : Count(c, n)[m] # 0
    BY <1>3 DEF Count, Nothing
  <2>2. m = <<ThePartition, m[2]>> /\ m[2] \in Offset
    BY DEF MsgId, OneOrderedPartition
  <2>3. m[2] + 1 \in 1 .. MaxLog /\ (m[2] + 1) - 1 = m[2]
    BY <2>2, BoundsAssumption DEF Offset
  <2>4. Live!AsOf(n, c).counted[m[2] + 1] # 0
    <3>1. Live!AsOf(n, c).counted
            = [i \in 1 .. MaxLog |-> Count(c, n)[<<ThePartition, i - 1>>]]
      BY AsOfIsCount
    <3>2. Live!AsOf(n, c).counted[m[2] + 1] = Count(c, n)[<<ThePartition, (m[2] + 1) - 1>>]
      BY <2>3, <3>1
    <3>3. QED
      BY <2>1, <2>2, <2>3, <3>2
  <2>5. QED
    BY <1>1, <1>3, <2>3, <2>4
<1>4. QED
  BY <1>2, <1>3

\* The rows as LiveMetrics has them.
RowOf(agg, final) ==
    [counted |-> [i \in 1 .. MaxLog |-> agg[<<ThePartition, i - 1>>]],
     is_final |-> final]

\* A transaction that writes complete windows, marked final just when a trip has
\* passed them, is a showing of those windows.
LEMMA UpsertShows ==
    ASSUME OneOrderedPartition, OrderInv, UNCHANGED <<log, position>>,
           NEW ws, NEW final \in BOOLEAN, Upsert(ws, final), Complete(ws, Pos),
           DOMAIN ws \subseteq Starts,
           \A s \in DOMAIN ws : final <=> PassedBelow(s, Pos)
    PROVE  Live!Show
<1>1. /\ Topic \in Seq(Message) /\ Len(Topic) <= MaxLog /\ Pos \in Nat
  BY TopicFacts DEF OrderInv
<1>2. ASSUME NEW c \in Cell
      PROVE  Rows'[c] = IF c[1] \in DOMAIN ws
                           /\ Live!AsOf(Pos, c).counted # Live!NoRow.counted
                        THEN Live!AsOf(Pos, c) ELSE Rows[c]
  <2>1. Rows'[c] = RowOf(table'[c].agg, table'[c].is_final)
        /\ Rows[c] = RowOf(table[c].agg, table[c].is_final)
    BY DEF Rows, RowOf, Cell
  <2>2. table'[c] = IF c[1] \in DOMAIN ws /\ ws[c[1]].zones[c[2]] # Nothing
                    THEN [agg |-> ws[c[1]].zones[c[2]], is_final |-> final]
                    ELSE table[c]
    BY DEF Upsert, Cell
  <2>3. c = <<c[1], c[2]>> /\ c[2] \in Keys
    BY DEF Cell
  <2>4. CASE c[1] \in DOMAIN ws
    <3>1. ws[c[1]].zones[c[2]] = Count(c, Pos)
      BY <2>3, <2>4 DEF Complete
    <3>2. Live!AsOf(Pos, c) = RowOf(Count(c, Pos), final)
      BY <1>1, <2>4, AsOfIsCount DEF RowOf
    <3>3. Count(c, Pos) # Nothing <=> Live!AsOf(Pos, c).counted # Live!NoRow.counted
      BY <1>1, EmptyCells
    <3>4. QED
      BY <2>1, <2>2, <2>4, <3>1, <3>2, <3>3
  <2>5. CASE c[1] \notin DOMAIN ws
    BY <2>1, <2>2, <2>5
  <2>6. QED
    BY <2>4, <2>5
<1>3. Rows' = [c \in Cell |-> Rows'[c]]
  BY DEF Rows, Cell
<1>4. Rows' = [c \in Cell |->
                 IF c[1] \in DOMAIN ws /\ Live!AsOf(Pos, c).counted # Live!NoRow.counted
                 THEN Live!AsOf(Pos, c) ELSE Rows[c]]
  BY <1>2, <1>3
<1>5. Live!ShowWindows(DOMAIN ws)
  BY <1>4, LiveNames DEF Live!ShowWindows, Pos
<1>6. DOMAIN ws \in SUBSET Live!Windows
  BY LiveNames DEF Live!Windows, Starts, Time
<1>7. QED
  BY <1>5, <1>6 DEF Live!Show

\* Rows depend on the table alone.
LEMMA SameRows == UNCHANGED table => UNCHANGED Rows
  BY DEF Rows

\* A message appended in pickup order is one appended in LiveMetrics.
LEMMA ProduceRefines ==
    ASSUME OneOrderedPartition, OrderInv, Produce(ThePartition)
    PROVE  \E m \in Event \cup {Poison} : Live!Produce(m)
<1>1. /\ Topic \in Seq(Message) /\ Len(Topic) \in Nat /\ Len(Topic) <= MaxLog
  BY TopicFacts DEF OrderInv
<1>2. PICK m \in Message :
            /\ Topic' = Append(Topic, m)
            /\ m # Poison => \A i \in TripOffsets : TimeAt(i) <= m.time
  BY ProduceAppends
<1>3. ASSUME m # Poison, NEW i \in DOMAIN Topic, Live!IsTrip(i)
      PROVE  Topic[i].time <= m.time
  <2>1. i \in Nat \ {0} /\ i - 1 \in TripOffsets /\ (i - 1) + 1 = i
    <3>1. i \in Nat \ {0} /\ (i - 1) + 1 = i
      BY <1>1
    <3>2. QED
      BY <1>1, <1>3, <3>1, FeedsIsBelongs
  <2>2. QED
    BY <1>2, <1>3, <2>1 DEF TimeAt
<1>4. Len(Topic) < MaxLog /\ UNCHANGED <<position, table>>
  BY DEF Produce, Topic, store
<1>5. UNCHANGED Rows
  BY <1>4, SameRows
<1>6. Live!Produce(m)
  BY <1>2, <1>3, <1>4, <1>5 DEF Live!Produce, Topic
<1>7. QED
  BY <1>6 DEF Message

\* Reading on, whatever becomes of the windows, is a Read.
LEMMA PollRefines ==
    ASSUME OneOrderedPartition, OrderInv, Poll(ThePartition)
    PROVE  Live!Read
<1>1. CanPoll(ThePartition) /\ Consume(ThePartition)
  BY DEF Poll, PollTrip, PollLate, PollPoison
<1>2. /\ position[ThePartition] < Len(log[ThePartition])
      /\ position'[ThePartition] = position[ThePartition] + 1
      /\ log' = log /\ table' = table
  BY <1>1 DEF CanPoll, Consume, durable, OrderInv, CommitInv, TypeOK, OneOrderedPartition
<1>3. QED
  BY <1>2, SameRows DEF Live!Read

\* A restart reads again from the commit, before which all trips are final.
LEMMA StartRefines ==
    ASSUME OneOrderedPartition, FinalInv, Start
    PROVE  Live!FallBack
<1>1. /\ Topic \in Seq(Message) /\ Len(Topic) \in Nat /\ Len(Topic) <= MaxLog
      /\ Com \in Nat /\ Com <= Len(Topic) /\ Pos \in Nat /\ Com <= Pos
  BY TopicFacts DEF FinalInv, OrderInv
<1>2. /\ UNCHANGED <<log, table>> /\ position'[ThePartition] = Com
  BY DEF Start, durable, Com
<1>3. ASSUME NEW i \in 1 .. Com, NEW c \in Cell, Live!Feeds(i, c)
      PROVE  Rows[c].is_final /\ Rows[c].counted[i] = 1
  <2>1. i \in Nat \ {0} /\ i - 1 < Com /\ i - 1 < Len(Topic) /\ i \in 1 .. MaxLog
    BY <1>1, BoundsAssumption
  <2>2. Belongs(i - 1, c)
    BY <1>1, <1>3, <2>1, FeedsIsBelongs
  <2>3. i - 1 \in TripOffsets
    BY <2>2 DEF Belongs
  <2>4. table[c].is_final
    BY <2>1, <2>2, <2>3 DEF FinalInv, CommittedIsFinal, Finals
  <2>5. table[c].agg = Count(c, Len(Topic))
    BY <2>4 DEF FinalInv, OrderInv, FinalIsExact
  <2>6. <<ThePartition, i - 1>> \in MsgId
    BY <1>1, <2>3, TripFacts DEF MsgId, OneOrderedPartition
  <2>7. Count(c, Len(Topic))[<<ThePartition, i - 1>>] = 1
    BY <2>1, <2>2, <2>6 DEF Count
  <2>8. Rows[c].is_final = table[c].is_final
        /\ Rows[c].counted[i] = table[c].agg[<<ThePartition, i - 1>>]
    BY <2>1 DEF Rows, Cell
  <2>9. QED
    BY <2>4, <2>5, <2>7, <2>8
<1>4. Com \in 0 .. position[ThePartition]
  BY <1>1 DEF Pos
<1>5. QED
  BY <1>2, <1>3, <1>4, SameRows, LiveNames DEF Live!FallBack

\* The windows evicted were passed by a trip that was read.
LEMMA WriteClosedRefines ==
    ASSUME OneOrderedPartition, OrderInv, WriteClosed
    PROVE  Live!Show
<1>1. Upsert(closing, TRUE) /\ UNCHANGED <<log, position>>
  BY DEF WriteClosed
<1>2. DOMAIN closing \subseteq Starts /\ Complete(closing, Pos)
      /\ \A s \in DOMAIN closing : PassedBelow(s, Pos)
  BY DEF OrderInv, CommitInv, TypeOK, WindowMap, ClosingIsPassed, PassedBelow
<1>3. QED
  BY <1>1, <1>2, UpsertShows

\* The open windows were not: the watermark is at or past every trip read.
LEMMA FlushRefines ==
    ASSUME OneOrderedPartition, OrderInv, Flush \/ StopWrite
    PROVE  Live!Show
<1>1. Upsert(windows, FALSE) /\ UNCHANGED <<log, position>>
  BY DEF Flush, StopWrite
<1>2. DOMAIN windows \subseteq Starts /\ Complete(windows, Pos)
  BY DEF OrderInv, CommitInv, TypeOK, WindowMap
<1>3. ASSUME NEW s \in DOMAIN windows
      PROVE  ~PassedBelow(s, Pos)
  <2>1. SUFFICES ASSUME NEW j \in TripOffsets, j < Pos
                 PROVE  ~(s + Size + Grace <= TimeAt(j))
    BY DEF PassedBelow
  <2>2. watermark # NoTime /\ ~(s + Size + Grace <= watermark)
    BY DEF OrderInv, Unpassed, Closed
  <2>3. TimeAt(j) <= watermark
    BY <2>1, <2>2 DEF OrderInv, WatermarkIsNewest
  <2>4. TimeAt(j) \in Nat /\ s \in Int
    BY <1>2, TopicFacts, TripFacts, StartsAreInt DEF OrderInv
  <2>5. watermark \in Nat
    BY <2>2, BoundsAssumption DEF OrderInv, CommitInv, TypeOK, Time
  <2>6. QED
    BY <2>2, <2>3, <2>4, <2>5, SizeAssumption, GraceAssumption
<1>4. QED
  BY <1>1, <1>2, <1>3, UpsertShows

\* Every step is a step of LiveMetrics or leaves it alone.
LEMMA NextRefines ==
    ASSUME OneOrderedPartition, NothingRefused
    PROVE  FinalInv /\ [Next]_vars => [Live!LiveNext]_(Live!liveVars)
<1> SUFFICES ASSUME FinalInv, [Next]_vars
             PROVE  Live!LiveNext \/ UNCHANGED Live!liveVars
  OBVIOUS
<1>1. OrderInv
  BY DEF FinalInv
<1>2. ~WriteFails
  BY <1>1 DEF WriteFails, NothingRefused, OrderInv, CommitInv, TypeOK
<1>3. CASE UNCHANGED <<log, position, table>>
  BY <1>3, SameRows DEF Live!liveVars
<1>4. ASSUME NEW p \in Partitions, Produce(p) \/ Poll(p)
      PROVE  Live!LiveNext
  <2>1. p = ThePartition
    BY DEF OneOrderedPartition
  <2>2. QED
    BY <1>1, <1>4, <2>1, ProduceRefines, PollRefines DEF Live!LiveNext
<1>5. CASE WriteClosed
  BY <1>1, <1>5, WriteClosedRefines DEF Live!LiveNext
<1>6. CASE Flush \/ StopWrite
  BY <1>1, <1>6, FlushRefines DEF Live!LiveNext
<1>7. CASE Start
  BY <1>7, StartRefines DEF Live!LiveNext
<1>8. CASE WriteClosedFails \/ FlushFails \/ StopWriteFails
  BY <1>2, <1>8 DEF WriteClosedFails, FlushFails, StopWriteFails
<1>9. CASE PollNothing \/ Commit \/ RequestShutdown \/ StopCommit \/ Crash
           \/ UNCHANGED vars
  <2>1. UNCHANGED <<log, position, table>>
    BY <1>9 DEF PollNothing, Commit, RequestShutdown, StopCommit, Crash, durable, vars
  <2>2. QED
    BY <1>3, <2>1
<1>10. QED
  BY <1>4, <1>5, <1>6, <1>7, <1>8, <1>9 DEF Next

\* The initial table is LiveMetrics' initial table.
LEMMA InitRefines ==
    ASSUME OneOrderedPartition
    PROVE  Init => Live!LiveInit
<1>1. SUFFICES ASSUME Init PROVE Live!LiveInit
  OBVIOUS
<1>2. log[ThePartition] = <<>> /\ position[ThePartition] = 0
  BY <1>1 DEF Init, OneOrderedPartition
<1>3. Rows = [c \in Cell |-> Live!NoRow]
  <2>1. \A i \in 1 .. MaxLog : <<ThePartition, i - 1>> \in MsgId
    BY BoundsAssumption DEF MsgId, Offset, OneOrderedPartition
  <2>2. \A c \in Cell : table[c] = NoRow
    BY <1>1 DEF Init, Cell
  <2>3. \A i \in 1 .. MaxLog : NoRow.agg[<<ThePartition, i - 1>>] = 0
    BY <2>1 DEF NoRow, Nothing
  <2>4. Live!NoRow = [counted |-> [i \in 1 .. MaxLog |-> 0], is_final |-> FALSE]
    BY LiveNames DEF Live!NoRow
  <2>5. ~NoRow.is_final /\ NoRow.is_final = FALSE
    BY DEF NoRow
  <2>6. QED
    BY <2>2, <2>3, <2>4, <2>5 DEF Rows, Cell
<1>4. QED
  BY <1>2, <1>3, LiveNames DEF Live!LiveInit

\* The consumer implements what LiveMetrics promises a reader of the table, for
\* any window size, grace, length of the topic and number of crashes and restarts.
THEOREM HotPathRefines ==
    ASSUME OneOrderedPartition, NothingRefused
    PROVE  Spec => ImplementsLiveMetrics
<1>1. Init => Live!LiveInit
  BY InitRefines
<1>2. FinalInv /\ [Next]_vars => [Live!LiveNext]_(Live!liveVars)
  BY NextRefines
<1>3. QED
  BY <1>1, <1>2, FinalInvariant, PTL DEF Spec, ImplementsLiveMetrics, Live!LiveSpec
=============================================================================
