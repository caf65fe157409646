------------------------- MODULE LiveMetricsProofs -------------------------
(***************************************************************************)
(* A theorem about LiveMetrics, for any set of trips, window size, grace   *)
(* and length of the topic.                                                *)
(***************************************************************************)
EXTENDS LiveMetrics, TLAPS

LogInv == log \in Seq(Events \cup {Poison}) /\ read \in 0 .. Len(log)

InPickupOrder ==
    \A i, j \in DOMAIN log :
        i < j /\ IsTrip(i) /\ IsTrip(j) => log[i].time <= log[j].time

\* Trips are in pickup order, and each row is empty or a count of a beginning of
\* the topic.
LiveInv ==
    /\ LogInv
    /\ InPickupOrder
    /\ \A c \in Cells : table[c] = NoRow \/ \E n \in 0 .. Len(log) : table[c] = AsOf(n, c)

\* A trip's pickup is before the end of its window.
LEMMA StartIsClose ==
    ASSUME NEW t \in Nat
    PROVE  StartOf(t) \in Int /\ t < StartOf(t) + Size
<1>1. t % Hour \in Nat
  BY LiveAssumption
<1>2. (t % Hour) % Size \in 0 .. Size - 1
  BY <1>1, LiveAssumption
<1>3. QED
  BY <1>2, LiveAssumption DEF StartOf

LEMMA TripsHaveTimes ==
    ASSUME LogInv, NEW i, IsTrip(i)
    PROVE  i \in 1 .. Len(log) /\ log[i] \in Events /\ log[i].time \in Nat
BY LiveAssumption DEF LogInv, IsTrip

\* What a beginning of the topic says of a cell does not change when the topic
\* grows.
LEMMA AppendKeepsCounts ==
    ASSUME LogInv, NEW m \in Events \cup {Poison}, log' = Append(log, m),
           NEW n \in 0 .. Len(log), NEW c \in Cells
    PROVE  AsOf(n, c)' = AsOf(n, c)
<1>1. /\ Len(log') = Len(log) + 1 /\ Len(log) \in Nat
      /\ DOMAIN log = 1 .. Len(log) /\ DOMAIN log' = 1 .. Len(log) + 1
      /\ \A i \in 1 .. Len(log) : log'[i] = log[i]
  BY DEF LogInv
<1>2. \A i \in 1 .. n : IsTrip(i)' <=> IsTrip(i)
  BY <1>1 DEF IsTrip
<1>3. \A i \in Position : i <= n => (Feeds(i, c)' <=> Feeds(i, c))
  BY <1>1, <1>2 DEF Feeds, IsTrip, Position
<1>4. (\E i \in 1 .. n : IsTrip(i)' /\ c[1] + Size + Grace <= log'[i].time)
        <=> (\E i \in 1 .. n : IsTrip(i) /\ c[1] + Size + Grace <= log[i].time)
  BY <1>1, <1>2
<1>5. QED
  BY <1>3, <1>4 DEF AsOf

LEMMA LiveNextKeeps == LiveInv /\ [LiveNext]_liveVars => LiveInv'
<1> SUFFICES ASSUME LiveInv, [LiveNext]_liveVars PROVE LiveInv'
  OBVIOUS
<1>0. Len(log) \in Nat /\ LogInv
  BY DEF LiveInv, LogInv
<1>1. ASSUME NEW m \in Events \cup {Poison}, Produce(m) PROVE LiveInv'
  <2>1. /\ log' = Append(log, m) /\ UNCHANGED <<read, table>>
        /\ m # Poison => \A i \in DOMAIN log : IsTrip(i) => log[i].time <= m.time
    BY <1>1 DEF Produce
  <2>2. /\ Len(log') = Len(log) + 1
        /\ DOMAIN log = 1 .. Len(log) /\ DOMAIN log' = 1 .. Len(log) + 1
        /\ \A i \in 1 .. Len(log) : log'[i] = log[i]
        /\ log'[Len(log) + 1] = m
    BY <1>0, <2>1 DEF LogInv
  <2>3. LogInv'
    BY <1>0, <2>1, <2>2 DEF LogInv
  <2>4. InPickupOrder'
    <3>1. SUFFICES ASSUME NEW i \in DOMAIN log', NEW j \in DOMAIN log', i < j,
                          IsTrip(i)', IsTrip(j)'
                   PROVE  log'[i].time <= log'[j].time
      BY DEF InPickupOrder
    <3>2. i \in 1 .. Len(log) /\ IsTrip(i)
      BY <1>0, <2>2, <3>1 DEF IsTrip
    <3>3. CASE j \in 1 .. Len(log)
      BY <2>2, <3>1, <3>2, <3>3 DEF LiveInv, InPickupOrder, IsTrip
    <3>4. CASE j = Len(log) + 1
      BY <2>1, <2>2, <3>1, <3>2, <3>4 DEF IsTrip
    <3>5. QED
      BY <1>0, <2>2, <3>1, <3>3, <3>4
  <2>5. ASSUME NEW c \in Cells
        PROVE  table'[c] = NoRow \/ \E n \in 0 .. Len(log') : table'[c] = AsOf(n, c)'
    <3>1. CASE table[c] = NoRow
      BY <2>1, <3>1
    <3>2. CASE \E n \in 0 .. Len(log) : table[c] = AsOf(n, c)
      <4>1. PICK n \in 0 .. Len(log) : table[c] = AsOf(n, c)
        BY <3>2
      <4>2. AsOf(n, c)' = AsOf(n, c)
        BY <1>0, <2>1, AppendKeepsCounts
      <4>3. n \in 0 .. Len(log')
        BY <1>0, <2>2
      <4>4. QED
        BY <2>1, <4>1, <4>2, <4>3
    <3>3. QED
      BY <3>1, <3>2 DEF LiveInv
  <2>6. QED
    BY <2>3, <2>4, <2>5 DEF LiveInv, NoRow
<1>2. ASSUME UNCHANGED log, read' \in 0 .. Len(log), UNCHANGED table PROVE LiveInv'
  <2>1. LogInv' /\ InPickupOrder'
    BY <1>2 DEF LiveInv, LogInv, InPickupOrder, IsTrip
  <2>2. \A n, c : AsOf(n, c)' = AsOf(n, c)
    BY <1>2 DEF AsOf, Feeds, IsTrip
  <2>3. QED
    BY <1>2, <2>1, <2>2 DEF LiveInv, NoRow
<1>3. CASE Read
  <2>1. read + 1 \in 0 .. Len(log)
    BY <1>0, <1>3 DEF Read, LogInv
  <2>2. QED
    BY <1>2, <1>3, <2>1 DEF Read
<1>4. CASE FallBack
  <2>1. \E n \in 0 .. read : read' = n
    BY <1>4 DEF FallBack
  <2>2. read' \in 0 .. Len(log)
    BY <1>0, <2>1 DEF LogInv
  <2>3. QED
    BY <1>2, <1>4, <2>2 DEF FallBack
<1>5. CASE Show
  <2>1. PICK starts \in SUBSET Windows : ShowWindows(starts)
    BY <1>5 DEF Show
  <2>2. UNCHANGED <<log, read>>
    BY <2>1 DEF ShowWindows
  <2>3. LogInv' /\ InPickupOrder'
    BY <2>2 DEF LiveInv, LogInv, InPickupOrder, IsTrip
  <2>4. \A n, c : AsOf(n, c)' = AsOf(n, c)
    BY <2>2 DEF AsOf, Feeds, IsTrip
  <2>5. ASSUME NEW c \in Cells
        PROVE  table'[c] = NoRow \/ \E n \in 0 .. Len(log) : table'[c] = AsOf(n, c)
    <3>1. table'[c] = table[c] \/ table'[c] = AsOf(read, c)
      BY <2>1 DEF ShowWindows
    <3>2. QED
      BY <1>0, <3>1 DEF LiveInv, LogInv
  <2>6. QED
    BY <2>2, <2>3, <2>4, <2>5 DEF LiveInv, NoRow
<1>6. CASE UNCHANGED liveVars
  BY <1>0, <1>2, <1>6 DEF liveVars, LogInv
<1>7. QED
  BY <1>1, <1>3, <1>4, <1>5, <1>6 DEF LiveNext

\* A trip that comes after the one that made a row final is not of that window.
LEMMA FinalMeansComplete == LiveInv => FinalRowsAreExact
<1> SUFFICES ASSUME LiveInv, NEW c \in Cells, table[c].is_final
             PROVE  table[c].counted = AsOf(Len(log), c).counted
  BY DEF FinalRowsAreExact
<1>0. Len(log) \in Nat /\ LogInv
  BY DEF LiveInv, LogInv
<1>1. table[c] # NoRow
  BY DEF NoRow
<1>2. PICK n \in 0 .. Len(log) : table[c] = AsOf(n, c)
  BY <1>1 DEF LiveInv
<1>3. PICK i \in 1 .. n : IsTrip(i) /\ c[1] + Size + Grace <= log[i].time
  BY <1>2 DEF AsOf
<1>4. ASSUME NEW j \in Position, j <= Len(log), Feeds(j, c) PROVE j <= n
  <2>1. SUFFICES ASSUME ~(j <= n) PROVE FALSE
    OBVIOUS
  <2>2. IsTrip(j) /\ c[1] = StartOf(log[j].time)
    BY <1>4 DEF Feeds
  <2>3. log[j].time \in Nat /\ log[i].time \in Nat /\ i \in DOMAIN log /\ j \in DOMAIN log
    BY <1>0, <1>3, <2>2, TripsHaveTimes DEF IsTrip
  <2>4. i < j
    BY <1>2, <1>3, <1>4, <2>1 DEF Position
  <2>5. log[i].time <= log[j].time
    BY <1>3, <2>2, <2>3, <2>4 DEF LiveInv, InPickupOrder
  <2>6. c[1] \in Int /\ log[j].time < c[1] + Size
    BY <2>2, <2>3, StartIsClose
  <2>7. QED
    BY <1>3, <2>3, <2>5, <2>6, LiveAssumption
<1>5. \A j \in Position : (j <= n /\ Feeds(j, c)) <=> (j <= Len(log) /\ Feeds(j, c))
  BY <1>0, <1>2, <1>4 DEF Position
<1>6. QED
  BY <1>2, <1>5 DEF AsOf

\* Whatever was shown of a window before, and however far a reader fell back, a
\* row that is final is a complete and exact count.
THEOREM LiveFinalRowsAreExact == LiveSpec => []FinalRowsAreExact
<1>1. LiveInit => LiveInv
  <2>1. SUFFICES ASSUME LiveInit PROVE LiveInv
    OBVIOUS
  <2>2. log = <<>> /\ read = 0 /\ table = [c \in Cells |-> NoRow]
    BY <2>1 DEF LiveInit
  <2>3. LogInv /\ InPickupOrder
    BY <2>2 DEF LogInv, InPickupOrder
  <2>4. QED
    BY <2>2, <2>3 DEF LiveInv
<1>2. LiveInv /\ [LiveNext]_liveVars => LiveInv'
  BY LiveNextKeeps
<1>3. QED
  BY <1>1, <1>2, FinalMeansComplete, PTL DEF LiveSpec
=============================================================================
