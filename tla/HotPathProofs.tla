--------------------------- MODULE HotPathProofs ---------------------------
(***************************************************************************)
(* Theorems about HotPath, for every value of its constants: any number of *)
(* partitions, any arrival order, any number of crashes and of refused     *)
(* transactions, except where a theorem names a premise.  Those that need  *)
(* the one partition in pickup order are in HotPathRefinementProofs.       *)
(***************************************************************************)
EXTENDS HotPath, FiniteSetTheorems, WellFoundedInduction, TLAPS

-----------------------------------------------------------------------------
(***************************************************************************)
(* Lemmas about the operators                                              *)
(***************************************************************************)
\* The minimum of a non-empty set of naturals is in it and bounds it: what
\* safe_commit_offsets takes of the open windows' offsets.
LEMMA MinOfNaturals ==
    ASSUME NEW S \in SUBSET Nat, S # {}
    PROVE  Min(S) \in S /\ \A x \in S : Min(S) <= x
<1>1. PICK x \in S : \A y \in S : <<y, x>> \notin OpToRel(<, Nat)
  BY WFMin, NatLessThanWellFounded, Zenon
<1>2. \A y \in S : ~(y < x)
  BY <1>1, Zenon DEF OpToRel
<1>3. \A y \in S : x <= y
  BY <1>2
<1>4. QED
  BY <1>3 DEF Min

\* A pickup time's window is one of the table's windows.
LEMMA WindowStartType == \A t \in Time : WindowStart(t) \in Starts
  BY DEF Starts

\* A multiple of d below another one is below it by d at least.
LEMMA MultiplesAreApart ==
    ASSUME NEW d \in Nat, NEW q \in Nat, NEW r \in Nat, q < r
    PROVE  d * q + d <= d * r
<1>1. PICK k \in Nat : r = q + 1 + k
  <2>1. r - q - 1 \in Nat /\ r = q + 1 + (r - q - 1)
    OBVIOUS
  <2>2. QED
    BY <2>1
<1>2. d * r = d * q + d + d * k /\ d * k \in Nat
  BY <1>1
<1>3. d * q \in Nat
  OBVIOUS
<1>4. QED
  BY <1>2, <1>3

\* Quotient and remainder, in the form the next lemmas need.
LEMMA DivMod ==
    ASSUME NEW t \in Nat, NEW d \in Nat \ {0}
    PROVE  /\ t % d \in 0 .. d - 1
           /\ t \div d \in Nat
           /\ t = (d * (t \div d)) + (t % d)
  OBVIOUS

\* Flooring to a multiple of d keeps the order.
LEMMA FloorMonotone ==
    ASSUME NEW a \in Nat, NEW b \in Nat, NEW d \in Nat \ {0}, a <= b
    PROVE  a - (a % d) <= b - (b % d)
<1> DEFINE qa == a \div d
           qb == b \div d
<1>1. /\ qa \in Nat /\ a % d \in 0 .. d - 1 /\ a = (d * qa) + (a % d)
      /\ qb \in Nat /\ b % d \in 0 .. d - 1 /\ b = (d * qb) + (b % d)
  BY DivMod
<1>2. d * qa \in Nat /\ d * qb \in Nat
  BY <1>1
<1> HIDE DEF qa, qb
<1>3. ~(qb < qa)
  BY <1>1, <1>2, MultiplesAreApart
<1>4. CASE qa = qb
  BY <1>1, <1>2, <1>4
<1>5. CASE qa < qb
  <2>1. d * qa + d <= d * qb
    BY <1>1, <1>5, MultiplesAreApart
  <2>2. QED
    BY <1>1, <1>2, <2>1
<1>6. QED
  BY <1>1, <1>3, <1>4, <1>5

\* A pickup time lies in its window, whether or not the size divides the hour.
LEMMA WindowStartIsClose ==
    ASSUME NEW t \in Nat
    PROVE  /\ WindowStart(t) \in Int
           /\ WindowStart(t) <= t
           /\ t < WindowStart(t) + Size
<1>1. t % Hour \in Nat
  BY HourAssumption
<1>2. (t % Hour) % Size \in 0 .. Size - 1
  BY <1>1, SizeAssumption
<1>3. QED
  BY <1>2, SizeAssumption DEF WindowStart

\* Every window start is an integer.
LEMMA StartsAreInt == Starts \subseteq Int
  BY WindowStartIsClose, BoundsAssumption DEF Starts, Time

\* A later pickup is in the same window or in a later one: within an hour the
\* minutes are floored, and each hour's windows lie before the next hour's.
LEMMA WindowStartMonotone ==
    ASSUME NEW a \in Nat, NEW b \in Nat, a <= b
    PROVE  WindowStart(a) <= WindowStart(b)
<1> DEFINE ra == a % Hour
           rb == b % Hour
           qa == a \div Hour
           qb == b \div Hour
<1>1. /\ qa \in Nat /\ ra \in 0 .. Hour - 1 /\ a = (Hour * qa) + ra
      /\ qb \in Nat /\ rb \in 0 .. Hour - 1 /\ b = (Hour * qb) + rb
  BY HourAssumption, DivMod
<1>2. Hour * qa \in Nat /\ Hour * qb \in Nat
  BY <1>1, HourAssumption
<1>3. /\ ra % Size \in Nat /\ ra % Size <= ra
      /\ rb % Size \in Nat /\ rb % Size <= rb
  BY <1>1, SizeAssumption
<1>4. /\ WindowStart(a) = Hour * qa + (ra - (ra % Size))
      /\ WindowStart(b) = Hour * qb + (rb - (rb % Size))
  BY <1>1, <1>2, <1>3 DEF WindowStart
<1> HIDE DEF ra, rb, qa, qb
<1>5. ~(qb < qa)
  BY <1>1, <1>2, HourAssumption, MultiplesAreApart
<1>6. CASE qa = qb
  <2>1. ra <= rb
    BY <1>1, <1>2, <1>6
  <2>2. ra - (ra % Size) <= rb - (rb % Size)
    BY <1>1, <2>1, SizeAssumption, FloorMonotone
  <2>3. QED
    BY <1>1, <1>2, <1>3, <1>4, <1>6, <2>2
<1>7. CASE qa < qb
  <2>1. Hour * qa + Hour <= Hour * qb
    BY <1>1, <1>7, HourAssumption, MultiplesAreApart
  <2>2. QED
    BY <1>1, <1>2, <1>3, <1>4, <2>1, HourAssumption
<1>8. QED
  BY <1>1, <1>5, <1>6, <1>7

\* Adding a trip to a window yields a window.
LEMMA WindowAddType ==
    ASSUME NEW w \in Window, NEW e \in Event, NEW p \in Partitions,
           NEW o \in Offset
    PROVE  WindowAdd(w, e, p, o) \in Window
<1> DEFINE m == <<p, o>>
           z == AggregateAdd(w.zones, e.zone, m)
           zz == AggregateAdd(z, None, m)
<1>1. w.zones \in [Keys -> Aggregate] /\ e.zone \in Keys /\ None \in Keys
  BY DEF Window, Event, Keys
<1>2. m \in MsgId
  BY DEF MsgId
<1>3. ASSUME NEW f \in [Keys -> Aggregate], NEW k \in Keys
      PROVE  AggregateAdd(f, k, m) \in [Keys -> Aggregate]
  BY <1>2 DEF AggregateAdd, Aggregate
<1>4. z \in [Keys -> Aggregate]
  BY <1>1, <1>3
<1>5. zz \in [Keys -> Aggregate]
  BY <1>1, <1>3, <1>4
<1>6. [w.min_offsets EXCEPT ![p] = IF @ = NoOffset \/ o < @ THEN o ELSE @]
        \in [Partitions -> Offset \cup {NoOffset}]
  BY DEF Window
<1>7. QED
  BY <1>5, <1>6 DEF WindowAdd, Window

\* A fresh window is a window.
LEMMA NewWindowType == NewWindow \in Window
  BY DEF NewWindow, Window, Nothing, Aggregate

\* No window at all is a window map.
LEMMA NoWindowsType == WindowMap(NoWindows)
  BY DEF WindowMap, NoWindows

\* Evicting the closed windows splits the window map into two of them.
LEMMA TakeClosedType ==
    ASSUME NEW ws, NEW wm, WindowMap(ws), TakeClosed(ws, wm)
    PROVE  /\ WindowMap(windows')
           /\ WindowMap(closing')
           /\ pc' \in PCs
  BY DEF TakeClosed, WindowMap, PCs

\* A transaction leaves rows in the table.
LEMMA UpsertType ==
    ASSUME NEW ws, NEW final \in BOOLEAN, WindowMap(ws),
           table \in [Starts \X Keys -> Row], Upsert(ws, final)
    PROVE  table' \in [Starts \X Keys -> Row]
<1>1. ASSUME NEW c \in Starts \X Keys, c[1] \in DOMAIN ws
      PROVE  ws[c[1]].zones[c[2]] \in Aggregate
  BY <1>1 DEF WindowMap, Window
<1>2. QED
  BY <1>1 DEF Upsert, Row

\* The offset a partition would be committed at is an offset.
LEMMA SafeCommitOffsetType ==
    ASSUME TypeOK, NEW p \in Partitions
    PROVE  SafeCommitOffset(p) \in Nat
<1>1. OpenMins(p) \in SUBSET Nat
  BY DEF TypeOK, OpenMins, WindowMap, Window, Offset, NoOffset
<1>2. OpenMins(p) # {} => Min(OpenMins(p)) \in Nat
  BY <1>1, MinOfNaturals
<1>3. last_offsets[p] # NoOffset => last_offsets[p] + 1 \in Nat
  BY DEF TypeOK, Offset
<1>4. QED
  BY <1>2, <1>3 DEF SafeCommitOffset, TypeOK

\* A commit leaves offsets committed.
LEMMA CommitOffsetsType ==
    ASSUME TypeOK, CommitOffsets
    PROVE  committed' \in [Partitions -> Nat]
  BY SafeCommitOffsetType DEF CommitOffsets, TypeOK

\* What is fetched is a message at an offset of the log.
LEMMA FetchedType ==
    ASSUME TypeOK, NEW p \in Partitions, CanPoll(p)
    PROVE  Fetched(p) \in Message /\ position[p] \in Offset
<1>1. log[p] \in Seq(Message) /\ Len(log[p]) \in Nat /\ Len(log[p]) <= MaxLog
  BY DEF TypeOK
<1>2. position[p] \in Nat /\ position[p] < Len(log[p])
  BY DEF TypeOK, CanPoll
<1>3. QED
  BY <1>1, <1>2, BoundsAssumption DEF Fetched, Offset

-----------------------------------------------------------------------------
(***************************************************************************)
(* Type correctness                                                        *)
(***************************************************************************)
\* The variables have their types in the initial state.
LEMMA InitType == Init => TypeOK
  BY BoundsAssumption, NoWindowsType
     DEF Init, TypeOK, Row, NoRow, Nothing, Aggregate, PCs, NoTime, NoOffset

\* Reading a message leaves position and last_offsets with their types.
LEMMA ConsumeType ==
    ASSUME TypeOK, NEW p \in Partitions, CanPoll(p), Consume(p)
    PROVE  /\ position' \in [Partitions -> Nat]
           /\ last_offsets' \in [Partitions -> Offset \cup {NoOffset}]
  BY FetchedType DEF Consume, TypeOK, Offset

\* Every step keeps the types.
LEMMA NextType == TypeOK /\ [Next]_vars => TypeOK'
<1> SUFFICES ASSUME TypeOK, [Next]_vars
             PROVE  TypeOK'
  OBVIOUS
<1> USE BoundsAssumption
<1>1. ASSUME NEW p \in Partitions, Produce(p)
      PROVE  TypeOK'
  <2>1. PICK m \in Message : log' = [log EXCEPT ![p] = Append(@, m)]
    BY <1>1 DEF Produce
  <2>2. Append(log[p], m) \in Seq(Message)
        /\ Len(Append(log[p], m)) = Len(log[p]) + 1
    BY DEF TypeOK
  <2>3. /\ log' \in [Partitions -> Seq(Message)]
        /\ \A q \in Partitions : Len(log'[q]) <= MaxLog
    BY <1>1, <2>1, <2>2 DEF TypeOK, Produce
  <2>4. QED
    BY <1>1, <2>3 DEF Produce, TypeOK, store, WindowMap
<1>2. ASSUME NEW p \in Partitions, PollTrip(p)
      PROVE  TypeOK'
  <2> DEFINE e == Fetched(p)
             s == WindowStart(e.time)
             w == IF s \in DOMAIN windows THEN windows[s] ELSE NewWindow
             added == WindowAdd(w, e, p, position[p])
             wm == IF watermark = NoTime \/ e.time > watermark
                   THEN e.time ELSE watermark
             ws == [x \in DOMAIN windows \cup {s} |->
                        IF x = s THEN added ELSE windows[x]]
  <2>1. CanPoll(p) /\ e \in Event /\ position[p] \in Offset
    BY <1>2, FetchedType DEF PollTrip, Message
  <2>2. s \in Starts /\ wm \in Time
    BY <2>1, WindowStartType DEF Event, TypeOK
  <2>3. w \in Window
    BY NewWindowType DEF TypeOK, WindowMap
  <2>4. added \in Window
    BY <2>1, <2>3, WindowAddType
  <2>5. WindowMap(ws)
    BY <2>2, <2>4 DEF WindowMap, TypeOK
  <2>6. TakeClosed(ws, wm) /\ watermark' = wm /\ Consume(p)
        /\ UNCHANGED late_events
    BY <1>2 DEF PollTrip
  <2> HIDE DEF e, s, w, added, wm, ws
  <2>7. QED
    BY <2>1, <2>2, <2>5, <2>6, TakeClosedType, ConsumeType
       DEF TypeOK, Consume, durable
<1>3. ASSUME NEW p \in Partitions, PollLate(p) \/ PollPoison(p)
      PROVE  TypeOK'
  <2>1. CanPoll(p) /\ TakeClosed(windows, watermark) /\ Consume(p)
        /\ UNCHANGED watermark /\ late_events' \in Nat
    BY <1>3 DEF PollLate, PollPoison, TypeOK
  <2>2. QED
    BY <2>1, TakeClosedType, ConsumeType DEF TypeOK, Consume, durable
<1>4. CASE PollNothing
  BY <1>4, TakeClosedType DEF PollNothing, TypeOK, durable
<1>5. CASE WriteClosed
  BY <1>5, UpsertType, NoWindowsType DEF WriteClosed, TypeOK, store, PCs, WindowMap
<1>6. CASE WriteClosedFails
  BY <1>6, NoWindowsType DEF WriteClosedFails, WriteFails, TypeOK, store, PCs, WindowMap
<1>7. CASE Commit
  BY <1>7, CommitOffsetsType DEF Commit, TypeOK, store, PCs, WindowMap
<1>8. CASE Flush
  BY <1>8, UpsertType DEF Flush, TypeOK, store, WindowMap
<1>9. CASE FlushFails
  BY <1>9 DEF FlushFails, WriteFails, TypeOK, store, PCs, WindowMap
<1>10. CASE RequestShutdown
  BY <1>10 DEF RequestShutdown, TypeOK, store, durable, PCs, WindowMap
<1>11. CASE StopWrite
  BY <1>11, UpsertType DEF StopWrite, TypeOK, store, PCs, WindowMap
<1>12. Exit => /\ pc' \in PCs /\ watermark' \in Time \cup {NoTime}
               /\ last_offsets' \in [Partitions -> Offset \cup {NoOffset}]
               /\ late_events' \in Nat
               /\ WindowMap(windows') /\ WindowMap(closing')
  BY NoWindowsType DEF Exit, PCs
<1>13. CASE StopWriteFails
  BY <1>12, <1>13 DEF StopWriteFails, WriteFails, TypeOK
<1>14. CASE StopCommit
  BY <1>12, <1>14, CommitOffsetsType DEF StopCommit, TypeOK
<1>15. CASE Crash
  BY <1>12, <1>15 DEF Crash, TypeOK, durable
<1>16. CASE Start
  BY <1>16 DEF Start, TypeOK, store, durable, PCs, WindowMap
<1>17. CASE UNCHANGED vars
  BY <1>17 DEF vars, TypeOK, WindowMap
<1>18. QED
  BY <1>1, <1>2, <1>3, <1>4, <1>5, <1>6, <1>7, <1>8, <1>9, <1>10, <1>11,
     <1>13, <1>14, <1>15, <1>16, <1>17 DEF Next, Poll

\* Every variable keeps the type of the field it stands for.
THEOREM TypeCorrect == Spec => []TypeOK
<1>1. QED
  BY InitType, NextType, PTL DEF Spec

-----------------------------------------------------------------------------
(***************************************************************************)
(* The committed offset                                                    *)
(***************************************************************************)
\* What the windows of ws say about the offsets: each was fed by messages that
\* were read by this process, none of them before the committed offset.
Fed(ws) ==
    \A s \in DOMAIN ws : \A p \in Partitions :
        ws[s].min_offsets[p] # NoOffset =>
            /\ committed[p] <= ws[s].min_offsets[p]
            /\ ws[s].min_offsets[p] < position[p]
            /\ last_offsets[p] # NoOffset

\* CommitFloor is not inductive: it does not say that the fetch position and
\* _last_offsets, from which the next commit is computed, are themselves at or
\* past the committed offset, nor that nothing is waiting to be written when a
\* commit is made.
CommitInv ==
    /\ TypeOK
    /\ Fed(windows)
    /\ Fed(closing)
    /\ pc # "finalize" => DOMAIN closing = {}
    /\ pc = "down" => /\ DOMAIN windows = {}
                      /\ \A p \in Partitions : last_offsets[p] = NoOffset
    /\ \A p \in Partitions :
        /\ committed[p] <= Len(log[p])
        /\ position[p] <= Len(log[p])
        /\ pc # "down" => committed[p] <= position[p]
        /\ last_offsets[p] # NoOffset => position[p] = last_offsets[p] + 1

\* The offset computed by safe_commit_offsets lies between the committed one
\* and the fetch position, and is at most every open window's first offset.
LEMMA SafeCommitOffsetBounds ==
    ASSUME CommitInv, pc # "down", NEW p \in Partitions
    PROVE  /\ SafeCommitOffset(p) \in Nat
           /\ committed[p] <= SafeCommitOffset(p)
           /\ SafeCommitOffset(p) <= position[p]
           /\ \A s \in DOMAIN windows :
                windows[s].min_offsets[p] # NoOffset
                    => SafeCommitOffset(p) <= windows[s].min_offsets[p]
<1>1. OpenMins(p) \in SUBSET Nat
  BY DEF CommitInv, TypeOK, OpenMins, WindowMap, Window, Offset, NoOffset
<1>2. committed[p] \in Nat /\ position[p] \in Nat
      /\ last_offsets[p] \in Offset \cup {NoOffset}
  BY DEF CommitInv, TypeOK
<1>3. CASE last_offsets[p] = NoOffset
  BY <1>2, <1>3 DEF CommitInv, SafeCommitOffset, Fed
<1>4. CASE last_offsets[p] # NoOffset /\ OpenMins(p) = {}
  <2>1. SafeCommitOffset(p) = position[p]
    BY <1>4 DEF SafeCommitOffset, CommitInv
  <2>2. \A s \in DOMAIN windows : windows[s].min_offsets[p] = NoOffset
    BY <1>4 DEF OpenMins
  <2>3. QED
    BY <1>2, <2>1, <2>2 DEF CommitInv
<1>5. CASE last_offsets[p] # NoOffset /\ OpenMins(p) # {}
  <2>1. SafeCommitOffset(p) = Min(OpenMins(p))
    BY <1>5 DEF SafeCommitOffset
  <2>2. /\ SafeCommitOffset(p) \in OpenMins(p)
        /\ \A o \in OpenMins(p) : SafeCommitOffset(p) <= o
    BY <1>1, <1>5, <2>1, MinOfNaturals
  <2>3. \A o \in OpenMins(p) : committed[p] <= o /\ o < position[p]
    BY DEF OpenMins, CommitInv, Fed
  <2>4. QED
    BY <1>1, <1>2, <2>2, <2>3 DEF OpenMins
<1>6. QED
  BY <1>3, <1>4, <1>5

\* A commit moves no committed offset back, and none past an open window.
LEMMA CommitOffsetsBounds ==
    ASSUME CommitInv, pc # "down", CommitOffsets, NEW p \in Partitions
    PROVE  /\ committed[p] <= committed'[p]
           /\ committed'[p] <= position[p]
           /\ \A s \in DOMAIN windows :
                windows[s].min_offsets[p] # NoOffset
                    => committed'[p] <= windows[s].min_offsets[p]
<1>1. committed'[p] = SafeCommitOffset(p) \/ committed'[p] = committed[p]
  BY DEF CommitOffsets
<1>2. committed[p] \in Nat
  BY DEF CommitInv, TypeOK
<1>3. QED
  BY <1>1, <1>2, SafeCommitOffsetBounds DEF CommitInv, Fed

\* What TakeClosed leaves open and what it evicts were open before.
LEMMA TakeClosedSplits ==
    ASSUME NEW ws, NEW wm, TakeClosed(ws, wm)
    PROVE  /\ DOMAIN windows' \subseteq DOMAIN ws
           /\ DOMAIN closing' \subseteq DOMAIN ws
           /\ \A s \in DOMAIN windows' : windows'[s] = ws[s]
           /\ \A s \in DOMAIN closing' : closing'[s] = ws[s]
           /\ pc' # "finalize" => DOMAIN closing' = {}
           /\ pc' # "down"
  BY DEF TakeClosed

\* The invariant holds initially.
LEMMA InitCommitInv == Init => CommitInv
<1> SUFFICES ASSUME Init PROVE CommitInv
  OBVIOUS
<1>1. TypeOK
  BY InitType
<1>2. DOMAIN NoWindows = {}
  BY DEF NoWindows
<1>3. QED
  BY <1>1, <1>2 DEF Init, CommitInv, Fed

\* A poll that reads the next message of partition p keeps the invariant: the
\* message is added to one window, whose lowest offset is not lowered below
\* the committed offset because what is read lies at or past it.
LEMMA PollKeepsFloor ==
    ASSUME CommitInv, TypeOK', NEW p \in Partitions, CanPoll(p), Consume(p),
           NEW ws, NEW wm, TakeClosed(ws, wm), WindowMap(ws),
           \A s \in DOMAIN ws : \A q \in Partitions :
               \/ s \in DOMAIN windows
                  /\ ws[s].min_offsets[q] = windows[s].min_offsets[q]
               \/ ws[s].min_offsets[q] = NoOffset
               \/ q = p /\ ws[s].min_offsets[q] = position[p]
    PROVE  CommitInv'
<1>1. position[p] \in Nat /\ position[p] < Len(log[p])
      /\ Len(log[p]) \in Nat /\ position[p] # NoOffset /\ pc # "down"
  BY DEF CommitInv, TypeOK, CanPoll, NoOffset
<1>2. /\ position' = [position EXCEPT ![p] = @ + 1]
      /\ last_offsets' = [last_offsets EXCEPT ![p] = position[p]]
      /\ log' = log /\ committed' = committed
  BY DEF Consume, durable
<1>3. \A q \in Partitions : /\ position[q] \in Nat /\ committed[q] \in Nat
                            /\ committed[q] <= position[q]
  BY <1>1 DEF CommitInv, TypeOK
<1>4. \A q \in Partitions :
        /\ position'[q] = IF q = p THEN position[p] + 1 ELSE position[q]
        /\ last_offsets'[q] = IF q = p THEN position[p] ELSE last_offsets[q]
  BY <1>2 DEF CommitInv, TypeOK
<1>5. \A s \in DOMAIN ws : \A q \in Partitions :
        ws[s].min_offsets[q] # NoOffset =>
            /\ committed[q] <= ws[s].min_offsets[q]
            /\ ws[s].min_offsets[q] < position'[q]
            /\ last_offsets'[q] # NoOffset
  <2> SUFFICES ASSUME NEW s \in DOMAIN ws, NEW q \in Partitions,
                      ws[s].min_offsets[q] # NoOffset
               PROVE  /\ committed[q] <= ws[s].min_offsets[q]
                      /\ ws[s].min_offsets[q] < position'[q]
                      /\ last_offsets'[q] # NoOffset
    OBVIOUS
  <2>1. CASE s \in DOMAIN windows
             /\ ws[s].min_offsets[q] = windows[s].min_offsets[q]
    <3>1. windows[s].min_offsets[q] \in Nat
      BY <2>1 DEF CommitInv, TypeOK, WindowMap, Window, Offset
    <3>2. QED
      BY <2>1, <3>1, <1>1, <1>3, <1>4 DEF CommitInv, Fed
  <2>2. CASE q = p /\ ws[s].min_offsets[q] = position[p]
    BY <2>2, <1>1, <1>3, <1>4
  <2>3. QED
    BY <2>1, <2>2
<1>6. Fed(windows)' /\ Fed(closing)'
  BY <1>2, <1>5, TakeClosedSplits DEF Fed
<1>7. /\ (pc # "finalize" => DOMAIN closing = {})'
      /\ pc' # "down"
  BY TakeClosedSplits
<1>8. \A q \in Partitions :
        /\ committed'[q] <= Len(log'[q])
        /\ position'[q] <= Len(log'[q])
        /\ committed'[q] <= position'[q]
        /\ last_offsets'[q] # NoOffset => position'[q] = last_offsets'[q] + 1
  BY <1>1, <1>2, <1>3, <1>4 DEF CommitInv
<1>9. QED
  BY <1>6, <1>7, <1>8 DEF CommitInv

\* Every step keeps the invariant.
LEMMA NextCommitInv == CommitInv /\ [Next]_vars => CommitInv'
<1> SUFFICES ASSUME CommitInv, [Next]_vars
             PROVE  CommitInv'
  OBVIOUS
<1>1. TypeOK'
  BY NextType DEF CommitInv
<1>2. ASSUME NEW p \in Partitions, Produce(p)
      PROVE  CommitInv'
  <2>1. PICK m : log' = [log EXCEPT ![p] = Append(@, m)] /\ m \in Message
    BY <1>2 DEF Produce
  <2>2. \A q \in Partitions :
            Len(log[q]) \in Nat /\ Len(log'[q]) \in Nat
            /\ Len(log[q]) <= Len(log'[q])
    BY <2>1 DEF CommitInv, TypeOK
  <2>3. \A q \in Partitions : committed[q] \in Nat /\ position[q] \in Nat
    BY DEF CommitInv, TypeOK
  <2>4. UNCHANGED <<committed, pc, position, windows, last_offsets, closing>>
    BY <1>2 DEF Produce, store
  <2>5. QED
    BY <1>1, <2>2, <2>3, <2>4 DEF CommitInv, Fed
<1>3. ASSUME NEW p \in Partitions, PollTrip(p)
      PROVE  CommitInv'
  <2> DEFINE e == Fetched(p)
             s == WindowStart(e.time)
             w == IF s \in DOMAIN windows THEN windows[s] ELSE NewWindow
             added == WindowAdd(w, e, p, position[p])
             wm == IF watermark = NoTime \/ e.time > watermark
                   THEN e.time ELSE watermark
             ws == [x \in DOMAIN windows \cup {s} |->
                        IF x = s THEN added ELSE windows[x]]
  <2>1. CanPoll(p) /\ e \in Event /\ position[p] \in Offset
    BY <1>3, FetchedType DEF PollTrip, Message, CommitInv
  <2>2. s \in Starts
    BY <2>1, WindowStartType DEF Event
  <2>3. w \in Window
    BY NewWindowType DEF CommitInv, TypeOK, WindowMap
  <2>4. added \in Window
    BY <2>1, <2>3, WindowAddType
  <2>5. WindowMap(ws)
    BY <2>2, <2>4 DEF WindowMap, CommitInv, TypeOK
  <2>6. TakeClosed(ws, wm) /\ Consume(p)
    BY <1>3 DEF PollTrip
  <2>7. \A q \in Partitions :
            \/ s \in DOMAIN windows
               /\ added.min_offsets[q] = windows[s].min_offsets[q]
            \/ added.min_offsets[q] = NoOffset
            \/ q = p /\ added.min_offsets[q] = position[p]
    <3>1. w.min_offsets \in [Partitions -> Offset \cup {NoOffset}]
      BY <2>3 DEF Window
    <3>2. s \notin DOMAIN windows =>
            \A q \in Partitions : w.min_offsets[q] = NoOffset
      BY DEF NewWindow
    <3>3. \A q \in Partitions :
            \/ added.min_offsets[q] = w.min_offsets[q]
            \/ q = p /\ added.min_offsets[q] = position[p]
      BY <3>1 DEF WindowAdd
    <3>4. QED
      BY <3>2, <3>3
  <2>8. \A x \in DOMAIN ws : \A q \in Partitions :
            \/ x \in DOMAIN windows
               /\ ws[x].min_offsets[q] = windows[x].min_offsets[q]
            \/ ws[x].min_offsets[q] = NoOffset
            \/ q = p /\ ws[x].min_offsets[q] = position[p]
    BY <2>7
  <2> HIDE DEF e, s, w, added, wm, ws
  <2>9. QED
    BY <1>1, <2>1, <2>5, <2>6, <2>8, PollKeepsFloor
<1>4. ASSUME NEW p \in Partitions, PollLate(p) \/ PollPoison(p)
      PROVE  CommitInv'
  <2>1. CanPoll(p) /\ TakeClosed(windows, watermark) /\ Consume(p)
    BY <1>4 DEF PollLate, PollPoison
  <2>2. WindowMap(windows)
    BY DEF CommitInv, TypeOK
  <2>3. QED
    BY <1>1, <2>1, <2>2, PollKeepsFloor
<1>5. CASE PollNothing
  <2>1. TakeClosed(windows, watermark) /\ pc = "poll"
        /\ UNCHANGED <<log, committed, position, last_offsets>>
    BY <1>5 DEF PollNothing, durable
  <2>2. Fed(windows)' /\ Fed(closing)'
    BY <2>1, TakeClosedSplits DEF CommitInv, Fed
  <2>3. QED
    BY <1>1, <2>1, <2>2, TakeClosedSplits DEF CommitInv
<1>6. DOMAIN NoWindows = {}
  BY DEF NoWindows
<1>7. CASE WriteClosed \/ WriteClosedFails
  BY <1>1, <1>6, <1>7
     DEF WriteClosed, WriteClosedFails, CommitInv, Fed, store
<1>8. CASE Flush \/ FlushFails \/ RequestShutdown \/ StopWrite
  BY <1>1, <1>8
     DEF Flush, FlushFails, RequestShutdown, StopWrite, CommitInv, Fed, store,
         durable
<1>9. CASE Commit
  <2>1. pc = "commit" /\ pc' = "poll" /\ CommitOffsets
        /\ UNCHANGED <<log, position, windows, last_offsets, closing>>
    BY <1>9 DEF Commit, store
  <2>2. \A p \in Partitions : committed'[p] <= position[p]
                              /\ committed'[p] \in Nat /\ position[p] \in Nat
                              /\ Len(log[p]) \in Nat
    BY <1>1, <2>1, CommitOffsetsBounds DEF CommitInv, TypeOK
  <2>3. Fed(windows)'
    BY <2>1, CommitOffsetsBounds DEF CommitInv, Fed
  <2>4. QED
    BY <1>1, <2>1, <2>2, <2>3 DEF CommitInv, Fed
<1>10. CASE StopCommit
  <2>1. pc = "stopcommit" /\ CommitOffsets /\ Exit /\ UNCHANGED <<log, position>>
    BY <1>10 DEF StopCommit
  <2>2. \A p \in Partitions : committed'[p] <= position[p]
                              /\ committed'[p] \in Nat /\ position[p] \in Nat
                              /\ Len(log[p]) \in Nat
    BY <1>1, <2>1, CommitOffsetsBounds DEF CommitInv, TypeOK
  <2>3. QED
    BY <1>1, <1>6, <2>1, <2>2 DEF CommitInv, Fed, Exit
<1>11. CASE StopWriteFails \/ Crash
  BY <1>1, <1>6, <1>11 DEF StopWriteFails, Crash, CommitInv, Fed, Exit, durable
<1>12. CASE Start
  <2>1. \A p \in Partitions : committed[p] \in Nat
    BY DEF CommitInv, TypeOK
  <2>2. QED
    BY <1>1, <1>12, <2>1 DEF Start, CommitInv, Fed, store, durable
<1>13. CASE UNCHANGED vars
  BY <1>1, <1>13 DEF vars, CommitInv, Fed
<1>14. QED
  BY <1>2, <1>3, <1>4, <1>5, <1>7, <1>8, <1>9, <1>10, <1>11, <1>12, <1>13
     DEF Next, Poll

\* CommitInv is an invariant.
LEMMA CommitInvariant == Spec => []CommitInv
<1>1. QED
  BY InitCommitInv, NextCommitInv, PTL DEF Spec

\* The committed offset is never past the first message of an open window,
\* whatever the order of arrival, the crashes and the refused writes.
THEOREM CommitFloorHolds == Spec => []CommitFloor
<1>1. CommitInv => CommitFloor
  BY DEF CommitInv, Fed, CommitFloor
<1>2. QED
  BY <1>1, CommitInvariant, PTL

\* No step moves a committed offset back.
THEOREM CommitMonotone == Spec => CommittedNeverGoesBack
<1> DEFINE Forward == \A p \in Partitions : committed'[p] >= committed[p]
<1>1. CommitInv /\ [Next]_vars => [Forward]_vars
  <2> SUFFICES ASSUME CommitInv, Next
               PROVE  Forward
    OBVIOUS
  <2>1. \A p \in Partitions : committed[p] \in Nat
    BY DEF CommitInv, TypeOK
  <2>2. \A p \in Partitions : committed'[p] \in Nat
    BY NextType DEF CommitInv, TypeOK
  <2>3. CASE Commit \/ StopCommit
    BY <2>1, <2>2, <2>3, CommitOffsetsBounds DEF Commit, StopCommit
  <2>4. CASE committed' = committed
    BY <2>1, <2>4
  <2>5. committed' = committed \/ Commit \/ StopCommit
    BY DEF Next, Poll, Produce, PollTrip, PollLate, PollPoison, PollNothing,
           Consume, WriteClosed, WriteClosedFails, Flush, FlushFails,
           RequestShutdown, StopWrite, StopWriteFails, Crash, Start, durable
  <2>6. QED
    BY <2>3, <2>4, <2>5
<1>2. QED
  BY <1>1, CommitInvariant, PTL DEF Spec, CommittedNeverGoesBack

-----------------------------------------------------------------------------
(***************************************************************************)
(* The topic, the fetch position and the watermark                         *)
(***************************************************************************)
\* The topic is only ever appended to.
LEMMA LogGrows ==
    ASSUME TypeOK, [Next]_vars, NEW p \in Partitions
    PROVE  /\ Len(log[p]) \in Nat /\ Len(log'[p]) \in Nat
           /\ Len(log[p]) <= Len(log'[p])
           /\ DOMAIN log[p] = 1 .. Len(log[p])
           /\ DOMAIN log'[p] = 1 .. Len(log'[p])
           /\ \A i \in 1 .. Len(log[p]) : log'[p][i] = log[p][i]
<1>1. log[p] \in Seq(Message) /\ log'[p] \in Seq(Message)
  BY NextType DEF TypeOK
<1>2. ASSUME NEW q \in Partitions, Produce(q)
      PROVE  log'[p] = log[p] \/ \E m \in Message : log'[p] = Append(log[p], m)
  BY <1>2 DEF Produce, TypeOK
<1>3. (\E q \in Partitions : Produce(q)) \/ log' = log
  BY DEF Next, Poll, PollTrip, PollLate, PollPoison, PollNothing, Consume,
         WriteClosed, WriteClosedFails, Commit, Flush, FlushFails,
         RequestShutdown, StopWrite, StopWriteFails, StopCommit, Crash, Start,
         durable, vars
<1>4. QED
  BY <1>1, <1>2, <1>3

\* The watermark is the pickup time of a trip that was read (windows.py:
\* self._watermark = event_time), and a process that is not running has none.
WatermarkIsRead ==
    /\ watermark # NoTime =>
        \E p \in Partitions : \E i \in 1 .. position[p] :
            log[p][i] # Poison /\ log[p][i].time = watermark
    /\ pc = "down" => watermark = NoTime

\* Every step keeps it: only a poll moves the watermark, to what it has read,
\* and only a start, from "down", moves the fetch position back.
LEMMA NextWatermark ==
    CommitInv /\ WatermarkIsRead /\ [Next]_vars => WatermarkIsRead'
<1> SUFFICES ASSUME CommitInv, WatermarkIsRead, [Next]_vars
             PROVE  WatermarkIsRead'
  OBVIOUS
<1>1. TypeOK /\ TypeOK'
  BY NextType DEF CommitInv
<1>2. ASSUME watermark' = watermark, pc' # "down",
             \A p \in Partitions : position[p] <= position'[p]
      PROVE  WatermarkIsRead'
  <2>1. SUFFICES ASSUME watermark # NoTime
                 PROVE  \E p \in Partitions : \E i \in 1 .. position'[p] :
                            log'[p][i] # Poison /\ log'[p][i].time = watermark
    BY <1>2 DEF WatermarkIsRead
  <2>2. PICK p \in Partitions : \E i \in 1 .. position[p] :
            log[p][i] # Poison /\ log[p][i].time = watermark
    BY <2>1 DEF WatermarkIsRead
  <2>3. PICK i \in 1 .. position[p] :
            log[p][i] # Poison /\ log[p][i].time = watermark
    BY <2>2
  <2>4. /\ position[p] \in Nat /\ position'[p] \in Nat
        /\ position[p] <= Len(log[p]) /\ Len(log[p]) \in Nat
    BY <1>1, LogGrows DEF CommitInv, TypeOK
  <2>5. i \in 1 .. Len(log[p]) /\ i \in 1 .. position'[p]
    BY <1>2, <2>4
  <2>6. QED
    BY <1>1, <2>3, <2>5, LogGrows
<1>3. ASSUME NEW p \in Partitions, CanPoll(p), Consume(p)
      PROVE  /\ \A q \in Partitions : position[q] <= position'[q]
             /\ position'[p] = position[p] + 1
             /\ log' = log
  BY <1>1, <1>3 DEF Consume, TypeOK, durable
<1>4. ASSUME NEW p \in Partitions, PollTrip(p)
      PROVE  WatermarkIsRead'
  <2>1. /\ CanPoll(p) /\ Consume(p) /\ Fetched(p) # Poison /\ pc' # "down"
        /\ watermark' = watermark \/ watermark' = Fetched(p).time
    BY <1>4 DEF PollTrip, TakeClosed
  <2>2. CASE watermark' = watermark
    BY <1>2, <1>3, <2>1, <2>2
  <2>3. CASE watermark' = Fetched(p).time
    <3>1. position[p] + 1 \in 1 .. position'[p]
      BY <1>1, <1>3, <2>1 DEF TypeOK
    <3>2. log'[p][position[p] + 1] = Fetched(p)
      BY <1>3, <2>1 DEF Fetched
    <3>3. QED
      BY <2>1, <2>3, <3>1, <3>2 DEF WatermarkIsRead
  <2>4. QED
    BY <2>1, <2>2, <2>3
<1>5. ASSUME NEW p \in Partitions, PollLate(p) \/ PollPoison(p)
      PROVE  WatermarkIsRead'
  <2>1. CanPoll(p) /\ Consume(p) /\ pc' # "down" /\ watermark' = watermark
    BY <1>5 DEF PollLate, PollPoison, TakeClosed
  <2>2. QED
    BY <1>2, <1>3, <2>1
<1>6. CASE position' = position /\ watermark' = watermark
           /\ (pc' # "down" \/ pc' = pc)
  <2>1. \A p \in Partitions : position[p] <= position'[p]
    BY <1>1, <1>6 DEF TypeOK
  <2>2. CASE pc' # "down"
    BY <1>2, <1>6, <2>1, <2>2
  <2>3. CASE pc = "down" /\ pc' = "down"
    BY <1>6, <2>3 DEF WatermarkIsRead
  <2>4. QED
    BY <1>6, <2>2, <2>3
<1>7. CASE Exit
  BY <1>7 DEF Exit, WatermarkIsRead
<1>8. CASE Start
  BY <1>8 DEF Start, WatermarkIsRead, store
<1>9. \/ position' = position /\ watermark' = watermark
         /\ (pc' # "down" \/ pc' = pc)
      \/ Exit \/ Start
      \/ \E p \in Partitions : Poll(p)
  BY DEF Next, Produce, PollNothing, TakeClosed, WriteClosed, WriteClosedFails,
         Commit, Flush, FlushFails, RequestShutdown, StopWrite, StopWriteFails,
         StopCommit, Crash, store, vars
<1>10. QED
  BY <1>4, <1>5, <1>6, <1>7, <1>8, <1>9 DEF Poll

\* NothingIsLate is not inductive: it does not say whose pickup time the
\* watermark is.
LateInv == CommitInv /\ WatermarkIsRead /\ NothingIsLate

\* With one partition a trip no older than the grace allows is never late: the
\* watermark is the pickup of an earlier message, so the trip's own window, which
\* ends after its pickup, is not passed with the grace.
LEMMA NextLate ==
    ASSUME NEW p \in Partitions, Partitions = {p}
    PROVE  LateInv /\ [Next]_vars => LateInv'
<1> SUFFICES ASSUME LateInv, [Next]_vars
             PROVE  NothingIsLate'
  BY NextCommitInv, NextWatermark DEF LateInv
<1>1. TypeOK
  BY DEF LateInv, CommitInv
<1>2. WithinGrace' => WithinGrace
  <2>1. SUFFICES ASSUME WithinGrace', NEW q \in Partitions,
                        NEW j \in DOMAIN log[q], NEW i \in 1 .. j,
                        log[q][i] # Poison, log[q][j] # Poison
                 PROVE  log[q][i].time <= log[q][j].time + Grace
    BY DEF WithinGrace
  <2>2. /\ j \in DOMAIN log'[q] /\ i \in 1 .. Len(log[q])
        /\ log'[q][i] = log[q][i] /\ log'[q][j] = log[q][j]
    BY <1>1, LogGrows
  <2>3. QED
    BY <2>1, <2>2 DEF WithinGrace
<1>3. CASE late_events' = late_events \/ late_events' = 0
  BY <1>2, <1>3 DEF LateInv, NothingIsLate
<1>4. ASSUME PollLate(p), WithinGrace
      PROVE  FALSE
  <2> DEFINE e == Fetched(p)
  <2>1. CanPoll(p) /\ e # Poison /\ ~Accepts(WindowStart(e.time))
    BY <1>4 DEF PollLate
  <2>2. e \in Event /\ e.time \in Nat /\ position[p] \in Nat
        /\ position[p] + 1 \in DOMAIN log[p]
    BY <1>1, <2>1, FetchedType
       DEF Message, Event, Time, CanPoll, TypeOK
  <2>3. watermark # NoTime /\ WindowStart(e.time) + Size + Grace <= watermark
    BY <2>1 DEF Accepts, Closed
  <2>4. PICK i \in 1 .. position[p] :
            log[p][i] # Poison /\ log[p][i].time = watermark
    BY <2>3 DEF LateInv, WatermarkIsRead
  <2>5. i \in 1 .. position[p] + 1 /\ watermark \in Nat
    BY <1>1, <2>2, <2>3 DEF TypeOK, Time
  <2>6. watermark <= e.time + Grace
    BY <1>4, <2>1, <2>2, <2>4, <2>5 DEF WithinGrace, Fetched
  <2>7. WindowStart(e.time) \in Int /\ e.time < WindowStart(e.time) + Size
    BY <2>2, WindowStartIsClose
  <2>8. QED
    BY <2>2, <2>3, <2>5, <2>6, <2>7, GraceAssumption, SizeAssumption
<1>5. late_events' = late_events \/ late_events' = 0 \/ PollLate(p)
  BY DEF Next, Poll, Produce, PollTrip, PollPoison, PollNothing, WriteClosed,
         WriteClosedFails, Commit, Flush, FlushFails, RequestShutdown,
         StopWrite, StopWriteFails, StopCommit, Crash, Start, Exit, store, vars
<1>6. QED
  BY <1>2, <1>3, <1>4, <1>5 DEF NothingIsLate

\* With one partition, and arrival out of order by no more than the grace,
\* nothing is ever counted late, whatever crashes and refused writes there are.
THEOREM NothingIsLateHolds ==
    ASSUME NEW p \in Partitions, Partitions = {p}
    PROVE  Spec => []NothingIsLate
<1>1. Init => LateInv
  BY InitCommitInv DEF LateInv, Init, WatermarkIsRead, NothingIsLate
<1>2. LateInv /\ [Next]_vars => LateInv'
  BY NextLate
<1>3. LateInv => NothingIsLate
  BY DEF LateInv
<1>4. QED
  BY <1>1, <1>2, <1>3, PTL DEF Spec

-----------------------------------------------------------------------------
(***************************************************************************)
(* One life of the process: no stop, no refused transaction                *)
(***************************************************************************)
OneLife == MaxStops = 0 /\ MaxWriteFailures = 0

\* FinalRowsNeverChange is not inductive: a row is not written again because its
\* window was passed and evicted, because a passed window is not reopened, and
\* because the watermark never goes back while the process lives.
LifeInv ==
    /\ CommitInv
    /\ WatermarkIsRead
    /\ pc \notin {"stopwrite", "stopcommit"}
    /\ pc = "down" =>
        /\ \A c \in Starts \X Keys : ~table[c].is_final
        /\ \A p \in Partitions : position[p] = 0 /\ committed[p] = 0
        /\ late_events = 0
    /\ \A s \in DOMAIN closing : Closed(s, watermark) /\ s \notin DOMAIN windows
    /\ \A c \in Starts \X Keys :
        table[c].is_final =>
            /\ Closed(c[1], watermark)
            /\ c[1] \notin DOMAIN windows /\ c[1] \notin DOMAIN closing

\* In one life there are no stops.
LEMMA NoStops ==
    ASSUME OneLife, TypeOK
    PROVE  ~WriteFails /\ ~RequestShutdown /\ ~Crash
  BY DEF OneLife, TypeOK, WriteFails, RequestShutdown, Crash

\* An iteration that does not turn the watermark back, and opens no window that
\* was passed, keeps the invariant.
LEMMA IterationKeepsLife ==
    ASSUME LifeInv, CommitInv', WatermarkIsRead', pc = "poll",
           UNCHANGED <<log, committed, table>>,
           NEW ws, TakeClosed(ws, watermark'),
           \A s \in DOMAIN ws : s \in DOMAIN windows \/ ~Closed(s, watermark),
           watermark # NoTime => watermark' # NoTime /\ watermark <= watermark'
    PROVE  LifeInv'
<1>1. /\ DOMAIN windows' \subseteq DOMAIN ws /\ DOMAIN closing' \subseteq DOMAIN ws
      /\ \A s \in DOMAIN closing' : Closed(s, watermark') /\ s \notin DOMAIN windows'
      /\ pc' \in {"poll", "finalize"}
  BY DEF TakeClosed
<1>2. ASSUME NEW s \in Starts, Closed(s, watermark)
      PROVE  Closed(s, watermark')
  <2>1. watermark # NoTime /\ watermark \in Int /\ watermark' \in Int
    BY <1>2 DEF Closed, LifeInv, CommitInv, TypeOK, Time, NoTime
  <2>2. s \in Int
    BY StartsAreInt
  <2>3. QED
    BY <1>2, <2>1, <2>2, SizeAssumption, GraceAssumption DEF Closed
<1>3. ASSUME NEW c \in Starts \X Keys, table[c].is_final
      PROVE  /\ Closed(c[1], watermark')
             /\ c[1] \notin DOMAIN windows' /\ c[1] \notin DOMAIN closing'
  <2>1. Closed(c[1], watermark) /\ c[1] \notin DOMAIN windows /\ c[1] \in Starts
    BY <1>3 DEF LifeInv
  <2>2. c[1] \notin DOMAIN ws
    BY <2>1
  <2>3. QED
    BY <1>1, <1>2, <2>1, <2>2
<1>4. \A s \in DOMAIN closing' : Closed(s, watermark)' /\ s \notin DOMAIN windows'
  BY <1>1 DEF Closed
<1>5. \A c \in Starts \X Keys : table'[c].is_final => Closed(c[1], watermark)'
  BY <1>3 DEF Closed
<1>6. QED
  BY <1>1, <1>3, <1>4, <1>5 DEF LifeInv

\* Every step keeps the invariant.
LEMMA NextLife ==
    ASSUME OneLife
    PROVE  LifeInv /\ [Next]_vars => LifeInv'
<1> SUFFICES ASSUME LifeInv, [Next]_vars
             PROVE  LifeInv'
  OBVIOUS
<1>1. /\ CommitInv' /\ WatermarkIsRead'
      /\ TypeOK /\ ~WriteFails /\ ~RequestShutdown /\ ~Crash
  BY NextCommitInv, NextWatermark, NoStops DEF LifeInv, CommitInv
<1>2. watermark # NoTime => watermark \in Int /\ watermark <= watermark
  BY <1>1 DEF TypeOK, Time
<1>3. ASSUME NEW p \in Partitions, Produce(p)
      PROVE  LifeInv'
  BY <1>1, <1>3 DEF Produce, store, LifeInv, Closed
<1>4. ASSUME NEW p \in Partitions, PollTrip(p)
      PROVE  LifeInv'
  <2> DEFINE e == Fetched(p)
             s == WindowStart(e.time)
             w == IF s \in DOMAIN windows THEN windows[s] ELSE NewWindow
             added == WindowAdd(w, e, p, position[p])
             ws == [x \in DOMAIN windows \cup {s} |->
                        IF x = s THEN added ELSE windows[x]]
  <2>1. /\ CanPoll(p) /\ Consume(p) /\ Accepts(s) /\ TakeClosed(ws, watermark')
        /\ watermark' = IF watermark = NoTime \/ e.time > watermark
                        THEN e.time ELSE watermark
        /\ e # Poison
    BY <1>4 DEF PollTrip
  <2>2. \A x \in DOMAIN ws : x \in DOMAIN windows \/ ~Closed(x, watermark)
    BY <2>1 DEF Accepts
  <2>3. e.time \in Time
    BY <1>1, <2>1, FetchedType DEF Message, Event
  <2>4. watermark # NoTime => watermark' # NoTime /\ watermark <= watermark'
    BY <1>2, <2>1, <2>3, BoundsAssumption DEF Time, NoTime
  <2>5. UNCHANGED <<log, committed, table>> /\ pc = "poll"
    BY <2>1 DEF Consume, CanPoll, durable
  <2> HIDE DEF ws
  <2>6. QED
    BY <1>1, <2>1, <2>2, <2>4, <2>5, IterationKeepsLife
<1>5. CASE PollNothing \/ \E p \in Partitions : PollLate(p) \/ PollPoison(p)
  <2>1. /\ UNCHANGED <<log, committed, table, watermark>> /\ pc = "poll"
        /\ TakeClosed(windows, watermark)
    BY <1>5 DEF PollNothing, PollLate, PollPoison, Consume, CanPoll, durable
  <2>2. QED
    BY <1>1, <1>2, <2>1, IterationKeepsLife
<1>6. CASE WriteClosed
  <2>1. /\ UNCHANGED <<log, windows, watermark>> /\ DOMAIN closing' = {}
        /\ pc' = "commit"
        /\ Upsert(closing, TRUE)
    BY <1>6 DEF WriteClosed, store, NoWindows
  <2>2. ASSUME NEW c \in Starts \X Keys, table'[c].is_final
        PROVE  Closed(c[1], watermark) /\ c[1] \notin DOMAIN windows
    <3>1. c[1] \in DOMAIN closing \/ table[c].is_final
      BY <2>1, <2>2 DEF Upsert
    <3>2. QED
      BY <3>1 DEF LifeInv
  <2>3. QED
    BY <1>1, <2>1, <2>2 DEF LifeInv, Closed
<1>7. CASE Flush
  <2>1. /\ UNCHANGED <<log, windows, watermark, closing, pc>> /\ pc = "poll"
        /\ Upsert(windows, FALSE)
    BY <1>7 DEF Flush, store
  <2>2. \A c \in Starts \X Keys : table'[c].is_final => table[c].is_final
    BY <2>1 DEF Upsert
  <2>3. QED
    BY <1>1, <2>1, <2>2 DEF LifeInv, Closed
<1>8. CASE Commit
  BY <1>1, <1>8 DEF Commit, store, LifeInv, Closed
<1>9. CASE Start
  BY <1>1, <1>9 DEF Start, store, durable, LifeInv, Closed
<1>10. CASE UNCHANGED vars
  BY <1>1, <1>10 DEF vars, LifeInv, Closed
<1>11. ~StopWrite /\ ~StopWriteFails /\ ~StopCommit /\ ~WriteClosedFails /\ ~FlushFails
  BY <1>1 DEF LifeInv, StopWrite, StopWriteFails, StopCommit, WriteClosedFails, FlushFails
<1>12. QED
  BY <1>1, <1>3, <1>4, <1>5, <1>6, <1>7, <1>8, <1>9, <1>10, <1>11 DEF Next, Poll

\* The invariant holds initially.
LEMMA InitLife == Init => LifeInv
<1>1. SUFFICES ASSUME Init PROVE LifeInv
  OBVIOUS
<1>2. DOMAIN NoWindows = {}
  BY DEF NoWindows
<1>3. QED
  BY <1>1, <1>2, InitCommitInv DEF Init, LifeInv, WatermarkIsRead, NoRow

\* In one life of the process a row marked final is not written again, whatever
\* the arrival order and the number of partitions.
THEOREM FinalRowsAreFinal ==
    ASSUME OneLife
    PROVE  Spec => FinalRowsNeverChange
<1> DEFINE Kept == \A c \in Starts \X Keys : table[c].is_final => table'[c] = table[c]
<1>1. LifeInv /\ [Next]_vars => [Kept]_vars
  <2> SUFFICES ASSUME LifeInv, Next
               PROVE  Kept
    OBVIOUS
  <2>1. CASE WriteClosed \/ Flush
    BY <2>1 DEF WriteClosed, Flush, Upsert, LifeInv
  <2>2. ~StopWrite
    BY DEF LifeInv, StopWrite
  <2>3. table' = table \/ WriteClosed \/ Flush \/ StopWrite
    BY DEF Next, Poll, Produce, PollTrip, PollLate, PollPoison, PollNothing,
           Consume, WriteClosedFails, FlushFails, WriteFails, Commit,
           RequestShutdown, StopWriteFails, StopCommit, Crash, Start, durable
  <2>4. QED
    BY <2>1, <2>2, <2>3
<1>2. LifeInv /\ [Next]_vars => LifeInv'
  BY NextLife
<1>3. QED
  BY <1>1, <1>2, InitLife, PTL DEF Spec, FinalRowsNeverChange

-----------------------------------------------------------------------------
(***************************************************************************)
(* Every trip read is in just one place                                    *)
(***************************************************************************)
ReadTrips == {m \in Trips : m[2] < position[m[1]]}
InMap(ws) == {m \in ReadTrips : InWindow(ws, m)}
InFinal == {m \in ReadTrips : InFinalRow(m)}

\* The windows of ws hold only trips that were read, each in its own window.
Own(ws) ==
    \A s \in DOMAIN ws : \A m \in MsgId :
        ws[s].zones[None][m] > 0 => m \in ReadTrips /\ WindowStart(Trip(m).time) = s

OwnRows ==
    \A s \in Starts : \A m \in MsgId :
        table[<<s, None>>].is_final /\ table[<<s, None>>].agg[m] > 0 =>
            m \in ReadTrips /\ WindowStart(Trip(m).time) = s

Balance ==
    Cardinality(ReadTrips) = Cardinality(InMap(windows)) + Cardinality(InMap(closing))
                                + Cardinality(InFinal) + late_events

\* The balance is not inductive: that the places are disjoint follows from each
\* trip being in its own window only, and from a window being open, evicted or
\* final, of which LifeInv says that it is one at most.
AccountInv ==
    /\ LifeInv
    /\ Own(windows) /\ Own(closing) /\ OwnRows
    /\ Balance

\* There are finitely many trips, so that they can be counted.
LEMMA TripsAreFinite ==
    ASSUME IsFiniteSet(Partitions), NEW R \in SUBSET MsgId
    PROVE  IsFiniteSet(R) /\ Cardinality(R) \in Nat
<1>1. IsFiniteSet(Offset)
  BY BoundsAssumption, FS_Interval DEF Offset
<1>2. IsFiniteSet(MsgId)
  BY <1>1, FS_Product DEF MsgId
<1>3. IsFiniteSet(R)
  BY <1>2, FS_Subset
<1>4. QED
  BY <1>3, FS_CardinalityType

\* A set in two disjoint parts has as many members as both.
LEMMA PartsAddUp ==
    ASSUME NEW A, NEW B, NEW C, IsFiniteSet(B), IsFiniteSet(C),
           A = B \cup C, B \cap C = {}
    PROVE  Cardinality(A) = Cardinality(B) + Cardinality(C)
<1>1. Cardinality(A) = Cardinality(B) + Cardinality(C) - Cardinality({})
  BY FS_Union
<1>2. Cardinality({}) = 0 /\ Cardinality(B) \in Nat /\ Cardinality(C) \in Nat
  BY FS_EmptySet, FS_CardinalityType
<1>3. QED
  BY <1>1, <1>2

\* Adding a trip to a window puts it, and no other, in the city's cell.
LEMMA WindowAddInCity ==
    ASSUME NEW w \in Window, NEW e \in Event, NEW p \in Partitions,
           NEW o \in Offset, NEW m \in MsgId
    PROVE  WindowAdd(w, e, p, o).zones[None][m] > 0
                <=> m = <<p, o>> \/ w.zones[None][m] > 0
<1>1. /\ w.zones \in [Keys -> [MsgId -> Nat]] /\ e.zone \in Keys /\ None \in Keys
      /\ <<p, o>> \in MsgId
  BY DEF Window, Aggregate, Event, Keys, MsgId
<1> DEFINE z == AggregateAdd(w.zones, e.zone, <<p, o>>)
<1>2. /\ z \in [Keys -> [MsgId -> Nat]]
      /\ z[None][m] = IF None = e.zone /\ m = <<p, o>>
                      THEN w.zones[None][m] + 1 ELSE w.zones[None][m]
  BY <1>1 DEF AggregateAdd
<1> HIDE DEF z
<1>3. AggregateAdd(z, None, <<p, o>>)[None][m] =
        IF m = <<p, o>> THEN z[None][m] + 1 ELSE z[None][m]
  BY <1>1, <1>2 DEF AggregateAdd
<1>4. WindowAdd(w, e, p, o).zones = AggregateAdd(z, None, <<p, o>>)
  BY DEF WindowAdd, z
<1>5. w.zones[None][m] \in Nat
  BY <1>1
<1>6. QED
  BY <1>2, <1>3, <1>4, <1>5

\* What a poll adds to the trips read: the trip fetched, if it is one.
LEMMA PollReads ==
    ASSUME TypeOK, NEW p \in Partitions, CanPoll(p), Consume(p)
    PROVE  /\ ReadTrips' = IF Fetched(p) # Poison
                           THEN ReadTrips \cup {<<p, position[p]>>} ELSE ReadTrips
           /\ <<p, position[p]>> \in MsgId /\ <<p, position[p]>> \notin ReadTrips
           /\ Trip(<<p, position[p]>>) = Fetched(p)
<1> DEFINE m0 == <<p, position[p]>>
<1>1. /\ position[p] \in Offset /\ position[p] < Len(log[p]) /\ position[p] \in Nat
  BY FetchedType DEF CanPoll, TypeOK
<1>2. m0 \in MsgId /\ m0[1] = p /\ m0[2] = position[p]
  BY <1>1 DEF MsgId
<1>3. m0 \in Trips <=> Fetched(p) # Poison
  BY <1>1, <1>2 DEF Trips, Fetched
<1>4. Trips' = Trips
  BY DEF Trips, Consume, durable
<1>5. ASSUME NEW m \in Trips
      PROVE  m[2] < position'[m[1]] <=> m[2] < position[m[1]] \/ m = m0
  <2>1. /\ m[1] \in Partitions /\ m[2] \in Nat /\ m = <<m[1], m[2]>>
    BY BoundsAssumption DEF Trips, MsgId, Offset
  <2>2. position'[m[1]] = IF m[1] = p THEN position[p] + 1 ELSE position[m[1]]
    BY <2>1 DEF Consume, TypeOK
  <2>3. m = m0 <=> m[1] = p /\ m[2] = position[p]
    BY <1>2, <2>1
  <2>4. QED
    BY <1>1, <2>1, <2>2, <2>3
<1>6. ~(m0[2] < position[m0[1]])
  BY <1>1, <1>2
<1>7. QED
  BY <1>2, <1>3, <1>4, <1>5, <1>6 DEF ReadTrips, Trip, Fetched

\* An iteration keeps the balance when the windows before the eviction do.
LEMMA IterationBalances ==
    ASSUME IsFiniteSet(Partitions), AccountInv, UNCHANGED <<log, table>>,
           NEW ws, NEW wm, TakeClosed(ws, wm),
           ReadTrips \subseteq ReadTrips',
           \A s \in DOMAIN ws : \A m \in MsgId :
                ws[s].zones[None][m] > 0
                    => m \in ReadTrips' /\ WindowStart(Trip(m).time) = s,
           Cardinality(ReadTrips') = Cardinality({m \in ReadTrips' : InWindow(ws, m)})
                                        + Cardinality(InFinal) + late_events'
    PROVE  Own(windows)' /\ Own(closing)' /\ OwnRows' /\ Balance'
<1> DEFINE A == {m \in ReadTrips' : InWindow(ws, m)}
           B == {m \in ReadTrips' : InWindow(windows', m)}
           C == {m \in ReadTrips' : InWindow(closing', m)}
<1>1. \A m : Trip(m)' = Trip(m)
  BY DEF Trip
<1>2. /\ DOMAIN ws = DOMAIN windows' \cup DOMAIN closing'
      /\ DOMAIN windows' \cap DOMAIN closing' = {}
      /\ \A s \in DOMAIN windows' : windows'[s] = ws[s]
      /\ \A s \in DOMAIN closing' : closing'[s] = ws[s]
  BY DEF TakeClosed
<1>3. Own(windows)' /\ Own(closing)'
  BY <1>1, <1>2 DEF Own
<1>4. OwnRows'
  BY <1>1 DEF AccountInv, OwnRows
<1>5. ReadTrips' \subseteq MsgId
  BY DEF ReadTrips, Trips
<1>6. A = B \cup C
  BY <1>2 DEF InWindow
<1>7. B \cap C = {}
  BY <1>2, <1>5 DEF InWindow
<1>8. /\ IsFiniteSet(B) /\ IsFiniteSet(C)
      /\ Cardinality(B) \in Nat /\ Cardinality(C) \in Nat
  BY <1>5, TripsAreFinite
<1>9. Cardinality(A) = Cardinality(B) + Cardinality(C)
  BY <1>6, <1>7, <1>8, PartsAddUp
<1>10. B = InMap(windows)' /\ C = InMap(closing)'
  BY DEF InMap, InWindow
<1>11. InFinal' = InFinal
  <2>1. \A m : InFinalRow(m)' <=> InFinalRow(m)
    BY DEF InFinalRow
  <2>2. \A m \in ReadTrips' : InFinalRow(m) => m \in ReadTrips
    BY <1>5 DEF InFinalRow, AccountInv, OwnRows
  <2>3. QED
    BY <2>1, <2>2 DEF InFinal
<1> HIDE DEF A, B, C
<1>12. Cardinality(ReadTrips') = Cardinality(A) + Cardinality(InFinal) + late_events'
  BY DEF A
<1>13. Balance'
  BY <1>9, <1>10, <1>11, <1>12 DEF Balance
<1>14. QED
  BY <1>3, <1>4, <1>13

\* One more member is one more in the count.
LEMMA OneMore ==
    ASSUME IsFiniteSet(Partitions), NEW R \in SUBSET MsgId, NEW m, m \notin R
    PROVE  Cardinality(R \cup {m}) = Cardinality(R) + 1
  BY TripsAreFinite, FS_AddElement

\* A row that was not final and still is not, and one that does not change, keep
\* the trips in final rows what they are.
LEMMA SameFinalRows ==
    ASSUME \A c \in Starts \X Keys :
                \/ table'[c] = table[c]
                \/ ~table[c].is_final /\ ~table'[c].is_final,
           None \in Keys
    PROVE  \A m \in MsgId : InFinalRow(m)' <=> InFinalRow(m)
<1>1. \A s \in Starts :
        \/ table'[<<s, None>>] = table[<<s, None>>]
        \/ ~table[<<s, None>>].is_final /\ ~table'[<<s, None>>].is_final
  OBVIOUS
<1>2. QED
  BY <1>1 DEF InFinalRow

\* The trips of the written windows move to the final rows.
LEMMA WriteMovesTrips ==
    ASSUME LifeInv, Upsert(closing, TRUE)
    PROVE  \A m \in MsgId, s \in Starts :
             table'[<<s, None>>].is_final /\ table'[<<s, None>>].agg[m] > 0
                <=> \/ table[<<s, None>>].is_final /\ table[<<s, None>>].agg[m] > 0
                    \/ s \in DOMAIN closing /\ closing[s].zones[None][m] > 0
<1> SUFFICES ASSUME NEW m \in MsgId, NEW s \in Starts
             PROVE  table'[<<s, None>>].is_final /\ table'[<<s, None>>].agg[m] > 0
                <=> \/ table[<<s, None>>].is_final /\ table[<<s, None>>].agg[m] > 0
                    \/ s \in DOMAIN closing /\ closing[s].zones[None][m] > 0
  OBVIOUS
<1>1. <<s, None>> \in Starts \X Keys
  BY DEF Keys
<1>2. table[<<s, None>>].is_final => s \notin DOMAIN closing
  BY <1>1 DEF LifeInv
<1>3. table'[<<s, None>>] =
        IF s \in DOMAIN closing /\ closing[s].zones[None] # Nothing
        THEN [agg |-> closing[s].zones[None], is_final |-> TRUE]
        ELSE table[<<s, None>>]
  BY <1>1 DEF Upsert
<1>4. ~(Nothing[m] > 0)
  BY DEF Nothing
<1>5. CASE s \in DOMAIN closing /\ closing[s].zones[None] # Nothing
  BY <1>2, <1>3, <1>5
<1>6. CASE ~(s \in DOMAIN closing /\ closing[s].zones[None] # Nothing)
  BY <1>3, <1>4, <1>6
<1>7. QED
  BY <1>5, <1>6

\* A poll of a trip: it is added to its window, or counted late.
LEMMA PollTripBalances ==
    ASSUME IsFiniteSet(Partitions), AccountInv, NEW p \in Partitions, PollTrip(p)
    PROVE  Own(windows)' /\ Own(closing)' /\ OwnRows' /\ Balance'
<1> DEFINE e == Fetched(p)
           s == WindowStart(e.time)
           w == IF s \in DOMAIN windows THEN windows[s] ELSE NewWindow
           added == WindowAdd(w, e, p, position[p])
           ws == [x \in DOMAIN windows \cup {s} |->
                      IF x = s THEN added ELSE windows[x]]
           m0 == <<p, position[p]>>
<1>1. /\ CanPoll(p) /\ Consume(p) /\ TakeClosed(ws, watermark')
      /\ e # Poison /\ late_events' = late_events
      /\ UNCHANGED <<log, table>>
  BY DEF PollTrip, Consume, durable
<1>2. TypeOK /\ pc # "finalize"
  BY <1>1 DEF AccountInv, LifeInv, CommitInv, CanPoll
<1>3. e \in Event /\ position[p] \in Offset
  BY <1>1, <1>2, FetchedType DEF Message
<1>4. /\ ReadTrips' = ReadTrips \cup {m0} /\ m0 \in MsgId /\ m0 \notin ReadTrips
      /\ Trip(m0) = e
  BY <1>1, <1>2, PollReads
<1>5. \A x \in DOMAIN windows : windows[x] \in Window
  BY <1>2 DEF TypeOK, WindowMap
<1>6. w \in Window
  BY <1>5, NewWindowType
<1>7. ASSUME NEW m \in MsgId
      PROVE  ~(NewWindow.zones[None][m] > 0)
  BY DEF NewWindow, Nothing, Keys
<1> HIDE DEF w
<1>8. ASSUME NEW m \in MsgId
      PROVE  added.zones[None][m] > 0 <=> m = m0 \/ w.zones[None][m] > 0
  BY <1>3, <1>6, WindowAddInCity
<1> HIDE DEF added
<1>9. ASSUME NEW m \in MsgId
      PROVE  w.zones[None][m] > 0 <=> s \in DOMAIN windows /\ windows[s].zones[None][m] > 0
  BY <1>7 DEF w
<1> HIDE DEF e
<1>10. ASSUME NEW x \in DOMAIN ws, NEW m \in MsgId
       PROVE  ws[x].zones[None][m] > 0
                <=> \/ x = s /\ m = m0
                    \/ x \in DOMAIN windows /\ windows[x].zones[None][m] > 0
  BY <1>8, <1>9
<1>11. ASSUME NEW x \in DOMAIN ws, NEW m \in MsgId, ws[x].zones[None][m] > 0
       PROVE  m \in ReadTrips' /\ WindowStart(Trip(m).time) = x
  BY <1>4, <1>10, <1>11 DEF AccountInv, Own
<1>12. \A m \in MsgId : InWindow(ws, m) <=> m = m0 \/ InWindow(windows, m)
  BY <1>10 DEF InWindow
<1>13. s \in DOMAIN ws
  OBVIOUS
<1> HIDE DEF ws, s, m0
<1>14. ReadTrips \subseteq MsgId
  BY DEF ReadTrips, Trips
<1> DEFINE A == {m \in ReadTrips' : InWindow(ws, m)}
<1>15. A = InMap(windows) \cup {m0}
  BY <1>4, <1>12, <1>14 DEF InMap
<1>16. m0 \notin InMap(windows) /\ InMap(windows) \in SUBSET MsgId
  BY <1>4, <1>14 DEF InMap
<1>17. Cardinality(InMap(closing)) = 0
  <2>1. InMap(closing) = {}
    BY <1>2 DEF AccountInv, LifeInv, CommitInv, InMap, InWindow
  <2>2. QED
    BY <2>1, FS_EmptySet
<1>18. /\ Cardinality(ReadTrips') = Cardinality(ReadTrips) + 1
       /\ Cardinality(InMap(windows) \cup {m0}) = Cardinality(InMap(windows)) + 1
  BY <1>4, <1>14, <1>16, OneMore
<1>19. /\ InFinal \in SUBSET MsgId
       /\ Cardinality(InMap(windows)) \in Nat /\ Cardinality(InFinal) \in Nat
       /\ Cardinality(ReadTrips) \in Nat /\ late_events \in Nat
  BY <1>2, <1>14, <1>16, TripsAreFinite DEF InFinal, TypeOK
<1> HIDE DEF A
<1>20. Cardinality(ReadTrips') = Cardinality(A) + Cardinality(InFinal) + late_events'
  BY <1>1, <1>15, <1>17, <1>18, <1>19 DEF AccountInv, Balance
<1>21. ReadTrips \subseteq ReadTrips'
  BY <1>4
<1>22. QED
  BY <1>1, <1>11, <1>20, <1>21, IterationBalances DEF A

\* A poll that adds no trip: the message is late, or poison, or there is none.
LEMMA OtherPollsBalance ==
    ASSUME IsFiniteSet(Partitions), AccountInv,
           PollNothing \/ \E p \in Partitions : PollLate(p) \/ PollPoison(p)
    PROVE  Own(windows)' /\ Own(closing)' /\ OwnRows' /\ Balance'
<1>1. /\ UNCHANGED <<log, table>> /\ TakeClosed(windows, watermark) /\ pc = "poll"
  BY DEF PollNothing, PollLate, PollPoison, Consume, CanPoll, durable
<1>2. TypeOK /\ pc # "finalize"
  BY <1>1 DEF AccountInv, LifeInv, CommitInv
<1>3. ReadTrips \subseteq MsgId
  BY DEF ReadTrips, Trips
<1>4. \/ ReadTrips' = ReadTrips /\ late_events' = late_events
      \/ \E m \in MsgId \ ReadTrips :
            ReadTrips' = ReadTrips \cup {m} /\ late_events' = late_events + 1
  <2>1. CASE PollNothing
    BY <2>1 DEF PollNothing, ReadTrips, Trips, durable
  <2>2. ASSUME NEW p \in Partitions, PollLate(p)
        PROVE  \E m \in MsgId \ ReadTrips :
                 ReadTrips' = ReadTrips \cup {m} /\ late_events' = late_events + 1
    BY <1>2, <2>2, PollReads DEF PollLate
  <2>3. ASSUME NEW p \in Partitions, PollPoison(p)
        PROVE  ReadTrips' = ReadTrips /\ late_events' = late_events
    BY <1>2, <2>3, PollReads DEF PollPoison
  <2>4. QED
    BY <2>1, <2>2, <2>3
<1> DEFINE A == {m \in ReadTrips' : InWindow(windows, m)}
<1>5. A = InMap(windows)
  BY <1>3, <1>4 DEF AccountInv, Own, InMap, InWindow
<1> HIDE DEF A
<1>6. Cardinality(InMap(closing)) = 0
  <2>1. InMap(closing) = {}
    BY <1>2 DEF AccountInv, LifeInv, CommitInv, InMap, InWindow
  <2>2. QED
    BY <2>1, FS_EmptySet
<1>7. /\ InFinal \in SUBSET MsgId /\ InMap(windows) \in SUBSET MsgId
  BY <1>3 DEF InFinal, InMap
<1>8. /\ Cardinality(InMap(windows)) \in Nat /\ Cardinality(InFinal) \in Nat
      /\ Cardinality(ReadTrips) \in Nat /\ late_events \in Nat
  BY <1>2, <1>3, <1>7, TripsAreFinite DEF TypeOK
<1>9. \/ Cardinality(ReadTrips') = Cardinality(ReadTrips) /\ late_events' = late_events
      \/ /\ Cardinality(ReadTrips') = Cardinality(ReadTrips) + 1
         /\ late_events' = late_events + 1
  BY <1>3, <1>4, OneMore
<1>10. Cardinality(ReadTrips') = Cardinality(A) + Cardinality(InFinal) + late_events'
  BY <1>5, <1>6, <1>8, <1>9 DEF AccountInv, Balance
<1>11. \A s \in DOMAIN windows : \A m \in MsgId :
         windows[s].zones[None][m] > 0
            => m \in ReadTrips' /\ WindowStart(Trip(m).time) = s
  BY <1>4 DEF AccountInv, Own
<1>12. ReadTrips \subseteq ReadTrips'
  BY <1>4
<1>13. QED
  BY <1>1, <1>10, <1>11, <1>12, IterationBalances DEF A

\* Writing the evicted windows: their trips are in final rows from now on.
LEMMA WriteBalances ==
    ASSUME IsFiniteSet(Partitions), AccountInv, WriteClosed
    PROVE  Own(windows)' /\ Own(closing)' /\ OwnRows' /\ Balance'
<1>1. /\ UNCHANGED <<log, position, windows, late_events>> /\ DOMAIN closing' = {}
      /\ Upsert(closing, TRUE)
  BY DEF WriteClosed, store, NoWindows
<1>2. LifeInv /\ TypeOK
  BY DEF AccountInv, LifeInv, CommitInv
<1>3. /\ Trips' = Trips /\ ReadTrips' = ReadTrips /\ ReadTrips \subseteq MsgId
      /\ \A m : Trip(m)' = Trip(m)
  BY <1>1 DEF ReadTrips, Trips, Trip
<1>4. Own(windows)' /\ Own(closing)'
  BY <1>1, <1>3 DEF AccountInv, Own
<1>5. \A m \in MsgId, s \in Starts :
        table'[<<s, None>>].is_final /\ table'[<<s, None>>].agg[m] > 0
            <=> \/ table[<<s, None>>].is_final /\ table[<<s, None>>].agg[m] > 0
                \/ s \in DOMAIN closing /\ closing[s].zones[None][m] > 0
  BY <1>1, <1>2, WriteMovesTrips
<1>6. OwnRows'
  BY <1>3, <1>5 DEF AccountInv, OwnRows, Own
<1>7. DOMAIN closing \subseteq Starts
  BY <1>2 DEF TypeOK, WindowMap
<1>8. \A m \in MsgId : InFinalRow(m)' <=> InFinalRow(m) \/ InWindow(closing, m)
  BY <1>5, <1>7 DEF InFinalRow, InWindow
<1>9. InFinal' = InFinal \cup InMap(closing)
  BY <1>3, <1>8 DEF InFinal, InMap
<1>10. InFinal \cap InMap(closing) = {}
  <2> SUFFICES ASSUME NEW m \in ReadTrips, InFinalRow(m), InWindow(closing, m)
               PROVE  FALSE
    BY DEF InFinal, InMap
  <2>1. PICK s \in Starts : table[<<s, None>>].is_final /\ table[<<s, None>>].agg[m] > 0
    BY DEF InFinalRow
  <2>2. PICK x \in DOMAIN closing : closing[x].zones[None][m] > 0
    BY DEF InWindow
  <2>3. s = x
    BY <1>3, <2>1, <2>2 DEF AccountInv, Own, OwnRows
  <2>4. <<s, None>> \in Starts \X Keys
    BY DEF Keys
  <2>5. QED
    BY <1>2, <2>1, <2>3, <2>4 DEF LifeInv
<1>11. InMap(windows)' = InMap(windows) /\ InMap(closing)' = {}
  BY <1>1, <1>3 DEF InMap, InWindow
<1>12. Cardinality(InMap(closing)') = 0
  BY <1>11, FS_EmptySet
<1>13. /\ InFinal \in SUBSET MsgId /\ InMap(windows) \in SUBSET MsgId
       /\ InMap(closing) \in SUBSET MsgId
  BY <1>3 DEF InFinal, InMap
<1>14. /\ IsFiniteSet(InFinal) /\ IsFiniteSet(InMap(closing))
       /\ Cardinality(InFinal) \in Nat /\ Cardinality(InMap(closing)) \in Nat
       /\ Cardinality(InMap(windows)) \in Nat /\ late_events \in Nat
  BY <1>2, <1>13, TripsAreFinite DEF TypeOK
<1>15. Cardinality(InFinal') = Cardinality(InFinal) + Cardinality(InMap(closing))
  BY <1>9, <1>10, <1>14, PartsAddUp
<1>16. Balance'
  BY <1>1, <1>3, <1>11, <1>12, <1>14, <1>15 DEF AccountInv, Balance
<1>17. QED
  BY <1>4, <1>6, <1>16

\* A step that moves no trip keeps the account.
LEMMA NothingMoves ==
    ASSUME AccountInv, ReadTrips' = ReadTrips, late_events' = late_events,
           UNCHANGED <<windows, closing>>,
           \A m \in ReadTrips : Trip(m)' = Trip(m),
           \A c \in Starts \X Keys :
                \/ table'[c] = table[c]
                \/ ~table[c].is_final /\ ~table'[c].is_final
    PROVE  Own(windows)' /\ Own(closing)' /\ OwnRows' /\ Balance'
<1>1. Own(windows)' /\ Own(closing)'
  BY DEF AccountInv, Own
<1>2. \A s \in Starts :
        \/ table'[<<s, None>>] = table[<<s, None>>]
        \/ ~table[<<s, None>>].is_final /\ ~table'[<<s, None>>].is_final
  BY DEF Keys
<1>3. OwnRows'
  BY <1>2 DEF AccountInv, OwnRows
<1>4. /\ InMap(windows)' = InMap(windows) /\ InMap(closing)' = InMap(closing)
  BY DEF InMap, InWindow
<1>5. InFinal' = InFinal
  <2>1. ReadTrips \subseteq MsgId
    BY DEF ReadTrips, Trips
  <2>2. QED
    BY <2>1, SameFinalRows DEF InFinal, Keys
<1>6. Balance'
  BY <1>4, <1>5 DEF AccountInv, Balance
<1>7. QED
  BY <1>1, <1>3, <1>6

\* Every step keeps the account.
LEMMA NextAccount ==
    ASSUME OneLife, IsFiniteSet(Partitions)
    PROVE  AccountInv /\ [Next]_vars => AccountInv'
<1> SUFFICES ASSUME AccountInv, [Next]_vars
             PROVE  Own(windows)' /\ Own(closing)' /\ OwnRows' /\ Balance'
  BY NextLife DEF AccountInv
<1>1. LifeInv /\ CommitInv /\ TypeOK
  BY DEF AccountInv, LifeInv, CommitInv
<1>2. ~WriteFails /\ ~RequestShutdown /\ ~Crash
  BY <1>1, NoStops
<1>3. ASSUME NEW p \in Partitions, Produce(p)
      PROVE  Own(windows)' /\ Own(closing)' /\ OwnRows' /\ Balance'
  <2>1. UNCHANGED <<table, position, windows, closing, late_events>>
    BY <1>3 DEF Produce, store
  <2>2. ASSUME NEW m \in MsgId, m[2] < position[m[1]]
        PROVE  (m \in Trips' <=> m \in Trips) /\ Trip(m)' = Trip(m)
    <3>1. m[1] \in Partitions /\ m[2] \in Nat
      BY BoundsAssumption DEF MsgId, Offset
    <3>2. /\ Len(log[m[1]]) \in Nat /\ Len(log'[m[1]]) \in Nat
          /\ Len(log[m[1]]) <= Len(log'[m[1]])
          /\ \A i \in 1 .. Len(log[m[1]]) : log'[m[1]][i] = log[m[1]][i]
      BY <1>1, <3>1, LogGrows
    <3>3. position[m[1]] \in Nat /\ position[m[1]] <= Len(log[m[1]])
      BY <1>1, <3>1 DEF CommitInv, TypeOK
    <3>4. m[2] < Len(log[m[1]]) /\ m[2] < Len(log'[m[1]])
          /\ log'[m[1]][m[2] + 1] = log[m[1]][m[2] + 1]
      BY <2>2, <3>1, <3>2, <3>3
    <3>5. QED
      BY <2>2, <3>4 DEF Trips, Trip
  <2>3. ReadTrips' = ReadTrips
    BY <2>1, <2>2 DEF ReadTrips, Trips
  <2>4. \A m \in ReadTrips : Trip(m)' = Trip(m)
    BY <2>2 DEF ReadTrips, Trips
  <2>5. QED
    BY <2>1, <2>3, <2>4, NothingMoves
<1>4. ASSUME NEW p \in Partitions, PollTrip(p)
      PROVE  Own(windows)' /\ Own(closing)' /\ OwnRows' /\ Balance'
  BY <1>4, PollTripBalances
<1>5. CASE PollNothing \/ \E p \in Partitions : PollLate(p) \/ PollPoison(p)
  BY <1>5, OtherPollsBalance
<1>6. CASE WriteClosed
  BY <1>6, WriteBalances
<1>7. CASE Flush
  <2>1. UNCHANGED <<log, position, windows, closing, late_events>>
        /\ Upsert(windows, FALSE)
    BY <1>7 DEF Flush, store
  <2>2. \A c \in Starts \X Keys :
            \/ table'[c] = table[c]
            \/ ~table[c].is_final /\ ~table'[c].is_final
    <3> SUFFICES ASSUME NEW c \in Starts \X Keys
                 PROVE  \/ table'[c] = table[c]
                        \/ ~table[c].is_final /\ ~table'[c].is_final
      OBVIOUS
    <3>1. c[1] \in DOMAIN windows => ~table[c].is_final
      BY <1>1 DEF LifeInv
    <3>2. table'[c] = IF c[1] \in DOMAIN windows /\ windows[c[1]].zones[c[2]] # Nothing
                      THEN [agg |-> windows[c[1]].zones[c[2]], is_final |-> FALSE]
                      ELSE table[c]
      BY <2>1 DEF Upsert
    <3>3. QED
      BY <3>1, <3>2
  <2>3. ReadTrips' = ReadTrips /\ \A m \in ReadTrips : Trip(m)' = Trip(m)
    BY <2>1 DEF ReadTrips, Trips, Trip
  <2>4. QED
    BY <2>1, <2>2, <2>3, NothingMoves
<1>8. CASE Commit \/ UNCHANGED vars
  <2>1. UNCHANGED <<log, table, position, windows, closing, late_events>>
    BY <1>8 DEF Commit, store, vars
  <2>2. ReadTrips' = ReadTrips /\ \A m \in ReadTrips : Trip(m)' = Trip(m)
    BY <2>1 DEF ReadTrips, Trips, Trip
  <2>3. QED
    BY <2>1, <2>2, NothingMoves
<1>9. CASE Start
  <2>1. UNCHANGED <<log, table, windows, closing, late_events>>
        /\ position' = committed /\ pc = "down"
    BY <1>9 DEF Start, store, durable
  <2>2. \A p \in Partitions : position[p] = 0 /\ position'[p] = 0
    BY <1>1, <2>1 DEF LifeInv
  <2>3. ReadTrips' = ReadTrips /\ \A m \in ReadTrips : Trip(m)' = Trip(m)
    BY <2>1, <2>2 DEF ReadTrips, Trips, Trip, MsgId
  <2>4. QED
    BY <2>1, <2>3, NothingMoves
<1>10. ~StopWrite /\ ~StopWriteFails /\ ~StopCommit /\ ~WriteClosedFails /\ ~FlushFails
  BY <1>1, <1>2 DEF LifeInv, StopWrite, StopWriteFails, StopCommit,
                    WriteClosedFails, FlushFails
<1>11. QED
  BY <1>2, <1>3, <1>4, <1>5, <1>6, <1>7, <1>8, <1>9, <1>10 DEF Next, Poll

\* Nothing has been read yet.
LEMMA InitAccount == Init => AccountInv
<1> SUFFICES ASSUME Init PROVE AccountInv
  OBVIOUS
<1>1. LifeInv
  BY InitLife
<1>2. DOMAIN windows = {} /\ DOMAIN closing = {} /\ late_events = 0
  BY DEF Init, NoWindows
<1>3. ReadTrips = {}
  BY BoundsAssumption DEF Init, ReadTrips, Trips, MsgId, Offset
<1>4. InMap(windows) = {} /\ InMap(closing) = {} /\ InFinal = {}
  BY <1>3 DEF InMap, InFinal
<1>5. Cardinality({}) = 0
  BY FS_EmptySet
<1>6. Balance
  BY <1>2, <1>3, <1>4, <1>5 DEF Balance
<1>7. OwnRows
  BY DEF Init, OwnRows, NoRow, Keys
<1>8. QED
  BY <1>1, <1>2, <1>6, <1>7 DEF AccountInv, Own

\* In one life of the process every trip read is in an open window, in an evicted
\* one, in a final row or in the late counter, and in just one of them, whatever
\* the arrival order and however many partitions there are.
THEOREM EveryTripIsAccountedFor ==
    ASSUME OneLife, IsFiniteSet(Partitions)
    PROVE  Spec => []EveryTripAccountedFor
<1>1. AccountInv => EveryTripAccountedFor
  BY DEF AccountInv, Balance, EveryTripAccountedFor, ReadTrips, InMap, InFinal
<1>2. AccountInv /\ [Next]_vars => AccountInv'
  BY NextAccount
<1>3. QED
  BY <1>1, <1>2, InitAccount, PTL DEF Spec
=============================================================================
