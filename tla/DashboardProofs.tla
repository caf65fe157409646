-------------------------- MODULE DashboardProofs --------------------------
(***************************************************************************)
(* Theorems about Dashboard and Alerts, for any trips, any number of days  *)
(* and versions evaluated, and any order of what moves under the page.     *)
(***************************************************************************)
EXTENDS Dashboard, LiveMetricsProofs, FiniteSetTheorems, WellFoundedInduction

-----------------------------------------------------------------------------
(***************************************************************************)
(* Least and greatest numbers                                              *)
(***************************************************************************)
LEMMA MinOfNaturals ==
    ASSUME NEW S \in SUBSET Nat, S # {}
    PROVE  Min(S) \in S /\ \A x \in S : Min(S) <= x
<1>1. PICK x \in S : \A y \in S : <<y, x>> \notin OpToRel(<, Nat)
  BY WFMin, NatLessThanWellFounded, Zenon
<1>2. \A y \in S : ~(y < x)
  BY <1>1, Zenon DEF OpToRel
<1>3. \A y \in S : x <= y
  BY <1>2
<1>4. QED
  BY <1>3 DEF Min

\* The greatest of finitely many numbers: the one with the fewest above it.
LEMMA MaxOfFinite ==
    ASSUME NEW S \in SUBSET Int, IsFiniteSet(S), S # {}
    PROVE  Max(S) \in S /\ \A x \in S : x <= Max(S)
<1> DEFINE Above(x) == {y \in S : y > x}
           sizes == {Cardinality(Above(x)) : x \in S}
<1>1. ASSUME NEW x \in S
      PROVE  Above(x) \in SUBSET S /\ IsFiniteSet(Above(x)) /\ Cardinality(Above(x)) \in Nat
  BY FS_Subset, FS_CardinalityType
<1>2. sizes \in SUBSET Nat /\ sizes # {}
  BY <1>1
<1>3. Min(sizes) \in sizes /\ \A n \in sizes : Min(sizes) <= n
  BY <1>2, MinOfNaturals
<1>4. PICK x \in S : Cardinality(Above(x)) = Min(sizes)
  BY <1>3
<1>5. ASSUME NEW y \in S, y > x PROVE FALSE
  <2>1. Above(y) \in SUBSET Above(x) /\ y \in Above(x) /\ y \notin Above(y)
    <3>1. x \in Int /\ y \in Int /\ \A z \in S : z \in Int
      BY <1>4
    <3>2. \A z \in S : z > y => z > x
      BY <1>5, <3>1
    <3>3. Above(y) \in SUBSET Above(x)
      BY <3>2
    <3>4. y \in Above(x) /\ y \notin Above(y)
      BY <1>5, <3>1
    <3>5. QED
      BY <3>3, <3>4
  <2>2. Above(y) # Above(x)
    BY <2>1
  <2>3. Cardinality(Above(y)) \in sizes
    OBVIOUS
  <2>4. IsFiniteSet(Above(x)) /\ Cardinality(Above(x)) \in Nat /\ Cardinality(Above(y)) \in Nat
    BY <1>1
  <2> HIDE DEF Above, sizes
  <2>5. /\ Cardinality(Above(y)) <= Cardinality(Above(x))
        /\ Cardinality(Above(y)) # Cardinality(Above(x))
    BY <2>1, <2>2, <2>4, FS_Subset
  <2>6. Cardinality(Above(x)) <= Cardinality(Above(y))
    BY <1>3, <1>4, <2>3
  <2>7. QED
    BY <2>4, <2>5, <2>6
<1>6. \A y \in S : y <= x
  BY <1>5
<1>7. QED
  BY <1>6 DEF Max

-----------------------------------------------------------------------------
(***************************************************************************)
(* Medians                                                                 *)
(***************************************************************************)
HaveMaes(rows) == IsFiniteSet(rows) /\ \A r \in rows : r.mae \in Nat

UpTo(rows, m) == {r \in rows : r.mae <= m}
Under(rows, m) == {r \in rows : r.mae < m}

\* Rows of a set with maes, and the greatest mae among them.
LEMMA GreatestMae ==
    ASSUME NEW rows, HaveMaes(rows), rows # {}
    PROVE  \E r \in rows : UpTo(rows, r.mae) = rows
<1> DEFINE maes == {r.mae : r \in rows}
           f == [r \in rows |-> r.mae]
<1>1. f \in Surjection(rows, maes)
  BY DEF Surjection
<1>2. IsFiniteSet(maes)
  BY <1>1, FS_Surjection DEF HaveMaes
<1>3. maes \in SUBSET Int /\ maes # {}
  BY DEF HaveMaes
<1>4. Max(maes) \in maes /\ \A m \in maes : m <= Max(maes)
  BY <1>2, <1>3, MaxOfFinite
<1>5. PICK r \in rows : r.mae = Max(maes)
  BY <1>4
<1>6. \A q \in rows : q.mae <= r.mae
  BY <1>4, <1>5
<1>7. QED
  BY <1>6 DEF UpTo

LEMMA PartsAreFinite ==
    ASSUME NEW rows, HaveMaes(rows), NEW m
    PROVE  /\ HaveMaes(UpTo(rows, m)) /\ HaveMaes(Under(rows, m))
           /\ Cardinality(UpTo(rows, m)) \in Nat /\ Cardinality(Under(rows, m)) \in Nat
           /\ Cardinality(rows) \in Nat
<1>1. UpTo(rows, m) \in SUBSET rows /\ Under(rows, m) \in SUBSET rows
  BY DEF UpTo, Under
<1>2. IsFiniteSet(UpTo(rows, m)) /\ IsFiniteSet(Under(rows, m)) /\ IsFiniteSet(rows)
  BY <1>1, FS_Subset DEF HaveMaes
<1>3. QED
  BY <1>1, <1>2, FS_CardinalityType DEF HaveMaes

\* There is a mae at each place, whatever maes are equal.
LEMMA PlacesHaveMaes ==
    ASSUME NEW rows, HaveMaes(rows), NEW k \in Nat, k < Cardinality(rows)
    PROVE  /\ MaeAt(rows, k) \in Nat
           /\ Cardinality(Under(rows, MaeAt(rows, k))) <= k
           /\ k < Cardinality(UpTo(rows, MaeAt(rows, k)))
<1> DEFINE good == {m \in {r.mae : r \in rows} : k < Cardinality(UpTo(rows, m))}
           least == Min(good)
<1>1. good \in SUBSET Nat
  BY DEF HaveMaes
<1>2. good # {}
  <2>1. rows # {}
    <3>1. SUFFICES ASSUME rows = {} PROVE FALSE
      OBVIOUS
    <3>2. Cardinality(rows) = 0
      BY <3>1, FS_EmptySet
    <3>3. QED
      BY <3>2
  <2>2. PICK r \in rows : UpTo(rows, r.mae) = rows
    BY <2>1, GreatestMae
  <2>3. QED
    BY <2>2
<1>3. least \in good /\ \A m \in good : least <= m
  BY <1>1, <1>2, MinOfNaturals
<1> HIDE DEF least
<1>4. least \in Nat /\ k < Cardinality(UpTo(rows, least))
  BY <1>1, <1>3
<1>5. Cardinality(Under(rows, least)) <= k
  <2> DEFINE low == Under(rows, least)
  <2>1. SUFFICES ASSUME ~(Cardinality(low) <= k) PROVE FALSE
    OBVIOUS
  <2>2. HaveMaes(low) /\ Cardinality(low) \in Nat
    BY PartsAreFinite
  <2>3. k < Cardinality(low)
    BY <2>1, <2>2
  <2>4. low # {}
    <3>1. SUFFICES ASSUME low = {} PROVE FALSE
      OBVIOUS
    <3>2. Cardinality(low) = 0
      BY <3>1, FS_EmptySet
    <3>3. QED
      BY <2>3, <3>2
  <2>5. PICK r \in low : UpTo(low, r.mae) = low
    BY <2>2, <2>4, GreatestMae
  <2>6. r \in rows /\ r.mae \in Nat /\ r.mae < least
    BY <2>5 DEF Under, HaveMaes
  <2>7. UpTo(rows, r.mae) = low
    <3>1. \A q \in low : q.mae <= r.mae
      BY <2>5 DEF UpTo
    <3>2. \A q \in rows : q.mae <= r.mae => q.mae < least
      BY <1>4, <2>6 DEF HaveMaes
    <3>3. QED
      BY <3>1, <3>2 DEF UpTo, Under
  <2>8. r.mae \in good
    BY <2>3, <2>6, <2>7
  <2>9. QED
    BY <1>3, <1>4, <2>6, <2>8
<1>6. \E m \in {r.mae : r \in rows} :
        /\ Cardinality({r \in rows : r.mae < m}) <= k
        /\ k < Cardinality({r \in rows : r.mae <= m})
  BY <1>3, <1>4, <1>5 DEF UpTo, Under
<1>7. /\ MaeAt(rows, k) \in {r.mae : r \in rows}
      /\ Cardinality({r \in rows : r.mae < MaeAt(rows, k)}) <= k
      /\ k < Cardinality({r \in rows : r.mae <= MaeAt(rows, k)})
  BY <1>6 DEF MaeAt
<1>8. QED
  BY <1>7 DEF UpTo, Under, HaveMaes

\* The maes go up with the places.
LEMMA MaesAscend ==
    ASSUME NEW rows, HaveMaes(rows), NEW j \in Nat, NEW k \in Nat,
           j <= k, k < Cardinality(rows)
    PROVE  MaeAt(rows, j) <= MaeAt(rows, k)
<1> DEFINE a == MaeAt(rows, j)
           b == MaeAt(rows, k)
<1>0. Cardinality(rows) \in Nat
  BY PartsAreFinite
<1>1. /\ a \in Nat /\ b \in Nat
      /\ Cardinality(Under(rows, a)) <= j /\ k < Cardinality(UpTo(rows, b))
  BY <1>0, PlacesHaveMaes
<1> HIDE DEF a, b
<1>2. SUFFICES ASSUME b < a PROVE FALSE
  BY <1>1 DEF a, b
<1>3. UpTo(rows, b) \in SUBSET Under(rows, a)
  BY <1>1, <1>2 DEF UpTo, Under, HaveMaes
<1>4. /\ IsFiniteSet(Under(rows, a)) /\ Cardinality(Under(rows, a)) \in Nat
      /\ Cardinality(UpTo(rows, b)) \in Nat
  BY PartsAreFinite DEF HaveMaes
<1>5. Cardinality(UpTo(rows, b)) <= Cardinality(Under(rows, a))
  BY <1>3, <1>4, FS_Subset
<1>6. QED
  BY <1>1, <1>4, <1>5

-----------------------------------------------------------------------------
(***************************************************************************)
(* The model error alert                                                   *)
(***************************************************************************)
OneRowADay(rows) == \A r, q \in rows : r.date = q.date => r = q

AccusedOf(rows) == {r \in rows : \E a \in ModelError(rows) : a.date = r.date}

\* An accused day is at least half as bad again as the median of the others.
LEMMA AccusedAreWorse ==
    ASSUME NEW rows, HaveMaes(rows), OneRowADay(rows), NEW r \in AccusedOf(rows)
    PROVE  /\ r \in rows /\ Others(rows, r) = rows \ {r} /\ Others(rows, r) # {}
           /\ TwiceMedian(Others(rows, r)) > 0
           /\ TwiceMedian(Others(rows, r)) \in Nat =>
                    4 * r.mae >= 3 * TwiceMedian(Others(rows, r))
<1> DEFINE baseline(q) == TwiceMedian(Others(rows, q))
           judged == {q \in rows : Others(rows, q) # {} /\ baseline(q) > 0}
           critical == {q \in judged : q.mae >= baseline(q)}
           serious == {q \in judged : 4 * q.mae >= 3 * baseline(q)} \ critical
<1>1. r \in rows /\ \E a \in ModelError(rows) : a.date = r.date
  BY DEF AccusedOf
<1>2. Others(rows, r) = rows \ {r}
  BY <1>1 DEF Others, OneRowADay
<1>3. PICK q \in critical \cup serious : q.date = r.date
  <2>1. ModelError(rows) \subseteq
            {Alert("critical", "error", q.date) : q \in critical}
              \cup {Alert("serious", "error", q.date) : q \in serious}
    BY DEF ModelError
  <2>2. QED
    BY <1>1, <2>1 DEF Alert
<1>4. q = r
  BY <1>1, <1>3 DEF OneRowADay
<1>5. r \in judged
  BY <1>3, <1>4
<1>6. r.mae >= baseline(r) \/ 4 * r.mae >= 3 * baseline(r)
  BY <1>3, <1>4
<1>7. Others(rows, r) # {} /\ baseline(r) > 0
  BY <1>5
<1>8. r.mae \in Nat
  BY <1>1 DEF HaveMaes
<1> HIDE DEF baseline
<1>9. baseline(r) \in Nat => 4 * r.mae >= 3 * baseline(r)
  BY <1>6, <1>7, <1>8
<1>10. QED
  BY <1>1, <1>2, <1>7, <1>9 DEF baseline

\* So at most half of the days are, an odd one counted in: the days that are no
\* worse than the lower median of the others are not among them.
LEMMA HalfAreNotAccused ==
    ASSUME NEW rows, HaveMaes(rows), OneRowADay(rows)
    PROVE  2 * Cardinality(AccusedOf(rows)) <= Cardinality(rows) + 1
<1> DEFINE n == Cardinality(rows)
           accused == AccusedOf(rows)
<1>1. accused \in SUBSET rows
  BY DEF AccusedOf
<1>2. IsFiniteSet(rows) /\ n \in Nat /\ IsFiniteSet(accused) /\ Cardinality(accused) \in Nat
  BY <1>1, FS_Subset, FS_CardinalityType DEF HaveMaes
<1>3. CASE accused = {}
  <2>1. Cardinality(accused) = 0
    BY <1>3, FS_EmptySet
  <2>2. QED
    BY <1>2, <2>1
<1>4. CASE accused # {}
  <2> DEFINE maes == {q.mae : q \in accused}
  <2>1. maes \in SUBSET Nat /\ maes # {}
    BY <1>1, <1>4 DEF HaveMaes
  <2>2. PICK r \in accused : \A q \in accused : r.mae <= q.mae
    <3>1. Min(maes) \in maes /\ \A m \in maes : Min(maes) <= m
      BY <2>1, MinOfNaturals
    <3>2. QED
      BY <3>1
  <2> DEFINE others == Others(rows, r)
             lower == MaeAt(others, (Cardinality(others) - 1) \div 2)
             upper == MaeAt(others, Cardinality(others) \div 2)
             low == UpTo(others, lower)
  <2>3. /\ r \in rows /\ others = rows \ {r} /\ others # {}
        /\ TwiceMedian(others) > 0
        /\ TwiceMedian(others) \in Nat => 4 * r.mae >= 3 * TwiceMedian(others)
    BY AccusedAreWorse
  <2>4. TwiceMedian(others) = lower + upper
    BY DEF TwiceMedian
  <2>5. IsFiniteSet(others) /\ Cardinality(others) = n - 1
    BY <1>2, <2>3, FS_RemoveElement
  <2>6. HaveMaes(others) /\ r.mae \in Nat
    BY <2>3, <2>5 DEF HaveMaes
  <2> DEFINE j == (Cardinality(others) - 1) \div 2
             k == Cardinality(others) \div 2
  <2>7. Cardinality(others) \in Nat /\ Cardinality(others) # 0
    BY <2>3, <2>5, FS_CardinalityType, FS_EmptySet
  <2>8. /\ j \in Nat /\ k \in Nat /\ j <= k /\ k < Cardinality(others)
        /\ 2 * j + 2 >= Cardinality(others)
    BY <2>7
  <2>9. /\ lower \in Nat /\ upper \in Nat /\ lower <= upper
        /\ j < Cardinality(low)
    BY <2>6, <2>7, <2>8, PlacesHaveMaes, MaesAscend
  <2> HIDE DEF others, lower, upper, j, k, low
  <2>10. lower < r.mae
    <3>1. lower + upper > 0 /\ 4 * r.mae >= 3 * (lower + upper)
      BY <2>3, <2>4, <2>9
    <3>2. QED
      BY <2>6, <2>9, <3>1
  <2>11. low \in SUBSET rows /\ low \cap accused = {}
    <3>1. low \in SUBSET rows
      BY <2>3 DEF low, UpTo
    <3>2. ASSUME NEW q \in low, q \in accused PROVE FALSE
      <4>1. q.mae <= lower /\ r.mae <= q.mae /\ q.mae \in Nat
        BY <1>1, <2>2, <3>2 DEF low, UpTo, HaveMaes
      <4>2. QED
        BY <2>6, <2>9, <2>10, <4>1
    <3>3. QED
      BY <3>1, <3>2
  <2> HIDE DEF accused, n
  <2>12. Cardinality(low) + Cardinality(accused) <= n
    <3>1. IsFiniteSet(low) /\ low \cup accused \in SUBSET rows
      BY <1>1, <1>2, <2>11, FS_Subset
    <3>2. /\ Cardinality(low \cup accused) =
                Cardinality(low) + Cardinality(accused) - Cardinality(low \cap accused)
          /\ Cardinality(low \cap accused) = 0
      BY <1>2, <2>11, <3>1, FS_Union, FS_EmptySet
    <3>3. Cardinality(low \cup accused) <= n
      BY <1>2, <3>1, FS_Subset DEF n
    <3>4. Cardinality(low) \in Nat
      BY <3>1, FS_CardinalityType
    <3>5. QED
      BY <1>2, <3>2, <3>3, <3>4
  <2>13. Cardinality(low) \in Nat
    <3>1. IsFiniteSet(low)
      BY <1>2, <2>11, FS_Subset
    <3>2. QED
      BY <3>1, FS_CardinalityType
  <2>14. 2 * Cardinality(low) >= Cardinality(others)
    BY <2>7, <2>8, <2>9, <2>13
  <2>15. 2 * Cardinality(accused) <= n + 1
    BY <1>2, <2>5, <2>12, <2>13, <2>14
  <2>16. QED
    BY <2>15 DEF accused, n
<1>5. QED
  BY <1>3, <1>4

-----------------------------------------------------------------------------
EvalInv ==
    /\ evaluation \subseteq EvalRows /\ IsFiniteSet(evaluation)
    /\ \A r, q \in evaluation : r.date = q.date /\ r.version = q.version => r = q

LEMMA EvalNext == EvalInv /\ [Next]_dashVars => EvalInv'
<1> SUFFICES ASSUME EvalInv, [Next]_dashVars PROVE EvalInv'
  OBVIOUS
<1>1. CASE UNCHANGED evaluation
  BY <1>1 DEF EvalInv
<1>2. CASE Publish
  <2>1. PICK new \in EvalRows : evaluation' =
            {r \in evaluation : <<r.date, r.version>> # <<new.date, new.version>>}
              \cup {new}
    BY <1>2 DEF Publish
  <2> DEFINE kept == {r \in evaluation : <<r.date, r.version>> # <<new.date, new.version>>}
  <2>2. kept \in SUBSET evaluation /\ IsFiniteSet(kept)
    <3>1. kept \in SUBSET evaluation
      OBVIOUS
    <3>2. QED
      BY <3>1, FS_Subset DEF EvalInv
  <2>3. IsFiniteSet(evaluation')
    BY <2>1, <2>2, FS_AddElement
  <2>4. \A r \in kept : ~(r.date = new.date /\ r.version = new.version)
    OBVIOUS
  <2> HIDE DEF kept
  <2>5. QED
    BY <2>1, <2>2, <2>3, <2>4 DEF EvalInv, kept
<1>3. CASE LogGrows \/ LayersMove
  BY <1>1, <1>3 DEF LogGrows, LayersMove, HotReads, HotShows, HotRestarts, ColdRefreshes,
                   ReconExpires
<1>4. CASE FeedMoves \/ PanelMoves
  BY <1>1, <1>4 DEF FeedMoves, Score, TimePasses, DrawPage, FeedRefreshes, PanelMoves,
                   PanelReads, PanelReadsWindows, PanelReadsZones, WindowsExpire, ZonesExpire
<1>5. CASE UNCHANGED dashVars
  BY <1>1, <1>5 DEF dashVars
<1>6. QED
  BY <1>2, <1>3, <1>4, <1>5 DEF Next

\* As long as one model is evaluated, the alert that a day is unlike the others
\* is raised for no more than half of the days, an odd one counted in, however
\* many days there are and whatever the errors (alerts.py:63-99).
THEOREM TypicalDaysAreSafe == Spec => []TypicalDaysAreNotAccused
<1>1. Init => EvalInv
  BY FS_EmptySet DEF Init, EvalInv
<1>2. EvalInv => TypicalDaysAreNotAccused
  <2>1. SUFFICES ASSUME EvalInv, OneModel
                 PROVE  2 * Cardinality(Accused) <= Cardinality(evaluation) + 1
    BY DEF TypicalDaysAreNotAccused
  <2>2. HaveMaes(evaluation)
    BY <2>1, TablesAssumption DEF EvalInv, HaveMaes
  <2>3. OneRowADay(evaluation)
    BY <2>1 DEF EvalInv, OneModel, OneRowADay
  <2>4. Accused = AccusedOf(evaluation)
    BY DEF Accused, AccusedOf
  <2>5. QED
    BY <2>2, <2>3, <2>4, HalfAreNotAccused
<1>3. QED
  BY <1>1, <1>2, EvalNext, PTL DEF Spec

-----------------------------------------------------------------------------
(***************************************************************************)
(* The hot path's table, as LiveMetrics has it                             *)
(***************************************************************************)
\* The hot panel is a reader.
LEMMA PanelLeavesTables == PanelMoves => UNCHANGED <<log, layerVars, feedVars, evaluation>>
  BY DEF PanelMoves, PanelReads, PanelReadsWindows, PanelReadsZones, WindowsExpire, ZonesExpire

LEMMA HotPartSteps == [Next]_dashVars => [LiveNext]_liveVars
<1> SUFFICES ASSUME [Next]_dashVars PROVE [LiveNext]_liveVars
  OBVIOUS
<1>1. CASE LogGrows
  BY <1>1 DEF LogGrows, LiveNext
<1>2. CASE HotReads \/ (\E starts \in SUBSET Windows : HotShows(starts)) \/ HotRestarts
  BY <1>2 DEF HotReads, HotShows, HotRestarts, LiveNext, Show
<1>3. CASE ColdRefreshes \/ ReconExpires
  BY <1>3 DEF ColdRefreshes, ReconExpires, liveVars
<1>4. CASE FeedMoves
  BY <1>4 DEF FeedMoves, Score, TimePasses, DrawPage, FeedRefreshes, layerVars, liveVars
<1>5. CASE PanelMoves
  BY <1>5, PanelLeavesTables DEF layerVars, liveVars
<1>6. CASE Publish
  BY <1>6 DEF Publish, layerVars, liveVars
<1>7. CASE UNCHANGED dashVars
  BY <1>7 DEF dashVars, layerVars, liveVars
<1>8. QED
  BY <1>1, <1>2, <1>3, <1>4, <1>5, <1>6, <1>7 DEF Next, LayersMove

LEMMA LiveInvInit == LiveInit => LiveInv
<1> SUFFICES ASSUME LiveInit PROVE LiveInv
  OBVIOUS
<1>1. log = <<>> /\ read = 0 /\ table = [c \in Cells |-> NoRow]
  BY DEF LiveInit
<1>2. LogInv /\ InPickupOrder
  BY <1>1 DEF LogInv, InPickupOrder
<1>3. QED
  BY <1>1, <1>2 DEF LiveInv

\* What moves under the page is a reader that LiveMetrics allows.
THEOREM HotPartIsLive == Spec => LiveSpec
<1>1. Init => LiveInit
  BY DEF Init
<1>2. QED
  BY <1>1, HotPartSteps, PTL DEF Spec, LiveSpec

-----------------------------------------------------------------------------
(***************************************************************************)
(* The panels.  A window has a citywide row just when it has one of a zone *)
(* - if every trip has a zone, as the gateway requires of its only source  *)
(* (schemas/tlc.py): else a zoneless trip has a citywide row alone.        *)
(***************************************************************************)
TripsHaveZones == \A e \in Events : e.zone \in ZoneKeys \ {None}

PairInv ==
    \A w \in Windows :
        None \in ZoneKeys =>
            (HasRow(<<w, None>>) <=> \E z \in ZoneKeys \ {None} : HasRow(<<w, z>>))

\* A row that a flush would show counts one of the messages read.
LEMMA ShownRows ==
    ASSUME NEW n \in Nat, NEW c
    PROVE  AsOf(n, c).counted # NoRow.counted
             <=> \E i \in Position : i <= n /\ Feeds(i, c)
<1>1. /\ AsOf(n, c).counted = [i \in Position |-> IF i <= n /\ Feeds(i, c) THEN 1 ELSE 0]
      /\ NoRow.counted = [i \in Position |-> 0]
  BY DEF AsOf, NoRow
<1>2. QED
  BY <1>1

LEMMA PairNext ==
    ASSUME TripsHaveZones, LiveInv, PairInv, [LiveNext]_liveVars
    PROVE  PairInv'
<1>1. CASE table' = table
  BY <1>1 DEF PairInv, HasRow, Counted
<1>2. CASE Show
  <2>1. PICK starts \in SUBSET Windows : ShowWindows(starts)
    BY <1>2 DEF Show
  <2>2. SUFFICES ASSUME NEW w \in Windows, None \in ZoneKeys
                 PROVE  (HasRow(<<w, None>>) <=> \E z \in ZoneKeys \ {None} : HasRow(<<w, z>>))'
    BY DEF PairInv
  <2>3. \A z \in ZoneKeys : <<w, z>> \in Cells
    BY DEF Cells
  <2>4. read \in Nat /\ LogInv
    BY DEF LiveInv, LogInv
  <2> DEFINE Shown(z) == w \in starts /\ \E i \in Position : i <= read /\ Feeds(i, <<w, z>>)
  <2>5. ASSUME NEW z \in ZoneKeys
        PROVE  HasRow(<<w, z>>)' <=> Shown(z) \/ HasRow(<<w, z>>)
    <3> DEFINE c == <<w, z>>
    <3>1. table'[c] = IF w \in starts /\ AsOf(read, c).counted # NoRow.counted
                      THEN AsOf(read, c) ELSE table[c]
      BY <2>1, <2>3 DEF ShowWindows
    <3>2. (AsOf(read, c).counted # NoRow.counted)
             <=> \E i \in Position : i <= read /\ Feeds(i, c)
      BY <2>4, ShownRows
    <3>3. CASE Shown(z)
      <4>1. table'[c] = AsOf(read, c)
        BY <3>1, <3>2, <3>3
      <4>2. PICK i \in Position : i <= read /\ Feeds(i, c)
        BY <3>3
      <4>3. table'[c].counted[i] = 1
        BY <4>1, <4>2 DEF AsOf
      <4>4. QED
        BY <3>3, <4>2, <4>3 DEF HasRow, Counted
    <3>4. CASE ~Shown(z)
      <4>1. table'[c] = table[c]
        BY <3>1, <3>2, <3>4
      <4>2. QED
        BY <3>4, <4>1 DEF HasRow, Counted
    <3>5. QED
      BY <3>3, <3>4
  <2>6. Shown(None) <=> \E z \in ZoneKeys \ {None} : Shown(z)
    <3>1. \A z : \A i : Feeds(i, <<w, z>>) => Feeds(i, <<w, None>>)
      BY DEF Feeds
    <3>2. ASSUME NEW i \in Position, Feeds(i, <<w, None>>)
          PROVE  \E z \in ZoneKeys \ {None} : Feeds(i, <<w, z>>)
      <4>1. IsTrip(i) /\ w = StartOf(log[i].time)
        BY <3>2 DEF Feeds
      <4>2. log[i] \in Events
        BY <2>4, <4>1, TripsHaveTimes
      <4>3. log[i].zone \in ZoneKeys \ {None}
        BY <4>2 DEF TripsHaveZones
      <4>4. Feeds(i, <<w, log[i].zone>>)
        BY <4>1 DEF Feeds
      <4>5. QED
        BY <4>3, <4>4
    <3>3. QED
      BY <3>1, <3>2
  <2>7. HasRow(<<w, None>>) <=> \E z \in ZoneKeys \ {None} : HasRow(<<w, z>>)
    BY <2>2 DEF PairInv
  <2> HIDE DEF Shown
  <2>8. QED
    BY <2>2, <2>5, <2>6, <2>7
<1>3. CASE (\E m \in Events \cup {Poison} : Produce(m)) \/ Read \/ FallBack
  BY <1>1, <1>3 DEF Produce, Read, FallBack
<1>4. CASE UNCHANGED liveVars
  BY <1>1, <1>4 DEF liveVars
<1>5. QED
  BY <1>2, <1>3, <1>4 DEF LiveNext

\* Windows start at numbers that are not negative, and there are finitely many.
LEMMA WindowsAreFew == Windows \in SUBSET Nat /\ IsFiniteSet(Windows)
<1>1. ASSUME NEW t \in 0 .. MaxTime PROVE StartOf(t) \in Nat
  <2>1. t \in Nat /\ Hour \in Nat \ {0} /\ Size \in Nat \ {0}
    BY BoundsAssumption, LiveAssumption
  <2> DEFINE m == t % Hour
  <2>2. m \in Nat /\ m <= t
    BY <2>1
  <2> HIDE DEF m
  <2>3. m % Size \in Nat /\ m % Size <= m
    BY <2>1, <2>2
  <2>4. QED
    BY <2>1, <2>2, <2>3 DEF StartOf, m
<1>2. IsFiniteSet(0 .. MaxTime)
  BY FS_Interval, BoundsAssumption
<1> DEFINE f == [t \in 0 .. MaxTime |-> StartOf(t)]
<1>3. f \in Surjection(0 .. MaxTime, Windows)
  BY DEF Surjection, Windows
<1>4. IsFiniteSet(Windows)
  BY <1>2, <1>3, FS_Surjection
<1>5. QED
  BY <1>1, <1>4 DEF Windows

\* The windows in the range with a row of any kind.
AnyWindows(start, end) ==
    {c[1] : c \in {d \in Cells : HasRow(d) /\ InRange(d[1], start, end)}}

LEMMA CityRows ==
    ASSUME NEW start, NEW end, NEW w
    PROVE  w \in CityWindows(start, end)
             <=> /\ w \in Windows /\ None \in ZoneKeys /\ HasRow(<<w, None>>)
                 /\ InRange(w, start, end)
<1>1. ASSUME w \in CityWindows(start, end)
      PROVE  w \in Windows /\ None \in ZoneKeys /\ HasRow(<<w, None>>) /\ InRange(w, start, end)
  <2>1. PICK c \in Cells : /\ c[2] = None /\ HasRow(c) /\ InRange(c[1], start, end)
                           /\ w = c[1]
    BY <1>1 DEF CityWindows
  <2>2. c = <<w, None>> /\ w \in Windows /\ None \in ZoneKeys
    BY <2>1 DEF Cells
  <2>3. QED
    BY <2>1, <2>2
<1>2. ASSUME w \in Windows, None \in ZoneKeys, HasRow(<<w, None>>), InRange(w, start, end)
      PROVE  w \in CityWindows(start, end)
  <2>1. <<w, None>> \in Cells
    BY <1>2 DEF Cells
  <2>2. QED
    BY <1>2, <2>1 DEF CityWindows
<1>3. QED
  BY <1>1, <1>2

\* A window has a citywide row if it has any.
LEMMA CityHasThemAll ==
    ASSUME PairInv, None \in ZoneKeys, NEW start, NEW end
    PROVE  AnyWindows(start, end) = CityWindows(start, end)
<1>1. ASSUME NEW w \in AnyWindows(start, end) PROVE w \in CityWindows(start, end)
  <2>1. PICK c \in Cells : HasRow(c) /\ InRange(c[1], start, end) /\ w = c[1]
    BY DEF AnyWindows
  <2>2. c = <<w, c[2]>> /\ w \in Windows /\ c[2] \in ZoneKeys
    BY <2>1 DEF Cells
  <2>3. HasRow(<<w, None>>)
    BY <2>1, <2>2 DEF PairInv
  <2>4. QED
    BY <2>1, <2>2, <2>3, CityRows
<1>2. CityWindows(start, end) \subseteq AnyWindows(start, end)
  BY DEF AnyWindows, CityWindows
<1>3. QED
  BY <1>1, <1>2

LEMMA CityIsFew ==
    ASSUME NEW start, NEW end
    PROVE  CityWindows(start, end) \in SUBSET Nat /\ IsFiniteSet(CityWindows(start, end))
<1>1. CityWindows(start, end) \in SUBSET Windows
  BY CityRows
<1>2. QED
  BY <1>1, WindowsAreFew, FS_Subset

\* Asked in one and the same moment, the two queries agree on the latest window.
LEMMA ZonesOfTheLatest ==
    ASSUME PairInv, NEW start, NEW end, CityWindows(start, end) # {}
    PROVE  \E w \in CityWindows(start, end) :
            /\ \A v \in CityWindows(start, end) : v <= w
            /\ w \in {c[1] : c \in HotTopZones(start, end)}
            /\ \A c \in HotTopZones(start, end) : c[1] = w
<1> DEFINE city == CityWindows(start, end)
           latest == Max(city)
           newest == Max(city \cup {-1})
<1>1. city \in SUBSET Nat /\ IsFiniteSet(city) /\ city # {}
  BY CityIsFew
<1>2. None \in ZoneKeys
  BY <1>1, CityRows
<1> HIDE DEF city
<1>3. latest \in city /\ \A w \in city : w <= latest
  BY <1>1, MaxOfFinite
<1>4. newest \in city \cup {-1} /\ \A w \in city \cup {-1} : w <= newest
  <2>1. city \cup {-1} \in SUBSET Int /\ IsFiniteSet(city \cup {-1}) /\ city \cup {-1} # {}
    BY <1>1, FS_AddElement
  <2>2. QED
    BY <2>1, MaxOfFinite
<1> HIDE DEF latest, newest
<1>5. newest = latest
  <2>1. latest \in Nat /\ latest <= newest
    BY <1>1, <1>3, <1>4
  <2>2. newest # -1 /\ newest \in city
    BY <1>4, <2>1
  <2>3. newest \in Nat /\ newest <= latest
    BY <1>1, <1>3, <2>2
  <2>4. QED
    BY <2>1, <2>3
<1>6. NewestWindow(start, end) = latest
  <2>1. AnyWindows(start, end) = city
    BY <1>2, CityHasThemAll DEF city
  <2>2. QED
    BY <1>5, <2>1 DEF NewestWindow, AnyWindows, newest
<1>7. \A c \in HotTopZones(start, end) : c[1] = latest
  BY <1>6 DEF HotTopZones
<1>8. latest \in {c[1] : c \in HotTopZones(start, end)}
  <2>1. latest \in Windows /\ HasRow(<<latest, None>>) /\ InRange(latest, start, end)
    BY <1>3, CityRows DEF city
  <2>2. PICK z \in ZoneKeys \ {None} : HasRow(<<latest, z>>)
    BY <1>2, <2>1 DEF PairInv
  <2>3. <<latest, z>> \in Cells
    BY <2>1 DEF Cells
  <2>4. <<latest, z>> \in HotTopZones(start, end)
    BY <1>6, <2>1, <2>2, <2>3 DEF HotTopZones
  <2>5. QED
    BY <2>4
<1>9. QED
  BY <1>3, <1>7, <1>8 DEF city

\* A window that the chart leaves out is older than all of it, and it is full.
LEMMA ChartIsTheNewest ==
    ASSUME NEW start, NEW end, NEW w \in CityWindows(start, end),
           w \notin HotWindows(start, end)
    PROVE  /\ Cardinality(HotWindows(start, end)) >= ChartLimit
           /\ \A v \in HotWindows(start, end) : w < v
<1> DEFINE city == CityWindows(start, end)
           chart == HotWindows(start, end)
           left == city \ chart
           Newer(u) == {v \in city : v > u}
<1>1. city \in SUBSET Nat /\ IsFiniteSet(city) /\ chart \in SUBSET city
  BY CityIsFew DEF HotWindows
<1>2. \A u \in city : u \in chart <=> Cardinality(Newer(u)) < ChartLimit
  BY DEF HotWindows
<1> HIDE DEF city, chart
<1>3. \A u : Newer(u) \in SUBSET city /\ IsFiniteSet(Newer(u)) /\ Cardinality(Newer(u)) \in Nat
  <2>1. \A u : Newer(u) \in SUBSET city
    OBVIOUS
  <2>2. QED
    BY <1>1, <2>1, FS_Subset, FS_CardinalityType
<1>4. left \in SUBSET city /\ IsFiniteSet(left) /\ left # {} /\ w \in left
  <2>1. w \in left
    BY DEF city, chart
  <2>2. left \in SUBSET city
    OBVIOUS
  <2>3. QED
    BY <1>1, <2>1, <2>2, FS_Subset
<1> DEFINE m == Max(left)
<1>5. m \in left /\ \A u \in left : u <= m
  BY <1>1, <1>4, MaxOfFinite
<1> HIDE DEF m
<1>6. Newer(m) \in SUBSET chart
  <2>1. \A v \in city : v > m => v \notin left
    BY <1>1, <1>5
  <2>2. QED
    BY <2>1
<1>7. IsFiniteSet(chart) /\ Cardinality(chart) \in Nat
  BY <1>1, FS_Subset, FS_CardinalityType
<1>8. ChartLimit \in Nat
  BY TablesAssumption
<1>9. Cardinality(chart) >= ChartLimit
  <2>1. Cardinality(Newer(m)) <= Cardinality(chart)
    BY <1>6, <1>7, FS_Subset
  <2>2. ~(Cardinality(Newer(m)) < ChartLimit)
    BY <1>2, <1>5
  <2> HIDE DEF Newer
  <2>3. QED
    BY <1>3, <1>7, <1>8, <2>1, <2>2
<1>10. ASSUME NEW v \in chart PROVE w < v
  <2>1. SUFFICES ASSUME ~(w < v) PROVE FALSE
    OBVIOUS
  <2>2. v \in city /\ w \in city /\ v \in Nat /\ w \in Nat
    BY <1>1, <1>4
  <2>3. Newer(w) \in SUBSET Newer(v)
    <3>1. ASSUME NEW u \in city, u > w PROVE u > v
      BY <1>1, <2>1, <2>2, <3>1
    <3>2. QED
      BY <3>1
  <2>4. Cardinality(Newer(w)) <= Cardinality(Newer(v))
    BY <1>3, <2>3, FS_Subset
  <2>5. Cardinality(Newer(v)) < ChartLimit /\ ~(Cardinality(Newer(w)) < ChartLimit)
    BY <1>2, <1>4, <2>2
  <2> HIDE DEF Newer
  <2>6. QED
    BY <1>3, <1>8, <2>4, <2>5
<1>11. QED
  BY <1>9, <1>10 DEF chart

\* A row, once there, is never taken away: not by a flush nor by a restart.
LEMMA WindowsStay ==
    ASSUME LiveInv, [LiveNext]_liveVars, NEW start, NEW end
    PROVE  CityWindows(start, end) \subseteq CityWindows(start, end)'
<1>1. ASSUME NEW c \in Cells, HasRow(c) PROVE HasRow(c)'
  <2>1. CASE table' = table
    BY <1>1, <2>1 DEF HasRow, Counted
  <2>2. CASE Show
    <3>1. PICK starts \in SUBSET Windows : ShowWindows(starts)
      BY <2>2 DEF Show
    <3>2. table'[c] = IF c[1] \in starts /\ AsOf(read, c).counted # NoRow.counted
                      THEN AsOf(read, c) ELSE table[c]
      BY <3>1 DEF ShowWindows
    <3>3. CASE table'[c] = table[c]
      BY <1>1, <3>3 DEF HasRow, Counted
    <3>4. CASE c[1] \in starts /\ AsOf(read, c).counted # NoRow.counted
      <4>1. read \in Nat
        BY DEF LiveInv, LogInv
      <4>2. PICK i \in Position : i <= read /\ Feeds(i, c)
        BY <3>4, <4>1, ShownRows
      <4>3. table'[c].counted[i] = 1
        BY <3>2, <3>4, <4>2 DEF AsOf
      <4>4. QED
        BY <4>3 DEF HasRow, Counted
    <3>5. QED
      BY <3>2, <3>3, <3>4
  <2>3. CASE (\E m \in Events \cup {Poison} : Produce(m)) \/ Read \/ FallBack
    BY <2>1, <2>3 DEF Produce, Read, FallBack
  <2>4. CASE UNCHANGED liveVars
    BY <2>1, <2>4 DEF liveVars
  <2>5. QED
    BY <2>2, <2>3, <2>4 DEF LiveNext
<1>2. QED
  BY <1>1 DEF CityWindows

\* The answers that are kept, and those on the screen, are about windows that still
\* have rows, and stand by each other whenever they are used.
City(r) == CityWindows(r.start, r.end)

ZonesOfOne(windows, zones) ==
    \E w \in windows : w \in {c[1] : c \in zones} /\ \A c \in zones : c[1] = w

PanelInv ==
    /\ \A r \in DOMAIN windowsKept : windowsKept[r] \subseteq City(r)
    /\ \A r \in DOMAIN zonesKept :
        /\ ZonesOfOne(City(r), zonesKept[r])
        /\ r \in DOMAIN windowsKept => OneWindowBeside(windowsKept[r], zonesKept[r])
    /\ panel = NoPage \/
        LET r == panel.range
        IN  /\ panel.windows \subseteq City(r)
            /\ panel.reading => panel.windows # {}
            /\ r \in DOMAIN zonesKept => OneWindowBeside(panel.windows, zonesKept[r])
            /\ PanelDrawn => /\ ZonesOfOne(City(r), panel.zones)
                             /\ OneWindowBeside(panel.windows, panel.zones)

\* A new chart beside zones of any window there is.
LEMMA NewChartBesideZones ==
    ASSUME NEW r, NEW zones, ZonesOfOne(City(r), zones)
    PROVE  OneWindowBeside(HotWindows(r.start, r.end), zones)
<1> DEFINE chart == HotWindows(r.start, r.end)
<1>1. PICK w \in City(r) :
            w \in {c[1] : c \in zones} /\ \A c \in zones : c[1] = w
  BY DEF ZonesOfOne
<1>2. \/ w \in chart
      \/ Cardinality(chart) >= ChartLimit /\ \A v \in chart : w < v
  BY ChartIsTheNewest DEF City
<1> HIDE DEF chart
<1>3. OneWindowBeside(chart, zones)
  BY <1>1, <1>2 DEF OneWindowBeside
<1>4. QED
  BY <1>3 DEF chart

\* New zones beside a chart of any age.
LEMMA NewZonesBesideChart ==
    ASSUME PairInv, NEW r, City(r) # {},
           NEW windows \in SUBSET City(r)
    PROVE  LET zones == HotTopZones(r.start, r.end)
           IN  ZonesOfOne(City(r), zones) /\ OneWindowBeside(windows, zones)
<1> DEFINE zones == HotTopZones(r.start, r.end)
           city == City(r)
<1>1. PICK w \in city : /\ \A v \in city : v <= w
                        /\ w \in {c[1] : c \in zones} /\ \A c \in zones : c[1] = w
  BY ZonesOfTheLatest DEF City
<1>2. city \in SUBSET Nat
  BY CityIsFew DEF City
<1> HIDE DEF zones, city
<1>3. w \in windows \/ \A v \in windows : v < w
  <2>1. SUFFICES ASSUME w \notin windows, NEW v \in windows PROVE v < w
    OBVIOUS
  <2>2. v \in city /\ v # w
    BY <2>1 DEF city
  <2>3. v \in Nat /\ w \in Nat /\ v <= w
    BY <1>1, <1>2, <2>2
  <2>4. QED
    BY <2>2, <2>3
<1>4. OneWindowBeside(windows, zones)
  BY <1>1, <1>3 DEF OneWindowBeside
<1>5. ZonesOfOne(City(r), zones)
  BY <1>1 DEF ZonesOfOne, city
<1>6. QED
  BY <1>4, <1>5 DEF zones

LEMMA PanelNext ==
    ASSUME LiveInv, PairInv, PanelInv, [Next]_dashVars
    PROVE  PanelInv'
<1>0. ASSUME NEW r PROVE City(r) \subseteq City(r)'
  BY HotPartSteps, WindowsStay DEF City
<1>a. \A r, zones : ZonesOfOne(City(r), zones) => ZonesOfOne(City(r)', zones)
  BY <1>0 DEF ZonesOfOne
<1>1. CASE UNCHANGED panelVars
  BY <1>0, <1>a, <1>1 DEF PanelInv, PanelDrawn, panelVars
<1>2. CASE PanelReadsWindows
  <2>0. PICK r : r = RangeOf(page)
    OBVIOUS
  <2> DEFINE windows == KeptOr(windowsKept, r, HotWindows(r.start, r.end))
  <2>1. /\ windowsKept' = Keep(windowsKept, r, windows)
        /\ panel' = [range |-> r, windows |-> windows, zones |-> {},
                     reading |-> windows # {}]
        /\ zonesKept' = zonesKept
    BY <1>2, <2>0 DEF PanelReadsWindows
  <2>2. windows \subseteq City(r)
    BY DEF PanelInv, KeptOr, HotWindows, City
  <2>3. ASSUME r \in DOMAIN zonesKept PROVE OneWindowBeside(windows, zonesKept[r])
    BY <2>3, NewChartBesideZones DEF PanelInv, KeptOr
  <2> HIDE DEF windows
  <2>4. /\ DOMAIN windowsKept' = DOMAIN windowsKept \cup {r}
        /\ \A k \in DOMAIN windowsKept \cup {r} :
              windowsKept'[k] = IF k = r THEN windows ELSE windowsKept[k]
    BY <2>1 DEF Keep
  <2>5. \A k \in DOMAIN windowsKept' : windowsKept'[k] \subseteq City(k)'
    BY <1>0, <2>2, <2>4 DEF PanelInv
  <2>6. \A k \in DOMAIN zonesKept' :
            /\ ZonesOfOne(City(k)', zonesKept'[k])
            /\ k \in DOMAIN windowsKept' => OneWindowBeside(windowsKept'[k], zonesKept'[k])
    BY <1>a, <2>1, <2>3, <2>4 DEF PanelInv
  <2>7. /\ panel'.range = r /\ panel'.windows = windows /\ panel'.reading = (windows # {})
        /\ ~PanelDrawn'
    BY <2>1 DEF PanelDrawn
  <2>8. windows \subseteq City(r)'
    BY <1>0, <2>2
  <2>9. QED
    BY <2>1, <2>3, <2>5, <2>6, <2>7, <2>8 DEF PanelInv
<1>3. CASE PanelReadsZones
  <2>0. PICK r : r = panel.range
    OBVIOUS
  <2> DEFINE fresh == HotTopZones(r.start, r.end)
             zones == KeptOr(zonesKept, r, fresh)
  <2>1. /\ panel # NoPage /\ panel.reading
        /\ zonesKept' = Keep(zonesKept, r, zones)
        /\ panel' = [range |-> r, windows |-> panel.windows, zones |-> zones,
                     reading |-> FALSE]
        /\ windowsKept' = windowsKept
    BY <1>3, <2>0 DEF PanelReadsZones
  <2>2. /\ panel.windows \subseteq City(r)
        /\ City(r) # {}
        /\ r \in DOMAIN zonesKept => OneWindowBeside(panel.windows, zonesKept[r])
    BY <2>0, <2>1 DEF PanelInv
  <2>3. ZonesOfOne(City(r), zones) /\ OneWindowBeside(panel.windows, zones)
    <3>1. ZonesOfOne(City(r), fresh) /\ OneWindowBeside(panel.windows, fresh)
      BY <2>2, NewZonesBesideChart
    <3>2. QED
      BY <2>2, <3>1 DEF PanelInv, KeptOr
  <2>4. ASSUME r \in DOMAIN windowsKept PROVE OneWindowBeside(windowsKept[r], zones)
    <3>1. windowsKept[r] \subseteq City(r)
      BY <2>4 DEF PanelInv
    <3>2. OneWindowBeside(windowsKept[r], fresh)
      BY <2>2, <3>1, NewZonesBesideChart
    <3>3. QED
      BY <2>4, <3>2 DEF PanelInv, KeptOr
  <2> HIDE DEF zones
  <2>5. /\ DOMAIN zonesKept' = DOMAIN zonesKept \cup {r}
        /\ \A k \in DOMAIN zonesKept \cup {r} :
              zonesKept'[k] = IF k = r THEN zones ELSE zonesKept[k]
    BY <2>1 DEF Keep
  <2>6. \A k \in DOMAIN windowsKept' : windowsKept'[k] \subseteq City(k)'
    BY <1>0, <2>1 DEF PanelInv
  <2>7. \A k \in DOMAIN zonesKept' :
            /\ ZonesOfOne(City(k)', zonesKept'[k])
            /\ k \in DOMAIN windowsKept' => OneWindowBeside(windowsKept'[k], zonesKept'[k])
    <3>1. SUFFICES ASSUME NEW k \in DOMAIN zonesKept'
                   PROVE  /\ ZonesOfOne(City(k)', zonesKept'[k])
                          /\ k \in DOMAIN windowsKept'
                                => OneWindowBeside(windowsKept'[k], zonesKept'[k])
      OBVIOUS
    <3>2. CASE k = r
      BY <1>a, <2>1, <2>3, <2>4, <2>5, <3>2
    <3>3. CASE k # r
      <4>1. k \in DOMAIN zonesKept /\ zonesKept'[k] = zonesKept[k]
        BY <2>5, <3>3
      <4>2. QED
        BY <1>a, <2>1, <4>1 DEF PanelInv
    <3>4. QED
      BY <3>2, <3>3
  <2>8. /\ panel'.range = r /\ panel'.windows = panel.windows /\ panel'.zones = zones
        /\ panel'.reading = FALSE
    BY <2>1
  <2>9. /\ panel.windows \subseteq City(r)'
        /\ ZonesOfOne(City(r)', zones) /\ zonesKept'[r] = zones
    BY <1>0, <1>a, <2>2, <2>3, <2>5
  <2>10. QED
    BY <2>3, <2>6, <2>7, <2>8, <2>9 DEF PanelInv
<1>4. ASSUME NEW k, WindowsExpire(k) \/ ZonesExpire(k) PROVE PanelInv'
  <2>1. /\ DOMAIN windowsKept' \subseteq DOMAIN windowsKept
        /\ \A r \in DOMAIN windowsKept' : windowsKept'[r] = windowsKept[r]
    BY <1>4 DEF WindowsExpire, ZonesExpire, Forget
  <2>2. /\ DOMAIN zonesKept' \subseteq DOMAIN zonesKept
        /\ \A r \in DOMAIN zonesKept' : zonesKept'[r] = zonesKept[r]
    BY <1>4 DEF WindowsExpire, ZonesExpire, Forget
  <2>3. panel' = panel
    BY <1>4 DEF WindowsExpire, ZonesExpire
  <2>4. \A r \in DOMAIN windowsKept' : windowsKept'[r] \subseteq City(r)'
    BY <1>0, <2>1 DEF PanelInv
  <2>5. \A r \in DOMAIN zonesKept' :
            /\ ZonesOfOne(City(r)', zonesKept'[r])
            /\ r \in DOMAIN windowsKept' => OneWindowBeside(windowsKept'[r], zonesKept'[r])
    BY <1>a, <2>1, <2>2 DEF PanelInv
  <2>6. QED
    BY <1>0, <1>a, <2>2, <2>3, <2>4, <2>5 DEF PanelInv, PanelDrawn
<1>5. CASE DrawPage
  BY <1>0, <1>a, <1>5 DEF DrawPage, PanelInv, PanelDrawn
<1>6. CASE LogGrows \/ LayersMove
  BY <1>1, <1>6 DEF LogGrows, LayersMove, HotReads, HotShows, HotRestarts, ColdRefreshes,
                   ReconExpires
<1>7. CASE Score \/ TimePasses \/ FeedRefreshes \/ Publish \/ UNCHANGED dashVars
  BY <1>1, <1>7 DEF Score, TimePasses, FeedRefreshes, Publish, dashVars
<1>8. QED
  BY <1>2, <1>3, <1>4, <1>5, <1>6, <1>7 DEF Next, FeedMoves, PanelMoves, PanelReads

\* The chart of the busiest zones is never empty beside a window, and is about a
\* window that the chart beside it has, or could not have: whatever is flushed,
\* restarted, drawn or forgotten between the two queries, and however old an answer
\* of either is that is used again (queries.py:85-92).
THEOREM ZonesAlwaysStandByWindows ==
    ASSUME TripsHaveZones
    PROVE  Spec => []ZonesStandByWindows
<1>1. Init => LiveInv /\ PairInv /\ PanelInv
  <2>1. SUFFICES ASSUME Init PROVE LiveInv /\ PairInv /\ PanelInv
    OBVIOUS
  <2>2. LiveInit
    BY <2>1 DEF Init
  <2>3. \A c \in Cells : ~HasRow(c)
    BY <2>2 DEF LiveInit, HasRow, Counted, NoRow
  <2>4. \A w \in Windows, z \in ZoneKeys : <<w, z>> \in Cells
    BY DEF Cells
  <2>5. PairInv
    BY <2>3, <2>4 DEF PairInv
  <2>6. PanelInv
    BY <2>1 DEF Init, PanelInv
  <2>7. QED
    BY <2>2, <2>5, <2>6, LiveInvInit
<1>2. LiveInv /\ PairInv /\ PanelInv /\ [Next]_dashVars => LiveInv' /\ PairInv' /\ PanelInv'
  BY HotPartSteps, LiveNextKeeps, PairNext, PanelNext
<1>3. PanelInv => ZonesStandByWindows
  <2>1. SUFFICES ASSUME PanelInv, PanelDrawn
                 PROVE  /\ OneWindowBeside(panel.windows, panel.zones)
                        /\ \A c \in panel.zones :
                                InRange(c[1], panel.range.start, panel.range.end)
    BY DEF ZonesStandByWindows
  <2>2. panel # NoPage
    BY <2>1 DEF PanelDrawn
  <2>3. /\ OneWindowBeside(panel.windows, panel.zones)
        /\ ZonesOfOne(City(panel.range), panel.zones)
    BY <2>1, <2>2 DEF PanelInv
  <2>4. PICK w \in City(panel.range) : \A c \in panel.zones : c[1] = w
    BY <2>3 DEF ZonesOfOne
  <2>5. InRange(w, panel.range.start, panel.range.end)
    BY <2>4, CityRows DEF City
  <2>6. QED
    BY <2>3, <2>4, <2>5
<1>4. QED
  BY <1>1, <1>2, <1>3, PTL DEF Spec

-----------------------------------------------------------------------------
(***************************************************************************)
(* Types                                                                   *)
(***************************************************************************)
LayersInv ==
    /\ fallBacks \in 0 .. MaxFallBacks
    /\ cold \in [Dates -> Nat]
    /\ recon = Uncached \/ recon \subseteq [date : Dates, cold : Nat, hot : Nat]

FeedInv ==
    /\ quotes \subseteq Events /\ IsFiniteSet(quotes)
    /\ scored \in 0 .. Len(log)
    /\ age \in 0 .. StaleAfter \cup {Never}
    /\ page = NoPage \/ ( /\ page.start \in Nat /\ page.end \in Nat \cup {Null}
                         /\ page.live \in BOOLEAN )
    /\ feed \subseteq quotes

LEMMA PositionsAreFew == Position \subseteq Nat /\ IsFiniteSet(Position)
  BY FS_Interval, BoundsAssumption DEF Position

LEMMA ReconciliationType ==
    ASSUME LayersInv
    PROVE  ReconShown \subseteq [date : Dates, cold : Nat, hot : Nat]
<1>1. ASSUME NEW d \in Dates PROVE HotTrips(d) \in Nat
  <2> DEFINE counted == {ci \in HotCells(d) \X Position : ci[2] \in Counted(ci[1])}
             f == [w \in Windows |-> <<w, None>>]
             rows == {<<w, None>> : w \in Windows}
  <2>1. f \in Surjection(Windows, rows)
    BY DEF Surjection
  <2>2. IsFiniteSet(rows)
    BY <2>1, WindowsAreFew, FS_Surjection
  <2>3. HotCells(d) \in SUBSET rows
    BY DEF HotCells, Cells
  <2>4. IsFiniteSet(HotCells(d) \X Position)
    BY <2>2, <2>3, PositionsAreFew, FS_Subset, FS_Product
  <2>5. counted \in SUBSET (HotCells(d) \X Position)
    OBVIOUS
  <2>6. IsFiniteSet(counted)
    BY <2>4, <2>5, FS_Subset
  <2> HIDE DEF counted
  <2>7. Cardinality(counted) \in Nat
    BY <2>6, FS_CardinalityType
  <2>8. QED
    BY <2>7 DEF HotTrips, counted
<1>2. Reconciliation \subseteq [date : Dates, cold : Nat, hot : Nat]
  BY <1>1 DEF Reconciliation, ComparedDates, LayersInv
<1>3. QED
  BY <1>2 DEF ReconShown, LayersInv

LEMMA LayersNext == LayersInv /\ [Next]_dashVars => LayersInv'
<1> SUFFICES ASSUME LayersInv, [Next]_dashVars PROVE LayersInv'
  OBVIOUS
<1>1. CASE UNCHANGED <<fallBacks, cold, recon>>
  BY <1>1 DEF LayersInv
<1>2. CASE HotRestarts
  BY <1>2, BoundsAssumption DEF HotRestarts, LayersInv
<1>3. CASE ColdRefreshes
  <2> DEFINE trips(d) == {log[i] : i \in {j \in Position :
                                      IsTrip(j) /\ DateOf(log[j].time) = d}}
  <2>1. ASSUME NEW d PROVE Cardinality(trips(d)) \in Nat
    <3> DEFINE S == {j \in Position : IsTrip(j) /\ DateOf(log[j].time) = d}
               f == [i \in S |-> log[i]]
    <3>1. S \in SUBSET Position
      OBVIOUS
    <3>2. IsFiniteSet(S)
      BY <3>1, PositionsAreFew, FS_Subset
    <3>3. f \in Surjection(S, trips(d))
      BY DEF Surjection
    <3>4. IsFiniteSet(trips(d))
      BY <3>2, <3>3, FS_Surjection
    <3>5. QED
      BY <3>4, FS_CardinalityType
  <2>2. /\ cold' = [d \in Dates |-> IF d < LiveEraStart THEN cold[d]
                                    ELSE Cardinality(trips(d))]
        /\ UNCHANGED <<fallBacks, recon>>
    BY <1>3 DEF ColdRefreshes
  <2> HIDE DEF trips
  <2>3. cold' \in [Dates -> Nat]
    BY <2>1, <2>2 DEF LayersInv
  <2>4. QED
    BY <2>2, <2>3 DEF LayersInv
<1>4. CASE ReconExpires
  BY <1>4 DEF ReconExpires, LayersInv
<1>5. CASE DrawPage
  <2>1. recon' = ReconShown /\ UNCHANGED <<fallBacks, cold>>
    BY <1>5 DEF DrawPage
  <2>2. QED
    BY <2>1, ReconciliationType DEF LayersInv
<1>6. CASE LogGrows \/ HotReads \/ (\E starts \in SUBSET Windows : HotShows(starts))
  BY <1>1, <1>6 DEF LogGrows, HotReads, HotShows
<1>7. CASE Score \/ TimePasses \/ FeedRefreshes \/ PanelMoves
  BY <1>1, <1>7, PanelLeavesTables DEF Score, TimePasses, FeedRefreshes, layerVars
<1>8. CASE Publish \/ UNCHANGED dashVars
  BY <1>1, <1>8 DEF Publish, dashVars, layerVars
<1>9. QED
  BY <1>2, <1>3, <1>4, <1>5, <1>6, <1>7, <1>8 DEF Next, LayersMove, FeedMoves

\* The sidebar offers days that the calendar has.
LEMMA RangesAreDays ==
    ASSUME FeedInv, NEW r \in Ranges
    PROVE  r[1] \in Nat /\ r[2] \in Nat
<1> DEFINE days == {DateOf(q.time) : q \in quotes}
           f == [q \in quotes |-> DateOf(q.time)]
<1>1. days \in SUBSET Nat
  BY LiveAssumption, LiveEraAssumption DEF FeedInv, DateOf
<1>2. CASE days = {}
  <2>1. Ranges = {<<Today, Today>>}
    BY <1>2 DEF Ranges
  <2>2. QED
    BY <2>1, TablesAssumption
<1>3. CASE days # {}
  <2>1. f \in Surjection(quotes, days)
    BY DEF Surjection
  <2>2. IsFiniteSet(days)
    BY <2>1, FS_Surjection DEF FeedInv
  <2>3. Min(days) \in Nat /\ Max(days) \in Nat
    BY <1>1, <1>3, <2>2, MinOfNaturals, MaxOfFinite
  <2>4. r \in (Min(days) .. Max(days)) \X (Min(days) .. Max(days)) \/ r = <<Today, Today>>
    BY <1>3 DEF Ranges
  <2> HIDE DEF days
  <2>5. QED
    BY <2>3, <2>4, TablesAssumption
<1>4. QED
  BY <1>2, <1>3

LEMMA FeedNext == LogInv /\ FeedInv /\ [Next]_dashVars => FeedInv'
<1> SUFFICES ASSUME LogInv, FeedInv, [Next]_dashVars PROVE FeedInv'
  OBVIOUS
<1>0. Len(log) \in Nat
  BY DEF LogInv
<1>1. CASE UNCHANGED <<log, feedVars>>
  BY <1>1 DEF FeedInv, feedVars
<1>2. CASE LogGrows
  <2>1. PICK m \in Events \cup {Poison} : Produce(m)
    BY <1>2 DEF LogGrows
  <2>2. Len(log') = Len(log) + 1
    BY <2>1 DEF Produce, LogInv
  <2>3. UNCHANGED feedVars
    BY <1>2 DEF LogGrows
  <2>4. scored \in 0 .. Len(log')
    BY <1>0, <2>2 DEF FeedInv
  <2>5. QED
    BY <2>3, <2>4 DEF FeedInv, feedVars
<1>3. CASE Score
  <2>1. /\ scored < Len(log) /\ scored' = scored + 1
        /\ UNCHANGED <<log, page, feed>>
    BY <1>3 DEF Score
  <2>2. scored' \in 0 .. Len(log')
    BY <1>0, <2>1 DEF FeedInv
  <2>3. CASE IsTrip(scored + 1) /\ DateOf(log[scored + 1].time) >= LiveEraStart
    <3>1. quotes' = quotes \cup {log[scored + 1]} /\ age' = 0
      BY <1>3, <2>3 DEF Score
    <3>2. log[scored + 1] \in Events
      BY <2>3, TripsHaveTimes
    <3>3. IsFiniteSet(quotes')
      BY <3>1, FS_AddElement DEF FeedInv
    <3>4. age' \in 0 .. StaleAfter
      BY <3>1, TablesAssumption
    <3>5. QED
      BY <2>1, <2>2, <3>1, <3>2, <3>3, <3>4 DEF FeedInv
  <2>4. CASE ~(IsTrip(scored + 1) /\ DateOf(log[scored + 1].time) >= LiveEraStart)
    <3>1. UNCHANGED <<quotes, age>>
      BY <1>3, <2>4 DEF Score
    <3>2. QED
      BY <2>1, <2>2, <3>1 DEF FeedInv
  <2>5. QED
    BY <2>3, <2>4
<1>4. CASE TimePasses
  <2>1. /\ age # Never /\ age < StaleAfter /\ age' = age + 1
        /\ UNCHANGED <<log, quotes, scored, page, feed>>
    BY <1>4 DEF TimePasses
  <2>2. age' \in 0 .. StaleAfter
    BY <2>1, TablesAssumption DEF FeedInv
  <2>3. QED
    BY <2>1, <2>2 DEF FeedInv
<1>5. ASSUME NEW p, NEW shown \in FeedResults(p) PROVE shown \subseteq quotes
  BY DEF FeedResults, Matching
<1>6. CASE DrawPage
  <2>1. PICK r \in Ranges, follow_live \in BOOLEAN :
            page' = [start |-> r[1] * Day,
                     end |-> IF follow_live THEN Null ELSE (r[2] + 1) * Day,
                     live |-> follow_live]
    BY <1>6 DEF DrawPage
  <2>2. feed' \in FeedResults(page') /\ UNCHANGED <<log, quotes, scored, age>>
    BY <1>6 DEF DrawPage
  <2>3. r[1] * Day \in Nat /\ (r[2] + 1) * Day \in Nat
    BY LiveEraAssumption, RangesAreDays
  <2>4. page'.start \in Nat /\ page'.end \in Nat \cup {Null} /\ page'.live \in BOOLEAN
    BY <2>1, <2>3
  <2>5. feed' \subseteq quotes
    BY <1>5, <2>2
  <2>6. QED
    BY <2>2, <2>4, <2>5 DEF FeedInv
<1>7. CASE FeedRefreshes
  BY <1>5, <1>7 DEF FeedRefreshes, FeedInv
<1>8. CASE LayersMove
  BY <1>1, <1>8 DEF LayersMove, HotReads, HotShows, HotRestarts, ColdRefreshes, ReconExpires,
                    Read, ShowWindows, FallBack
<1>9. CASE PanelMoves \/ Publish \/ UNCHANGED dashVars
  BY <1>1, <1>9, PanelLeavesTables DEF Publish, dashVars
<1>10. QED
  BY <1>2, <1>3, <1>4, <1>6, <1>7, <1>8, <1>9 DEF Next, FeedMoves

PanelTypes ==
    /\ \A r \in DOMAIN windowsKept : windowsKept[r] \subseteq Windows
    /\ \A r \in DOMAIN zonesKept : zonesKept[r] \subseteq Cells
    /\ panel = NoPage \/ ( /\ panel.windows \subseteq Windows /\ panel.zones \subseteq Cells
                          /\ panel.reading \in BOOLEAN )

LEMMA PanelTypesNext == PanelTypes /\ [Next]_dashVars => PanelTypes'
<1> SUFFICES ASSUME PanelTypes, [Next]_dashVars PROVE PanelTypes'
  OBVIOUS
<1>1. CASE UNCHANGED panelVars
  BY <1>1 DEF PanelTypes, panelVars
<1>2. CASE PanelReadsWindows
  <2> DEFINE r == RangeOf(page)
             windows == KeptOr(windowsKept, r, HotWindows(r.start, r.end))
  <2>1. /\ windowsKept' = Keep(windowsKept, r, windows)
        /\ panel' = [range |-> r, windows |-> windows, zones |-> {},
                     reading |-> windows # {}]
        /\ zonesKept' = zonesKept
    BY <1>2 DEF PanelReadsWindows
  <2>2. HotWindows(r.start, r.end) \subseteq Windows
    BY DEF HotWindows, CityWindows, Cells
  <2>3. windows \subseteq Windows
    BY <2>2 DEF PanelTypes, KeptOr
  <2> HIDE DEF r, windows
  <2>4. \A k \in DOMAIN windowsKept' : windowsKept'[k] \subseteq Windows
    <3>1. /\ DOMAIN windowsKept' = DOMAIN windowsKept \cup {r}
          /\ \A k \in DOMAIN windowsKept \cup {r} :
                windowsKept'[k] = IF k = r THEN windows ELSE windowsKept[k]
      BY <2>1 DEF Keep
    <3>2. QED
      BY <2>3, <3>1 DEF PanelTypes
  <2>5. QED
    BY <2>1, <2>3, <2>4 DEF PanelTypes
<1>3. CASE PanelReadsZones
  <2> DEFINE r == panel.range
             zones == KeptOr(zonesKept, r, HotTopZones(r.start, r.end))
  <2>1. /\ zonesKept' = Keep(zonesKept, r, zones)
        /\ panel' = [range |-> r, windows |-> panel.windows, zones |-> zones,
                     reading |-> FALSE]
        /\ windowsKept' = windowsKept
    BY <1>3 DEF PanelReadsZones
  <2>2. zones \subseteq Cells
    BY DEF PanelTypes, KeptOr, HotTopZones
  <2> HIDE DEF r, zones
  <2>3. \A k \in DOMAIN zonesKept' : zonesKept'[k] \subseteq Cells
    <3>1. /\ DOMAIN zonesKept' = DOMAIN zonesKept \cup {r}
          /\ \A k \in DOMAIN zonesKept \cup {r} :
                zonesKept'[k] = IF k = r THEN zones ELSE zonesKept[k]
      BY <2>1 DEF Keep
    <3>2. QED
      BY <2>2, <3>1 DEF PanelTypes
  <2>4. QED
    BY <1>3, <2>1, <2>2, <2>3 DEF PanelTypes, PanelReadsZones
<1>4. ASSUME NEW r, WindowsExpire(r) \/ ZonesExpire(r) PROVE PanelTypes'
  <2>1. /\ DOMAIN windowsKept' \subseteq DOMAIN windowsKept
        /\ \A k \in DOMAIN windowsKept' : windowsKept'[k] = windowsKept[k]
    BY <1>4 DEF WindowsExpire, ZonesExpire, Forget
  <2>2. /\ DOMAIN zonesKept' \subseteq DOMAIN zonesKept
        /\ \A k \in DOMAIN zonesKept' : zonesKept'[k] = zonesKept[k]
    BY <1>4 DEF WindowsExpire, ZonesExpire, Forget
  <2>3. panel' = panel
    BY <1>4 DEF WindowsExpire, ZonesExpire
  <2>4. QED
    BY <2>1, <2>2, <2>3 DEF PanelTypes
<1>5. CASE DrawPage
  BY <1>5 DEF DrawPage, PanelTypes
<1>6. CASE LogGrows \/ LayersMove
  BY <1>1, <1>6 DEF LogGrows, LayersMove, HotReads, HotShows, HotRestarts, ColdRefreshes,
                   ReconExpires
<1>7. CASE Score \/ TimePasses \/ FeedRefreshes \/ Publish \/ UNCHANGED dashVars
  BY <1>1, <1>7 DEF Score, TimePasses, FeedRefreshes, Publish, dashVars
<1>8. QED
  BY <1>2, <1>3, <1>4, <1>5, <1>6, <1>7 DEF Next, FeedMoves, PanelMoves, PanelReads

\* Type correctness: the feed shows quotes there are, no more messages are scored
\* than were sent, and a row counts a trip once at most.
THEOREM DashboardTypes == Spec => []TypeOK
<1>1. Init => LiveInv /\ LayersInv /\ FeedInv /\ EvalInv /\ PanelTypes
  <2>1. SUFFICES ASSUME Init PROVE LiveInv /\ LayersInv /\ FeedInv /\ EvalInv /\ PanelTypes
    OBVIOUS
  <2>2. LiveInv /\ log = <<>>
    BY <2>1, LiveInvInit DEF Init, LiveInit
  <2>3. LayersInv
    BY <2>1, BoundsAssumption, TablesAssumption DEF Init, LayersInv
  <2>4. FeedInv
    BY <2>1, <2>2, FS_EmptySet DEF Init, FeedInv
  <2>5. EvalInv
    BY <2>1, FS_EmptySet DEF Init, EvalInv
  <2>6. PanelTypes
    BY <2>1 DEF Init, PanelTypes
  <2>7. QED
    BY <2>2, <2>3, <2>4, <2>5, <2>6
<1>2. LiveInv /\ [Next]_dashVars => LiveInv'
  BY HotPartSteps, LiveNextKeeps
<1>3. LiveInv => LogInv
  BY DEF LiveInv
<1>4. ASSUME LiveInv, LayersInv, FeedInv, EvalInv, PanelTypes PROVE TypeOK
  <2>1. ASSUME NEW c \in Cells
        PROVE  /\ table[c].counted \in [Position -> 0 .. 1]
               /\ table[c].is_final \in BOOLEAN
    <3>1. CASE table[c] = NoRow
      BY <3>1 DEF NoRow
    <3>2. CASE \E n \in 0 .. Len(log) : table[c] = AsOf(n, c)
      BY <3>2 DEF AsOf
    <3>3. QED
      BY <1>4, <3>1, <3>2 DEF LiveInv
  <2>2. log \in Seq(Events \cup {Poison}) /\ read \in 0 .. Len(log)
    BY <1>4 DEF LiveInv, LogInv
  <2>3. QED
    BY <1>4, <2>1, <2>2 DEF TypeOK, LayersInv, FeedInv, EvalInv, PanelTypes
<1>5. QED
  BY <1>1, <1>2, <1>3, <1>4, LayersNext, FeedNext, EvalNext, PanelTypesNext, PTL DEF Spec
=============================================================================
