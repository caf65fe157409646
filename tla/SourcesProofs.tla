--------------------------- MODULE SourcesProofs ---------------------------
(***************************************************************************)
(* Theorems about Sources, for any number of months, any cutoff that ends  *)
(* one, any files, arguments, attempts and kills.                          *)
(***************************************************************************)
EXTENDS Sources, FiniteSetTheorems, SequenceTheorems, WellFoundedInduction, TLAPS

-----------------------------------------------------------------------------
(***************************************************************************)
(* Files                                                                   *)
(***************************************************************************)
FilesInv == file \in [Months -> {"none", "whole"}]

LEMMA FilesNext == FilesInv /\ [Next]_vars => FilesInv'
<1> SUFFICES ASSUME FilesInv, [Next]_vars PROVE FilesInv'
  OBVIOUS
<1> USE DEF FilesInv
<1>1. CASE StartFetch
  BY <1>1 DEF StartFetch, files
<1>2. ASSUME NEW m \in Months, Skip(m) PROVE FilesInv'
  BY <1>2 DEF Skip, files
<1>3. ASSUME NEW m \in Months, Receive(m) PROVE FilesInv'
  BY <1>3 DEF Receive
<1>4. ASSUME NEW m \in Months, Complete(m) PROVE FilesInv'
  BY <1>4 DEF Complete
<1>5. ASSUME NEW m \in Months, Fail(m) PROVE FilesInv'
  BY <1>5 DEF Fail
<1>6. CASE KillFetch \/ StartReplay \/ ReplaySteps \/ KillReplay
  BY <1>6 DEF KillFetch, StartReplay, ReplaySteps, OpenMonth, PostRow,
              FinishReplay, KillReplay, files
<1>7. CASE (\E m \in Months : BulkLoad(m)) \/ StreamToLake \/ Train
  BY <1>7 DEF BulkLoad, StreamToLake, Train, files
<1>8. CASE UNCHANGED vars
  BY <1>8 DEF vars, files
<1>9. QED
  BY <1>1, <1>2, <1>3, <1>4, <1>5, <1>6, <1>7, <1>8 DEF Next, FetchSteps

THEOREM FilesInvariant == Spec => []FilesInv
<1>1. Init => FilesInv
  BY DEF Init, FilesInv
<1>2. QED
  BY <1>1, FilesNext, PTL DEF Spec

\* What stands under a month's name is never part of a file: only a download
\* that has ended is renamed (fetch.py:92-95).
THEOREM FilesStayWhole == Spec => []FilesAreWhole
<1>1. FilesInv => FilesAreWhole
  BY DEF FilesInv, FilesAreWhole
<1>2. QED
  BY <1>1, FilesInvariant, PTL

-----------------------------------------------------------------------------
(***************************************************************************)
(* The exit code.  Behind it is what the fetcher knows on the way: each    *)
(* month it has passed is either among the failures or there.              *)
(***************************************************************************)
FetcherRecord ==
    [pc : {"running", "exited"}, first : Months, month : Nat, last : Months,
     attempt : Nat, receiving : BOOLEAN, failures : SUBSET Months]

FetchInv ==
    fetcher.pc # "idle" =>
        /\ fetcher \in FetcherRecord
        /\ fetcher.month \in fetcher.first .. fetcher.last + 1
        /\ fetcher.month > fetcher.last => fetcher.pc = "exited"
        /\ fetcher.pc = "exited" => fetcher.month = fetcher.last + 1
        /\ \A m \in fetcher.first .. fetcher.month - 1 :
            m \in fetcher.failures \/ file[m] = "whole"

\* Going on to the next month, when this one has failed or is there.
LEMMA MonthPassed ==
    ASSUME FetchInv, FilesInv', NEW m \in Months, Fetching(m),
           NEW failures \in SUBSET Months, fetcher.failures \subseteq failures,
           fetcher' = AfterMonth(failures),
           \A k \in Months : file[k] = "whole" => file'[k] = "whole",
           m \in failures \/ file'[m] = "whole"
    PROVE  FetchInv'
<1>1. fetcher \in FetcherRecord /\ fetcher.pc = "running" /\ fetcher.month = m
  BY DEF FetchInv, Fetching
<1>2. m <= fetcher.last /\ m \in Nat /\ fetcher.first \in Nat /\ fetcher.last \in Nat
  BY <1>1, MonthsAssumption DEF FetchInv, FetcherRecord, Months
<1>3. /\ fetcher' \in FetcherRecord
      /\ fetcher'.first = fetcher.first /\ fetcher'.last = fetcher.last
      /\ fetcher'.month = m + 1 /\ fetcher'.failures = failures
      /\ fetcher'.pc = IF m = fetcher.last THEN "exited" ELSE "running"
  <2> DEFINE next == [pc |-> IF m = fetcher.last THEN "exited" ELSE "running",
                      first |-> fetcher.first, month |-> m + 1,
                      last |-> fetcher.last, attempt |-> 1, receiving |-> FALSE,
                      failures |-> failures]
  <2>1. fetcher' = next
    BY <1>1 DEF AfterMonth, FetcherRecord
  <2>2. m + 1 \in Nat /\ fetcher.first \in Months /\ fetcher.last \in Months
    BY <1>1, <1>2 DEF FetcherRecord
  <2>3. next \in FetcherRecord
    BY <2>2 DEF FetcherRecord
  <2>4. QED
    BY <2>1, <2>3
<1>4. ASSUME NEW k \in fetcher.first .. m PROVE k \in failures \/ file'[k] = "whole"
  <2>1. CASE k = m
    BY <2>1
  <2>2. CASE k # m
    <3>1. k \in fetcher.first .. m - 1 /\ k \in Months
      BY <1>1, <1>2, <2>2, MonthsAssumption DEF FetcherRecord, Months
    <3>2. k \in fetcher.failures \/ file[k] = "whole"
      BY <1>1, <3>1 DEF FetchInv
    <3>3. QED
      BY <3>1, <3>2
  <2>3. QED
    BY <2>1, <2>2
<1>5. \A k \in fetcher'.first .. fetcher'.month - 1 :
         k \in fetcher'.failures \/ file'[k] = "whole"
  BY <1>2, <1>3, <1>4
<1>6. fetcher'.month \in fetcher'.first .. fetcher'.last + 1
  BY <1>1, <1>2, <1>3 DEF FetchInv
<1>7. fetcher'.month > fetcher'.last => fetcher'.pc = "exited"
  BY <1>2, <1>3
<1>8. fetcher'.pc = "exited" => fetcher'.month = fetcher'.last + 1
  BY <1>2, <1>3
<1>9. QED
  BY <1>3, <1>5, <1>6, <1>7, <1>8 DEF FetchInv

\* A step that changes no more than the attempt and whether a body comes in.
LEMMA SameMonth ==
    ASSUME FetchInv, NEW m \in Months, Fetching(m),
           NEW a \in Nat, NEW b \in BOOLEAN,
           fetcher' = [fetcher EXCEPT !.attempt = a, !.receiving = b], file' = file
    PROVE  FetchInv'
<1>1. fetcher \in FetcherRecord
  BY DEF FetchInv, Fetching
<1>2. /\ fetcher' \in FetcherRecord
      /\ fetcher'.pc = fetcher.pc /\ fetcher'.first = fetcher.first
      /\ fetcher'.month = fetcher.month /\ fetcher'.last = fetcher.last
      /\ fetcher'.failures = fetcher.failures
  BY <1>1 DEF FetcherRecord
<1>3. QED
  BY <1>2 DEF FetchInv, Fetching

LEMMA FetchNext == FilesInv /\ FetchInv /\ [Next]_vars => FetchInv'
<1> SUFFICES ASSUME FilesInv, FetchInv, [Next]_vars PROVE FetchInv'
  OBVIOUS
<1>0. FilesInv'
  BY FilesNext
<1>1. CASE StartFetch
  <2>1. PICK first \in Months, last \in Months :
            /\ first <= last
            /\ fetcher' = [pc |-> "running", first |-> first, month |-> first,
                           last |-> last, attempt |-> 1, receiving |-> FALSE,
                           failures |-> {}]
    BY <1>1 DEF StartFetch
  <2>2. first \in Nat /\ last \in Nat
    BY MonthsAssumption DEF Months
  <2>3. fetcher' \in FetcherRecord
    BY <2>1, <2>2 DEF FetcherRecord
  <2>4. /\ fetcher'.first = first /\ fetcher'.month = first
        /\ fetcher'.last = last /\ fetcher'.pc = "running"
    BY <2>1
  <2>5. QED
    BY <2>1, <2>2, <2>3, <2>4 DEF FetchInv
<1>2. ASSUME NEW m \in Months, Skip(m) PROVE FetchInv'
  <2>1. /\ Fetching(m) /\ file' = file /\ file[m] = "whole"
        /\ fetcher' = AfterMonth(fetcher.failures)
    BY <1>2 DEF Skip, Present, LooksLikeParquet, FilesInv, files
  <2>2. fetcher.failures \in SUBSET Months
    BY <2>1 DEF Fetching, FetchInv, FetcherRecord
  <2>3. QED
    BY <1>0, <2>1, <2>2, MonthPassed
<1>3. ASSUME NEW m \in Months, Receive(m) PROVE FetchInv'
  <2>1. /\ Fetching(m) /\ file' = file
        /\ fetcher' = [fetcher EXCEPT !.receiving = TRUE]
    BY <1>3 DEF Receive
  <2>2. /\ fetcher.attempt \in Nat
        /\ fetcher' = [fetcher EXCEPT !.attempt = fetcher.attempt, !.receiving = TRUE]
    BY <2>1 DEF Fetching, FetchInv, FetcherRecord
  <2>3. QED
    BY <2>1, <2>2, SameMonth
<1>4. ASSUME NEW m \in Months, Complete(m) PROVE FetchInv'
  <2>1. /\ Fetching(m) /\ file' = [file EXCEPT ![m] = "whole"]
        /\ fetcher' = AfterMonth(fetcher.failures)
    BY <1>4 DEF Complete
  <2>2. fetcher.failures \in SUBSET Months
    BY <2>1 DEF Fetching, FetchInv, FetcherRecord
  <2>3. file'[m] = "whole" /\ \A k \in Months : file[k] = "whole" => file'[k] = "whole"
    BY <2>1 DEF FilesInv
  <2>4. QED
    BY <1>0, <2>1, <2>2, <2>3, MonthPassed
<1>5. ASSUME NEW m \in Months, Fail(m) PROVE FetchInv'
  <2>1. Fetching(m) /\ file' = file /\ fetcher' = AttemptFailed
    BY <1>5 DEF Fail
  <2>2. /\ fetcher \in FetcherRecord /\ fetcher.month = m
        /\ fetcher.attempt \in Nat
        /\ fetcher.failures \cup {m} \in SUBSET Months
    BY <2>1 DEF Fetching, FetchInv, FetcherRecord
  <2>3. CASE fetcher.attempt < MaxAttempts
    <3>1. fetcher' = [fetcher EXCEPT !.attempt = fetcher.attempt + 1,
                                     !.receiving = FALSE]
      BY <2>1, <2>3 DEF AttemptFailed
    <3>2. fetcher.attempt + 1 \in Nat
      BY <2>2
    <3>3. QED
      BY <2>1, <3>1, <3>2, SameMonth
  <2>4. CASE ~(fetcher.attempt < MaxAttempts)
    <3>1. fetcher' = AfterMonth(fetcher.failures \cup {m})
      BY <2>1, <2>2, <2>4 DEF AttemptFailed
    <3>2. QED
      BY <1>0, <2>1, <2>2, <3>1, MonthPassed
  <2>5. QED
    BY <2>3, <2>4
<1>6. CASE KillFetch
  BY <1>6 DEF KillFetch, NoFetch, FetchInv
<1>7. CASE StartReplay \/ ReplaySteps \/ KillReplay
  <2>1. UNCHANGED <<fetcher, file>>
    BY <1>7 DEF StartReplay, ReplaySteps, OpenMonth, PostRow, FinishReplay,
                KillReplay, files
  <2>2. QED
    BY <2>1 DEF FetchInv
<1>8. CASE (\E m \in Months : BulkLoad(m)) \/ StreamToLake \/ Train
  <2>1. UNCHANGED <<fetcher, file>>
    BY <1>8 DEF BulkLoad, StreamToLake, Train, files
  <2>2. QED
    BY <2>1 DEF FetchInv
<1>9. CASE UNCHANGED vars
  BY <1>9 DEF vars, files, FetchInv
<1>10. QED
  BY <1>1, <1>2, <1>3, <1>4, <1>5, <1>6, <1>7, <1>8, <1>9 DEF Next, FetchSteps

\* A fetcher that exits with 0 leaves every month of its range behind, however
\* many attempts, kills and earlier fetchers there were (fetch.py:124-130).
THEOREM ExitCodeHolds == Spec => []ExitCodeIsTruth
<1>1. Init => FetchInv
  BY DEF Init, NoFetch, FetchInv
<1>2. FilesInv /\ FetchInv /\ [Next]_vars => FetchInv'
  BY FetchNext
<1>3. FetchInv => ExitCodeIsTruth
  <2>1. SUFFICES ASSUME FetchInv, fetcher.pc = "exited", fetcher.failures = {},
                        NEW m \in fetcher.first .. fetcher.last
                 PROVE  file[m] = "whole"
    BY DEF ExitCodeIsTruth
  <2>2. fetcher.first \in Nat /\ fetcher.last \in Nat /\ fetcher.month = fetcher.last + 1
    BY <2>1, MonthsAssumption DEF FetchInv, FetcherRecord, Months
  <2>3. m \in fetcher.first .. fetcher.month - 1
    BY <2>1, <2>2
  <2>4. QED
    BY <2>1, <2>3 DEF FetchInv
<1>4. QED
  BY <1>1, <1>2, <1>3, FilesInvariant, PTL DEF Spec

-----------------------------------------------------------------------------
(***************************************************************************)
(* The two adapters                                                        *)
(***************************************************************************)
\* What the gateway makes of a raw record, column by column, is what Spark makes
\* of it, but for a NaN in one of the late columns.
LEMMA ColumnsAgree ==
    ASSUME NEW raw \in RawRecord, NaNsAreLate(raw)
    PROVE  /\ \A c \in Columns \ LateAdded :
                /\ WithDefaults(CleanRow(raw))[c] = Resolve(raw)[c]
                /\ Resolve(raw)[c] \in Int \cup {Null}
           /\ \A c \in Columns :
                /\ OrZero(WithDefaults(CleanRow(raw))[c]) = Exact(Resolve(raw)[c])
                /\ Exact(Resolve(raw)[c]) \in Int
<1>1. ASSUME NEW c \in Columns
      PROVE  /\ raw[c] \in Int \/ raw[c] \in {Absent, Null, NaN}
             /\ Absent \notin Int /\ Null \notin Int /\ NaN \notin Int
             /\ Absent # Null /\ Absent # NaN /\ Null # NaN
             /\ c \notin LateAdded => raw[c] # NaN
  BY MarksAssumption DEF RawRecord, Values, NaNsAreLate
<1>2. ASSUME NEW c \in Columns
      PROVE  WithDefaults(CleanRow(raw))[c] =
                CASE raw[c] = Absent -> IF c \in DefaultZero THEN 0 ELSE Null
                  [] raw[c] = NaN -> Null
                  [] OTHER -> raw[c]
  BY <1>1 DEF WithDefaults, CleanRow
<1>3. ASSUME NEW c \in Columns
      PROVE  Resolve(raw)[c] =
                CASE raw[c] = Absent -> IF c \in DefaultZero THEN 0 ELSE Null
                  [] raw[c] = NaN /\ c \in IntColumns -> 0
                  [] OTHER -> raw[c]
  BY DEF Resolve
<1>4. \A c \in LateAdded : c \notin IntColumns /\ c \notin DefaultZero
  BY DEF LateAdded, IntColumns, Codes, DefaultZero
<1>5. ASSUME NEW c \in Columns, c \notin LateAdded
      PROVE  /\ WithDefaults(CleanRow(raw))[c] = Resolve(raw)[c]
             /\ Resolve(raw)[c] \in Int \cup {Null}
  BY <1>1, <1>2, <1>3, <1>5
<1>6. ASSUME NEW c \in Columns
      PROVE  /\ OrZero(WithDefaults(CleanRow(raw))[c]) = Exact(Resolve(raw)[c])
             /\ Exact(Resolve(raw)[c]) \in Int
  <2>1. CASE c \notin LateAdded
    BY <1>1, <1>5, <2>1 DEF OrZero, Exact
  <2>2. CASE c \in LateAdded
    BY <1>1, <1>2, <1>3, <1>4, <2>2 DEF OrZero, Exact
  <2>3. QED
    BY <2>1, <2>2
<1>7. QED
  BY <1>5, <1>6

\* Both adapters refuse the record, or both make the same event of it.
LEMMA AdaptersAgree ==
    ASSUME NEW raw \in RawRecord, NaNsAreLate(raw)
    PROVE  AdaptTlc(CleanRow(raw)) = AdaptTlcBatch(raw)
<1> DEFINE trip == WithDefaults(CleanRow(raw))
           batch == Resolve(raw)
           surcharges == Total([c \in Surcharges |-> OrZero(trip[c])])
           event == TripEvent([c \in Money |-> trip[c]], surcharges,
                              trip["trip_distance"], trip["passenger_count"],
                              PaymentType(trip["payment_type"]), trip["VendorID"])
<1>1. \A c \in Columns \ LateAdded : trip[c] = batch[c] /\ batch[c] \in Int \cup {Null}
  BY ColumnsAgree
<1>2. Null \notin Int /\ NaN \notin Int /\ Null # NaN
  BY MarksAssumption
<1>3. /\ Required \cup DefaultZero \cup Codes \subseteq Columns \ LateAdded
      /\ Money \subseteq Required \cup DefaultZero /\ Surcharges \subseteq Columns
      /\ "trip_distance" \in Required /\ "duration" \in Required /\ "VendorID" \in Required
      /\ "passenger_count" \in Codes /\ "payment_type" \in Codes
  BY DEF Columns, LateAdded, Required, DefaultZero, Codes, Money, Surcharges
<1>4. surcharges = BatchSurcharges(batch) /\ surcharges \in Int
  <2>1. \A c \in Surcharges : OrZero(trip[c]) = Exact(batch[c]) /\ Exact(batch[c]) \in Int
    BY <1>3, ColumnsAgree
  <2>2. [c \in Surcharges |-> OrZero(trip[c])] = [c \in Surcharges |-> Exact(batch[c])]
    BY <2>1
  <2>3. Total([c \in Surcharges |-> Exact(batch[c])]) \in Int
    BY <2>1 DEF Total, Surcharges, LateAdded
  <2>4. QED
    BY <2>2, <2>3 DEF BatchSurcharges
<1> HIDE DEF trip, batch, surcharges
<1>5. TripInputValid(trip) /\ TripEventValid(event, trip["duration"]) <=> ~Rejects(batch)
  <2>1. /\ event.amounts = [c \in Money |-> trip[c]] /\ event.surcharges = surcharges
        /\ event.passengers = trip["passenger_count"]
    BY DEF TripEvent
  <2>2. \A c \in Required \cup DefaultZero \cup Codes :
            trip[c] = batch[c] /\ (batch[c] \in Int \/ batch[c] = Null)
    BY <1>1, <1>3
  <2>3. \A v \in Int : BelowZero(v) <=> v < 0
    BY <1>2 DEF BelowZero
  <2>4. ~BelowZero(Null)
    BY DEF BelowZero
  <2>5. CASE \E c \in Required \cup DefaultZero : batch[c] = Null
    BY <2>2, <2>5 DEF Rejects, TripInputValid
  <2>6. CASE \A c \in Required \cup DefaultZero : batch[c] # Null
    <3>1. \A c \in Required \cup DefaultZero : batch[c] \in Int /\ trip[c] = batch[c]
      BY <2>2, <2>6
    <3>2. TripInputValid(trip) <=> batch["trip_distance"] >= 0
      BY <1>2, <1>3, <3>1 DEF TripInputValid
    <3>3. (\A c \in Money : event.amounts[c] >= 0) <=> ~\E c \in Money : BelowZero(batch[c])
      BY <1>3, <2>1, <2>3, <3>1
    <3>4. (event.passengers # Null => event.passengers >= 0)
            <=> ~BelowZero(batch["passenger_count"])
      BY <1>2, <1>3, <2>1, <2>2, <2>3, <2>4
    <3>5. BelowZero(batch["trip_distance"]) <=> ~(batch["trip_distance"] >= 0)
      BY <1>3, <2>3, <3>1
    <3>6. (batch["duration"] # Null /\ batch["duration"] <= 0) <=> ~(trip["duration"] > 0)
      BY <1>3, <2>6, <3>1
    <3>7. TripEventValid(event, trip["duration"]) <=>
            /\ ~\E c \in Money : BelowZero(batch[c])
            /\ ~(BatchSurcharges(batch) < 0)
            /\ ~BelowZero(batch["passenger_count"])
            /\ ~(batch["duration"] # Null /\ batch["duration"] <= 0)
      BY <1>4, <2>1, <3>3, <3>4, <3>6 DEF TripEventValid
    <3>8. QED
      BY <2>6, <3>2, <3>5, <3>7 DEF Rejects
  <2>7. QED
    BY <2>5, <2>6
<1>6. event = TripEvent([c \in Money |-> IF batch[c] = NaN THEN Null ELSE batch[c]],
                        BatchSurcharges(batch), batch["trip_distance"],
                        batch["passenger_count"], PaymentType(batch["payment_type"]),
                        batch["VendorID"])
  <2>1. \A c \in Money : batch[c] # NaN /\ trip[c] = batch[c]
    BY <1>1, <1>2, <1>3
  <2>2. [c \in Money |-> trip[c]] = [c \in Money |-> IF batch[c] = NaN THEN Null ELSE batch[c]]
    BY <2>1
  <2>3. /\ trip["trip_distance"] = batch["trip_distance"]
        /\ trip["passenger_count"] = batch["passenger_count"]
        /\ trip["payment_type"] = batch["payment_type"] /\ trip["VendorID"] = batch["VendorID"]
    BY <1>1, <1>3
  <2>4. QED
    BY <1>4, <2>2, <2>3
<1>7. AdaptTlc(CleanRow(raw)) =
        IF TripInputValid(trip) /\ TripEventValid(event, trip["duration"])
        THEN event ELSE Rejected
  BY DEF AdaptTlc, trip, surcharges
<1>8. AdaptTlcBatch(raw) =
        IF Rejects(batch) THEN Rejected
        ELSE TripEvent([c \in Money |-> IF batch[c] = NaN THEN Null ELSE batch[c]],
                       BatchSurcharges(batch), batch["trip_distance"],
                       batch["passenger_count"], PaymentType(batch["payment_type"]),
                       batch["VendorID"])
  BY DEF AdaptTlcBatch, batch
<1> HIDE DEF event
<1>9. QED
  BY <1>5, <1>6, <1>7, <1>8
-----------------------------------------------------------------------------
(***************************************************************************)
(* Calendar and files                                                      *)
(***************************************************************************)
\* The publisher's files never change.
LEMMA PublishedStays ==
    [Next]_vars => published' = published
  BY DEF Next, StartFetch, FetchSteps, Skip, Receive, Complete, Fail, KillFetch,
         StartReplay, ReplaySteps, OpenMonth, PostRow, FinishReplay, KillReplay,
         BulkLoad, StreamToLake, Train, files, vars

\* Nor do the rows in them, and what they hold.
LEMMA RowsStay ==
    ASSUME published' = published
    PROVE  /\ \A m : RowsOf(m)' = RowsOf(m)
           /\ AllRows' = AllRows
           /\ \A r : Time(r)' = Time(r) /\ Raw(r)' = Raw(r)
           /\ \A r : InItsMonth(r)' = InItsMonth(r)
           /\ \A months, start : Wanted(months, start)' = Wanted(months, start)
           /\ \A rows, r : Place(rows, r)' = Place(rows, r)
           /\ \A rows : SortByPickup(rows)' = SortByPickup(rows)
  BY DEF RowsOf, AllRows, Time, Raw, InItsMonth, Wanted, FromStart, Place, Before, SortByPickup

\* What a row is.
LEMMA RowFacts ==
    ASSUME published \in Editions, NEW m \in Months, NEW r \in RowsOf(m)
    PROVE  /\ r[1] = m /\ r[2] \in Nat /\ r = <<m, r[2]>> /\ r \in AllRows
           /\ Time(r) \in Int /\ Raw(r) \in RawRecord
<1>1. published[m] \in Seq([time : Int, raw : RawRecord])
  BY EditionsAssumption
<1>2. PICK i \in DOMAIN published[m] : r = <<m, i>>
  BY DEF RowsOf
<1>3. i \in Nat /\ published[m][i] \in [time : Int, raw : RawRecord]
  <2>1. DOMAIN published[m] = 1 .. Len(published[m]) /\ Len(published[m]) \in Nat
    BY <1>1
  <2>2. i \in 1 .. Len(published[m])
    BY <1>2, <2>1
  <2>3. i \in Nat
    BY <2>1, <2>2
  <2>4. published[m][i] \in [time : Int, raw : RawRecord]
    BY <1>1, <2>2, ElementOfSeq
  <2>5. QED
    BY <2>3, <2>4
<1>4. r[1] = m /\ r[2] = i
  BY <1>2
<1>5. Time(r) = published[m][i].time /\ Raw(r) = published[m][i].raw
  BY <1>4 DEF Time, Raw
<1>6. QED
  BY <1>2, <1>3, <1>4, <1>5 DEF AllRows

\* Every row is a row of its month.
LEMMA RowsHaveMonths ==
    ASSUME published \in Editions, NEW r \in AllRows
    PROVE  r[1] \in Months /\ r \in RowsOf(r[1])
  BY RowFacts DEF AllRows

\* A file has finitely many rows, and so have the files of some months.
LEMMA RowsAreFinite ==
    ASSUME published \in Editions, NEW D \in SUBSET Months, NEW start
    PROVE  IsFiniteSet(Wanted(D, start))
<1>1. ASSUME NEW m \in Months
      PROVE  IsFiniteSet(RowsOf(m))
  <2> DEFINE f == [i \in DOMAIN published[m] |-> <<m, i>>]
  <2>1. published[m] \in Seq([time : Int, raw : RawRecord])
    BY EditionsAssumption
  <2>2. DOMAIN published[m] = 1 .. Len(published[m]) /\ Len(published[m]) \in Nat
    BY <2>1
  <2>3. IsFiniteSet(DOMAIN published[m])
    BY <2>2, FS_Interval
  <2>4. f \in Surjection(DOMAIN published[m], RowsOf(m))
    BY DEF RowsOf, Surjection
  <2>5. QED
    BY <2>3, <2>4, FS_Surjection
<1> DEFINE some == {RowsOf(m) : m \in D}
           g == [m \in D |-> RowsOf(m)]
<1>2. IsFiniteSet(Months)
  BY FS_Interval, MonthsAssumption DEF Months
<1>3. IsFiniteSet(D)
  BY <1>2, FS_Subset
<1>4. g \in Surjection(D, some)
  BY DEF Surjection
<1>5. IsFiniteSet(some)
  BY <1>3, <1>4, FS_Surjection
<1>6. \A T \in some : IsFiniteSet(T)
  BY <1>1
<1>7. IsFiniteSet(UNION some)
  BY <1>5, <1>6, FS_UNION
<1>8. Wanted(D, start) \in SUBSET UNION some
  BY DEF Wanted
<1>9. QED
  BY <1>7, <1>8, FS_Subset

\* A time is in its month.
LEMMA MonthHolds ==
    ASSUME NEW t \in Int, NEW m \in Int, MonthOf(t) = m
    PROVE  Start(m) \in Int /\ Start(m) <= t /\ t < Start(m) + MonthLength
<1>1. MonthLength \in Nat /\ MonthLength > 0
  BY MonthsAssumption
<1>2. t \div MonthLength = m - 1
  BY <1>1 DEF MonthOf
<1>3. /\ t % MonthLength \in 0 .. MonthLength - 1
      /\ t = (MonthLength * (t \div MonthLength)) + (t % MonthLength)
  BY <1>1
<1>4. (m - 1) * MonthLength \in Int /\ MonthLength * (m - 1) = (m - 1) * MonthLength
  BY <1>1
<1>5. QED
  BY <1>1, <1>2, <1>3, <1>4 DEF Start

\* A month ends before a later one begins.
LEMMA MonthsInOrder ==
    ASSUME NEW m \in Int, NEW n \in Int, m < n
    PROVE  Start(m) + MonthLength <= Start(n)
<1>1. MonthLength \in Nat
  BY MonthsAssumption
<1>2. PICK k \in Nat : n = m + 1 + k
  <2>1. n - m - 1 \in Nat /\ n = m + 1 + (n - m - 1)
    OBVIOUS
  <2>2. QED
    BY <2>1
<1>3. n - 1 = (m - 1) + 1 + k
  BY <1>2
<1>4. ((m - 1) + 1 + k) * MonthLength = ((m - 1) * MonthLength) + MonthLength + (k * MonthLength)
  BY <1>1
<1>5. k * MonthLength \in Nat /\ (m - 1) * MonthLength \in Int
  BY <1>1
<1>6. Start(n) = Start(m) + MonthLength + (k * MonthLength)
  BY <1>3, <1>4 DEF Start
<1>7. Start(m) \in Int
  BY <1>5 DEF Start
<1>8. QED
  BY <1>1, <1>5, <1>6, <1>7

LEMMA CutoffIsAnInstant == Cutoff \in Int
<1>1. \A m \in Months : m \in Int
  BY MonthsAssumption DEF Months
<1>2. QED
  BY <1>1, MonthsAssumption, CutoffEndsAMonth DEF Start

\* The trained months are those of the times up to the cutoff.
LEMMA TrainedIsHistory ==
    ASSUME NEW t \in Int, MonthOf(t) \in Months
    PROVE  MonthOf(t) \in TrainedMonths <=> t <= Cutoff
<1> DEFINE m == MonthOf(t)
<1>1. PICK k \in Months : Cutoff = Start(k) + MonthLength - 1
  BY CutoffEndsAMonth
<1>2. m \in Int /\ k \in Int /\ MonthLength \in Nat /\ MonthLength > 0
  BY MonthsAssumption DEF Months
<1> HIDE DEF m
<1>3. Start(m) \in Int /\ Start(m) <= t /\ t < Start(m) + MonthLength
  BY <1>2, MonthHolds DEF m
<1>4. Start(k) \in Int
  BY <1>2 DEF Start
<1>5. CASE m <= k
  <2>1. Start(m) <= Start(k)
    BY <1>2, <1>3, <1>4, <1>5, MonthsInOrder
  <2>2. t <= Cutoff /\ Start(m) <= Cutoff
    BY <1>1, <1>2, <1>3, <1>4, <2>1
  <2>3. QED
    BY <2>2 DEF TrainedMonths, m
<1>6. CASE k < m
  <2>1. Start(k) + MonthLength <= Start(m)
    BY <1>2, <1>6, MonthsInOrder
  <2>2. ~(t <= Cutoff) /\ ~(Start(m) <= Cutoff)
    BY <1>1, <1>2, <1>3, <1>4, <2>1
  <2>3. QED
    BY <2>2 DEF TrainedMonths, m
<1>7. QED
  BY <1>2, <1>5, <1>6

\* What the publisher published stays so.
EditionsInv == published \in Editions

\* Both adapters make the same of every row of every file, whatever stands in it,
\* NaNs outside the two late columns aside (test_adapter_conformance.py checks
\* this on a sample): they refuse the row, or make the same event of it.
THEOREM PathsAlwaysAgree == Spec => []PathsAgree
<1>1. Init => EditionsInv
  BY DEF Init, EditionsInv
<1>2. EditionsInv /\ [Next]_vars => EditionsInv'
  BY PublishedStays DEF EditionsInv
<1>3. EditionsInv => PathsAgree
  BY AdaptersAgree, RowsHaveMonths, RowFacts DEF EditionsInv, PathsAgree
<1>4. QED
  BY <1>1, <1>2, <1>3, PTL DEF Spec
-----------------------------------------------------------------------------
(***************************************************************************)
(* Sorting                                                                 *)
(***************************************************************************)
\* Rows that are no strays.
Sound(S) == /\ S \subseteq AllRows /\ IsFiniteSet(S)
            /\ \A r \in S : InItsMonth(r)

LEMMA WantedIsSound ==
    ASSUME published \in Editions, NEW D \in SUBSET Months, NEW start
    PROVE  Sound(Wanted(D, start))
<1>1. Wanted(D, start) \subseteq AllRows
  BY DEF Wanted, AllRows
<1>2. QED
  BY <1>1, RowsAreFinite DEF Wanted, Sound

\* The order of pickup times, and of places within a file where they are equal,
\* is strict and total on them.
LEMMA BeforeIsOrder ==
    ASSUME published \in Editions, NEW r \in AllRows, NEW q \in AllRows, NEW p \in AllRows,
           InItsMonth(r), InItsMonth(q), InItsMonth(p)
    PROVE  /\ ~Before(r, r)
           /\ r = q \/ Before(r, q) \/ Before(q, r)
           /\ Before(r, q) /\ Before(q, p) => Before(r, p)
<1>1. ASSUME NEW x \in AllRows
      PROVE  Time(x) \in Int /\ x[2] \in Nat /\ x = <<x[1], x[2]>>
  BY RowsHaveMonths, RowFacts
<1>2. Time(r) = Time(q) => r[1] = q[1]
  BY DEF InItsMonth
<1>3. r[1] = q[1] /\ r[2] = q[2] => r = q
  BY <1>1
<1>4. ~Before(r, r)
  BY <1>1 DEF Before
<1>5. r = q \/ Before(r, q) \/ Before(q, r)
  BY <1>1, <1>2, <1>3 DEF Before
<1>6. Before(r, q) /\ Before(q, p) => Before(r, p)
  BY <1>1 DEF Before
<1>7. QED
  BY <1>4, <1>5, <1>6

\* Places run from 1 to the number of rows, and go up with the order.
LEMMA PlacesGoUp ==
    ASSUME published \in Editions, NEW S, Sound(S), NEW r \in S
    PROVE  /\ Cardinality(S) \in Nat
           /\ Place(S, r) \in 1 .. Cardinality(S)
           /\ \A q \in S : Before(q, r) => Place(S, q) < Place(S, r)
<1> DEFINE Earlier(x) == {q \in S : Before(q, x)}
<1>1. ASSUME NEW x \in S
      PROVE  /\ Earlier(x) \in SUBSET S /\ IsFiniteSet(Earlier(x))
             /\ Cardinality(Earlier(x)) \in Nat
             /\ Place(S, x) = Cardinality(Earlier(x)) + 1
  <2>1. Earlier(x) \in SUBSET S
    OBVIOUS
  <2>2. IsFiniteSet(Earlier(x))
    BY <2>1, FS_Subset DEF Sound
  <2>3. Cardinality(Earlier(x)) \in Nat
    BY <2>2, FS_CardinalityType
  <2>4. QED
    BY <2>1, <2>2, <2>3 DEF Place
<1>2. Cardinality(S) \in Nat
  BY FS_CardinalityType DEF Sound
<1>3. r \notin Earlier(r)
  BY BeforeIsOrder DEF Sound
<1>4. Cardinality(Earlier(r)) < Cardinality(S)
  <2>1. Earlier(r) # S
    BY <1>3
  <2>2. Cardinality(Earlier(r)) <= Cardinality(S) /\ Cardinality(Earlier(r)) # Cardinality(S)
    BY <1>1, <2>1, FS_Subset DEF Sound
  <2>3. QED
    BY <1>1, <1>2, <2>2
<1>5. ASSUME NEW q \in S, Before(q, r)
      PROVE  Place(S, q) < Place(S, r)
  <2>1. Earlier(q) \in SUBSET Earlier(r)
    BY <1>5, BeforeIsOrder DEF Sound
  <2>2. q \in Earlier(r) /\ q \notin Earlier(q)
    BY <1>5, BeforeIsOrder DEF Sound
  <2>3. Earlier(q) # Earlier(r)
    BY <2>2
  <2>4. IsFiniteSet(Earlier(r))
    BY <1>1
  <2> HIDE DEF Earlier
  <2>5. /\ Cardinality(Earlier(q)) <= Cardinality(Earlier(r))
        /\ Cardinality(Earlier(q)) # Cardinality(Earlier(r))
    BY <2>1, <2>3, <2>4, FS_Subset
  <2>6. QED
    BY <1>1, <2>5
<1>6. Place(S, r) \in 1 .. Cardinality(S)
  <2>1. Place(S, r) = Cardinality(Earlier(r)) + 1 /\ Cardinality(Earlier(r)) \in Nat
    BY <1>1
  <2> HIDE DEF Earlier
  <2>2. QED
    BY <1>2, <1>4, <2>1
<1>7. QED
  BY <1>2, <1>5, <1>6

\* No two rows have one place, and every place has a row: the sorted file.
LEMMA SortIsSorted ==
    ASSUME published \in Editions, NEW S, Sound(S)
    PROVE  /\ Cardinality(S) \in Nat
           /\ \A r, q \in S : Place(S, r) = Place(S, q) => r = q
           /\ SortByPickup(S) \in Seq(S) /\ Len(SortByPickup(S)) = Cardinality(S)
           /\ \A i \in 1 .. Cardinality(S) :
                SortByPickup(S)[i] \in S /\ Place(S, SortByPickup(S)[i]) = i
<1> DEFINE n == Cardinality(S)
           f == [r \in S |-> Place(S, r)]
<1>1. n \in Nat
  BY FS_CardinalityType DEF Sound
<1>2. \A r, q \in S : Place(S, r) = Place(S, q) => r = q
  <2>1. SUFFICES ASSUME NEW r \in S, NEW q \in S, Place(S, r) = Place(S, q), r # q
                 PROVE  FALSE
    OBVIOUS
  <2>2. Before(r, q) \/ Before(q, r)
    BY <2>1, BeforeIsOrder DEF Sound
  <2>3. Place(S, r) < Place(S, q) \/ Place(S, q) < Place(S, r)
    BY <2>2, PlacesGoUp
  <2>4. Place(S, r) \in 1 .. n /\ Place(S, q) \in 1 .. n
    BY PlacesGoUp
  <2>5. QED
    BY <1>1, <2>1, <2>3, <2>4
<1>3. f \in [S -> 1 .. n]
  BY PlacesGoUp
<1>4. f \in Injection(S, 1 .. n)
  BY <1>2, <1>3 DEF Injection, IsInjective
<1>5. IsFiniteSet(1 .. n) /\ Cardinality(1 .. n) = n
  <2>1. Cardinality(1 .. n) = IF 1 > n THEN 0 ELSE n - 1 + 1
    BY <1>1, FS_Interval
  <2>2. QED
    BY <1>1, <2>1, FS_Interval
<1>6. f \in Surjection(S, 1 .. n)
  BY <1>4, <1>5, FS_Injection
<1>7. ASSUME NEW i \in 1 .. n
      PROVE  SortByPickup(S)[i] \in S /\ Place(S, SortByPickup(S)[i]) = i
  <2>1. \E r \in S : Place(S, r) = i
    BY <1>6 DEF Surjection
  <2>2. SortByPickup(S)[i] = CHOOSE r \in S : Place(S, r) = i
    BY DEF SortByPickup
  <2>3. QED
    BY <2>1, <2>2
<1>8. SortByPickup(S) \in [1 .. n -> S]
  BY <1>7 DEF SortByPickup
<1>9. SortByPickup(S) \in Seq(S) /\ Len(SortByPickup(S)) = n
  <2>1. SortByPickup(S) \in Seq(S)
    BY <1>1, <1>8
  <2>2. DOMAIN SortByPickup(S) = 1 .. n
    BY DEF SortByPickup
  <2>3. QED
    BY <1>1, <2>1, <2>2, LenProperties
<1>10. QED
  BY <1>1, <1>2, <1>7, <1>9

Precede(S, T) == \A r \in S, q \in T : Time(r) < Time(q)

\* Rows that are all earlier than others keep their places when those are added,
\* and those come behind them, in their order.
LEMMA LaterRowsFollow ==
    ASSUME published \in Editions, NEW S, Sound(S), NEW T, Sound(T), Precede(S, T)
    PROVE  /\ Sound(S \cup T) /\ Cardinality(S \cup T) = Cardinality(S) + Cardinality(T)
           /\ Cardinality(S) \in Nat /\ Cardinality(T) \in Nat
           /\ \A r \in S : Place(S \cup T, r) = Place(S, r)
           /\ \A q \in T : Place(S \cup T, q) = Cardinality(S) + Place(T, q)
<1>1. \A r \in S \cup T : Time(r) \in Int
  BY RowsHaveMonths, RowFacts DEF Sound
<1>2. S \cap T = {}
  BY <1>1 DEF Precede
<1>3. /\ IsFiniteSet(S \cup T)
      /\ Cardinality(S \cup T) = Cardinality(S) + Cardinality(T) - Cardinality(S \cap T)
  BY FS_Union DEF Sound
<1>4. Cardinality(S) \in Nat /\ Cardinality(T) \in Nat
  BY FS_CardinalityType DEF Sound
<1>5. Cardinality(S \cap T) = 0
  BY <1>2, FS_EmptySet
<1>6. \A r \in S, q \in T : Before(r, q) /\ ~Before(q, r)
  BY <1>1 DEF Before, Precede
<1>7. ASSUME NEW r \in S
      PROVE  Place(S \cup T, r) = Place(S, r)
  <2>1. {q \in S \cup T : Before(q, r)} = {q \in S : Before(q, r)}
    BY <1>6
  <2>2. QED
    BY <2>1 DEF Place
<1>8. ASSUME NEW q \in T
      PROVE  Place(S \cup T, q) = Cardinality(S) + Place(T, q)
  <2> DEFINE A == {p \in T : Before(p, q)}
  <2>1. {p \in S \cup T : Before(p, q)} = S \cup A
    BY <1>6
  <2>2. A \in SUBSET T /\ S \cap A = {}
    BY <1>2
  <2>3. IsFiniteSet(A)
    BY <2>2, FS_Subset DEF Sound
  <2>4. Cardinality(S \cap A) = 0
    BY <2>2, FS_EmptySet
  <2>5. Place(T, q) = Cardinality(A) + 1
    BY DEF Place
  <2>6. Place(S \cup T, q) = Cardinality(S \cup A) + 1
    BY <2>1 DEF Place
  <2> HIDE DEF A
  <2>7. Cardinality(S \cup A) = Cardinality(S) + Cardinality(A) - Cardinality(S \cap A)
    BY <2>3, FS_Union DEF Sound
  <2>8. Cardinality(A) \in Nat
    BY <2>3, FS_CardinalityType
  <2>9. QED
    BY <1>4, <2>4, <2>5, <2>6, <2>7, <2>8
<1>9. Sound(S \cup T)
  BY <1>3 DEF Sound
<1>10. Cardinality(S \cup T) = Cardinality(S) + Cardinality(T)
  BY <1>3, <1>4, <1>5
<1>11. QED
  BY <1>4, <1>7, <1>8, <1>9, <1>10

\* The wanted rows of a month are later than those of the months before it.
LEMMA MonthsFollow ==
    ASSUME published \in Editions, NEW D \in SUBSET Months, NEW E \in SUBSET Months,
           \A m \in D, n \in E : m < n, NEW start
    PROVE  /\ Wanted(D \cup E, start) = Wanted(D, start) \cup Wanted(E, start)
           /\ Precede(Wanted(D, start), Wanted(E, start))
<1>1. Wanted(D \cup E, start) = Wanted(D, start) \cup Wanted(E, start)
  BY DEF Wanted
<1>2. ASSUME NEW F \in SUBSET Months, NEW r \in Wanted(F, start)
      PROVE  r[1] \in F /\ Time(r) \in Int /\ MonthOf(Time(r)) = r[1]
  <2>1. PICK m \in F : r \in RowsOf(m)
    BY <1>2 DEF Wanted
  <2>2. QED
    BY <1>2, <2>1, RowFacts DEF Wanted, InItsMonth
<1>3. ASSUME NEW r \in Wanted(D, start), NEW q \in Wanted(E, start)
      PROVE  Time(r) < Time(q)
  <2>1. r[1] \in D /\ Time(r) \in Int /\ MonthOf(Time(r)) = r[1]
    BY <1>2
  <2>2. q[1] \in E /\ Time(q) \in Int /\ MonthOf(Time(q)) = q[1]
    BY <1>2
  <2>3. r[1] \in Int /\ q[1] \in Int /\ r[1] < q[1] /\ MonthLength \in Nat
    <3>1. r[1] < q[1]
      BY <2>1, <2>2
    <3>2. Months \subseteq Int
      BY MonthsAssumption DEF Months
    <3>3. r[1] \in Int /\ q[1] \in Int
      BY <2>1, <2>2, <3>2
    <3>4. QED
      BY <3>1, <3>3, MonthsAssumption
  <2>4. Time(r) \in Int /\ Time(r) < Start(r[1]) + MonthLength /\ Start(r[1]) \in Int
    BY <2>1, <2>3, MonthHolds
  <2>5. Time(q) \in Int /\ Start(q[1]) <= Time(q) /\ Start(q[1]) \in Int
    BY <2>2, <2>3, MonthHolds
  <2>6. Start(r[1]) + MonthLength <= Start(q[1])
    BY <2>3, MonthsInOrder
  <2>7. QED
    BY <2>3, <2>4, <2>5, <2>6
<1>4. QED
  BY <1>1, <1>3 DEF Precede

-----------------------------------------------------------------------------
(***************************************************************************)
(* The replay.  What it has sent and what it holds of the month it is in   *)
(* are the first rows, in pickup order, of all the months it has opened;   *)
(* they are all of them unless the limit cut them off; and no month it has *)
(* yet to open is earlier than one it has.                                 *)
(***************************************************************************)
Run == [pc : {"running", "done"}, start : Int \cup {Null}, limit : Nat \cup {Null},
        found : SUBSET Months, todo : SUBSET Months,
        rows : Seq(AllRows), emitted : Seq(AllRows)]

InPlace(W, sent) ==
    /\ Len(sent) <= Cardinality(W)
    /\ \A i \in 1 .. Len(sent) : sent[i] \in W /\ Place(W, sent[i]) = i

Cut(W, sent, limit) ==
    /\ limit = Null => Len(sent) = Cardinality(W)
    /\ limit # Null => Len(sent) <= limit /\ (Len(sent) = Cardinality(W) \/ Len(sent) = limit)

InOrder(run) ==
    /\ run.todo \subseteq run.found
    /\ \A m \in run.found \ run.todo, n \in run.todo : m < n
    /\ LET W == Wanted(run.found \ run.todo, run.start)
           sent == run.emitted \o run.rows
       IN  InPlace(W, sent) /\ Cut(W, sent, run.limit)
    /\ run.pc = "done" =>
        /\ run.rows = <<>>
        /\ run.todo = {} \/ (run.limit # Null /\ Len(run.emitted) >= run.limit)

ReplayInv == replay = NoReplay \/ (replay \in Run /\ InOrder(replay))

\* What a run is does not depend on the state but for the files.
LEMMA RunsStay ==
    ASSUME published' = published, replay' = NoReplay \/ (replay' \in Run /\ InOrder(replay'))
    PROVE  ReplayInv'
<1>1. /\ AllRows' = AllRows
      /\ \A months, start : Wanted(months, start)' = Wanted(months, start)
      /\ \A rows, r : Place(rows, r)' = Place(rows, r)
  BY RowsStay
<1>2. QED
  BY <1>1 DEF ReplayInv, Run, InOrder, InPlace, Cut, NoReplay

\* Moving the head of one sequence to the end of another.
LEMMA HeadMoves ==
    ASSUME NEW S, NEW s \in Seq(S), NEW t \in Seq(S), t # <<>>
    PROVE  /\ Append(s, Head(t)) \in Seq(S) /\ Tail(t) \in Seq(S)
           /\ Append(s, Head(t)) \o Tail(t) = s \o t
<1>1. Head(t) \in S /\ Tail(t) \in Seq(S)
  BY HeadTailProperties
<1>2. Append(s, Head(t)) \in Seq(S) /\ Append(s, Head(t)) = s \o <<Head(t)>>
  BY <1>1, AppendProperties, AppendIsConcat
<1>3. <<Head(t)>> \in Seq(S)
  BY <1>1
<1>4. <<Head(t)>> \o Tail(t) = t
  <2>1. Len(t) \in Nat \ {0}
    BY EmptySeq
  <2>2. /\ SubSeq(t, 1, Len(t)) = <<t[1]>> \o SubSeq(t, 2, Len(t))
        /\ SubSeq(t, 1, Len(t)) = t
        /\ Tail(t) = SubSeq(t, 2, Len(t))
    <3>1. 1 \in 1 .. Len(t) /\ Len(t) \in 1 .. Len(t)
      BY <2>1
    <3>2. SubSeq(t, 1, Len(t)) = <<t[1]>> \o SubSeq(t, 1 + 1, Len(t))
      BY <3>1, SubSeqRecursiveFirst
    <3>3. QED
      BY <3>2, SubSeqFull, TailIsSubSeq
  <2>3. Head(t) = t[1]
    OBVIOUS
  <2>4. QED
    BY <2>2, <2>3
<1>5. (s \o <<Head(t)>>) \o Tail(t) = s \o (<<Head(t)>> \o Tail(t))
  BY <1>1, <1>3, ConcatAssociative
<1>6. QED
  BY <1>1, <1>2, <1>4, <1>5

\* The first n rows of a sorted file, in Slice's words.
LEMMA Beginning ==
    ASSUME NEW S, NEW s \in Seq(S), NEW n \in 0 .. Len(s)
    PROVE  /\ SubSeq(s, 1, n) \in Seq(S) /\ Len(SubSeq(s, 1, n)) = n
           /\ \A i \in 1 .. n : SubSeq(s, 1, n)[i] = s[i]
<1>1. Len(s) \in Nat /\ \A i \in 1 .. Len(s) : s[i] \in S
  BY LenProperties, ElementOfSeq
<1>2. n \in Int /\ \A i \in 1 .. n : s[i] \in S
  BY <1>1
<1>3. /\ SubSeq(s, 1, n) \in Seq(S)
      /\ Len(SubSeq(s, 1, n)) = IF 1 <= n THEN n - 1 + 1 ELSE 0
      /\ \A i \in 1 .. n - 1 + 1 : SubSeq(s, 1, n)[i] = s[1 + i - 1]
  BY <1>2, SubSeqProperties
<1>4. QED
  BY <1>1, <1>3

\* A month that is later than all the opened ones: its first rows continue them.
LEMMA NextMonth ==
    ASSUME published \in Editions, NEW W, Sound(W), NEW V, Sound(V),
           Precede(W, V), NEW sent \in Seq(AllRows), InPlace(W, sent), Len(sent) = Cardinality(W),
           NEW n \in 0 .. Cardinality(V)
    PROVE  LET rows == SubSeq(SortByPickup(V), 1, n)
           IN  /\ rows \in Seq(AllRows) /\ Len(sent \o rows) = Len(sent) + n
               /\ InPlace(W \cup V, sent \o rows)
               /\ Cardinality(W \cup V) = Len(sent) + Cardinality(V)
<1> DEFINE sorted == SortByPickup(V)
           rows == SubSeq(sorted, 1, n)
<1>1. /\ Cardinality(V) \in Nat /\ sorted \in Seq(V) /\ Len(sorted) = Cardinality(V)
      /\ \A i \in 1 .. Cardinality(V) : sorted[i] \in V /\ Place(V, sorted[i]) = i
  BY SortIsSorted
<1>2. /\ Cardinality(W \cup V) = Cardinality(W) + Cardinality(V) /\ Cardinality(W) \in Nat
      /\ \A r \in W : Place(W \cup V, r) = Place(W, r)
      /\ \A q \in V : Place(W \cup V, q) = Cardinality(W) + Place(V, q)
  BY LaterRowsFollow
<1> HIDE DEF sorted
<1>3. /\ rows \in Seq(V) /\ Len(rows) = n
      /\ \A i \in 1 .. n : rows[i] = sorted[i]
  BY <1>1, Beginning
<1> HIDE DEF rows
<1>4. rows \in Seq(AllRows)
  BY <1>3, SeqMonotonic DEF Sound
<1>5. /\ Len(sent \o rows) = Len(sent) + n /\ Len(sent) \in Nat
      /\ \A i \in 1 .. Len(sent) + n :
            (sent \o rows)[i] = IF i <= Len(sent) THEN sent[i] ELSE rows[i - Len(sent)]
  BY <1>3, <1>4, ConcatProperties, LenProperties
<1>6. ASSUME NEW i \in 1 .. Len(sent) + n
      PROVE  (sent \o rows)[i] \in W \cup V /\ Place(W \cup V, (sent \o rows)[i]) = i
  <2>1. CASE i <= Len(sent)
    <3>1. (sent \o rows)[i] = sent[i] /\ i \in 1 .. Len(sent)
      BY <1>5, <2>1
    <3>2. sent[i] \in W /\ Place(W, sent[i]) = i
      BY <3>1 DEF InPlace
    <3>3. QED
      BY <1>2, <3>1, <3>2
  <2>2. CASE ~(i <= Len(sent))
    <3> DEFINE j == i - Len(sent)
    <3>1. j \in 1 .. n /\ j \in 1 .. Cardinality(V)
      BY <1>1, <1>5, <2>2
    <3>2. (sent \o rows)[i] = sorted[j]
      BY <1>3, <1>5, <2>2, <3>1
    <3>3. sorted[j] \in V /\ Place(V, sorted[j]) = j
      BY <1>1, <3>1
    <3>4. Place(W \cup V, sorted[j]) = Cardinality(W) + j
      BY <1>2, <3>3
    <3>5. Cardinality(W) + j = i
      BY <1>5
    <3>6. QED
      BY <3>2, <3>3, <3>4, <3>5
  <2>3. QED
    BY <2>1, <2>2
<1>7. InPlace(W \cup V, sent \o rows)
  <2>1. Len(sent) + n <= Cardinality(W \cup V)
    BY <1>1, <1>2
  <2>2. QED
    BY <1>5, <1>6, <2>1 DEF InPlace
<1>8. QED
  BY <1>2, <1>4, <1>5, <1>7 DEF rows, sorted

\* The minimum of naturals is one of them: the next month, and the rows left.
LEMMA MinOfNaturals ==
    ASSUME NEW S \in SUBSET Nat, S # {}
    PROVE  Min(S) \in S /\ \A x \in S : Min(S) <= x
<1>1. PICK x \in S : \A y \in S : <<y, x>> \notin OpToRel(<, Nat)
  BY WFMin, NatLessThanWellFounded, Zenon
<1>2. \A y \in S : ~(y < x)
  BY <1>1, Zenon DEF OpToRel
<1>3. \A y \in S : x <= y
  BY <1>2
<1>4. QED
  BY <1>3 DEF Min

\* Slice takes the first rows, and all of them unless the limit is reached.
LEMMA SliceTakes ==
    ASSUME replay.limit \in Nat \cup {Null}, Len(replay.emitted) \in Nat,
           ~Enough(replay.emitted), NEW S, NEW s \in Seq(S)
    PROVE  \E n \in 0 .. Len(s) :
             /\ Slice(s) = SubSeq(s, 1, n)
             /\ replay.limit = Null => n = Len(s)
             /\ replay.limit # Null =>
                    /\ Len(replay.emitted) + n <= replay.limit
                    /\ n = Len(s) \/ Len(replay.emitted) + n = replay.limit
<1>1. Len(s) \in Nat
  BY LenProperties
<1>2. CASE replay.limit = Null
  <2>1. Slice(s) = SubSeq(s, 1, Len(s))
    BY <1>2, SubSeqFull DEF Slice
  <2>2. QED
    BY <1>1, <1>2, <2>1
<1>3. CASE replay.limit # Null
  <2> DEFINE left == replay.limit - Len(replay.emitted)
             n == Min({Len(s), left})
  <2>1. replay.limit \in Nat /\ left \in Nat
    BY <1>3 DEF Enough
  <2>2. n \in {Len(s), left} /\ n <= Len(s) /\ n <= left
    <3>1. {Len(s), left} \in SUBSET Nat /\ {Len(s), left} # {}
      BY <1>1, <2>1
    <3>2. QED
      BY <3>1, MinOfNaturals
  <2>3. Slice(s) = SubSeq(s, 1, n)
    BY <1>3 DEF Slice
  <2> HIDE DEF n
  <2>4. n \in 0 .. Len(s)
    BY <1>1, <2>1, <2>2
  <2>5. Len(replay.emitted) + n <= replay.limit
    BY <1>1, <2>1, <2>2, <2>4
  <2>6. n = Len(s) \/ Len(replay.emitted) + n = replay.limit
    BY <1>1, <2>1, <2>2, <2>4
  <2>7. QED
    BY <1>3, <2>3, <2>4, <2>5, <2>6
<1>4. QED
  BY <1>2, <1>3

LEMMA OpensInOrder ==
    ASSUME published \in Editions, replay \in Run, InOrder(replay), OpenMonth
    PROVE  replay' \in Run /\ InOrder(replay')
<1> DEFINE m == Min(replay.todo)
           opened == replay.found \ replay.todo
           W == Wanted(opened, replay.start)
           V == Wanted({m}, replay.start)
           sent == replay.emitted
           all == SortByPickup(V)
<1>1. /\ replay.pc = "running" /\ replay.rows = <<>> /\ replay.todo # {}
      /\ ~Enough(replay.emitted)
      /\ replay' = [replay EXCEPT !.todo = @ \ {m},
                                  !.rows = Slice(PrepareMonth(m, replay.start))]
  BY DEF OpenMonth
<1>2. m \in replay.todo /\ \A n \in replay.todo : m <= n
  <2>1. replay.todo \in SUBSET Nat
    BY MonthsAssumption DEF Run, Months
  <2>2. QED
    BY <1>1, <2>1, MinOfNaturals
<1>3. /\ replay.start \in Int \cup {Null} /\ replay.limit \in Nat \cup {Null}
      /\ replay.found \in SUBSET Months /\ replay.todo \in SUBSET Months
      /\ sent \in Seq(AllRows)
  BY DEF Run
<1>4. PrepareMonth(m, replay.start) = all
  <2>1. UNION {RowsOf(n) : n \in {m}} = RowsOf(m)
    OBVIOUS
  <2>2. QED
    BY <2>1 DEF PrepareMonth, Wanted
<1>5. m \in Months /\ opened \in SUBSET Months /\ {m} \in SUBSET Months
  BY <1>2, <1>3
<1>6. Sound(W) /\ Sound(V)
  BY <1>5, WantedIsSound
<1>7. /\ Wanted(opened \cup {m}, replay.start) = W \cup V
      /\ Precede(W, V)
  <2>1. \A k \in opened, n \in {m} : k < n
    BY <1>2 DEF InOrder
  <2>2. QED
    BY <1>5, <2>1, MonthsFollow
<1>8. InPlace(W, sent) /\ Cut(W, sent, replay.limit)
  <2>1. replay.emitted \o replay.rows = sent
    BY <1>1, <1>3, ConcatEmptySeq
  <2>2. QED
    BY <2>1 DEF InOrder
<1>9. Len(sent) \in Nat /\ Len(sent) = Cardinality(W)
  <2>1. Len(sent) \in Nat
    BY <1>3, LenProperties
  <2>2. QED
    BY <1>1, <1>3, <1>8, <2>1 DEF Cut, Enough
<1>10. all \in Seq(V) /\ Len(all) = Cardinality(V) /\ Cardinality(V) \in Nat
  BY <1>6, SortIsSorted
<1> HIDE DEF m, opened, W, V, all
<1>11. PICK n \in 0 .. Cardinality(V) :
            /\ Slice(all) = SubSeq(all, 1, n)
            /\ replay.limit = Null => n = Cardinality(V)
            /\ replay.limit # Null =>
                  /\ Len(sent) + n <= replay.limit
                  /\ n = Cardinality(V) \/ Len(sent) + n = replay.limit
  <2>1. \E n \in 0 .. Len(all) :
            /\ Slice(all) = SubSeq(all, 1, n)
            /\ replay.limit = Null => n = Len(all)
            /\ replay.limit # Null =>
                  /\ Len(sent) + n <= replay.limit
                  /\ n = Len(all) \/ Len(sent) + n = replay.limit
    BY <1>1, <1>3, <1>9, <1>10, SliceTakes
  <2>2. QED
    BY <1>10, <2>1
<1> DEFINE rows == SubSeq(all, 1, n)
<1>12. /\ rows \in Seq(AllRows) /\ Len(sent \o rows) = Len(sent) + n
       /\ InPlace(W \cup V, sent \o rows)
       /\ Cardinality(W \cup V) = Len(sent) + Cardinality(V)
  BY <1>3, <1>6, <1>7, <1>8, <1>9, NextMonth DEF all
<1> HIDE DEF rows
<1>13. replay' = [replay EXCEPT !.todo = replay.todo \ {m}, !.rows = rows]
  BY <1>1, <1>4, <1>11 DEF rows
<1>14. /\ replay' \in Run /\ replay'.pc = "running" /\ replay'.start = replay.start
       /\ replay'.limit = replay.limit /\ replay'.found = replay.found
       /\ replay'.todo = replay.todo \ {m} /\ replay'.rows = rows
       /\ replay'.emitted = sent
  <2>1. replay.todo \ {m} \in SUBSET Months
    BY <1>3
  <2>2. QED
    BY <1>1, <1>12, <1>13, <2>1 DEF Run
<1>15. replay.found \ (replay.todo \ {m}) = opened \cup {m}
  BY <1>2 DEF InOrder, opened
<1>16. \A k \in opened \cup {m}, l \in replay.todo \ {m} : k < l
  <2>1. ASSUME NEW l \in replay.todo \ {m} PROVE m < l
    <3>1. m \in Int /\ l \in Int /\ m <= l /\ l # m
      BY <1>2, <1>3, MonthsAssumption DEF Months
    <3>2. QED
      BY <3>1
  <2>2. ASSUME NEW k \in opened, NEW l \in replay.todo \ {m} PROVE k < l
    BY DEF InOrder, opened
  <2>3. QED
    BY <2>1, <2>2
<1>17. Cut(W \cup V, sent \o rows, replay.limit)
  BY <1>9, <1>10, <1>11, <1>12 DEF Cut
<1>18. replay.todo \ {m} \subseteq replay.found
  BY DEF InOrder
<1>19. QED
  BY <1>7, <1>12, <1>14, <1>15, <1>16, <1>17, <1>18 DEF InOrder

LEMMA ReplayNext == EditionsInv /\ ReplayInv /\ [Next]_vars => ReplayInv'
<1> SUFFICES ASSUME EditionsInv, ReplayInv, [Next]_vars PROVE ReplayInv'
  OBVIOUS
<1>0. published \in Editions /\ published' = published
  BY PublishedStays DEF EditionsInv
<1>s. SUFFICES replay' = NoReplay \/ (replay' \in Run /\ InOrder(replay'))
  BY <1>0, RunsStay
<1>1. ASSUME replay.pc = "running" PROVE replay \in Run /\ InOrder(replay)
  BY <1>1 DEF ReplayInv, NoReplay
<1>2. CASE UNCHANGED replay
  BY <1>2 DEF ReplayInv
<1>3. CASE StartReplay
  <2>1. PICK start \in Starts, limit \in Limits :
            replay' = [pc |-> "running", start |-> start, limit |-> limit,
                       found |-> DiscoverFiles(start), todo |-> DiscoverFiles(start),
                       rows |-> <<>>, emitted |-> <<>>]
    BY <1>3 DEF StartReplay
  <2>2. DiscoverFiles(start) \in SUBSET Months
    BY DEF DiscoverFiles
  <2>3. start \in Int \cup {Null} /\ limit \in Nat \cup {Null}
    BY ArgumentsAssumption
  <2>4. <<>> \in Seq(AllRows) /\ Len(<<>>) = 0 /\ <<>> \o <<>> = <<>>
    BY EmptySeq, ConcatEmptySeq
  <2>5. replay' \in Run
    BY <2>1, <2>2, <2>3, <2>4 DEF Run
  <2>6. Wanted({}, start) = {} /\ Cardinality({}) = 0
    BY FS_EmptySet DEF Wanted
  <2>7. InPlace({}, <<>>) /\ Cut({}, <<>>, limit)
    BY <2>3, <2>4, <2>6 DEF InPlace, Cut
  <2>8. /\ replay'.found \ replay'.todo = {} /\ replay'.start = start
        /\ replay'.limit = limit /\ replay'.emitted \o replay'.rows = <<>>
        /\ replay'.pc = "running" /\ replay'.todo \subseteq replay'.found
    BY <2>1, <2>4
  <2>9. InOrder(replay')
    BY <2>6, <2>7, <2>8 DEF InOrder
  <2>10. QED
    BY <2>5, <2>9
<1>4. CASE OpenMonth
  BY <1>0, <1>1, <1>4, OpensInOrder DEF OpenMonth
<1>5. CASE PostRow
  <2> DEFINE emitted == Append(replay.emitted, Head(replay.rows))
             rows == Tail(replay.rows)
  <2>1. /\ replay.pc = "running" /\ replay.rows # <<>>
        /\ replay' = [replay EXCEPT !.rows = rows, !.emitted = emitted]
        /\ replay \in Run /\ InOrder(replay)
    BY <1>1, <1>5 DEF PostRow
  <2>2. /\ emitted \in Seq(AllRows) /\ rows \in Seq(AllRows)
        /\ emitted \o rows = replay.emitted \o replay.rows
    BY <2>1, HeadMoves DEF Run
  <2> HIDE DEF emitted, rows
  <2>3. /\ replay' \in Run /\ replay'.pc = "running" /\ replay'.start = replay.start
        /\ replay'.limit = replay.limit /\ replay'.found = replay.found
        /\ replay'.todo = replay.todo /\ replay'.rows = rows /\ replay'.emitted = emitted
    BY <2>1, <2>2 DEF Run
  <2>4. InOrder(replay')
    BY <2>1, <2>2, <2>3 DEF InOrder
  <2>5. QED
    BY <2>3, <2>4
<1>6. CASE FinishReplay
  <2>1. /\ replay.rows = <<>> /\ (replay.todo = {} \/ Enough(replay.emitted))
        /\ replay' = [replay EXCEPT !.pc = "done"]
        /\ replay \in Run /\ InOrder(replay)
    BY <1>1, <1>6 DEF FinishReplay
  <2>2. /\ replay' \in Run /\ replay'.start = replay.start
        /\ replay'.limit = replay.limit /\ replay'.found = replay.found
        /\ replay'.todo = replay.todo /\ replay'.rows = replay.rows
        /\ replay'.emitted = replay.emitted
    BY <2>1 DEF Run
  <2>3. InOrder(replay')
    BY <1>6, <2>1, <2>2 DEF InOrder, Enough, FinishReplay
  <2>4. QED
    BY <2>2, <2>3
<1>7. CASE KillReplay
  BY <1>7 DEF KillReplay
<1>8. CASE StartFetch \/ FetchSteps \/ KillFetch
  BY <1>2, <1>8 DEF StartFetch, FetchSteps, Skip, Receive, Complete, Fail, KillFetch
<1>9. CASE (\E m \in Months : BulkLoad(m)) \/ StreamToLake \/ Train
  BY <1>2, <1>9 DEF BulkLoad, StreamToLake, Train
<1>10. CASE UNCHANGED vars
  BY <1>2, <1>10 DEF vars
<1>11. QED
  BY <1>3, <1>4, <1>5, <1>6, <1>7, <1>8, <1>9, <1>10 DEF Next, ReplaySteps

LEMMA ReplayInvariant == Spec => [](EditionsInv /\ ReplayInv)
<1>1. Init => EditionsInv /\ ReplayInv
  BY DEF Init, EditionsInv, ReplayInv
<1>2. EditionsInv /\ [Next]_vars => EditionsInv'
  BY PublishedStays DEF EditionsInv
<1>3. QED
  BY <1>1, <1>2, ReplayNext, PTL DEF Spec

\* Rows in the places they have among all the rows begin the sorted whole.
LEMMA InPlaceIsPrefix ==
    ASSUME published \in Editions, NEW W, Sound(W), NEW V, Sound(V), Precede(W, V),
           NEW sent \in Seq(AllRows), NEW rest \in Seq(AllRows), InPlace(W, sent \o rest)
    PROVE  IsPrefix(sent, SortByPickup(W \cup V))
<1> DEFINE all == SortByPickup(W \cup V)
           n == Len(sent)
<1>1. /\ Sound(W \cup V) /\ Cardinality(W \cup V) = Cardinality(W) + Cardinality(V)
      /\ Cardinality(W) \in Nat /\ Cardinality(V) \in Nat
      /\ \A r \in W : Place(W \cup V, r) = Place(W, r)
  BY LaterRowsFollow
<1>2. /\ \A r, q \in W \cup V : Place(W \cup V, r) = Place(W \cup V, q) => r = q
      /\ all \in Seq(W \cup V) /\ Len(all) = Cardinality(W \cup V)
      /\ \A i \in 1 .. Cardinality(W \cup V) :
            all[i] \in W \cup V /\ Place(W \cup V, all[i]) = i
  BY <1>1, SortIsSorted
<1>3. /\ n \in Nat /\ Len(rest) \in Nat /\ Len(sent \o rest) = n + Len(rest)
      /\ \A i \in 1 .. n : (sent \o rest)[i] = sent[i]
  <2>1. n \in Nat /\ Len(rest) \in Nat
    BY LenProperties
  <2>2. /\ Len(sent \o rest) = n + Len(rest)
        /\ \A i \in 1 .. n + Len(rest) :
              (sent \o rest)[i] = IF i <= n THEN sent[i] ELSE rest[i - n]
    BY ConcatProperties
  <2>3. QED
    BY <2>1, <2>2
<1> HIDE DEF all, n
<1>4. n <= Len(all)
  BY <1>1, <1>2, <1>3 DEF InPlace
<1>5. ASSUME NEW i \in 1 .. n PROVE all[i] = sent[i]
  <2>1. i \in 1 .. Len(sent \o rest) /\ i \in 1 .. Cardinality(W \cup V)
    BY <1>2, <1>3, <1>4
  <2>2. sent[i] \in W /\ Place(W, sent[i]) = i
    BY <1>3, <2>1 DEF InPlace
  <2>3. sent[i] \in W \cup V /\ Place(W \cup V, sent[i]) = i
    BY <1>1, <2>2
  <2>4. QED
    BY <1>2, <2>1, <2>3
<1>6. n \in 0 .. Len(all) /\ n \in 0 .. n
  BY <1>1, <1>2, <1>3, <1>4
<1>7. /\ SubSeq(all, 1, n) \in Seq(W \cup V) /\ Len(SubSeq(all, 1, n)) = n
      /\ \A i \in 1 .. n : SubSeq(all, 1, n)[i] = all[i]
  BY <1>2, <1>6, Beginning
<1>8. SubSeq(all, 1, n) \in Seq(AllRows)
  BY <1>1, <1>7, SeqMonotonic DEF Sound
<1>9. sent = SubSeq(all, 1, n)
  BY <1>5, <1>7, <1>8, SeqEqual DEF n
<1>10. SubSeq(sent, 1, n) = sent
  BY SubSeqFull DEF n
<1>11. QED
  BY <1>4, <1>9, <1>10 DEF IsPrefix, n, all

\* Replaying month by month sends what one sort of all the files would have sent,
\* from its beginning, no more than the limit, and, when it is done, all of it or
\* as much as the limit allows (replay.py:149-150).
THEOREM ReplaySorts == Spec => []ReplayIsGloballySorted
<1>1. ASSUME EditionsInv, ReplayInv PROVE ReplayIsGloballySorted
  <2> SUFFICES ASSUME replay.pc # "idle" PROVE
        /\ IsPrefix(replay.emitted, Reference)
        /\ replay.limit # Null => Len(replay.emitted) <= replay.limit
        /\ replay.pc = "done" => Len(replay.emitted) = Len(Reference) \/ Enough(replay.emitted)
    BY DEF ReplayIsGloballySorted
  <2> DEFINE opened == replay.found \ replay.todo
             W == Wanted(opened, replay.start)
             V == Wanted(replay.todo, replay.start)
             sent == replay.emitted \o replay.rows
  <2>1. replay \in Run /\ InOrder(replay) /\ published \in Editions
    BY <1>1 DEF ReplayInv, NoReplay, EditionsInv
  <2>2. /\ replay.found \in SUBSET Months /\ replay.todo \in SUBSET Months
        /\ opened \in SUBSET Months /\ opened \cup replay.todo = replay.found
        /\ replay.emitted \in Seq(AllRows) /\ replay.rows \in Seq(AllRows)
        /\ replay.limit \in Nat \cup {Null}
    BY <2>1 DEF Run, InOrder
  <2>3. Sound(W) /\ Sound(V)
    BY <2>1, <2>2, WantedIsSound
  <2>4. Wanted(replay.found, replay.start) = W \cup V /\ Precede(W, V)
    <3>1. \A m \in opened, n \in replay.todo : m < n
      BY <2>1 DEF InOrder
    <3>2. Wanted(opened \cup replay.todo, replay.start) = W \cup V /\ Precede(W, V)
      BY <2>1, <2>2, <3>1, MonthsFollow
    <3>3. QED
      BY <2>2, <3>2
  <2>5. InPlace(W, sent) /\ Cut(W, sent, replay.limit)
    BY <2>1 DEF InOrder
  <2>6. /\ Len(sent) = Len(replay.emitted) + Len(replay.rows)
        /\ Len(replay.emitted) \in Nat /\ Len(replay.rows) \in Nat
    BY <2>2, ConcatProperties, LenProperties
  <2>7. IsPrefix(replay.emitted, Reference)
    BY <2>1, <2>2, <2>3, <2>4, <2>5, InPlaceIsPrefix DEF Reference
  <2>8. ASSUME replay.limit # Null PROVE Len(replay.emitted) <= replay.limit
    <3>1. replay.limit \in Nat /\ Len(sent) <= replay.limit
      BY <2>2, <2>5, <2>8 DEF Cut
    <3>2. Len(replay.emitted) + Len(replay.rows) <= replay.limit
      BY <2>6, <3>1
    <3>3. \A a, b, c \in Nat : a + b <= c => a <= c
      OBVIOUS
    <3>4. QED
      BY <2>6, <3>1, <3>2, <3>3
  <2>9. ASSUME replay.pc = "done", ~Enough(replay.emitted)
        PROVE  Len(replay.emitted) = Len(Reference)
    <3>1. replay.rows = <<>> /\ replay.todo = {}
      BY <2>1, <2>9 DEF InOrder, Enough
    <3>2. sent = replay.emitted
      BY <2>2, <3>1, ConcatEmptySeq
    <3>3. opened = replay.found
      BY <3>1
    <3>4. Reference = SortByPickup(W) /\ Len(Reference) = Cardinality(W)
      BY <2>1, <2>3, <3>3, SortIsSorted DEF Reference
    <3>5. Len(sent) = Cardinality(W)
      BY <2>2, <2>5, <2>6, <2>9, <3>2 DEF Cut, Enough
    <3>6. QED
      BY <3>2, <3>4, <3>5
  <2>10. QED
    BY <2>7, <2>8, <2>9
<1>2. QED
  BY <1>1, ReplayInvariant, PTL

-----------------------------------------------------------------------------
(***************************************************************************)
(* The lake and the model.  Each writer keeps to its side of the cutoff;   *)
(* what was loaded of a month is all that could be of it, and what was     *)
(* sent and accepted is on the topic.                                      *)
(***************************************************************************)
Usable(r) == AdaptTlcBatch(Raw(r)) # Rejected /\ InItsMonth(r)
Accepted(r) == AdaptTlc(CleanRow(Raw(r))) # Rejected

LakeInv ==
    /\ topic \subseteq AllRows /\ loaded \subseteq TrainedMonths
    /\ lake \in [{"bulk", "stream"} -> SUBSET AllRows]
    /\ \A r \in lake["bulk"] : Time(r) <= Cutoff
    /\ \A r \in lake["stream"] : Time(r) > Cutoff
    /\ \A m \in loaded : \A r \in RowsOf(m) : Usable(r) => r \in lake["bulk"]

TopicInv ==
    replay.pc # "idle" =>
        \A i \in 1 .. Len(replay.emitted) :
            Accepted(replay.emitted[i]) => replay.emitted[i] \in topic

ModelInv == \A r \in model : r \in AllRows /\ MonthOf(Time(r)) \in TrainedMonths

\* As with the rows, so with what the adapters make of them.
LEMMA UseStays ==
    ASSUME published' = published
    PROVE  \A r : (Usable(r)' <=> Usable(r)) /\ (Accepted(r)' <=> Accepted(r))
  BY DEF Usable, Accepted, Raw, InItsMonth, Time

LEMMA LakeNext == EditionsInv /\ ReplayInv /\ LakeInv /\ [Next]_vars => LakeInv'
<1> SUFFICES ASSUME EditionsInv, ReplayInv, LakeInv, [Next]_vars PROVE LakeInv'
  OBVIOUS
<1>0. published \in Editions /\ published' = published
  BY PublishedStays DEF EditionsInv
<1>s. /\ AllRows' = AllRows
      /\ \A m : RowsOf(m)' = RowsOf(m)
      /\ \A r : Time(r)' = Time(r) /\ (Usable(r)' <=> Usable(r))
  BY <1>0, RowsStay, UseStays
<1>1. CASE UNCHANGED <<topic, lake, loaded>>
  BY <1>s, <1>1 DEF LakeInv
<1>2. CASE PostRow
  <2>1. /\ lake' = lake /\ loaded' = loaded
        /\ replay.pc = "running" /\ replay.rows # <<>>
        /\ topic' \subseteq topic \cup {Head(replay.rows)}
    BY <1>2 DEF PostRow
  <2>2. replay.rows \in Seq(AllRows)
    BY <2>1 DEF ReplayInv, NoReplay, Run
  <2>3. Head(replay.rows) \in AllRows
    BY <2>1, <2>2, HeadTailProperties
  <2>4. QED
    BY <1>s, <2>1, <2>3 DEF LakeInv
<1>3. ASSUME NEW m \in Months, BulkLoad(m) PROVE LakeInv'
  <2> DEFINE new == {r \in RowsOf(m) : /\ AdaptTlcBatch(Raw(r)) # Rejected
                                       /\ InItsMonth(r)
                                       /\ History(Time(r))}
  <2>1. /\ topic' = topic /\ loaded' = loaded \cup {m} /\ Start(m) <= Cutoff
        /\ lake' = [lake EXCEPT !["bulk"] = (lake["bulk"] \ RowsOf(m)) \cup new]
    BY <1>3 DEF BulkLoad
  <2>2. new \subseteq AllRows /\ \A r \in new : Time(r) <= Cutoff
    BY DEF AllRows, History
  <2>3. m \in TrainedMonths
    BY <2>1 DEF TrainedMonths
  <2>4. ASSUME NEW r \in RowsOf(m), Usable(r) PROVE r \in new
    <3>1. Time(r) \in Int /\ MonthOf(Time(r)) = m
      BY <1>0, <2>4, RowFacts DEF Usable, InItsMonth
    <3>2. Time(r) <= Cutoff
      BY <2>3, <3>1, TrainedIsHistory
    <3>3. QED
      BY <2>4, <3>2 DEF Usable, History
  <2> HIDE DEF new
  <2>5. /\ lake' \in [{"bulk", "stream"} -> SUBSET AllRows]
        /\ lake'["bulk"] = (lake["bulk"] \ RowsOf(m)) \cup new
        /\ lake'["stream"] = lake["stream"]
    BY <2>1, <2>2 DEF LakeInv
  <2>6. ASSUME NEW k \in loaded', NEW r \in RowsOf(k), Usable(r)
        PROVE  r \in lake'["bulk"]
    <3>1. CASE k = m
      BY <2>4, <2>5, <2>6, <3>1
    <3>2. CASE k # m
      <4>1. k \in loaded /\ r \in lake["bulk"]
        BY <2>1, <2>6, <3>2 DEF LakeInv
      <4>2. r \notin RowsOf(m)
        BY <2>6, <3>2 DEF RowsOf
      <4>3. QED
        BY <2>5, <4>1, <4>2
    <3>3. QED
      BY <3>1, <3>2
  <2>7. loaded' \subseteq TrainedMonths
    BY <2>1, <2>3 DEF LakeInv
  <2>8. /\ \A r \in lake'["bulk"] : Time(r) <= Cutoff
        /\ \A r \in lake'["stream"] : Time(r) > Cutoff
        /\ topic' \subseteq AllRows
    BY <2>1, <2>2, <2>5 DEF LakeInv
  <2>9. QED
    BY <1>s, <2>5, <2>6, <2>7, <2>8 DEF LakeInv
<1>4. CASE StreamToLake
  <2> DEFINE new == {r \in topic : Live(Time(r))}
  <2>1. /\ topic' = topic /\ loaded' = loaded
        /\ lake' = [lake EXCEPT !["stream"] = new]
    BY <1>4 DEF StreamToLake
  <2>2. new \subseteq AllRows /\ \A r \in new : Time(r) > Cutoff
    BY DEF LakeInv, Live
  <2> HIDE DEF new
  <2>3. /\ lake' \in [{"bulk", "stream"} -> SUBSET AllRows]
        /\ lake'["bulk"] = lake["bulk"] /\ lake'["stream"] = new
    BY <2>1, <2>2 DEF LakeInv
  <2>4. QED
    BY <1>s, <2>1, <2>2, <2>3 DEF LakeInv
<1>5. CASE StartFetch \/ FetchSteps \/ KillFetch
  BY <1>1, <1>5 DEF StartFetch, FetchSteps, Skip, Receive, Complete, Fail, KillFetch
<1>6. CASE StartReplay \/ OpenMonth \/ FinishReplay \/ KillReplay
  BY <1>1, <1>6 DEF StartReplay, OpenMonth, FinishReplay, KillReplay
<1>7. CASE Train \/ UNCHANGED vars
  BY <1>1, <1>7 DEF Train, vars
<1>8. QED
  BY <1>2, <1>3, <1>4, <1>5, <1>6, <1>7 DEF Next, ReplaySteps

LEMMA TopicNext == EditionsInv /\ ReplayInv /\ TopicInv /\ [Next]_vars => TopicInv'
<1> SUFFICES ASSUME EditionsInv, ReplayInv, TopicInv, [Next]_vars PROVE TopicInv'
  OBVIOUS
<1>s. \A r : Accepted(r)' <=> Accepted(r)
  BY PublishedStays, UseStays
<1>1. ASSUME topic' = topic, replay'.emitted = replay.emitted, replay.pc # "idle"
      PROVE  TopicInv'
  BY <1>s, <1>1 DEF TopicInv
<1>2. CASE UNCHANGED <<replay, topic>>
  BY <1>s, <1>2 DEF TopicInv
<1>3. CASE StartReplay
  <2>1. replay'.emitted = <<>>
    BY <1>3 DEF StartReplay
  <2>2. Len(<<>>) = 0
    BY EmptySeq
  <2>3. QED
    BY <2>1, <2>2 DEF TopicInv
<1>4. CASE PostRow
  <2> DEFINE r == Head(replay.rows)
             emitted == replay.emitted
  <2>1. /\ replay.pc = "running" /\ replay.rows # <<>>
        /\ replay' = [replay EXCEPT !.rows = Tail(@), !.emitted = Append(emitted, r)]
        /\ topic' = IF Accepted(r) THEN topic \cup {r} ELSE topic
    BY <1>4 DEF PostRow, Accepted
  <2>2. replay \in Run
    BY <2>1 DEF ReplayInv, NoReplay
  <2>3. emitted \in Seq(AllRows) /\ replay.rows \in Seq(AllRows)
    BY <2>2 DEF Run
  <2>4. r \in AllRows
    BY <2>1, <2>3, HeadTailProperties
  <2>5. replay'.emitted = Append(emitted, r)
    BY <2>1, <2>2 DEF Run
  <2> HIDE DEF r
  <2>6. /\ Len(Append(emitted, r)) = Len(emitted) + 1 /\ Len(emitted) \in Nat
        /\ \A i \in 1 .. Len(emitted) : Append(emitted, r)[i] = emitted[i]
        /\ Append(emitted, r)[Len(emitted) + 1] = r
    BY <2>3, <2>4, AppendProperties, LenProperties
  <2>7. ASSUME NEW i \in 1 .. Len(emitted) + 1, Accepted(Append(emitted, r)[i])
        PROVE  Append(emitted, r)[i] \in topic'
    <3>1. CASE i = Len(emitted) + 1
      BY <2>1, <2>6, <2>7, <3>1
    <3>2. CASE i # Len(emitted) + 1
      <4>1. i \in 1 .. Len(emitted)
        BY <2>6, <3>2
      <4>2. emitted[i] \in topic
        BY <2>1, <2>6, <2>7, <4>1 DEF TopicInv
      <4>3. QED
        BY <2>1, <2>6, <4>1, <4>2
    <3>3. QED
      BY <3>1, <3>2
  <2>8. QED
    BY <1>s, <2>5, <2>6, <2>7 DEF TopicInv
<1>5. CASE OpenMonth \/ FinishReplay
  <2>1. topic' = topic /\ replay.pc = "running"
    BY <1>5 DEF OpenMonth, FinishReplay
  <2>2. replay \in Run
    BY <2>1 DEF ReplayInv, NoReplay
  <2>3. replay'.emitted = replay.emitted
    BY <1>5, <2>2 DEF OpenMonth, FinishReplay, Run
  <2>4. QED
    BY <1>1, <2>1, <2>3
<1>6. CASE KillReplay
  BY <1>6 DEF KillReplay, NoReplay, TopicInv
<1>7. CASE StartFetch \/ FetchSteps \/ KillFetch
  BY <1>2, <1>7 DEF StartFetch, FetchSteps, Skip, Receive, Complete, Fail, KillFetch
<1>8. CASE (\E m \in Months : BulkLoad(m)) \/ StreamToLake \/ Train \/ UNCHANGED vars
  BY <1>2, <1>8 DEF BulkLoad, StreamToLake, Train, vars
<1>9. QED
  BY <1>3, <1>4, <1>5, <1>6, <1>7, <1>8 DEF Next, ReplaySteps

LEMMA ModelNext == LakeInv /\ ModelInv /\ [Next]_vars => ModelInv'
<1> SUFFICES ASSUME LakeInv, ModelInv, [Next]_vars PROVE ModelInv'
  OBVIOUS
<1>s. AllRows' = AllRows /\ \A r : Time(r)' = Time(r)
  BY PublishedStays, RowsStay
<1>1. CASE model' = model
  BY <1>s, <1>1 DEF ModelInv
<1>2. CASE Train
  <2>1. model' = Sampled
    BY <1>2 DEF Train
  <2>2. \A r \in Sampled : r \in AllRows /\ MonthOf(Time(r)) \in TrainedMonths
    BY DEF Sampled, LakeInv
  <2>3. QED
    BY <1>s, <2>1, <2>2 DEF ModelInv
<1>3. CASE StartFetch \/ FetchSteps \/ KillFetch
  BY <1>1, <1>3 DEF StartFetch, FetchSteps, Skip, Receive, Complete, Fail, KillFetch
<1>4. CASE StartReplay \/ ReplaySteps \/ KillReplay
  BY <1>1, <1>4 DEF StartReplay, ReplaySteps, OpenMonth, PostRow, FinishReplay, KillReplay
<1>5. CASE (\E m \in Months : BulkLoad(m)) \/ StreamToLake \/ UNCHANGED vars
  BY <1>1, <1>5 DEF BulkLoad, StreamToLake, vars
<1>6. QED
  BY <1>2, <1>3, <1>4, <1>5 DEF Next

LEMMA FlowInvariant ==
    Spec => [](EditionsInv /\ ReplayInv /\ LakeInv /\ TopicInv /\ ModelInv)
<1>1. Init => LakeInv /\ TopicInv /\ ModelInv
  BY DEF Init, LakeInv, TopicInv, ModelInv, NoReplay
<1>2. QED
  BY <1>1, ReplayInvariant, LakeNext, TopicNext, ModelNext, PTL DEF Spec

\* No row is in both parts of the lake; and what was loaded, and what lies past
\* the cutoff in the files of a replay that is done and streamed, is in one of
\* them (config.py:14-16).
THEOREM OneWriterPerTrip == Spec => []EachTripHasOneWriter
<1>1. ASSUME EditionsInv, ReplayInv, LakeInv, TopicInv PROVE EachTripHasOneWriter
  <2>1. published \in Editions
    BY <1>1 DEF EditionsInv
  <2>2. lake["bulk"] \cap lake["stream"] = {}
    <3>1. \A r \in lake["bulk"] : r \in AllRows /\ Time(r) <= Cutoff
      BY <1>1 DEF LakeInv
    <3>2. \A r \in lake["stream"] : Time(r) > Cutoff
      BY <1>1 DEF LakeInv
    <3>3. Cutoff \in Int /\ \A r \in AllRows : Time(r) \in Int
      BY <2>1, CutoffIsAnInstant, RowsHaveMonths, RowFacts
    <3>4. QED
      BY <3>1, <3>2, <3>3
  <2>3. ASSUME Replayed, Streamed, NEW m \in loaded \cup (replay.found \ TrainedMonths),
               NEW r \in RowsOf(m), Valid(r)
        PROVE  r \in lake["bulk"] \cup lake["stream"]
    <3>1. CASE m \in loaded
      BY <1>1, <2>3, <3>1 DEF LakeInv, Valid, Usable
    <3>2. CASE m \in replay.found \ TrainedMonths
      <4> DEFINE W == Wanted(replay.found, replay.start)
                 emitted == replay.emitted
      <4>1. /\ replay.pc = "done" /\ replay.limit = Null
            /\ replay \in Run /\ InOrder(replay)
        BY <1>1, <2>3 DEF Replayed, ReplayInv, NoReplay
      <4>2. /\ replay.rows = <<>> /\ replay.todo = {}
            /\ replay.found \in SUBSET Months /\ replay.start \in Int \cup {Null}
            /\ emitted \in Seq(AllRows)
        BY <4>1 DEF InOrder, Run
      <4>3. emitted \o replay.rows = emitted
        BY <4>2, ConcatEmptySeq
      <4>4. Sound(W) /\ InPlace(W, emitted) /\ Len(emitted) = Cardinality(W)
        <5>1. replay.found \ replay.todo = replay.found
          BY <4>2
        <5>2. InPlace(W, emitted) /\ Cut(W, emitted, replay.limit)
          BY <4>1, <4>3, <5>1 DEF InOrder
        <5>3. QED
          BY <2>1, <4>1, <4>2, <5>2, WantedIsSound DEF Cut
      <4>5. /\ m \in Months /\ r \in AllRows /\ Time(r) \in Int
            /\ Raw(r) \in RawRecord /\ MonthOf(Time(r)) = m
        BY <2>1, <2>3, <3>2, <4>2, RowFacts DEF Valid, InItsMonth
      <4>6. Time(r) > Cutoff
        <5>1. ~(Time(r) <= Cutoff)
          BY <3>2, <4>5, TrainedIsHistory
        <5>2. QED
          BY <4>5, <5>1, CutoffIsAnInstant
      <4>7. r \in W
        <5>1. FromStart(r, replay.start)
          <6>1. CASE replay.start = Null
            BY <6>1 DEF FromStart
          <6>2. CASE replay.start # Null
            <7>1. replay.start \in Int /\ replay.start <= Cutoff + 1
              BY <2>3, <4>2, <6>2 DEF Replayed
            <7>2. QED
              BY <4>5, <4>6, <7>1, CutoffIsAnInstant DEF FromStart
          <6>3. QED
            BY <6>1, <6>2
        <5>2. QED
          BY <2>3, <3>2, <5>1 DEF Wanted, Valid
      <4>8. PICK i \in 1 .. Len(emitted) : emitted[i] = r
        <5>1. Place(W, r) \in 1 .. Len(emitted)
          BY <2>1, <4>4, <4>7, PlacesGoUp
        <5>2. /\ emitted[Place(W, r)] \in W
              /\ Place(W, emitted[Place(W, r)]) = Place(W, r)
          BY <4>4, <5>1 DEF InPlace
        <5>3. emitted[Place(W, r)] = r
          BY <2>1, <4>4, <4>7, <5>2, SortIsSorted
        <5>4. QED
          BY <5>1, <5>3
      <4>9. Accepted(r)
        BY <2>3, <4>5, AdaptersAgree DEF Valid, Accepted
      <4>10. r \in topic
        BY <1>1, <4>1, <4>8, <4>9 DEF TopicInv
      <4>11. QED
        BY <2>3, <4>6, <4>10 DEF Streamed
    <3>3. QED
      BY <3>1, <3>2
  <2>4. QED
    BY <2>2, <2>3 DEF EachTripHasOneWriter
<1>2. QED
  BY <1>1, FlowInvariant, PTL

\* Whoever wrote a trip the model was fitted on, and whenever it was fitted, the
\* trip is no later than the cutoff (ml/config.py:16-17).
THEOREM TrainingStopsAtTheCutoff == Spec => []NothingLearnedIsScored
<1>1. ASSUME EditionsInv, ModelInv PROVE NothingLearnedIsScored
  <2>1. ASSUME NEW r \in model PROVE Time(r) <= Cutoff
    <3>1. r \in AllRows /\ MonthOf(Time(r)) \in TrainedMonths
      BY <1>1 DEF ModelInv
    <3>2. Time(r) \in Int
      BY <1>1, <3>1, RowsHaveMonths, RowFacts DEF EditionsInv
    <3>3. MonthOf(Time(r)) \in Months
      BY <3>1 DEF TrainedMonths
    <3>4. QED
      BY <3>1, <3>2, <3>3, TrainedIsHistory
  <2>2. QED
    BY <2>1 DEF NothingLearnedIsScored
<1>2. QED
  BY <1>1, FlowInvariant, PTL

-----------------------------------------------------------------------------
(***************************************************************************)
(* Types                                                                   *)
(***************************************************************************)
AttemptsInv ==
    /\ part \in [Months -> {"none", "cut", "junk", "whole"}]
    /\ kills \in 0 .. MaxKills
    /\ fetcher.pc \in {"idle", "running", "exited"}
    /\ fetcher.pc = "running" =>
        /\ fetcher.attempt \in 1 .. MaxAttempts
        /\ fetcher.failures \subseteq fetcher.first .. fetcher.month - 1

\* Going on to the next month, with this one among the failures or not.
LEMMA NextMonthsAttempts ==
    ASSUME FetchInv, AttemptsInv, NEW m \in Months, Fetching(m),
           NEW failures, failures \subseteq fetcher.failures \cup {m},
           fetcher' = AfterMonth(failures)
    PROVE  /\ fetcher'.pc \in {"running", "exited"}
           /\ fetcher'.attempt \in 1 .. MaxAttempts
           /\ fetcher'.failures \subseteq fetcher'.first .. fetcher'.month - 1
<1>1. fetcher \in FetcherRecord /\ fetcher.pc = "running" /\ fetcher.month = m
  BY DEF FetchInv, Fetching
<1>2. /\ fetcher'.pc = IF m = fetcher.last THEN "exited" ELSE "running"
      /\ fetcher'.first = fetcher.first /\ fetcher'.month = m + 1
      /\ fetcher'.attempt = 1 /\ fetcher'.failures = failures
  BY <1>1 DEF AfterMonth, FetcherRecord
<1>3. /\ fetcher.first \in Int /\ m \in Int /\ m \in fetcher.first .. fetcher.last + 1
      /\ fetcher.failures \subseteq fetcher.first .. m - 1
  BY <1>1, MonthsAssumption DEF FetchInv, AttemptsInv, FetcherRecord, Months
<1>4. ASSUME NEW k \in failures
      PROVE  k \in fetcher'.first .. fetcher'.month - 1
  <2>1. k \in Int /\ fetcher.first <= k /\ k <= m
    BY <1>3
  <2>2. /\ fetcher'.first = fetcher.first /\ fetcher'.month = m + 1
        /\ fetcher.first \in Int /\ m \in Int
    BY <1>2, <1>3
  <2>3. QED
    BY <2>1, <2>2
<1>5. 1 \in 1 .. MaxAttempts
  BY ArgumentsAssumption
<1>6. fetcher'.failures \subseteq fetcher'.first .. fetcher'.month - 1
  BY <1>2, <1>4
<1>7. fetcher'.pc \in {"running", "exited"} /\ fetcher'.attempt \in 1 .. MaxAttempts
  BY <1>2, <1>5
<1>8. QED
  BY <1>6, <1>7

LEMMA AttemptsNext ==
    FilesInv /\ FetchInv /\ AttemptsInv /\ [Next]_vars => AttemptsInv'
<1> SUFFICES ASSUME FilesInv, FetchInv, AttemptsInv, [Next]_vars PROVE AttemptsInv'
  OBVIOUS
<1>1. CASE UNCHANGED <<part, fetcher, kills>>
  BY <1>1 DEF AttemptsInv
<1>2. CASE StartFetch
  <2>1. PICK first \in Months, last \in Months :
            fetcher' = [pc |-> "running", first |-> first, month |-> first,
                        last |-> last, attempt |-> 1, receiving |-> FALSE,
                        failures |-> {}]
    BY <1>2 DEF StartFetch
  <2>2. /\ fetcher'.pc = "running" /\ fetcher'.attempt = 1 /\ fetcher'.failures = {}
        /\ part' = part /\ kills' = kills /\ 1 \in 1 .. MaxAttempts
    BY <1>2, <2>1, ArgumentsAssumption DEF StartFetch, files
  <2>3. QED
    BY <2>2 DEF AttemptsInv
<1>3. ASSUME NEW m \in Months, Skip(m) PROVE AttemptsInv'
  <2>1. /\ Fetching(m) /\ part' = part /\ kills' = kills
        /\ fetcher' = AfterMonth(fetcher.failures)
    BY <1>3 DEF Skip, files
  <2>2. QED
    BY <2>1, NextMonthsAttempts DEF AttemptsInv
<1>4. ASSUME NEW m \in Months, Receive(m) PROVE AttemptsInv'
  <2>1. /\ Fetching(m) /\ kills' = kills
        /\ fetcher' = [fetcher EXCEPT !.receiving = TRUE]
        /\ part' \in [Months -> {"none", "cut", "junk", "whole"}]
    BY <1>4 DEF Receive, AttemptsInv
  <2>2. fetcher \in FetcherRecord
    BY <2>1 DEF FetchInv, Fetching
  <2>3. /\ fetcher'.pc = fetcher.pc /\ fetcher'.attempt = fetcher.attempt
        /\ fetcher'.first = fetcher.first /\ fetcher'.month = fetcher.month
        /\ fetcher'.failures = fetcher.failures
    BY <2>1, <2>2 DEF FetcherRecord
  <2>4. QED
    BY <2>1, <2>3 DEF AttemptsInv
<1>5. ASSUME NEW m \in Months, Complete(m) PROVE AttemptsInv'
  <2>1. /\ Fetching(m) /\ kills' = kills
        /\ fetcher' = AfterMonth(fetcher.failures)
        /\ part' \in [Months -> {"none", "cut", "junk", "whole"}]
    BY <1>5 DEF Complete, AttemptsInv
  <2>2. QED
    BY <2>1, NextMonthsAttempts DEF AttemptsInv
<1>6. ASSUME NEW m \in Months, Fail(m) PROVE AttemptsInv'
  <2>1. /\ Fetching(m) /\ kills' = kills /\ fetcher' = AttemptFailed
        /\ part' \in [Months -> {"none", "cut", "junk", "whole"}]
    BY <1>6 DEF Fail, AttemptsInv
  <2>2. fetcher \in FetcherRecord /\ fetcher.month = m /\ fetcher.pc = "running"
    BY <2>1 DEF FetchInv, Fetching
  <2>3. CASE fetcher.attempt < MaxAttempts
    <3>1. /\ fetcher'.pc = fetcher.pc /\ fetcher'.attempt = fetcher.attempt + 1
          /\ fetcher'.first = fetcher.first /\ fetcher'.month = fetcher.month
          /\ fetcher'.failures = fetcher.failures
      BY <2>1, <2>2, <2>3 DEF AttemptFailed, FetcherRecord
    <3>2. fetcher.attempt + 1 \in 1 .. MaxAttempts
      BY <2>2, <2>3, ArgumentsAssumption DEF AttemptsInv
    <3>3. QED
      BY <2>1, <2>2, <3>1, <3>2 DEF AttemptsInv
  <2>4. CASE ~(fetcher.attempt < MaxAttempts)
    <3>1. fetcher' = AfterMonth(fetcher.failures \cup {m})
      BY <2>1, <2>2, <2>4 DEF AttemptFailed
    <3>2. QED
      BY <2>1, <3>1, NextMonthsAttempts DEF AttemptsInv
  <2>5. QED
    BY <2>3, <2>4
<1>7. CASE KillFetch
  BY <1>7, ArgumentsAssumption DEF KillFetch, NoFetch, AttemptsInv, files
<1>8. CASE KillReplay
  BY <1>8, ArgumentsAssumption DEF KillReplay, AttemptsInv, files
<1>9. CASE StartReplay \/ ReplaySteps
  BY <1>1, <1>9 DEF StartReplay, ReplaySteps, OpenMonth, PostRow, FinishReplay, files
<1>10. CASE (\E m \in Months : BulkLoad(m)) \/ StreamToLake \/ Train
  BY <1>1, <1>10 DEF BulkLoad, StreamToLake, Train, files
<1>11. CASE UNCHANGED vars
  BY <1>1, <1>11 DEF vars, files
<1>12. QED
  BY <1>2, <1>3, <1>4, <1>5, <1>6, <1>7, <1>8, <1>9, <1>10, <1>11 DEF Next, FetchSteps

\* Type correctness: what each variable may be, the attempts within their maximum
\* and the failures among the months already passed (fetch.py:68-105, 119-127).
THEOREM SourcesTypes == Spec => []TypeOK
<1>1. Init => FilesInv /\ FetchInv /\ AttemptsInv
  BY ArgumentsAssumption DEF Init, FilesInv, FetchInv, AttemptsInv, NoFetch
<1>2. Spec => [](FilesInv /\ FetchInv /\ AttemptsInv)
  BY <1>1, FilesNext, FetchNext, AttemptsNext, PTL DEF Spec
<1>3. ASSUME EditionsInv, ReplayInv, LakeInv, ModelInv, FilesInv, FetchInv, AttemptsInv
      PROVE  TypeOK
  <2>1. {file, part} \subseteq [Months -> {"none", "cut", "junk", "whole"}]
    BY <1>3 DEF FilesInv, AttemptsInv
  <2>2. ASSUME fetcher.pc = "running"
        PROVE  fetcher.month \in fetcher.first .. fetcher.last
    <3>1. fetcher \in FetcherRecord
      BY <1>3, <2>2 DEF FetchInv
    <3>2. fetcher.first \in Int /\ fetcher.last \in Int /\ fetcher.month \in Int
      BY <3>1, MonthsAssumption DEF FetcherRecord, Months
    <3>3. QED
      BY <1>3, <2>2, <3>2 DEF FetchInv
  <2>3. /\ replay.pc \in {"idle", "running", "done"}
        /\ replay.pc # "idle" =>
              {Range(replay.rows), Range(replay.emitted)} \subseteq SUBSET AllRows
    <3>1. CASE replay = NoReplay
      BY <3>1 DEF NoReplay
    <3>2. CASE replay \in Run
      <4>1. /\ replay.pc \in {"running", "done"}
            /\ replay.rows \in Seq(AllRows) /\ replay.emitted \in Seq(AllRows)
        BY <3>2 DEF Run
      <4>2. Range(replay.rows) \in SUBSET AllRows /\ Range(replay.emitted) \in SUBSET AllRows
        BY <4>1, RangeOfSeq
      <4>3. QED
        BY <4>1, <4>2
    <3>3. QED
      BY <1>3, <3>1, <3>2 DEF ReplayInv
  <2>4. {topic, lake["bulk"], lake["stream"], model} \subseteq SUBSET AllRows
    <3>1. topic \in SUBSET AllRows /\ model \in SUBSET AllRows
      BY <1>3 DEF LakeInv, ModelInv
    <3>2. lake["bulk"] \in SUBSET AllRows /\ lake["stream"] \in SUBSET AllRows
      BY <1>3 DEF LakeInv
    <3>3. QED
      BY <3>1, <3>2
  <2>5. loaded \subseteq Months
    BY <1>3 DEF LakeInv, TrainedMonths
  <2>6. QED
    BY <1>3, <2>1, <2>2, <2>3, <2>4, <2>5 DEF TypeOK, EditionsInv, AttemptsInv
<1>4. QED
  BY <1>2, <1>3, FlowInvariant, PTL
=============================================================================
