------------------------------ MODULE Adapters ------------------------------
(***************************************************************************)
(* The two adapters of a raw TLC record: the gateway's, behind the         *)
(* simulator's JSON (simulator/replay.py, gateway/schemas/,                *)
(* gateway/adapters/tlc_adapter.py), and the batch one                     *)
(* (batch_jobs/adapters/tlc_batch_adapter.py).  A raw record gives each    *)
(* column a number, Null, NaN, or nothing because its file has no such     *)
(* column.  The column `duration' stands for the two timestamps: it is the *)
(* drop-off minus the pickup.  Units, exact decimals and the fields that   *)
(* are copied as they are for audit are left out.                          *)
(***************************************************************************)
EXTENDS Integers

CONSTANTS
    Absent,    \* the file has no such column
    Null,      \* a null in it
    NaN,       \* a float that is not a number
    Rejected   \* instead of an event: a 422, or a counted drop

ASSUME MarksAssumption ==
    /\ {Absent, Null, NaN} \cap Int = {}
    /\ Absent # Null /\ Absent # NaN /\ Null # NaN

\* TLCTripInput's fields, by how they are declared.
Required == {"VendorID", "PULocationID", "DOLocationID", "duration",
             "trip_distance", "fare_amount", "total_amount"}
DefaultZero == {"extra", "mta_tax", "tip_amount", "tolls_amount", "improvement_surcharge"}
LateAdded == {"congestion_surcharge", "airport_fee"}
Codes == {"passenger_count", "payment_type"}

Columns == Required \cup DefaultZero \cup LateAdded \cup Codes
IntColumns == {"VendorID", "PULocationID", "DOLocationID"} \cup Codes
Surcharges == {"extra", "mta_tax", "improvement_surcharge"} \cup LateAdded
Money == {"fare_amount", "tip_amount", "tolls_amount", "total_amount"}

Total(s) ==
    s["extra"] + s["mta_tax"] + s["improvement_surcharge"]
      + s["congestion_surcharge"] + s["airport_fee"]

Values == Int \cup {Absent, Null, NaN}
RawRecord == [Columns -> Values]

\* TripEvent, as far as the two can differ.
TripEvent(amounts, surcharges, distance, passengers, payment, provider) ==
    [amounts |-> amounts, surcharges |-> surcharges, distance |-> distance,
     passengers |-> passengers, payment |-> payment, provider |-> provider]

PaymentType(code) ==
    CASE code \in {Null, 5} -> "UNKNOWN"
      [] code = 1 -> "CARD"
      [] code = 2 -> "CASH"
      [] OTHER -> "OTHER"

-----------------------------------------------------------------------------
(***************************************************************************)
(* Through the simulator and the gateway                                   *)
(***************************************************************************)
\* clean_row: a NaN is sent as null; a missing column is not sent.
CleanRow(raw) == [c \in Columns |-> IF raw[c] = NaN THEN Null ELSE raw[c]]

\* The defaults of TLCTripInput, for keys that are not there.
WithDefaults(json) ==
    [c \in Columns |-> IF json[c] # Absent THEN json[c]
                       ELSE IF c \in DefaultZero THEN 0 ELSE Null]

TripInputValid(trip) ==
    /\ \A c \in Required \cup DefaultZero : trip[c] # Null
    /\ trip["trip_distance"] >= 0

OrZero(v) == IF v = Null THEN 0 ELSE v

\* The constraints of the TripEvent that adapt_tlc builds.
TripEventValid(event, duration) ==
    /\ \A c \in Money : event.amounts[c] >= 0
    /\ event.surcharges >= 0
    /\ event.passengers # Null => event.passengers >= 0
    /\ duration > 0

\* Surcharges are summed before they are looked at.
AdaptTlc(json) ==
    LET trip == WithDefaults(json)
        event == TripEvent([c \in Money |-> trip[c]],
                           Total([c \in Surcharges |-> OrZero(trip[c])]),
                           trip["trip_distance"], trip["passenger_count"],
                           PaymentType(trip["payment_type"]), trip["VendorID"])
    IN  IF TripInputValid(trip) /\ TripEventValid(event, trip["duration"])
        THEN event ELSE Rejected

-----------------------------------------------------------------------------
(***************************************************************************)
(* Through the batch adapter                                               *)
(***************************************************************************)
\* Mutant: a default covers nulls, too.
ResolveNulls(raw) ==
    [c \in Columns |-> IF raw[c] \in {Absent, Null, NaN}
                       THEN IF c \in DefaultZero THEN 0 ELSE Null ELSE raw[c]]

\* _resolve_raw_columns: an absent column is made up, and codes are cast to
\* integers, which makes a NaN zero.
Resolve(raw) ==
    [c \in Columns |-> CASE raw[c] = Absent -> IF c \in DefaultZero THEN 0 ELSE Null
                         [] raw[c] = NaN /\ c \in IntColumns -> 0
                         [] OTHER -> raw[c]]

\* SQL's `v < 0': a NaN is not null, and greater than every number.
BelowZero(v) == v \notin {Null, NaN} /\ v < 0

\* _exact: a NaN has no decimal.
Exact(v) == IF v \in {Null, NaN} THEN 0 ELSE v

BatchSurcharges(trip) == Total([c \in Surcharges |-> Exact(trip[c])])

\* _reject_reason, without the month's bounds.
Rejects(trip) ==
    \/ \E c \in Required \cup DefaultZero : trip[c] = Null
    \/ BelowZero(trip["trip_distance"])
    \/ trip["duration"] # Null /\ trip["duration"] <= 0
    \/ \E c \in Money : BelowZero(trip[c])
    \/ BatchSurcharges(trip) < 0
    \/ BelowZero(trip["passenger_count"])

AdaptTlcBatch(raw) ==
    LET trip == Resolve(raw)
    IN  IF Rejects(trip) THEN Rejected
        ELSE TripEvent([c \in Money |-> IF trip[c] = NaN THEN Null ELSE trip[c]],
                       BatchSurcharges(trip), trip["trip_distance"],
                       trip["passenger_count"], PaymentType(trip["payment_type"]),
                       trip["VendorID"])
=============================================================================
