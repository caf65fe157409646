---------------------------- MODULE MCDailyEval ----------------------------
(***************************************************************************)
(* Small instances of DailyEval, and with it of Predictor, for TLC: `old'  *)
(* lies on the cutoff, the other trips after it.  The first model quotes 1 *)
(* more than a trip costs, the second 1 less for t1 and exactly for t2.    *)
(***************************************************************************)
EXTENDS DailyEval

CONSTANTS old, t1, t2

TwoTrips == {t1, t2}
OldAndTwo == {old, t1, t2}
MCPickup == [t \in Trips |-> IF t = old THEN 10 ELSE 11]
SameDay == [t \in Trips |-> 0]
MCActual == [t \in Trips |-> IF t = t1 THEN 2 ELSE 3]
MCPredicted ==
    [m \in Models |-> [t \in Trips |->
        MCActual[t] + (IF m = 1 THEN 1 ELSE IF t = t1 THEN -1 ELSE 0)]]
NewVersionEachTime == [m \in Models |-> m]
=============================================================================
