----------------------------- MODULE MCColdPath -----------------------------
(***************************************************************************)
(* A small instance of ColdPath for TLC.  The cutoff is the last instant   *)
(* of day 1, inside the second month: h1 lies on it, h2 before it on the   *)
(* same day, s1 the instant after, s2 later on s1's day.  The first        *)
(* month's file holds a stray of the second, the second's a trip past the  *)
(* cutoff.                                                                 *)
(***************************************************************************)
EXTENDS ColdPath

CONSTANTS h0, h1, h2, s1, s2, jan, feb, z1

MCTrips == {h0, h1, h2, s1, s2}
MCPickup == [t \in MCTrips |->
    CASE t = h0 -> 1 [] t = h1 -> 3 [] t = h2 -> 2 [] t = s1 -> 4 [] t = s2 -> 5]
MCDayOf == [t \in MCTrips |->
    CASE t = h0 -> 0 [] t = h1 -> 1 [] t = h2 -> 1 [] OTHER -> 2]
MCZone == [t \in MCTrips |-> z1]
MCDaysOf == [m \in Months |-> IF m = jan THEN {0} ELSE {1, 2}]
MCReplayed == {h1, s1, s2}
MCRawFile == [m \in Months |-> IF m = jan THEN {h0, h1} ELSE {h1, h2, s1}]
=============================================================================
