----------------------------- MODULE MCHotPath -----------------------------
(***************************************************************************)
(* Small instances of HotPath for TLC.  The scale is 1 unit = 5 minutes of *)
(* the deployment where Size = 1, or a finer one where Size = 2; the ratio *)
(* Grace = 2 windows is the deployment's 10 minutes of grace to 5-minute   *)
(* windows.                                                                *)
(***************************************************************************)
EXTENDS HotPathRefinement, TLC

CONSTANTS z1, z2, p1, p2

OneZone == {z1}
TwoZones == {z1, z2}
OnePartition == {p1}
TwoPartitions == {p1, p2}

ZoneSymmetry == Permutations({z1, z2})
=============================================================================
