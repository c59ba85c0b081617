---------------------------- MODULE MCSnapshots ----------------------------
(***************************************************************************)
(* Instances of Snapshots for TLC: a week of two runs, a month of three.   *)
(***************************************************************************)
EXTENDS Snapshots

WeekAndMonth == <<2, 3>>
=============================================================================
