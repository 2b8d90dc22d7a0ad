---------------------------- MODULE MCPartitions ----------------------------
(***************************************************************************)
(* Instances of Partitions: all its constants are numbers of days.         *)
(***************************************************************************)
EXTENDS Partitions
=============================================================================
