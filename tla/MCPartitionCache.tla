-------------------------- MODULE MCPartitionCache --------------------------
(* Small instances of PartitionCache for TLC. *)
EXTENDS PartitionCache

MCKeys == 1..3
=============================================================================
