---------------------------- MODULE MCOverlapWindow ---------------------------
(* The requests of a wave are interchangeable. *)
EXTENDS OverlapWindow, TLC

RequestSymmetry == Permutations(Requests)
==============================================================================
