-------------------------- MODULE MCSharePartition --------------------------
(* SharePartition for TLC: consumers are interchangeable.                   *)
EXTENDS SharePartition, TLC
ConsumerSymmetry == Permutations(Consumer)
=============================================================================
