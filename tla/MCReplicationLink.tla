------------------------- MODULE MCReplicationLink --------------------------
(* ReplicationLink for TLC: followers are interchangeable.                  *)
EXTENDS ReplicationLink, TLC
FollowerSymmetry == Permutations(Follower)
=============================================================================
