--------------------------- MODULE MCControlPlane ---------------------------
(* ControlPlane on a small cluster.                                         *)
EXTENDS ControlPlane, TLC

\* The control nodes are interchangeable, and so are the other brokers.
Symmetric == Permutations(Controller) \cup Permutations(Broker \ Controller)
=============================================================================
