---------------------------- MODULE ReplicatedLog ----------------------------
(***************************************************************************)
(* What replication promises a publisher (internal/stream/replicate.go,     *)
(* AckWaiter): records are written in order, every follower holds a prefix  *)
(* of them that only grows, and a record is confirmed once, when a quorum   *)
(* of followers holds it.  Nothing is said of connections, batches or       *)
(* acknowledgements: ReplicationLink, which has them, implements this.      *)
(***************************************************************************)
EXTENDS Naturals

CONSTANTS Follower, Quorum

VARIABLES
  written,   \* how many records the leader has
  held,      \* how many of them each follower has
  confirmed  \* the sequences whose publishers were told they are replicated

vars == <<written, held, confirmed>>

Init == written = 0 /\ held = [f \in Follower |-> 0] /\ confirmed = {}

Write == written' = written + 1 /\ UNCHANGED <<held, confirmed>>

Copy(f) ==
  /\ \E n \in (held[f] + 1) .. written : held' = [held EXCEPT ![f] = n]
  /\ UNCHANGED <<written, confirmed>>

Confirm(s) ==
  /\ s \notin confirmed /\ confirmed' = confirmed \cup {s}
  /\ \E Q \in Quorum : \A f \in Q : held[f] >= s
  /\ UNCHANGED <<written, held>>

Next ==
  \/ Write
  \/ \E f \in Follower : Copy(f)
  \/ \E s \in 1 .. written : Confirm(s)

Spec == Init /\ [][Next]_vars
=============================================================================
