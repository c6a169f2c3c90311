------------------------------ MODULE Metadata ------------------------------
(***************************************************************************)
(* The replicated cluster metadata of internal/cluster/metadata.go for one  *)
(* partition: which brokers are registered and fenced, and who leads, in    *)
(* which epoch, over which replicas and in-sync set.  Each operator is one  *)
(* command of the metadata log; Raft applies them one at a time, in one     *)
(* order, on every node.                                                    *)
(*                                                                          *)
(* The in-sync set is a set: no command looks at its order.  Addresses,     *)
(* racks, sessions, timestamps and version numbers are left out.            *)
(***************************************************************************)
EXTENDS Integers, Sequences, FiniteSets, Functions

CONSTANTS Broker, NoBroker

ASSUME NoBrokerAssumption == NoBroker \notin Broker

Assignment(leader, epoch, replicas, isr) ==
  [leader |-> leader, epoch |-> epoch, replicas |-> replicas, isr |-> isr]
Meta(registered, fenced, asg) == [registered |-> registered, fenced |-> fenced, asg |-> asg]

\* A partition nobody has created: no placement.
Uncreated == Assignment(NoBroker, 0, <<>>, {})
Created(m) == m.asg # Uncreated

Live(m) == m.registered \ m.fenced

-----------------------------------------------------------------------------
ApplyRegisterBroker(m, b) == Meta(m.registered \cup {b}, m.fenced \ {b}, m.asg)

ShrinkISR(a, b) == Assignment(a.leader, a.epoch, a.replicas, a.isr \ {b})

ApplyFenceBroker(m, b, fenced) ==
  IF b \notin m.registered \/ (b \in m.fenced) = fenced THEN m
  ELSE IF fenced THEN Meta(m.registered, m.fenced \cup {b}, ShrinkISR(m.asg, b))
       ELSE Meta(m.registered, m.fenced \ {b}, m.asg)

\* Every replica starts in sync: they all hold the same empty log.
ApplyCreateTopic(m, replicas) ==
  IF Created(m) THEN m
  ELSE Meta(m.registered, m.fenced, Assignment(NoBroker, 0, replicas, Range(replicas)))

\* The fence on a reused epoch, and the same with the comparison off by one.
AcceptsEqualEpoch(m, epoch) == Created(m) /\ epoch >= m.asg.epoch
AcceptsLeader(m, epoch) == Created(m) /\ epoch > m.asg.epoch

\* No proposer sends an in-sync set with the leader, so the old one stays.
ApplyAssignLeader(m, leader, epoch) ==
  IF AcceptsLeader(m, epoch)
  THEN Meta(m.registered, m.fenced, Assignment(leader, epoch, m.asg.replicas, m.asg.isr))
  ELSE m

AcceptsISR(m, epoch, isr) ==
  Created(m) /\ epoch = m.asg.epoch /\ isr \subseteq Range(m.asg.replicas)

ApplyUpdateISR(m, epoch, isr) ==
  IF AcceptsISR(m, epoch, isr)
  THEN Meta(m.registered, m.fenced,
            Assignment(m.asg.leader, epoch, m.asg.replicas,
                       isr \cup ({m.asg.leader} \ {NoBroker})))
  ELSE m

\* applyReassign without the filter on the in-sync set.
ReassignKeepsISR(m, replicas) ==
  Meta(m.registered, m.fenced, Assignment(m.asg.leader, m.asg.epoch, replicas, m.asg.isr))
ApplyReassign(m, replicas) ==
  IF Created(m)
  THEN Meta(m.registered, m.fenced,
            Assignment(m.asg.leader, m.asg.epoch, replicas, m.asg.isr \cap Range(replicas)))
  ELSE m
=============================================================================
