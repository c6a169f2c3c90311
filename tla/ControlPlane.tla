---------------------------- MODULE ControlPlane ----------------------------
(***************************************************************************)
(* The cluster controller of internal/cluster (controller.go, rebalance.go, *)
(* agent.go) over the metadata of one partition.                            *)
(*                                                                          *)
(* Some brokers are control nodes too and run the reconcile loop; only the  *)
(* Raft leader's commands commit.  A pass reads the node's copy of the metadata, decides, *)
(* proposes a command and waits for it: between the read and the commit,    *)
(* other commands (a registration, an in-sync report, a command of the      *)
(* previous Raft leader that survived in the log) may be applied.           *)
(*                                                                          *)
(* Brokers heartbeat to the controller, may crash and restart, and the one  *)
(* that leads the partition reports the in-sync set (streamctl.reportISR).  *)
(* Who is caught up is arbitrary here.                                      *)
(***************************************************************************)
EXTENDS Metadata

CONSTANTS
  Controller,                 \* the brokers that are voters of the metadata group
  ReplicationFactor,
  PreferredLeaderRebalance, AllowUncleanElection, Rebalance,   \* ControllerConfig
  MaxEpoch, MaxCrashes, MaxMissed, MaxFailures, MaxHandovers, MaxReports  \* bounds

ASSUME ControllerAssumption == Controller \subseteq Broker

VARIABLES
  meta,       \* the metadata after the commands committed so far
  proc,       \* per broker process: down, starting (not registered yet), up
  raftLeader, \* the control node whose commands commit
  logged,     \* a command of the previous Raft leader that the new one's log still holds
  reports,    \* in-sync reports on their way to the controller
  seen,       \* per controller, lastSeen of each broker: never, fresh, stale
  wasLeader, grace,          \* per controller: leaderSince and the startup grace
  pass,       \* per controller: where its pass of Reconcile is
  move,       \* per controller: the replica move in flight
  used,       \* how much of each bound is used up
  terms       \* history: every <<epoch, leader>> ever assigned

metaVars == <<meta, terms>>
ctlVars  == <<seen, wasLeader, grace, pass, move>>
vars == <<metaVars, proc, raftLeader, logged, reports, ctlVars, used>>

NoMove == [from |-> NoBroker, to |-> NoBroker, phase |-> "none"]
NoCmd  == [kind |-> "none"]
FenceCmd(b, f)    == [kind |-> "fence", broker |-> b, fenced |-> f]
AssignCmd(l, e)   == [kind |-> "assign", leader |-> l, epoch |-> e]
ReassignCmd(r)    == [kind |-> "reassign", replicas |-> r]

Pass(pc, todo, live, cmd, mv) ==
  [pc |-> pc, todo |-> todo, live |-> live, cmd |-> cmd, mv |-> mv]
At(pc) == Pass(pc, {}, {}, NoCmd, NoMove)

Budget == [crashes |-> MaxCrashes, missed |-> MaxMissed,
           failures |-> MaxFailures, handovers |-> MaxHandovers]
Uses(what) == used[what] < Budget[what] /\ used' = [used EXCEPT ![what] = @ + 1]

-----------------------------------------------------------------------------
(* Commands.                                                                *)

Execute(m, cmd) ==
  CASE cmd.kind = "fence"    -> ApplyFenceBroker(m, cmd.broker, cmd.fenced)
    [] cmd.kind = "assign"   -> ApplyAssignLeader(m, cmd.leader, cmd.epoch)
    [] cmd.kind = "reassign" -> ApplyReassign(m, cmd.replicas)

\* What Apply's response tells the proposer.
Accepted(m, cmd) ==
  CASE cmd.kind = "fence"    -> cmd.broker \in m.registered
    [] cmd.kind = "assign"   -> AcceptsLeader(m, cmd.epoch)
    [] cmd.kind = "reassign" -> Created(m)

Commits(cmd) ==
  /\ meta' = Execute(meta, cmd)
  /\ terms' = terms \cup IF cmd.kind = "assign" /\ Accepted(meta, cmd)
                         THEN {<<cmd.epoch, cmd.leader>>} ELSE {}

-----------------------------------------------------------------------------
(* electLeader.                                                             *)

FirstOf(replicas, S) ==
  IF Range(replicas) \cap S = {} THEN NoBroker
  ELSE replicas[CHOOSE i \in DOMAIN replicas :
                  /\ replicas[i] \in S
                  /\ \A j \in 1 .. (i - 1) : replicas[j] \notin S]

\* A leader that is in sync stays, fenced or not.
ElectKeepsInSync(a, live) ==
  IF a.leader \in a.isr THEN a.leader ELSE FirstOf(a.replicas, live \cap a.isr)
\* AllowUncleanElection is not looked at.
ElectClean(a, live) == FirstOf(a.replicas, live \cap a.isr)

ElectLeader(a, live) ==
  LET eligible  == live \cap a.isr
      preferred == PreferredLeaderRebalance /\ a.replicas[1] \in eligible
      clean     == FirstOf(a.replicas, eligible)
  IN  IF preferred THEN a.replicas[1]
      ELSE IF a.leader \in eligible THEN a.leader
      ELSE IF clean # NoBroker \/ ~AllowUncleanElection THEN clean
      ELSE FirstOf(a.replicas, live)

-----------------------------------------------------------------------------
\* Every broker has registered with the first controller.
Init ==
  /\ meta = Meta(Broker, {}, Uncreated) /\ terms = {}
  /\ proc = [b \in Broker |-> "up"]
  /\ raftLeader \in Controller /\ logged = NoCmd /\ reports = {}
  /\ seen = [c \in Controller |->
               [b \in Broker |-> IF c = raftLeader /\ b # c THEN "fresh" ELSE "never"]]
  /\ wasLeader = [c \in Controller |-> FALSE]
  /\ grace = [c \in Controller |-> FALSE]
  /\ pass = [c \in Controller |-> At("idle")]
  /\ move = [c \in Controller |-> NoMove]
  /\ used = [w \in DOMAIN Budget |-> 0]

Heard(c, b) == seen' = [seen EXCEPT ![c][b] = "fresh"]

\* sweepLiveness judges every broker by the clock its pass started with.
Sweeping(c) == pass[c].pc \in {"sweep", "fencing"}

-----------------------------------------------------------------------------
(* Brokers and their agents.                                                *)

\* A control node loses its tables with the process.  (The Raft leader crashes by
\* handing over first.)
Crash(b) ==
  /\ proc[b] # "down" /\ b # raftLeader /\ Uses("crashes")
  /\ proc' = [proc EXCEPT ![b] = "down"]
  /\ IF b \in Controller
     THEN /\ seen' = [seen EXCEPT ![b] = [x \in Broker |-> "never"]]
          /\ wasLeader' = [wasLeader EXCEPT ![b] = FALSE]
          /\ grace' = [grace EXCEPT ![b] = FALSE]
          /\ pass' = [pass EXCEPT ![b] = At("idle")]
          /\ move' = [move EXCEPT ![b] = NoMove]
     ELSE UNCHANGED ctlVars
  /\ UNCHANGED <<metaVars, raftLeader, logged, reports>>

Restart(b) ==
  /\ proc[b] = "down"
  /\ proc' = [proc EXCEPT ![b] = "starting"]
  /\ UNCHANGED <<metaVars, raftLeader, logged, reports, ctlVars, used>>

\* Agent.register and handleClusterRegister: the registration is committed, and
\* counts as a heartbeat when it came over the network.
Register(b) ==
  /\ proc[b] = "starting" /\ logged = NoCmd
  /\ proc' = [proc EXCEPT ![b] = "up"]
  /\ meta' = ApplyRegisterBroker(meta, b)
  /\ IF b = raftLeader THEN UNCHANGED seen ELSE Heard(raftLeader, b)
  /\ UNCHANGED <<terms, raftLeader, logged, reports, wasLeader, grace, pass, move, used>>

\* Agent.heartbeat and handleClusterHeartbeat; the controller sends itself none.
Heartbeat(b) ==
  /\ proc[b] = "up" /\ b # raftLeader /\ seen[raftLeader][b] # "fresh"
  /\ Heard(raftLeader, b)
  /\ UNCHANGED <<metaVars, proc, raftLeader, logged, reports, wasLeader, grace, pass, move, used>>

\* SessionTimeout passes without a heartbeat of b reaching c: b is down or is c,
\* c is not the node the heartbeats go to, or they were lost.
SessionExpires(c, b) ==
  /\ seen[c][b] = "fresh" /\ ~Sweeping(c)
  /\ IF proc[b] = "down" \/ b = c THEN UNCHANGED used ELSE Uses("missed")
  /\ seen' = [seen EXCEPT ![c][b] = "stale"]
  /\ UNCHANGED <<metaVars, proc, raftLeader, logged, reports, wasLeader, grace, pass, move>>

\* reportISR of the broker that leads, with whoever it finds caught up.
ReportISR(b) ==
  /\ proc[b] = "up" /\ b = meta.asg.leader
  /\ Cardinality(reports) < MaxReports
  /\ \E S \in SUBSET (Broker \ {b}) :
       /\ S \cup {b} # meta.asg.isr
       /\ reports' = reports \cup {[epoch |-> meta.asg.epoch, isr |-> S \cup {b}]}
  /\ UNCHANGED <<metaVars, proc, raftLeader, logged, ctlVars, used>>

\* handleClusterMeta.
CommitReport(r) ==
  /\ logged = NoCmd
  /\ meta' = ApplyUpdateISR(meta, r.epoch, r.isr)
  /\ reports' = reports \ {r}
  /\ UNCHANGED <<terms, proc, raftLeader, logged, ctlVars, used>>

LoseReport(r) ==
  /\ Uses("failures")
  /\ reports' = reports \ {r}
  /\ UNCHANGED <<metaVars, proc, raftLeader, logged, ctlVars>>

-----------------------------------------------------------------------------
(* The reconcile loop.                                                      *)

\* The top of Reconcile: a node that lost the Raft leadership forgets its moves;
\* the leader vouches for itself, and starts its grace when it is new.
StepsDown(c) ==
  /\ pass[c].pc = "idle" /\ raftLeader # c /\ wasLeader[c]
  /\ wasLeader' = [wasLeader EXCEPT ![c] = FALSE]
  /\ grace' = [grace EXCEPT ![c] = FALSE]
  /\ move' = [move EXCEPT ![c] = NoMove]
  /\ UNCHANGED <<metaVars, proc, raftLeader, logged, reports, seen, pass, used>>

\* Reconcile without the heartbeat to itself.
StartPassUnvouched(c) ==
  /\ pass[c].pc = "idle" /\ raftLeader = c
  /\ pass' = [pass EXCEPT ![c] = Pass("sweep", meta.registered, {}, NoCmd, NoMove)]
  /\ wasLeader' = [wasLeader EXCEPT ![c] = TRUE]
  /\ grace' = [grace EXCEPT ![c] = @ \/ ~wasLeader[c]]
  /\ UNCHANGED <<metaVars, proc, raftLeader, logged, reports, seen, move, used>>
StartPass(c) ==
  /\ pass[c].pc = "idle" /\ raftLeader = c
  /\ pass' = [pass EXCEPT ![c] = Pass("sweep", meta.registered, {}, NoCmd, NoMove)]
  /\ wasLeader' = [wasLeader EXCEPT ![c] = TRUE]
  /\ grace' = [grace EXCEPT ![c] = @ \/ ~wasLeader[c]]
  /\ Heard(c, c)
  /\ UNCHANGED <<metaVars, proc, raftLeader, logged, reports, move, used>>

\* StartupGrace has passed since leaderSince.
GraceEnds(c) ==
  /\ grace[c] /\ ~Sweeping(c)
  /\ grace' = [grace EXCEPT ![c] = FALSE]
  /\ UNCHANGED <<metaVars, proc, raftLeader, logged, reports, seen, wasLeader, pass, move, used>>

\* sweepLiveness: the brokers whose fencing disagrees with lastSeen.  A command
\* that finds the flag already there changes nothing, so it does not matter that
\* the code compares with the flag of a copy.
Misjudged(c) ==
  {b \in pass[c].todo : IF b \in meta.fenced THEN seen[c][b] = "fresh"
                        ELSE seen[c][b] = "stale" \/ (seen[c][b] = "never" /\ ~grace[c])}

Proceeds(c, p) ==
  /\ pass' = [pass EXCEPT ![c] = p]
  /\ UNCHANGED <<metaVars, proc, raftLeader, logged, reports, seen, wasLeader, grace, used>>

SweepLiveness(c) ==
  /\ pass[c].pc = "sweep"
  /\ IF Misjudged(c) = {}
     THEN Proceeds(c, Pass("repair", {}, Live(meta), NoCmd, NoMove))
     ELSE \E b \in Misjudged(c) :
            Proceeds(c, Pass("fencing", pass[c].todo \ {b}, {},
                             FenceCmd(b, b \notin meta.fenced), NoMove))
  /\ UNCHANGED move

RepairLeadership(c) ==
  /\ pass[c].pc = "repair"
  /\ LET next == ElectLeader(meta.asg, pass[c].live)
     IN  IF Created(meta) /\ next # meta.asg.leader
         THEN /\ meta.asg.epoch < MaxEpoch
              /\ Proceeds(c, Pass("assigning", {}, {}, AssignCmd(next, meta.asg.epoch + 1), NoMove))
         ELSE Proceeds(c, At("moves"))
  /\ UNCHANGED move

\* advanceMoves, phaseShrink: leadership first, then the removal.
Without(replicas, b) == SelectSeq(replicas, LAMBDA r : r # b)
\* The leader goes with its replica.
ShrinkAnyway(c) ==
  Proceeds(c, Pass("shrinking", {}, {}, ReassignCmd(Without(meta.asg.replicas, move[c].from)), NoMove))
ShrinkOrVacate(c) ==
  IF meta.asg.leader = move[c].from
  THEN \/ /\ meta.asg.isr \ {move[c].from} = {}
          /\ Proceeds(c, At("plan"))
       \/ \E next \in meta.asg.isr \ {move[c].from} :
            /\ meta.asg.epoch < MaxEpoch
            /\ Proceeds(c, Pass("vacating", {}, {}, AssignCmd(next, meta.asg.epoch + 1), NoMove))
  ELSE Proceeds(c, Pass("shrinking", {}, {}, ReassignCmd(Without(meta.asg.replicas, move[c].from)),
                        NoMove))

ReadyToShrink(a, mv) == mv.phase = "shrink" \/ mv.to \in a.isr

AdvanceMoves(c) ==
  /\ pass[c].pc = "moves"
  /\ \/ /\ move[c] = NoMove
        /\ Proceeds(c, At("plan")) /\ UNCHANGED move
     \/ /\ move[c] # NoMove /\ ~ReadyToShrink(meta.asg, move[c])
        /\ Proceeds(c, At("plan"))
        /\ move' \in {move, [move EXCEPT ![c] = NoMove]}      \* MoveTimeout
     \/ /\ move[c] # NoMove /\ ReadyToShrink(meta.asg, move[c])
        /\ move' = [move EXCEPT ![c].phase = "shrink"]
        /\ ShrinkOrVacate(c)

\* After the vacating command: the assignment is read again.
ShrinkAfterVacating(c) ==
  /\ pass[c].pc = "vacated"
  /\ Proceeds(c, Pass("shrinking", {}, {}, ReassignCmd(Without(meta.asg.replicas, move[c].from)), NoMove))
  /\ UNCHANGED move

\* The last node of the list is not looked at.
ContainsBeforeLast(nodes, b) == b \in Range(SubSeq(nodes, 1, Len(nodes) - 1))
ContainsNode(nodes, b) == b \in Range(nodes)

\* planRebalance decides on a copy.  A replica that is not on a live broker is to
\* move; whether another is depends on the load of the other partitions, so any may.
Quiet(c) == /\ Rebalance /\ move[c] = NoMove /\ Created(meta)
            /\ Cardinality(meta.asg.isr) >= Len(meta.asg.replicas)
PlanRebalance(c) ==
  /\ pass[c].pc = "plan"
  /\ \/ /\ \/ ~Quiet(c)
           \/ Range(meta.asg.replicas) \subseteq Live(meta)
           \/ \A b \in Live(meta) : ContainsNode(meta.asg.replicas, b)
        /\ Proceeds(c, At("idle"))
     \/ /\ Quiet(c)
        /\ \E from \in Range(meta.asg.replicas), to \in Live(meta) :
             /\ ~ContainsNode(meta.asg.replicas, to)
             /\ Proceeds(c, Pass("planned", {}, {}, NoCmd, [from |-> from, to |-> to, phase |-> "expand"]))
  /\ UNCHANGED move

\* startMove reads the assignment again.
StartMove(c) ==
  /\ pass[c].pc = "planned"
  /\ IF ContainsNode(meta.asg.replicas, pass[c].mv.to) THEN Proceeds(c, At("idle"))
     ELSE Proceeds(c, Pass("expanding", {}, {}, ReassignCmd(Append(meta.asg.replicas, pass[c].mv.to)),
                           pass[c].mv))
  /\ UNCHANGED move

WaitingAt == {"fencing", "assigning", "vacating", "shrinking", "expanding"}
Waiting(c) == pass[c].pc \in WaitingAt

\* What the pass does with the response to its command.
Responds(c, accepted) ==
  LET pc == pass[c].pc
  IN  /\ pass' = [pass EXCEPT ![c] =
           CASE pc = "fencing"   -> Pass("sweep", @.todo, {}, NoCmd, NoMove)
             [] pc = "assigning" -> At("moves")
             [] pc = "vacating"  -> At(IF accepted THEN "vacated" ELSE "plan")
             [] pc = "shrinking" -> At("plan")
             [] pc = "expanding" -> At("idle")]
      /\ move' = [move EXCEPT ![c] =
           CASE pc = "shrinking" -> NoMove
             [] pc = "expanding" /\ accepted -> pass[c].mv
             [] OTHER -> @]
  /\ UNCHANGED <<proc, raftLeader, reports, seen, wasLeader, grace>>

\* The command commits.  What the previous leader left in the log comes first.
Commit(c) ==
  /\ Waiting(c) /\ raftLeader = c /\ logged = NoCmd
  /\ Commits(pass[c].cmd)
  /\ Responds(c, Accepted(meta, pass[c].cmd))
  /\ UNCHANGED <<logged, used>>

\* Apply returns an error and the command is lost: this node is not the leader any
\* more, or the command never entered its log.
Fail(c) ==
  /\ Waiting(c)
  /\ IF raftLeader = c THEN Uses("failures") ELSE UNCHANGED used
  /\ Responds(c, FALSE)
  /\ UNCHANGED <<metaVars, logged>>

\* The Raft leadership is lost and won back while Apply waits: it returns an error,
\* but the command is still in the node's log.
Regain(c) ==
  /\ Waiting(c) /\ raftLeader = c /\ logged = NoCmd /\ Uses("handovers")
  /\ logged' = pass[c].cmd
  /\ Responds(c, FALSE)
  /\ UNCHANGED metaVars

\* Another control node becomes the Raft leader; a command the old one had just
\* appended may be in its log.  (At most one such command at a time.)
Handover(c) ==
  /\ c # raftLeader /\ proc[c] # "down" /\ logged = NoCmd /\ Uses("handovers")
  /\ raftLeader' = c
  /\ logged' \in {NoCmd} \cup IF Waiting(raftLeader) THEN {pass[raftLeader].cmd} ELSE {}
  /\ UNCHANGED <<metaVars, proc, reports, ctlVars>>

ApplyLogged ==
  /\ logged # NoCmd
  /\ Commits(logged) /\ logged' = NoCmd
  /\ UNCHANGED <<proc, raftLeader, reports, ctlVars, used>>

\* Controller.CreateTopic: Place puts the replicas on the brokers that were live when it
\* read them, all of them at the start; some may be fenced when the command is applied.
CreateTopic ==
  /\ ~Created(meta) /\ logged = NoCmd /\ Cardinality(meta.registered) >= ReplicationFactor
  /\ \E replicas \in Injection(1 .. ReplicationFactor, meta.registered) :
       meta' = ApplyCreateTopic(meta, replicas)
  /\ UNCHANGED <<terms, proc, raftLeader, logged, reports, ctlVars, used>>

-----------------------------------------------------------------------------
Reconciles(c) == \/ StepsDown(c) \/ StartPass(c) \/ SweepLiveness(c) \/ RepairLeadership(c) \/ AdvanceMoves(c)
                 \/ ShrinkAfterVacating(c) \/ PlanRebalance(c) \/ StartMove(c) \/ Commit(c)

Next ==
  \/ \E b \in Broker : \/ Crash(b) \/ Restart(b) \/ Register(b) \/ Heartbeat(b) \/ ReportISR(b)
                       \/ \E c \in Controller : SessionExpires(c, b)
  \/ \E r \in reports : CommitReport(r) \/ LoseReport(r)
  \/ \E c \in Controller : Reconciles(c) \/ GraceEnds(c) \/ Fail(c) \/ Regain(c) \/ Handover(c)
  \/ ApplyLogged \/ CreateTopic

Spec == Init /\ [][Next]_vars

\* The loop's ticker and Raft keep going; brokers keep heartbeating, restart, and
\* the leader keeps reporting (ISRReportInterval).  Losses and crashes are bounded,
\* the caught-up set of the last report is everyone that is up.
ReportsEveryone(b) ==
  ReportISR(b) /\ \A r \in reports' \ reports :
                     r.isr = {x \in Range(meta.asg.replicas) : proc[x] = "up"}
Fairness ==
  /\ \A c \in Controller : WF_vars(Reconciles(c)) /\ SF_vars(GraceEnds(c)) /\ WF_vars(Fail(c))
  /\ \A b \in Broker : /\ WF_vars(Register(b)) /\ WF_vars(Heartbeat(b))
                       /\ SF_vars(ReportsEveryone(b))
                       /\ \A c \in Controller : SF_vars(proc[b] = "down" /\ SessionExpires(c, b))
  /\ WF_vars(\E r \in reports : CommitReport(r))
  /\ WF_vars(ApplyLogged) /\ WF_vars(CreateTopic)
FairSpec == Spec /\ Fairness

-----------------------------------------------------------------------------
(* Properties.                                                              *)

IsAssignment(a) ==
  /\ a = Assignment(a.leader, a.epoch, a.replicas, a.isr)
  /\ a.leader \in Broker \cup {NoBroker} /\ a.epoch \in Nat
  /\ a.replicas \in Seq(Broker) /\ IsInjective(a.replicas) /\ a.isr \subseteq Broker

\* The metadata, the tables of the controllers and the history have their shape; no
\* broker is placed twice.
TypeOK ==
  /\ meta = Meta(meta.registered, meta.fenced, meta.asg)
  /\ meta.registered \subseteq Broker /\ meta.fenced \subseteq meta.registered
  /\ IsAssignment(meta.asg)
  /\ terms \subseteq Nat \X (Broker \cup {NoBroker})
  /\ proc \in [Broker -> {"down", "starting", "up"}]
  /\ raftLeader \in Controller
  /\ \A r \in reports : r.epoch \in Nat /\ r.isr \subseteq Broker
  /\ seen \in [Controller -> [Broker -> {"never", "fresh", "stale"}]]
  /\ grace \in [Controller -> BOOLEAN] /\ wasLeader \in [Controller -> BOOLEAN]

\* applyAssignLeader's fence: whatever two controllers propose from whatever they
\* read, and whatever survives a change of Raft leader, an epoch is never given to
\* two leaders.
OneLeaderPerEpoch == \A t, u \in terms : t[1] = u[1] => t[2] = u[2]

\* Nobody counts toward durability without being a replica: not through a report
\* that crosses a reassignment, not through a removal.
InSyncIsPlaced == meta.asg.isr \subseteq Range(meta.asg.replicas)

\* Expand, catch up, shrink: a move never leaves fewer replicas than the
\* replication factor.
NeverUnderReplicated ==
  Created(meta) => Cardinality(Range(meta.asg.replicas)) >= ReplicationFactor

\* advanceMoves hands the leadership over before it removes a replica: the leader
\* is always one of the replicas.
LeaderIsPlaced == meta.asg.leader \in Range(meta.asg.replicas) \cup {NoBroker}

\* "Only an ISR member may be elected": the new leader of an epoch is in sync when
\* the command that elects it is applied.
ElectedFromISR ==
  [][meta'.asg.epoch > meta.asg.epoch /\ meta'.asg.leader # NoBroker
       => meta'.asg.leader \in meta.asg.isr]_vars

\* "A fenced broker ... is not counted as in-sync."
FencedNotInSync == meta.fenced \cap meta.asg.isr = {}

\* A fenced broker does not keep the leadership: repairLeadership moves it or
\* takes the partition offline.
FencedLeaderIsReplaced ==
  (meta.asg.leader \in meta.fenced) ~> (meta.asg.leader \notin meta.fenced)

\* The failover story: a broker that comes back is unfenced, catches up and is in
\* sync again.
BackInSync ==
  \A b \in Broker : <>[](proc[b] = "up" /\ b \in Range(meta.asg.replicas))
                       => []<>(b \in meta.asg.isr)

\* "Without this the controller ... fences itself": the node that sweeps never
\* proposes to fence itself, however long its passes and the time between them.
ControllerNotFenced == \A c \in Controller : pass[c].cmd # FenceCmd(c, TRUE)

\* The planner moves a replica off a broker that is never coming back.
DeadReplicaEvacuated ==
  \A b \in Broker : <>[](proc[b] = "down") => <>[](b \notin Range(meta.asg.replicas))
=============================================================================
