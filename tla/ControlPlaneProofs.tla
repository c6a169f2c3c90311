------------------------- MODULE ControlPlaneProofs -------------------------
(***************************************************************************)
(* An epoch of a partition is never given to two leaders, for any number of *)
(* brokers and controllers, whatever each of them has read, and whatever    *)
(* survives a change of Raft leader.                                        *)
(***************************************************************************)
EXTENDS ControlPlane, TLAPS

\* What a controller proposes is one of its three commands; an election has an epoch.
Proposal(cmd) == /\ cmd.kind \in {"fence", "assign", "reassign"}
                 /\ cmd.kind = "assign" => cmd.epoch \in Nat
GoodPass(p) == p.pc \in WaitingAt => Proposal(p.cmd)

\* The invariant is inductive with: the epochs given so far are not above the
\* current one, and every command on its way is a proposal.
EpochInv ==
  /\ meta.asg.epoch \in Nat
  /\ \A t \in terms : t[1] \in Nat /\ 0 < t[1] /\ t[1] <= meta.asg.epoch
  /\ OneLeaderPerEpoch
  /\ DOMAIN pass = Controller /\ raftLeader \in Controller
  /\ \A c \in Controller : GoodPass(pass[c])
  /\ logged # NoCmd => Proposal(logged)

-----------------------------------------------------------------------------
\* No command of metadata.go but applyAssignLeader moves the epoch, and that one
\* only forward.
LEMMA EpochNeverFalls ==
  ASSUME NEW m, m.asg.epoch \in Nat, NEW cmd, Proposal(cmd)
  PROVE  /\ Execute(m, cmd).asg.epoch \in Nat
         /\ m.asg.epoch <= Execute(m, cmd).asg.epoch
         /\ cmd.kind = "assign" /\ Accepted(m, cmd)
              => m.asg.epoch < cmd.epoch /\ Execute(m, cmd).asg.epoch = cmd.epoch
<1>1. CASE cmd.kind = "fence"
  BY <1>1 DEF Execute, ApplyFenceBroker, ShrinkISR, Meta, Assignment
<1>2. CASE cmd.kind = "assign"
  BY <1>2 DEF Execute, ApplyAssignLeader, Accepted, AcceptsLeader, Proposal, Meta, Assignment
<1>3. CASE cmd.kind = "reassign"
  BY <1>3 DEF Execute, ApplyReassign, Meta, Assignment
<1>. QED BY <1>1, <1>2, <1>3 DEF Proposal

\* Committing a command keeps the history of epochs in order.
LEMMA CommitStep ==
  ASSUME EpochInv, NEW cmd, Proposal(cmd), Commits(cmd)
  PROVE  /\ meta'.asg.epoch \in Nat
         /\ \A t \in terms' : t[1] \in Nat /\ 0 < t[1] /\ t[1] <= meta'.asg.epoch
         /\ OneLeaderPerEpoch'
<1>. DEFINE new == cmd.kind = "assign" /\ Accepted(meta, cmd)
<1>1. /\ meta' = Execute(meta, cmd)
      /\ terms' = terms \cup IF new THEN {<<cmd.epoch, cmd.leader>>} ELSE {}
  BY DEF Commits
<1>2. /\ Execute(meta, cmd).asg.epoch \in Nat
      /\ meta.asg.epoch <= Execute(meta, cmd).asg.epoch
      /\ new => meta.asg.epoch < cmd.epoch /\ Execute(meta, cmd).asg.epoch = cmd.epoch
  BY EpochNeverFalls DEF EpochInv
<1>3. meta.asg.epoch \in Nat /\ \A t \in terms : t[1] \in Nat /\ 0 < t[1] /\ t[1] <= meta.asg.epoch
  BY DEF EpochInv
<1>4. CASE new
  <2>. HIDE DEF new
  <2>1. terms' = terms \cup {<<cmd.epoch, cmd.leader>>}
    BY <1>1, <1>4
  <2>2. meta.asg.epoch < cmd.epoch /\ meta'.asg.epoch = cmd.epoch /\ cmd.epoch \in Nat
    BY <1>1, <1>2, <1>4
  <2>3. \A t \in terms' : t[1] \in Nat /\ 0 < t[1] /\ t[1] <= meta'.asg.epoch
    BY <2>1, <2>2, <1>3
  <2>4. \A t \in terms : t[1] # cmd.epoch
    BY <2>2, <1>3
  <2>5. OneLeaderPerEpoch'
    BY <2>1, <2>4 DEF EpochInv, OneLeaderPerEpoch
  <2>. QED BY <2>2, <2>3, <2>5
<1>5. CASE ~new
  <2>. HIDE DEF new
  <2>1. terms' = terms
    BY <1>1, <1>5
  <2>2. \A t \in terms' : t[1] \in Nat /\ 0 < t[1] /\ t[1] <= meta'.asg.epoch
    BY <2>1, <1>1, <1>2, <1>3
  <2>3. OneLeaderPerEpoch'
    BY <2>1 DEF EpochInv, OneLeaderPerEpoch
  <2>. QED BY <2>2, <2>3, <1>1, <1>2
<1>. QED BY <1>4, <1>5

\* A step that leaves the metadata's epoch, the history and the log alone needs
\* only proposals with an epoch.
LEMMA QuietStep ==
  ASSUME EpochInv, meta'.asg.epoch = meta.asg.epoch, terms' = terms, logged' = logged,
         raftLeader' = raftLeader, DOMAIN pass' = Controller,
         \A c \in Controller : GoodPass(pass'[c])
  PROVE  EpochInv'
BY DEF EpochInv, OneLeaderPerEpoch

\* After a response the pass waits for nothing.
LEMMA RespondsStep ==
  ASSUME DOMAIN pass = Controller, NEW c \in Controller, Waiting(c), NEW a, Responds(c, a)
  PROVE  /\ DOMAIN pass' = Controller
         /\ \A d \in Controller : pass'[d] = pass[d] \/ pass'[d].pc \notin WaitingAt
<1>1. \E p \in {Pass("sweep", pass[c].todo, {}, NoCmd, NoMove)} \cup
               {At(x) : x \in {"moves", "vacated", "plan", "idle"}} :
         pass' = [pass EXCEPT ![c] = p]
  BY DEF Responds, Waiting, WaitingAt
<1>. QED BY <1>1 DEF Pass, At, WaitingAt

-----------------------------------------------------------------------------
\* The epochs are in order at the start and in every step.
LEMMA EpochInvHolds == Spec => []EpochInv
<1>1. Init => EpochInv
  BY DEF Init, EpochInv, OneLeaderPerEpoch, Meta, Uncreated, Assignment, At, Pass, GoodPass, WaitingAt
<1>2. EpochInv /\ [Next]_vars => EpochInv'
  <2>. SUFFICES ASSUME EpochInv, [Next]_vars
                PROVE  EpochInv'
    OBVIOUS
  <2>0. DOMAIN pass = Controller /\ \A c \in Controller : GoodPass(pass[c])
    BY DEF EpochInv
  <2>1. ASSUME NEW p, NEW c \in Controller, Proceeds(c, p), GoodPass(p)
        PROVE  EpochInv'
    BY <2>0, <2>1, QuietStep DEF Proceeds, metaVars
  <2>2. ASSUME UNCHANGED <<meta, terms, pass, logged, raftLeader>>
        PROVE  EpochInv'
    BY <2>0, <2>2, QuietStep
  <2>3. \A x \in {"idle", "repair", "moves", "plan", "vacated"} :
          GoodPass(At(x)) /\ \A live : GoodPass(Pass(x, {}, live, NoCmd, NoMove))
    BY DEF GoodPass, At, Pass, WaitingAt
  <2>4. \A todo : GoodPass(Pass("sweep", todo, {}, NoCmd, NoMove))
    BY DEF GoodPass, Pass, WaitingAt
  <2>5. \A x, r, m : GoodPass(Pass(x, {}, {}, ReassignCmd(r), m))
    BY DEF GoodPass, Pass, Proposal, ReassignCmd
  <2>6. \A x, l : GoodPass(Pass(x, {}, {}, AssignCmd(l, meta.asg.epoch + 1), NoMove))
    <3>1. meta.asg.epoch + 1 \in Nat
      BY DEF EpochInv
    <3>. QED BY <3>1 DEF GoodPass, Pass, Proposal, AssignCmd
  <2>7. \A x, todo, b, f : GoodPass(Pass(x, todo, {}, FenceCmd(b, f), NoMove))
    BY DEF GoodPass, Pass, Proposal, FenceCmd
  <2>8. ASSUME NEW b \in Broker, Crash(b)
        PROVE  EpochInv'
    BY <2>0, <2>3, <2>8, QuietStep DEF Crash, metaVars, ctlVars
  <2>9. ASSUME NEW b \in Broker, Restart(b) \/ Heartbeat(b) \/ ReportISR(b)
        PROVE  EpochInv'
    BY <2>2, <2>9 DEF Restart, Heartbeat, ReportISR, metaVars, ctlVars
  <2>10. ASSUME NEW b \in Broker, Register(b)
        PROVE  EpochInv'
    BY <2>0, <2>10, QuietStep DEF Register, ApplyRegisterBroker, Meta
  <2>11. ASSUME NEW b \in Broker, NEW c \in Controller, SessionExpires(c, b)
         PROVE  EpochInv'
    BY <2>2, <2>11 DEF SessionExpires, metaVars
  <2>12. ASSUME NEW r \in reports, CommitReport(r)
         PROVE  EpochInv'
    BY <2>0, <2>12, QuietStep DEF CommitReport, ApplyUpdateISR, AcceptsISR, Meta, Assignment, ctlVars
  <2>13. ASSUME NEW r \in reports, LoseReport(r)
         PROVE  EpochInv'
    BY <2>2, <2>13 DEF LoseReport, metaVars, ctlVars
  <2>14. ASSUME NEW c \in Controller, StepsDown(c) \/ GraceEnds(c)
         PROVE  EpochInv'
    BY <2>2, <2>14 DEF StepsDown, GraceEnds, metaVars
  <2>15. ASSUME NEW c \in Controller, StartPass(c)
         PROVE  EpochInv'
    BY <2>0, <2>4, <2>15, QuietStep DEF StartPass, metaVars
  <2>16. ASSUME NEW c \in Controller, SweepLiveness(c)
         PROVE  EpochInv'
    BY <2>1, <2>3, <2>7, <2>16 DEF SweepLiveness
  <2>17. ASSUME NEW c \in Controller, RepairLeadership(c)
         PROVE  EpochInv'
    BY <2>1, <2>3, <2>6, <2>17 DEF RepairLeadership
  <2>18. ASSUME NEW c \in Controller, ShrinkOrVacate(c)
         PROVE  EpochInv'
    BY <2>1, <2>3, <2>5, <2>6, <2>18 DEF ShrinkOrVacate
  <2>19. ASSUME NEW c \in Controller, AdvanceMoves(c)
         PROVE  EpochInv'
    BY <2>1, <2>3, <2>18, <2>19 DEF AdvanceMoves
  <2>20. ASSUME NEW c \in Controller, ShrinkAfterVacating(c) \/ PlanRebalance(c) \/ StartMove(c)
         PROVE  EpochInv'
    <3>1. \A mv : GoodPass(Pass("planned", {}, {}, NoCmd, mv))
      BY DEF GoodPass, Pass, WaitingAt
    <3>. QED BY <2>1, <2>3, <2>5, <2>20, <3>1 DEF ShrinkAfterVacating, PlanRebalance, StartMove
  <2>21. ASSUME NEW c \in Controller, Waiting(c), NEW a, Responds(c, a)
         PROVE  DOMAIN pass' = Controller /\ \A d \in Controller : GoodPass(pass'[d])
    BY <2>0, <2>21, RespondsStep DEF GoodPass
  <2>22. ASSUME NEW c \in Controller, Commit(c)
         PROVE  EpochInv'
    <3>1. Proposal(pass[c].cmd)
      BY <2>0, <2>22 DEF Commit, Waiting, GoodPass
    <3>2. /\ meta'.asg.epoch \in Nat
          /\ \A t \in terms' : t[1] \in Nat /\ 0 < t[1] /\ t[1] <= meta'.asg.epoch
          /\ OneLeaderPerEpoch'
      BY <2>22, <3>1, CommitStep DEF Commit
    <3>3. DOMAIN pass' = Controller /\ \A d \in Controller : GoodPass(pass'[d])
      BY <2>21, <2>22 DEF Commit
    <3>4. logged' = logged /\ raftLeader' = raftLeader
      BY <2>22 DEF Commit, Responds
    <3>. QED BY <3>2, <3>3, <3>4 DEF EpochInv
  <2>23. ASSUME NEW c \in Controller, Fail(c)
         PROVE  EpochInv'
    BY <2>21, <2>23, QuietStep DEF Fail, metaVars, Responds
  <2>24. ASSUME NEW c \in Controller, Handover(c)
         PROVE  EpochInv'
    BY <2>24 DEF Handover, metaVars, ctlVars, EpochInv, OneLeaderPerEpoch, GoodPass, Waiting
  <2>25. ASSUME ApplyLogged
         PROVE  EpochInv'
    <3>1. Proposal(logged)
      BY <2>25 DEF ApplyLogged, EpochInv
    <3>2. /\ meta'.asg.epoch \in Nat
          /\ \A t \in terms' : t[1] \in Nat /\ 0 < t[1] /\ t[1] <= meta'.asg.epoch
          /\ OneLeaderPerEpoch'
      BY <2>25, <3>1, CommitStep DEF ApplyLogged
    <3>. QED BY <2>0, <2>25, <3>2 DEF ApplyLogged, EpochInv, ctlVars
  <2>26. ASSUME CreateTopic
         PROVE  EpochInv'
    <3>1. meta'.asg.epoch = meta.asg.epoch
      BY <2>26 DEF CreateTopic, ApplyCreateTopic, Created, Uncreated, Meta, Assignment
    <3>. QED BY <2>0, <2>26, <3>1, QuietStep DEF CreateTopic, ctlVars
  <2>27. ASSUME NEW c \in Controller, Regain(c)
         PROVE  EpochInv'
    <3>1. Proposal(pass[c].cmd)
      BY <2>0, <2>27 DEF Regain, Waiting, GoodPass
    <3>2. DOMAIN pass' = Controller /\ \A d \in Controller : GoodPass(pass'[d])
      BY <2>21, <2>27 DEF Regain
    <3>. QED BY <2>27, <3>1, <3>2 DEF Regain, Responds, metaVars, EpochInv, OneLeaderPerEpoch
  <2>28. CASE UNCHANGED vars
    BY <2>2, <2>28 DEF vars, metaVars, ctlVars
  <2>. QED BY <2>8, <2>9, <2>10, <2>11, <2>12, <2>13, <2>14, <2>15, <2>16, <2>17, <2>19, <2>20,
              <2>22, <2>23, <2>24, <2>25, <2>26, <2>27, <2>28 DEF Next, Reconciles
<1>. QED BY <1>1, <1>2, PTL DEF Spec

\* applyAssignLeader's fence on the epoch is enough: for any brokers, controllers,
\* crashes, lost answers and changes of Raft leader, an epoch has one leader.
THEOREM OneLeaderPerEpochHolds == Spec => []OneLeaderPerEpoch
BY EpochInvHolds, PTL DEF EpochInv
=============================================================================
