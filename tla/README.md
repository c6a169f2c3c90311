# boltq: TLA+ models and proofs

boltq is a message broker written in Go.  This directory holds TLA+ models of
its concurrent and crash-prone parts, TLC configurations that check them on small
instances, and TLAPS proofs of the safety properties that matter most.  Every
definition is translated from the source; `PROJECT.json` maps each one to its
lines.

## The system and its hard parts

| Part | State | Operations | What is hard |
|---|---|---|---|
| Stream partition (`internal/stream`) | segments, next/first sequence, epoch history, leadership flag | Append, AppendReplicated, Read, Tail, TruncateTo, EnforceRetention, BecomeLeader, Resign | torn tails, retention under readers, divergence across terms |
| Cursor store (`stream/cursor.go`) | positions, dirty flag, file | Commit, Flush, Sync, Compact, load | cursor ahead of the log after a crash, compaction racing commits |
| Share partition (`queuelog/share.go`) | window base and next, entries, retired set, heap | acquire, ack, nack, sweep, release, close | redelivery, dead-letter failures, skips, restarts |
| Queue router (`queuelog/router.go`, `leadership.go`) | exchanges, queues, gate | Declare, Bind, Publish, RefreshLeadership | check-then-act on leadership |
| Replication (`internal/replication`) | connections, streams, acked positions | serve, streamPartition, WaitFor, session, applyBatch, ackLoop | stale connections, late batches, acks before fsync, gaps |
| Control plane (`internal/cluster`) | brokers, assignments, ISR, epochs, moves | fence, elect, update ISR, reassign, rebalance | decisions on stale snapshots, late ISR reports |
| Reconciler (`internal/streamctl`) | applied view, promoted epochs, followers | resign, lead, follow, report ISR, forward | views of different age on different nodes |
| Broker (`internal/broker`, `wal`, `storage`, `scheduler`) | queues, pending, delayed, dead letters, WAL, spill files | Publish, Consume, Ack, Nack, timeouts, Checkpoint, recovery | checkpoint outside the lock, pop-then-pending window, full queues |
| Raft queue plane (`cluster/fsm.go`, `broker.go`) | the broker as a state machine | Apply, Snapshot, Restore | local maintenance beside replicated commands |
| Send path (`internal/fanout`, `dedup`) | claims, conversation log, inboxes | Claim, Complete, Abandon, Send | retries of half-done sends, expiring claims |
| Gateway (`internal/gateway`) | sessions, subscriptions, send queues | hello/resume, subscribe, tail, commit, teardown | resume position against what the socket carried |
| Presence (`internal/presence`) | sessions per user, watchers | Bind, Unbind, Touch, Sweep, Report | order of events, remote sessions |
| Outbox (`internal/outbox`) | watched inboxes, cursor | Watch, runPartition, deliver | shutdown in the middle of a batch |
| Ephemeral hub, cache store, identity | subscriptions, entries, rules | Subscribe/Close, Incr/Expire, Authorize | replaced subscriptions, expiry edges |

Interactions: the queue plane and the gateway read stream partitions and commit
cursors; replication copies partitions between nodes; the reconciler turns the
control plane's assignments into leadership of partitions and follower sessions.

## Modules

| Module | Models |
|---|---|
| `SharePartition` | the delivery window of one consumer group over one partition, its cursor, the log below it, restarts |
| `SharePartitionProofs` | its inductive invariant and theorems |
| `ReplicatedLog` | what replication promises a publisher, abstractly |
| `ReplicationLink` | replication of one partition during one leadership term; implements `ReplicatedLog` |
| `ReplicationLinkProofs` | its inductive invariants and theorems |
| `Metadata` | the replicated cluster metadata of one partition and the commands that change it, as operators |
| `ControlPlane` | controllers, agents and in-sync reports over that metadata |
| `ControlPlaneProofs` | its inductive invariant and theorem |
| `WorkQueue` | one work queue of the in-memory broker: its tables, WAL, spill file, scheduler, checkpoints, recovery |
| `MC...` | instances for TLC |

### SharePartition

`win` is the `sharePartition` struct: `base`, `next`, the `entries` map (delivery
count and holder), the `retired` set and the `available` heap (a set: the heap's
order is "oldest first").  Each `...Locked` helper is an operator on windows and
each public operation, which runs under `sp.mu`, is one action composing them in
the code's order (`acquire` in two phases: redelivery, then `Fill` with new
records).  The clock is abstracted: a reap is given the set of leases it
finds expired, any set of current leases.  `cursor` is what the cursor store holds
in memory and `durable` what its file holds; `flushed` is how much of the log has
left the write buffer.  `Crash` loses the buffers, `PowerLoss` also unsynced file
tails.  `AcquireDuringRetention` is acquire when retention closes a segment
between `Partition.Read`'s copy of the segment list and its read of the file; it
belongs to `RaceSpec` only, and the theorems are about `Spec` and `PowerLossSpec`.
There `next` jumps past a hole while the room was computed from its old value, so
`WindowPartitioned` and `InFlightBounded` do not hold of `RaceSpec`; with the constants
of `share_window` the other five invariants do.

### ReplicationLink

A record is its sequence.  A connection has two ends that fail separately: `conn`
is the follower's, `serving` the leader's `serve` goroutines, and `leaving` those
between their two clean-up steps.  `late` holds batches that cancelled streams
have read and still write.  `flog` is a follower's log in log order, so a hole, a
duplicate or a foreign record would be visible; `synced` is what an fsync covers.
`Spec` has no crashes, `CrashSpec` adds them.  `StreamFails` is `streamPartition`
giving up on an error of `ReadFrom` or `encodeBatch` while its connection lives; it
happens when `MayFail` says so.  `ReplicatedLog` knows only how much is written, how
much each follower holds and what is confirmed; `KeepsThePromise` is the refinement,
for followers that do not crash.  Abstraction: `ReadFrom` overtaken by retention in
the middle of a batch leaves a hole in it; the model ships the part before the hole
and then the part after it as two batches, the second of which the follower refuses.
In the code they are one frame, so the first part is appended but not fsynced before
the re-fetch; the next batch's fsync covers it.

### ControlPlane

`meta` is the metadata after the committed commands; each command is an operator
of `Metadata`, applied in one step.  A controller's `pass` of `Reconcile` is a
little program: it reads the metadata, decides, proposes a command and waits
(`pass.pc`); other commands may be applied before its own.  Brokers crash and
restart, miss heartbeats (`seen` is `lastSeen` with the clock abstracted to never,
fresh and stale) and report the in-sync set, any set, with the epoch they lead in.
When another control node takes over, a command the old one had appended may still
be in its log (`logged`): it has not been applied when the new controller starts to
read.  `Regain` is the same with one controller: it loses the leadership, is told
that its command failed, leads again, and the command is applied later.  `Fail` is a
command that never reaches the log.  A move is planned on one copy of the metadata
(`PlanRebalance`) and started on a newer one (`StartMove`).  Consensus itself is
external.  The planner's choice among replicas depends on the load of other
partitions and is arbitrary, except that a replica on a broker that is not live is due
to move: some live broker without a replica is then taken to be below the planner's
ceiling, which the other partitions' load could prevent.

### WorkQueue

One queue of `broker.go` with disk storage.  A copy of a message is its id and
retry count.  `queue`, `delayed`, `pending` and `dead` are the broker's tables; what
a goroutine has taken out of one table and not yet put into the next is in `hands`
(`TryConsume` between `TryPop` and `pending`, `Nack` and `RequeueTimedOut` before
`retryOrDeadLetter`) or in `sched.ready` (promoted delayed messages).  Each critical
section of `b.mu`, `pendingMu` or a queue's mutex is an action.  The scheduler is one
goroutine, its tick a sequence of actions.  `Checkpoint` is four: `Capture` under the
locks, `Truncate`, one `Rewrite` per record, `Finish`; `AutoCheckpoint`'s goroutine
and a caller (a purge, or recovery) may run it at once.  `wal` and `spill` are the
files; `Recover` replays the first as `main.go` does.  Four histories say what became
of an id: `settled` (acknowledged or purged), `dropped` (thrown away by
`retryOrDeadLetter` or `ProcessAdvancedFeatures` at a full queue), `exposed` (left off
the disk by a checkpoint or a reload) and `refused` (its `Publish` failed at the spill
file, after the WAL had it).  The properties excuse a lost message only by naming
`dropped` or `exposed`; both losses are reported below.  Abstractions: one priority
level; delays, TTLs and ack deadlines end at any moment; the WAL may exceed the
compaction threshold after any record; the reload of the spill file is one step; the
queue exists from the start, where in the code a first poll creates it; a failed
write of the WAL changes nothing; two publish records of one id, left by two checkpoints
that overlap, are recovered as two copies with a retry count each, where in the code
they share one `*Message` and so reach `MaxRetry` together.

## Runs

| Run | Checks | Shows |
|---|---|---|
| `share_window` | `TypeOK`, `WindowPartitioned`, `InFlightBounded`, `HeapMatchesWindow`, `AtLeastOnce`, `SettledStaysOut`, `CursorWithinLog` | the window survives every mix of the operations, retention in the middle of a read excepted |
| `share_liveness` | `EveryRecordLeavesTheQueue` | no record pins the window |
| `share_retention_race` | `EveryRecordLeavesTheQueue` (violated) | retention under a read wedges the queue |
| `replication_link` | `ConfirmedIsReplicated`, `AckedIsHeld`, `HighWatermarkIsHeld`, `KeepsThePromise` | confirmations are honest under stale connections, and the link implements `ReplicatedLog` |
| `replication_recovery` | `TypeOK`, `FollowerIsPrefix`, `ServedFollowersReachHead` | with retention, crashes, failed fsyncs and failed reads no hole appears, and followers that retention has not overtaken and whose stream lives catch up |
| `control_moves` | `TypeOK`, `InSyncIsPlaced`, `NeverUnderReplicated`, `LeaderIsPlaced`, `ControllerNotFenced` | one controller that stays leader, replica moves, failed commands, missed heartbeats |
| `control_epochs` | `OneLeaderPerEpoch` | changes of controller and commands left in the log |
| `control_liveness` | `FencedLeaderIsReplaced`, `BackInSync` | failover happens, and with unclean election replicas come back |
| `control_stale_election` | `ElectedFromISR` (violated) | an election decided on a copy |
| `work_queue` | `TypeOK`, `NothingMislaid`, `Recoverable`, `OneCopy` | messages in transit between tables, files and goroutines, with a compaction, a purge and a crash; drops at a full queue are named, not hidden |
| `work_queue_liveness` | `EveryMessageSettles` | timeouts, retries, spills and delays end: with an answer, a dead letter, an expiry or a loss that has a name |
| `work_queue_compaction` | `CompactionKeepsActive` (violated) | a compaction forgets a message in transit |

Bounds.  Two consumers, three sequences, a window of two and two deliveries are
enough for a record to be leased, expire, be redelivered out of order, be settled
behind an unsettled one, be skipped by retention and meet a restart.  Two
followers with two connections each give stale serve goroutines beside live ones; in
`replication_link` both must hold a record before it is confirmed (`MinInSync` = 3),
and without retention or crashes no batch is late or refused there.  Those cases are
`replication_recovery`'s: one follower, three sequences, retention, a crash, failed
reads and two frames on the wire make gaps, re-fetches, and late, duplicate and refused
batches.  `MinInSync` = 3 makes confirmations impossible in that run, which is about
the logs.
The control plane needs three brokers to move a replica of a partition with two,
two control nodes for a handover, and one each of missed sessions, failed commands
and reports on their way: every budget is one unless a run is about it.
`control_moves` has no handovers, because `LeaderIsPlaced` does not hold across them
(below); with one, its other invariants were found to hold as well, in 2 million states.
`BackInSync` is checked with unclean election allowed, and does not hold without.  Elections
stop at `MaxEpoch`: behaviours with more elections are followed up to there, ten in
`control_liveness`.  A queue of one and two messages, one delayed, make spills, full
queues at a retry or a promotion, and dead letters; a compaction and the checkpoint of
a purge may overlap, and one crash, the purge before it, can fall anywhere in either
rewrite.  A second crash is not needed for a loss.  In `work_queue_liveness` the message without a TTL is the one
that must be answered or dead-lettered; the other may also expire.

Fairness.  `SharePartition!Fairness`: some consumer keeps polling and the
sweeper's ticker runs, each lease left alone being found expired in the end.
`ReplicationLink!FairSpec`: `runLoop` redials for the life of the process, a
session whose peer is gone ends, and goroutines of a live connection keep running.
`ControlPlane!FairSpec`: the tickers of controllers and agents run, time passes
(sessions and the grace end), commands of a stable Raft leader commit, and a leader
that keeps reporting finds all its live replicas caught up again and again.  Crashes
and losses are bounded; a crashed broker need not return.  `WorkQueue!FairSpec`:
consumers keep polling but need never answer, the scheduler's ticker and time run on,
goroutines finish what they have begun, and a crashed process is started again.

### Further disagreements

Three disagreements between the code and its documentation have a run of their own
above.  These were met too; each is reproduced by putting the property into the
configuration named, without its `SYMMETRY`:

- `share.go:491`: `DeliveryCapped` (`share_window`).  `releaseConsumer` and `releaseAll`
  put a lease back without looking at its delivery count, so a record whose consumer
  disconnects is delivered more than `MaxDelivery` times (`share.go:93` says it "caps
  redelivery attempts before dead-lettering").
- `share.go:247-259`: `WindowPartitioned`, `InFlightBounded` of `RaceSpec` (the constants
  of `share_window`).  The race of `share_retention_race` also leaves sequences of the
  window untracked and lets it outgrow `MaxInFlight`, though "the highest sequence handed
  out may not exceed the window base by more than this" (`share.go:97-98`).
- `broker.go:475-478, 778-784`: `RetriedIsKept` (`work_queue`).  A nacked or timed-out
  message that meets a full queue is thrown away: `retryOrDeadLetter` reports an error
  and keeps no copy.  A dead letter at a full dead-letter queue and a promoted delayed
  message at a full queue are thrown away without one; only `Publish` spills.
  `docs/api-reference.md:180-181` says a nacked "message is re-queued to the original
  queue" or "moved to the dead letter queue", `docs/architecture.md:122` the latter too,
  and `README.md:37` that a full queue is met "by overflowing to disk".  The message is
  in the history `dropped` from then on.
- `broker.go:280` and `588-648`, beside the finding of `work_queue_compaction`: a crash
  between the truncation of the WAL and the last record of its rewrite loses messages as
  well.  So does a crash once the spill file has been reloaded, if a checkpoint ran while
  the message was only there.  (`Recoverable` excuses both as `exposed`.)
  `docs/persistence.md:3` speaks of "ensuring messages survive server crashes and
  restarts".
- `follower.go:292`: `FollowersReachHead` (`replication_recovery`, `MayFail = FALSE`).  A
  follower that retention has overtaken refuses the oldest surviving record as a gap and
  re-fetches for ever; the comment calls this "informational, not fatal".
- `leader.go:514`: `FollowersReachHead` (`replication_recovery`, `MayRetain = FALSE`).
  After a failed read or encoding the stream's goroutine returns while the connection
  lives, the follower asks for nothing more, and the partition is no longer copied; the
  same function waits for a missing topic because "giving up here would leave the
  partition unreplicated forever" (`leader.go:471-472`).
- `follower.go:463`: `AckedIsOnDisk` (`replication_recovery`).  `ackLoop` reports the
  local head between `applyBatch`'s append and its fsync, though `SyncOnApply`
  (`config/messaging.go:75`) "makes a follower fsync before acknowledging".
- `scheduler.go:61`: `OnlyLateRequeued` (`work_queue_liveness`).  The loop works through
  an old copy of `pending` and requeues a delivery that began after it.
- `share.go`, `cursor.go:282`: `AtLeastOnce` of `PowerLossSpec` (the constants of
  `share_window`).  Log and cursor file are not fsynced in step; after a loss of
  power the cursor can be ahead of the log, and the records that reuse the lost
  sequences are skipped.
- `leader.go:309`: `ConnectedAreCounted` (`replication_link`).  The clean-up of a
  stale connection removes a node that has already reconnected.
- `leader.go:698`: `HighWatermarkIsHeld` (`replication_link`, `MinInSync = 1`).  The
  reported watermark is the sequence still to be written.
- `metadata.go:449`: `BackInSync` (`control_liveness`, `AllowUncleanElection =
  FALSE`).  The last in-sync replica is removed too, and then nobody can be elected
  although every replica is back.
- `metadata.go:533`: `FencedNotInSync` (`control_moves`).  A report on its way puts a
  fenced broker back into the in-sync set.
- `rebalance.go:171`: `LeaderIsPlaced` (`control_moves`, `MaxHandovers = 1`).  An
  election that was reported as failed stays in the log and is applied after
  `advanceMoves` has looked at the leader; the shrink then removes the elected broker.
  With two controllers (`control_epochs`, `ReplicationFactor = 1`, `Rebalance = TRUE`,
  `MaxEpoch = 3`) a new controller elects a broker whose removal is still in its log.
- `rebalance.go:64`: `DeadReplicaEvacuated` of `FairSpec` (`control_moves`,
  `PreferredLeaderRebalance = FALSE`, `MaxCrashes = 1`, `MaxMissed = 0`,
  `MaxFailures = 0`).  Fencing a dead broker keeps its replicas from being planned away.

## Proofs

`SharePartitionProofs`: the invariant `IInv` joins the window invariants
(inductive together: the base is not retired, the window is the disjoint union of
tracked and retired sequences, the heap has every unheld entry), the order of
`first`, `flushed`, cursors and `base`, and the accounting of settled records.
One lemma per `...Locked` helper says what it preserves; the step lemma has one
case per action.  `WindowSafe` holds with power loss too; `NoRecordSkipped`,
`SettledNotRedelivered` and `CursorStaysInLog` for `Spec`.  Assumption:
`ConfigAssumption` (positive bounds).

`ReplicationLinkProofs`: `PrefixAlways` (crashes included) from the invariant that
every frame in flight holds written records; `ConfirmationIsHonest` from the
further invariant that every ack in flight is at most the follower's log, which
needs that logs only grow, hence no crashes.  `PromiseIsKept`, the refinement of
`ReplicatedLog`, from the same invariant: a batch applied is a copy or nothing new, and
what `WaitFor` counts is a quorum of holders.

`ControlPlaneProofs`: `OneLeaderPerEpochHolds`, for any number of brokers and
controllers, from the invariant that no epoch given so far is above the current one
and that every command on its way, in a pass or in the log, is a proposal with an
epoch.

Liveness is only model-checked, and so are the control plane's other properties and
the work queue.

## Plan

1. `PartitionLog`, `Failover`: leader epochs and truncation across terms, over
   `Metadata`.
2. `WorkQueue`: topics and durable subscriptions, the Raft queue plane over it, and
   proofs of `NothingMislaid` and `Recoverable`.
3. `GatewaySession`, `SendPath`, `Outbox`, `Presence`, `EphemeralHub`.
4. `CursorStore`, `SegmentRecovery`, `QueueRouter`, `CacheStore`, planner and topic
   matching as checked operators.
5. Inductive invariants for the control plane's other properties, so that they hold
   across changes of controller for every number of brokers.
6. An abstract at-least-once queue refined by `SharePartition` and `WorkQueue`.

## Not modelled

Socket handling, parsing, formatting, metrics, configuration and the clients; token
cryptography; hashicorp/raft itself (external).
