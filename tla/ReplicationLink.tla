--------------------------- MODULE ReplicationLink ---------------------------
(***************************************************************************)
(* Replication of one partition during one leadership term: the leader's    *)
(* serve, streamPartition and WaitFor (internal/replication/leader.go), the *)
(* follower's session, applyBatch and ackLoop (follower.go), and the append *)
(* paths of the stream partition they use.                                  *)
(*                                                                          *)
(* A connection has two ends that fail separately: the follower may have    *)
(* reconnected while the leader's serve of the old socket still runs.  A    *)
(* record is identified by its sequence: within a term the leader assigns   *)
(* each sequence once.  The epoch handshake of a session keeps the whole    *)
(* local log within a term (endOffsetFor answers the leader's end), and is  *)
(* part of Connect.                                                         *)
(***************************************************************************)
EXTENDS Integers, Sequences, FiniteSets

CONSTANTS
  Follower,     \* the follower nodes
  MinInSync,    \* LeaderConfig.MinInSync
  BatchRecords, \* LeaderConfig.BatchRecords
  SyncOnApply,  \* FollowerConfig.SyncOnApply
  MayRetain,    \* TRUE when a retention policy is configured on the leader
  MayFail,      \* TRUE when a read of the leader's log may fail
  MaxSeq,       \* bound: the last sequence appended
  MaxConns,     \* bound: connections a follower opens
  MaxWire       \* bound: frames buffered on a connection, in each direction

ASSUME LinkAssumption ==
  /\ IsFiniteSet(Follower)
  /\ MinInSync \in Nat \ {0} /\ BatchRecords \in Nat \ {0} /\ MaxWire \in Nat \ {0}
  /\ MaxSeq \in Nat /\ MaxConns \in Nat
  /\ SyncOnApply \in BOOLEAN /\ MayRetain \in BOOLEAN /\ MayFail \in BOOLEAN

VARIABLES
  lfirst,    \* leader partition: firstSeq
  lnext,     \* leader partition: nextSeq
  flog,      \* follower partition: the sequences of its records, in log order
  synced,    \* follower partition: how many of them an fsync covers
  syncing,   \* the followers whose applyBatch has appended and not yet fsynced
  conn,      \* Follower.conn: the number of the live connection, 0 when down
  conns,     \* connections opened so far
  fetches,   \* MsgFetch frames on their way to the leader
  from,      \* streamPartition: the next sequence to ship, 0 before the fetch
  late,      \* batches cancelled streamPartition calls have read and still write
  wire,      \* MsgRecords frames on their way to the follower
  sent,      \* ackLoop: the last position sent on this connection, -1 for none
  ackWire,   \* MsgAck frames on their way: <<follower, connection, sequence>>
  serving,   \* serve goroutines in their read loop: <<follower, connection>>
  leaving,   \* those between deleting from followers and dropping the acks
  followers, \* Leader.followers
  acked,     \* partitionAcks.acked
  confirmed  \* history: sequences whose publisher was told they are replicated

leaderVars == <<lfirst, lnext>>
diskVars   == <<flog, synced, syncing>>
streamVars == <<conn, conns, fetches, from, late, wire>>
ackVars    == <<sent, ackWire, serving, leaving, followers, acked>>
vars == <<leaderVars, diskVars, streamVars, ackVars, confirmed>>

Batch == Nat \X Nat        \* the first and the last sequence of a MsgRecords frame
\* Mutant: the position before the last record instead of after it.
LocalBeforeLast(f) == Len(flog[f]) - 1
LocalNext(f) == Len(flog[f]) + 1
Connected(f) == conn[f] # 0
\* Both ends of the follower's connection are up.
Served(f) == <<f, conn[f]>> \in serving

Init ==
  /\ lfirst = 1 /\ lnext = 1
  /\ flog = [f \in Follower |-> <<>>]
  /\ synced = [f \in Follower |-> 0]
  /\ syncing = {}
  /\ conn = [f \in Follower |-> 0]
  /\ conns = [f \in Follower |-> 0]
  /\ fetches = [f \in Follower |-> <<>>]
  /\ from = [f \in Follower |-> 0]
  /\ late = [f \in Follower |-> {}]
  /\ wire = [f \in Follower |-> <<>>]
  /\ sent = [f \in Follower |-> -1]
  /\ ackWire = {} /\ serving = {} /\ leaving = {} /\ followers = {}
  /\ acked = [f \in {} |-> 0]
  /\ confirmed = {}

-----------------------------------------------------------------------------
(* The leader's log.                                                        *)

\* Log.AppendContext up to its call of WaitFor.
AppendContext ==
  /\ lnext <= MaxSeq
  /\ lnext' = lnext + 1
  /\ UNCHANGED <<lfirst, diskVars, streamVars, ackVars, confirmed>>

\* Partition.EnforceRetention keeps at least the active segment.
EnforceRetention ==
  /\ MayRetain
  /\ \E s \in (lfirst + 1) .. (lnext - 1) : lfirst' = s
  /\ UNCHANGED <<lnext, diskVars, streamVars, ackVars, confirmed>>

-----------------------------------------------------------------------------
(* Connections.                                                             *)

\* Follower.session up to its MsgFetch, and the handshake half of Leader.serve.
Connect(f) ==
  /\ ~Connected(f) /\ f \notin syncing /\ conns[f] < MaxConns
  /\ conns' = [conns EXCEPT ![f] = @ + 1]
  /\ conn' = [conn EXCEPT ![f] = conns'[f]]
  /\ serving' = serving \cup {<<f, conns'[f]>>}
  /\ followers' = followers \cup {f}
  /\ fetches' = [fetches EXCEPT ![f] = <<LocalNext(f)>>]
  /\ UNCHANGED <<leaderVars, diskVars, from, late, wire, sent, ackWire, leaving, acked, confirmed>>

\* The follower's session ends, and with it what was on its way to either end,
\* acknowledgements the leader has yet to read excepted.  The last connection
\* explored stays up.
SessionEnds(f) ==
  /\ conns[f] < MaxConns
  /\ conn' = [conn EXCEPT ![f] = 0]
  /\ fetches' = [fetches EXCEPT ![f] = <<>>]
  /\ from' = [from EXCEPT ![f] = 0]
  /\ late' = [late EXCEPT ![f] = {}]
  /\ wire' = [wire EXCEPT ![f] = <<>>]
  /\ sent' = [sent EXCEPT ![f] = -1]
  /\ UNCHANGED <<leaderVars, conns, ackWire, serving, leaving, followers, acked, confirmed>>

Disconnect(f) ==
  /\ Connected(f)
  /\ SessionEnds(f)
  /\ UNCHANGED diskVars

\* Leader.serve ends, before or after the follower noticed: the node leaves
\* followers, and then, in a step of its own, its acknowledgements are dropped.
EndServe(f, c) ==
  /\ <<f, c>> \in serving
  /\ c # conn[f] \/ conns[f] < MaxConns
  /\ serving' = serving \ {<<f, c>>}
  /\ leaving' = leaving \cup {<<f, c>>}
  /\ followers' = followers \ {f}
  /\ ackWire' = {a \in ackWire : ~(a[1] = f /\ a[2] = c)}
  /\ UNCHANGED <<leaderVars, diskVars, streamVars, sent, acked, confirmed>>

DropAcks(f, c) ==
  /\ <<f, c>> \in leaving
  /\ leaving' = leaving \ {<<f, c>>}
  /\ acked' = [g \in DOMAIN acked \ {f} |-> acked[g]]
  /\ UNCHANGED <<leaderVars, diskVars, streamVars, sent, ackWire, serving, followers, confirmed>>

-----------------------------------------------------------------------------
(* Streaming.                                                               *)

\* The batches ReadFrom can return at position p: it stops at BatchRecords, at
\* its byte budget, or at what was the end of the log when it read.
Readable(p) ==
  IF p < lfirst THEN {} ELSE {<<p, hi>> : hi \in {h \in p .. (lnext - 1) : h < p + BatchRecords}}

\* MsgFetch in serve: the previous stream of the partition is cancelled, but a
\* batch it has already read it still writes.
HandleFetch(f) ==
  /\ Served(f) /\ fetches[f] # <<>>
  /\ \E reads \in {{}} \cup IF from[f] = 0 THEN {} ELSE {{b} : b \in Readable(from[f])} :
       late' = [late EXCEPT ![f] = @ \cup reads]
  /\ from' = [from EXCEPT ![f] = Head(fetches[f])]
  /\ fetches' = [fetches EXCEPT ![f] = Tail(@)]
  /\ UNCHANGED <<leaderVars, diskVars, conn, conns, wire, ackVars, confirmed>>

\* streamPartition after ErrSeqTruncated: resume at the oldest record.  A read
\* that retention overtakes half-way also continues there.
ResumeAtFirst(f) ==
  /\ Served(f) /\ from[f] # 0 /\ from[f] < lfirst
  /\ from' = [from EXCEPT ![f] = lfirst]
  /\ UNCHANGED <<leaderVars, diskVars, conn, conns, fetches, late, wire, ackVars, confirmed>>

\* Mutant: the stream moves one record too far.
ShipSkipsOne(f) ==
  /\ Served(f) /\ from[f] # 0 /\ Len(wire[f]) < MaxWire
  /\ \E b \in Readable(from[f]) :
       /\ wire' = [wire EXCEPT ![f] = Append(@, b)]
       /\ from' = [from EXCEPT ![f] = b[2] + 2]
  /\ UNCHANGED <<leaderVars, diskVars, conn, conns, fetches, late, ackVars, confirmed>>

\* streamPartition ships a batch.
Ship(f) ==
  /\ Served(f) /\ from[f] # 0 /\ Len(wire[f]) < MaxWire
  /\ \E b \in Readable(from[f]) :
       /\ wire' = [wire EXCEPT ![f] = Append(@, b)]
       /\ from' = [from EXCEPT ![f] = b[2] + 1]
  /\ UNCHANGED <<leaderVars, diskVars, conn, conns, fetches, late, ackVars, confirmed>>

\* streamPartition gives up: ReadFrom or encodeBatch fails, and not because of
\* retention.  The connection stays up; only another fetch would start a stream.
StreamFails(f) ==
  /\ MayFail /\ Served(f) /\ from[f] # 0
  /\ from' = [from EXCEPT ![f] = 0]
  /\ UNCHANGED <<leaderVars, diskVars, conn, conns, fetches, late, wire, ackVars, confirmed>>
Abandoned(f) == Served(f) /\ from[f] = 0 /\ fetches[f] = <<>>

\* A cancelled streamPartition writes the batch it had read.
ShipLate(f) ==
  /\ Served(f) /\ Len(wire[f]) < MaxWire
  /\ \E b \in late[f] :
       /\ wire' = [wire EXCEPT ![f] = Append(@, b)]
       /\ late' = [late EXCEPT ![f] = @ \ {b}]
  /\ UNCHANGED <<leaderVars, diskVars, conn, conns, fetches, from, ackVars, confirmed>>

-----------------------------------------------------------------------------
(* The follower.                                                            *)

\* Partition.AppendReplicated for the records lo..hi of a batch: those below the
\* local head are skipped.
AppendReplicated(log, lo, hi) ==
  IF hi <= Len(log) THEN log
  ELSE [i \in 1 .. hi |-> IF i <= Len(log) THEN log[i] ELSE i]

\* Mutant: a batch beyond the local head is appended at the head.
ApplyPastGap(f) ==
  /\ Connected(f) /\ f \notin syncing /\ wire[f] # <<>>
  /\ LET lo == Head(wire[f])[1]
         hi == Head(wire[f])[2]
     IN  flog' = [flog EXCEPT ![f] = IF lo > LocalNext(f)
                                     THEN @ \o [i \in 1 .. (hi - lo + 1) |-> lo + i - 1]
                                     ELSE AppendReplicated(@, lo, hi)]
  /\ syncing' = IF SyncOnApply THEN syncing \cup {f} ELSE syncing
  /\ wire' = [wire EXCEPT ![f] = Tail(@)]
  /\ UNCHANGED <<synced, fetches, leaderVars, conn, conns, from, late, ackVars, confirmed>>

\* applyBatch: a batch beyond the local head is refused with a re-fetch from the
\* head.  The records of a batch are consecutive, so only its first can be: a batch that
\* retention has cut a hole into comes as the two batches on either side of it.
ApplyBatch(f) ==
  /\ Connected(f) /\ f \notin syncing /\ wire[f] # <<>>
  /\ LET lo == Head(wire[f])[1]
         hi == Head(wire[f])[2]
     IN  IF lo > LocalNext(f)
         THEN /\ Len(fetches[f]) < MaxWire
              /\ fetches' = [fetches EXCEPT ![f] = Append(@, LocalNext(f))]
              /\ UNCHANGED diskVars
         ELSE /\ flog' = [flog EXCEPT ![f] = AppendReplicated(@, lo, hi)]
              /\ syncing' = IF SyncOnApply THEN syncing \cup {f} ELSE syncing
              /\ UNCHANGED <<synced, fetches>>
  /\ wire' = [wire EXCEPT ![f] = Tail(@)]
  /\ UNCHANGED <<leaderVars, conn, conns, from, late, ackVars, confirmed>>

\* The fsync at the end of applyBatch, under SyncOnApply.
SyncBatch(f) ==
  /\ f \in syncing
  /\ synced' = [synced EXCEPT ![f] = Len(flog[f])]
  /\ syncing' = syncing \ {f}
  /\ UNCHANGED <<leaderVars, flog, streamVars, ackVars, confirmed>>

\* The fsync fails: applyBatch returns the error and the session ends.
SyncFails(f) ==
  /\ f \in syncing
  /\ syncing' = syncing \ {f}
  /\ SessionEnds(f)
  /\ UNCHANGED <<flog, synced>>

\* Mutant: the next sequence is acknowledged, not the last applied one.
SendAckOfNext(f) ==
  /\ Connected(f) /\ sent[f] < LocalNext(f)
  /\ sent' = [sent EXCEPT ![f] = LocalNext(f)]
  /\ ackWire' = ackWire \cup {<<f, conn[f], LocalNext(f)>>}
  /\ UNCHANGED <<leaderVars, diskVars, streamVars, serving, leaving, followers, acked, confirmed>>

\* A tick of ackLoop, which runs beside the session's read loop.
SendAck(f) ==
  /\ Connected(f) /\ sent[f] < Len(flog[f])
  /\ sent' = [sent EXCEPT ![f] = Len(flog[f])]
  /\ ackWire' = ackWire \cup {<<f, conn[f], Len(flog[f])>>}
  /\ UNCHANGED <<leaderVars, diskVars, streamVars, serving, leaving, followers, acked, confirmed>>

\* The follower's process or machine dies: its log keeps what an fsync covers and
\* any part of what none does.
FollowerCrash(f) ==
  /\ SessionEnds(f)
  /\ \E n \in synced[f] .. Len(flog[f]) : flog' = [flog EXCEPT ![f] = SubSeq(@, 1, n)]
  /\ syncing' = syncing \ {f}
  /\ UNCHANGED synced

-----------------------------------------------------------------------------
(* Acknowledgements.                                                        *)

\* MsgAck in serve: partitionAcks.record keeps the highest position.
RecordAck(f, c, s) ==
  /\ <<f, c, s>> \in ackWire /\ <<f, c>> \in serving
  /\ acked' = [g \in DOMAIN acked \cup {f} |->
                 IF g = f /\ (f \notin DOMAIN acked \/ s > acked[f]) THEN s ELSE acked[g]]
  /\ ackWire' = ackWire \ {<<f, c, s>>}
  /\ UNCHANGED <<leaderVars, diskVars, streamVars, sent, serving, leaving, followers, confirmed>>

\* Mutant: a follower that has everything before s counts for s.
AtLeastBefore(s) == {f \in DOMAIN acked : acked[f] + 1 >= s}

\* partitionAcks.countAtLeast.
AtLeast(s) == {f \in DOMAIN acked : acked[f] >= s}

\* Mutant: the position one place further up the ranking.
WatermarkOneUp ==
  IF MinInSync <= 2 THEN lnext
  ELSE LET held == {p \in {acked[f] : f \in DOMAIN acked} : Cardinality(AtLeast(p)) >= MinInSync - 2}
       IN  IF held = {} THEN 0 ELSE CHOOSE p \in held : \A q \in held : q <= p

\* quorumPosition: the MinInSync-th highest of the leader's NextSeq and the
\* acknowledged positions, 0 when there are fewer.
HighWatermark ==
  IF MinInSync = 1 THEN lnext
  ELSE LET held == {p \in {acked[f] : f \in DOMAIN acked} : Cardinality(AtLeast(p)) >= MinInSync - 1}
       IN  IF held = {} THEN 0 ELSE CHOOSE p \in held : \A q \in held : q <= p

\* WaitFor returns nil.  When it fails fast, times out or is cancelled instead, it
\* changes nothing: the record stays where it is, unconfirmed.
WaitFor(s) ==
  /\ s < lnext /\ s \notin confirmed
  /\ Cardinality(AtLeast(s)) >= MinInSync - 1
  /\ confirmed' = confirmed \cup {s}
  /\ UNCHANGED <<leaderVars, diskVars, streamVars, ackVars>>

Next ==
  \/ AppendContext
  \/ EnforceRetention
  \/ \E f \in Follower : Connect(f)
  \/ \E f \in Follower : Disconnect(f)
  \/ \E f \in Follower, c \in 1 .. MaxConns : EndServe(f, c)
  \/ \E f \in Follower, c \in 1 .. MaxConns : DropAcks(f, c)
  \/ \E f \in Follower : HandleFetch(f)
  \/ \E f \in Follower : ResumeAtFirst(f)
  \/ \E f \in Follower : Ship(f)
  \/ \E f \in Follower : StreamFails(f)
  \/ \E f \in Follower : ShipLate(f)
  \/ \E f \in Follower : ApplyBatch(f)
  \/ \E f \in Follower : SyncBatch(f)
  \/ \E f \in Follower : SyncFails(f)
  \/ \E f \in Follower : SendAck(f)
  \/ \E f \in Follower, c \in 1 .. MaxConns, s \in 0 .. MaxSeq : RecordAck(f, c, s)
  \/ \E s \in 1 .. MaxSeq : WaitFor(s)

Spec == Init /\ [][Next]_vars

\* The same system when followers can also crash.
CrashNext == Next \/ \E f \in Follower : FollowerCrash(f)
CrashSpec == Init /\ [][CrashNext]_vars

\* runLoop redials for the life of the process, a session whose peer is gone ends,
\* and the goroutines of a live connection keep running.
FairSpec ==
  /\ CrashSpec
  /\ \A f \in Follower :
       /\ WF_vars(Connect(f)) /\ WF_vars(~Served(f) /\ Disconnect(f))
       /\ WF_vars(HandleFetch(f)) /\ WF_vars(ResumeAtFirst(f)) /\ WF_vars(Ship(f))
       /\ WF_vars(ApplyBatch(f)) /\ WF_vars(SyncBatch(f))

-----------------------------------------------------------------------------
(* Properties.                                                              *)

\* The types of the state.
TypeOK ==
  /\ lfirst \in Nat /\ lnext \in Nat
  /\ flog \in [Follower -> Seq(Nat)] /\ synced \in [Follower -> Nat]
  /\ syncing \subseteq Follower
  /\ conn \in [Follower -> Nat] /\ conns \in [Follower -> Nat]
  /\ fetches \in [Follower -> Seq(Nat)] /\ from \in [Follower -> Nat]
  /\ late \in [Follower -> SUBSET Batch] /\ wire \in [Follower -> Seq(Batch)]
  /\ sent \in [Follower -> Int]
  /\ ackWire \subseteq Follower \X Nat \X Nat /\ serving \subseteq Follower \X Nat
  /\ leaving \subseteq Follower \X Nat
  /\ followers \subseteq Follower
  /\ DOMAIN acked \subseteq Follower /\ acked \in [DOMAIN acked -> Nat]
  /\ confirmed \subseteq Nat

\* partition.go:241-252: whatever is resent, reordered between streams or lost,
\* a follower's log is a prefix of the leader's: sequence i at position i, no
\* hole, and nothing the leader has not written.
FollowerIsPrefix ==
  \A f \in Follower : /\ \A i \in 1 .. Len(flog[f]) : flog[f][i] = i
                      /\ Len(flog[f]) < lnext

\* leader.go:32-37 and replication.md:8-10: a publisher is told its record is
\* replicated only when MinInSync nodes, the leader included, hold it.
ConfirmedIsReplicated ==
  \A s \in confirmed : Cardinality({f \in Follower : Len(flog[f]) >= s}) >= MinInSync - 1

\* replicate.go:144: a position the leader has recorded for a follower is one that
\* the follower has reached.
AckedIsHeld == \A f \in DOMAIN acked : acked[f] <= Len(flog[f])

\* follower.go:41-44 and config/messaging.go:75: under SyncOnApply a follower's
\* acknowledgement means "on disk".
AckedIsOnDisk == SyncOnApply => \A f \in DOMAIN acked : acked[f] <= synced[f]

\* leader.go:86: followers is the set of connected node IDs; one that is connected
\* and missing from it makes WaitFor fail for want of replicas.
ConnectedAreCounted == \A f \in Follower : Served(f) => f \in followers

\* replicate.go:163: the high watermark is held by a quorum.
HighWatermarkIsHeld ==
  Cardinality({f \in Follower : Len(flog[f]) >= HighWatermark}) +
    (IF HighWatermark < lnext THEN 1 ELSE 0) >= MinInSync

\* follower.go:251-253 and 292-293, replication.md:90-92: once the leader stops
\* writing, every follower reaches the head of its log, whatever was lost, cut off
\* or removed by retention on the way.
LastSeq(f) == IF flog[f] = <<>> THEN 0 ELSE flog[f][Len(flog[f])]
FollowersReachHead == <>[](\A f \in Follower : LastSeq(f) = lnext - 1)

\* follower.go:148-180: whatever was lost, cut off or crashed on the way, a follower
\* whose next record is still in the leader's log reaches its head, unless the leader
\* has given its stream up.
ServedFollowersReachHead ==
  <>[](\A f \in Follower : LastSeq(f) + 1 >= lfirst /\ ~Abandoned(f) => LastSeq(f) = lnext - 1)

Promise == INSTANCE ReplicatedLog WITH
  Quorum <- {Q \in SUBSET Follower : Cardinality(Q) >= MinInSync - 1},
  written <- lnext - 1, held <- [f \in Follower |-> Len(flog[f])]

\* replicate.go:82-94: followers that do not crash give publishers what AckWaiter
\* promises.  Whatever the connections do, a follower's copy only grows, never beyond
\* the leader's log, and WaitFor confirms a record once, when MinInSync nodes hold it.
KeepsThePromise == Promise!Spec
=============================================================================
