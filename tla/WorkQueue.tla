----------------------------- MODULE WorkQueue -----------------------------
(***************************************************************************)
(* One work queue of the in-memory broker with disk storage                 *)
(* (internal/broker, queue, scheduler, wal, storage and the recovery in     *)
(* cmd/server/main.go): the queue and the messages outside it, the          *)
(* write-ahead log, the spill file, and the goroutines that move messages   *)
(* between them: consumers, the scheduler and checkpoints.                  *)
(*                                                                          *)
(* A copy of a message is its id and its retry count.  Goroutines hold      *)
(* copies that are in no table; every critical section of b.mu, pendingMu   *)
(* or a queue's mutex is one action.  Time is abstracted: delays end,       *)
(* messages with a TTL expire and ack deadlines pass at any moment, and the *)
(* WAL may exceed the compaction threshold after any record.                *)
(***************************************************************************)
EXTENDS Integers, Sequences, FiniteSets, SequencesExt

CONSTANTS
  Msg,            \* message ids, each published at most once
  NoMsg,
  Delayed,        \* the ids published with a delay
  Expiring,       \* the ids published with a TTL
  Consumer,
  QueueCap,       \* queueCap of the queue and of its dead-letter queue
  MaxRetry,
  MaxCompactions, \* bound on how often a WAL record exceeds compactionThreshold
  MaxPurges,      \* bound on purges; a crash uses one up
  MaxCrashes      \* bound on crashes

ASSUME QueueAssumption ==
  /\ NoMsg \notin Msg /\ Delayed \subseteq Msg /\ Expiring \subseteq Msg
  /\ QueueCap \in Nat \ {0} /\ MaxRetry \in Nat \ {0}
  /\ MaxCompactions \in Nat /\ MaxPurges \in Nat /\ MaxCrashes \in Nat

VARIABLES
  up,         \* "down", "starting" (recovery) or "serving"
  queue,      \* the queue, in the order it is popped
  delayed,    \* b.delayed
  pending,    \* b.pending: the copy tracked for each id
  late,       \* the pending ids whose AckDeadline has passed
  dead,       \* the dead-letter queue
  hands,      \* per goroutine: what it does with the copy it holds
  sched,      \* the scheduler: its place in a tick, promoted copies, snapshot
  wal,        \* the WAL file
  spill,      \* the spill file
  chk,        \* the two goroutines that may run Checkpoint
  needs,      \* needsCompaction
  due,        \* ids whose delay has ended
  expired,    \* ids whose TTL has passed
  accepted,   \* history: ids whose Publish returned
  refused,    \* history: ids whose Publish failed after the WAL write
  settled,    \* history: ids acknowledged or purged
  dropped,    \* history: ids the broker threw away at a full queue
  exposed,    \* history: ids a checkpoint or a reload has left off the disk
  compactions, purges, crashes

memVars == <<queue, delayed, pending, late, dead>>
jobVars == <<hands, sched>>
diskVars == <<wal, spill>>
chkVars == <<chk, needs, compactions>>
timeVars == <<due, expired>>
histVars == <<accepted, refused, settled, dropped, exposed>>
countVars == <<purges, crashes>>
vars == <<up, memVars, jobVars, diskVars, chkVars, timeVars, histVars, countVars>>

Copy == [id : Msg, retry : Nat]
NoCopy == [id |-> NoMsg, retry |-> 0]
Ids(s) == {s[i].id : i \in DOMAIN s}
PubRec(m) == [type |-> "pub", id |-> m.id, retry |-> m.retry]
AckRec(id) == [type |-> "ack", id |-> id, retry |-> 0]

-----------------------------------------------------------------------------
(* The queue and the WAL.                                                    *)

\* Mutant: one message too many.
HasRoomForOneMore(q) == Len(q) <= QueueCap

\* Push succeeds (of the priority queue one level, which is a ring of this capacity).
HasRoom(q) == Len(q) < QueueCap

\* main: the publish records no later ack removes, one copy per record, each with
\* the content of the last one.
LastRec(id) == wal[CHOOSE i \in DOMAIN wal : wal[i].id = id /\ \A j \in DOMAIN wal : wal[j].id = id => j <= i]
Survives(id) == id \in Ids(wal) /\ LastRec(id).type = "pub"
Replay ==
  LET pubs == SelectSeq(wal, LAMBDA r : r.type = "pub" /\ Survives(r.id))
  IN  [i \in DOMAIN pubs |-> [id |-> pubs[i].id, retry |-> LastRec(pubs[i].id).retry]]

\* processSpillFile: as many records as fit are reloaded.
Reloaded == IF Len(spill) < QueueCap - Len(queue) THEN Len(spill) ELSE QueueCap - Len(queue)

-----------------------------------------------------------------------------
Off == [pc |-> "off", todo |-> <<>>]
IdleTick == [pc |-> "idle", ready |-> <<>>, todo |-> {}]
Free == [pc |-> "free", copy |-> NoCopy]
Hand == Consumer \cup {"scheduler"}
InHands == {hands[h].copy.id : h \in {g \in Hand : hands[g].pc # "free"}} \cup Ids(sched.ready)

Init ==
  /\ up = "serving"
  /\ queue = <<>> /\ delayed = <<>> /\ pending = <<>> /\ late = {} /\ dead = <<>>
  /\ hands = [h \in Hand |-> Free] /\ sched = IdleTick
  /\ wal = <<>> /\ spill = <<>>
  /\ chk = [p \in {"auto", "caller"} |-> Off] /\ needs = FALSE
  /\ due = {} /\ expired = {}
  /\ accepted = {} /\ refused = {} /\ settled = {} /\ dropped = {} /\ exposed = {}
  /\ compactions = 0 /\ purges = 0 /\ crashes = 0

\* AutoCheckpoint, the last thing a WAL write does.
AutoCheckpoint ==
  \/ UNCHANGED chkVars
  \/ /\ compactions < MaxCompactions /\ compactions' = compactions + 1
     /\ needs' = TRUE
     /\ chk' = IF chk["auto"].pc = "off" THEN [chk EXCEPT !["auto"].pc = "loop"] ELSE chk

\* A checkpoint has captured the state and not yet truncated the WAL.
Capturing == \E p \in DOMAIN chk : chk[p].pc = "captured"

-----------------------------------------------------------------------------
(* Clients.                                                                  *)

\* Publish: all of it under b.mu.  A WAL write that fails changes nothing.  When the
\* spill file cannot be written the publisher is told so, but the WAL has the record.
Publish(id) ==
  LET m == [id |-> id, retry |-> 0]
  IN  /\ up = "serving" /\ id \notin accepted \cup refused
      /\ wal' = Append(wal, PubRec(m))
      /\ AutoCheckpoint
      /\ exposed' = IF Capturing THEN exposed \cup {id} ELSE exposed
      /\ \/ /\ id \in Delayed
            /\ delayed' = Append(delayed, m) /\ accepted' = accepted \cup {id}
            /\ UNCHANGED <<queue, spill, refused>>
         \/ /\ id \notin Delayed /\ HasRoom(queue)
            /\ queue' = Append(queue, m) /\ accepted' = accepted \cup {id}
            /\ UNCHANGED <<delayed, spill, refused>>
         \/ /\ id \notin Delayed /\ ~HasRoom(queue)
            /\ spill' = Append(spill, m) /\ accepted' = accepted \cup {id}
            /\ UNCHANGED <<queue, delayed, refused>>
         \/ /\ id \notin Delayed /\ ~HasRoom(queue)
            /\ refused' = refused \cup {id}
            /\ UNCHANGED <<queue, delayed, spill, accepted>>
      /\ UNCHANGED <<up, pending, late, dead, jobVars, timeVars, settled, dropped, countVars>>

\* TryConsume, first part: TryPop; an expired message is skipped.
Pop(c) ==
  /\ up = "serving" /\ hands[c].pc = "free" /\ queue # <<>>
  /\ queue' = Tail(queue)
  /\ hands' = IF Head(queue).id \in expired THEN hands
              ELSE [hands EXCEPT ![c] = [pc |-> "popped", copy |-> Head(queue)]]
  /\ UNCHANGED <<up, delayed, pending, late, dead, sched, diskVars, chkVars, timeVars, histVars, countVars>>

\* TryConsume, second part: the message is tracked and delivered.
Track(c) ==
  /\ hands[c].pc = "popped"
  /\ LET m == hands[c].copy
     IN  /\ pending' = [id \in DOMAIN pending \cup {m.id} |-> IF id = m.id THEN m ELSE pending[id]]
         /\ late' = late \ {m.id}
  /\ hands' = [hands EXCEPT ![c] = Free]
  /\ UNCHANGED <<up, queue, delayed, dead, sched, diskVars, chkVars, timeVars, histVars, countVars>>

Untracked(ids) == [id \in DOMAIN pending \ ids |-> pending[id]]

\* Ack: under pendingMu, the WAL record included.
Ack(id) ==
  /\ up = "serving" /\ id \in DOMAIN pending
  /\ pending' = Untracked({id}) /\ late' = late \ {id}
  /\ wal' = Append(wal, AckRec(id))
  /\ AutoCheckpoint
  /\ settled' = settled \cup {id}
  /\ UNCHANGED <<up, queue, delayed, dead, jobVars, spill, timeVars, accepted, refused, dropped, exposed, countVars>>

\* Mutant: the message stays in pending.
TakeAndKeep(h, id) ==
  /\ hands[h].pc = "free" /\ id \in DOMAIN pending
  /\ hands' = [hands EXCEPT ![h] = [pc |-> "retrying", copy |-> pending[id]]]
  /\ UNCHANGED <<up, memVars, diskVars, chkVars, timeVars, histVars, countVars>>

\* Nack and RequeueTimedOut, first part: the message leaves pending.
Take(h, id) ==
  /\ hands[h].pc = "free" /\ id \in DOMAIN pending
  /\ hands' = [hands EXCEPT ![h] = [pc |-> "retrying", copy |-> pending[id]]]
  /\ pending' = Untracked({id}) /\ late' = late \ {id}
  /\ UNCHANGED <<up, queue, delayed, dead, diskVars, chkVars, timeVars, histVars, countVars>>

Nack(c, id) == up = "serving" /\ Take(c, id) /\ UNCHANGED sched

\* Mutant: the attempt is not counted.
RetryUncounted(h) ==
  /\ hands[h].pc = "retrying"
  /\ \/ /\ HasRoom(queue) /\ queue' = Append(queue, hands[h].copy) /\ UNCHANGED dropped
     \/ /\ ~HasRoom(queue) /\ dropped' = dropped \cup {hands[h].copy.id} /\ UNCHANGED queue
  /\ hands' = [hands EXCEPT ![h] = Free]
  /\ UNCHANGED <<up, delayed, pending, late, dead, sched, diskVars, chkVars, timeVars, accepted, refused,
                 settled, exposed, countVars>>

\* retryOrDeadLetter: a message that meets a full queue is dropped.  A checkpoint
\* holds the message itself and writes the new count.
RetryOrDeadLetter(h) ==
  /\ hands[h].pc = "retrying"
  /\ LET m == [hands[h].copy EXCEPT !.retry = @ + 1]
     IN  /\ \/ /\ m.retry > MaxRetry /\ HasRoom(dead)
               /\ dead' = Append(dead, m)
               /\ UNCHANGED <<queue, dropped>>
            \/ /\ m.retry <= MaxRetry /\ HasRoom(queue)
               /\ queue' = Append(queue, m)
               /\ UNCHANGED <<dead, dropped>>
            \/ /\ IF m.retry > MaxRetry THEN ~HasRoom(dead) ELSE ~HasRoom(queue)
               /\ dropped' = dropped \cup {m.id}
               /\ UNCHANGED <<queue, dead>>
         /\ chk' = [p \in DOMAIN chk |-> [chk[p] EXCEPT !.todo = ReplaceAll(@, hands[h].copy, m)]]
  /\ hands' = [hands EXCEPT ![h] = Free]
  /\ UNCHANGED <<up, delayed, pending, late, sched, diskVars, needs, compactions, timeVars, accepted, refused, settled,
                 exposed, countVars>>

\* PurgeQueue and PurgeDeadLetters: the queue is emptied, then Checkpoint runs in
\* the caller's goroutine.
Purge ==
  /\ up = "serving" /\ purges + crashes < MaxPurges /\ chk["caller"].pc = "off"
  /\ purges' = purges + 1
  /\ \/ /\ queue # <<>> /\ queue' = <<>>
        /\ settled' = settled \cup Ids(queue) /\ UNCHANGED dead
     \/ /\ dead # <<>> /\ dead' = <<>>
        /\ settled' = settled \cup Ids(dead) /\ UNCHANGED queue
  /\ chk' = [chk EXCEPT !["caller"].pc = "capture"]
  /\ UNCHANGED <<up, delayed, pending, late, jobVars, diskVars, needs, compactions, timeVars, accepted, refused, dropped,
                 exposed, crashes>>

-----------------------------------------------------------------------------
(* The scheduler: a tick is ProcessAdvancedFeatures, then checkTimeouts.     *)

\* Mutant: the delayed messages that are not due are not put back.
TakeReadyOnly ==
  /\ up = "serving" /\ sched.pc = "idle"
  /\ sched' = [IdleTick EXCEPT !.pc = "pushing", !.ready = SelectSeq(delayed, LAMBDA x : x.id \in due)]
  /\ delayed' = <<>>
  /\ UNCHANGED <<up, queue, pending, late, dead, hands, diskVars, chkVars, timeVars, histVars, countVars>>

\* ProcessAdvancedFeatures, under b.mu: the due messages leave b.delayed.
TakeReady ==
  /\ up = "serving" /\ sched.pc = "idle"
  /\ sched' = [IdleTick EXCEPT !.pc = "pushing", !.ready = SelectSeq(delayed, LAMBDA x : x.id \in due)]
  /\ delayed' = SelectSeq(delayed, LAMBDA x : x.id \notin due)
  /\ UNCHANGED <<up, queue, pending, late, dead, hands, diskVars, chkVars, timeVars, histVars, countVars>>

\* The due messages are pushed one by one; the result of Push is ignored.
PushReady ==
  /\ sched.pc = "pushing" /\ sched.ready # <<>>
  /\ LET m == Head(sched.ready)
     IN  \/ HasRoom(queue) /\ queue' = Append(queue, m) /\ UNCHANGED dropped
         \/ ~HasRoom(queue) /\ dropped' = dropped \cup {m.id} /\ UNCHANGED queue
  /\ sched' = [sched EXCEPT !.ready = Tail(@)]
  /\ UNCHANGED <<up, delayed, pending, late, dead, hands, diskVars, chkVars, timeVars, accepted, refused, settled,
                 exposed, countVars>>

\* Part 2 of ProcessAdvancedFeatures, under pendingMu.
ClearExpired ==
  /\ sched.pc = "pushing" /\ sched.ready = <<>>
  /\ pending' = Untracked(expired) /\ late' = late \ expired
  /\ sched' = [sched EXCEPT !.pc = "reload"]
  /\ UNCHANGED <<up, queue, delayed, dead, hands, diskVars, chkVars, timeVars, histVars, countVars>>

\* reloadFromDisk: what fits moves from the spill file to the queue.  Nothing is
\* written to the WAL.
ReloadFromDisk ==
  /\ sched.pc = "reload"
  /\ queue' = queue \o SubSeq(spill, 1, Reloaded)
  /\ spill' = SubSeq(spill, Reloaded + 1, Len(spill))
  /\ exposed' = exposed \cup {id \in Ids(SubSeq(spill, 1, Reloaded)) : Capturing \/ ~Survives(id)}
  /\ sched' = [sched EXCEPT !.pc = "snapshot"]
  /\ UNCHANGED <<up, delayed, pending, late, dead, hands, wal, chkVars, timeVars, accepted, refused, settled,
                 dropped, countVars>>

\* checkTimeouts: a copy of pending, then RequeueTimedOut for each id of it whose
\* deadline had passed.
SnapshotPending ==
  /\ sched.pc = "snapshot"
  /\ sched' = [sched EXCEPT !.pc = "timeouts", !.todo = late]
  /\ UNCHANGED <<up, memVars, hands, diskVars, chkVars, timeVars, histVars, countVars>>

\* The loop of checkTimeouts does not look at the deadline again.
RequeueTimedOut(id) ==
  /\ sched.pc = "timeouts" /\ id \in sched.todo
  /\ sched' = [sched EXCEPT !.todo = @ \ {id}]
  /\ Take("scheduler", id)

\* The message is gone: RequeueTimedOut returns an error.
SkipTimedOut(id) ==
  /\ sched.pc = "timeouts" /\ id \in sched.todo /\ hands["scheduler"].pc = "free"
  /\ id \notin DOMAIN pending
  /\ sched' = [sched EXCEPT !.todo = @ \ {id}]
  /\ UNCHANGED <<up, memVars, hands, diskVars, chkVars, timeVars, histVars, countVars>>

\* The loop is done; the goroutine waits for the next tick.
EndTick ==
  /\ sched.pc = "timeouts" /\ sched.todo = {} /\ hands["scheduler"].pc = "free"
  /\ sched' = IdleTick
  /\ UNCHANGED <<up, memVars, hands, diskVars, chkVars, timeVars, histVars, countVars>>

\* Time passes: a delay ends, a TTL ends, an ack deadline is missed.
Elapse(id) ==
  /\ up = "serving"
  /\ \/ id \in (Delayed \cap accepted) \ due /\ due' = due \cup {id} /\ UNCHANGED <<expired, late>>
     \/ id \in (Expiring \cap (accepted \cup refused)) \ expired /\ expired' = expired \cup {id} /\ UNCHANGED <<due, late>>
     \/ id \in DOMAIN pending \ late /\ late' = late \cup {id} /\ UNCHANGED timeVars
  /\ UNCHANGED <<up, queue, delayed, pending, dead, jobVars, diskVars, chkVars, histVars, countVars>>

-----------------------------------------------------------------------------
(* Checkpoints.                                                              *)

\* The loop of AutoCheckpoint's goroutine; a request made between its last test
\* and its end is left for the next AutoCheckpoint.
CheckpointLoop ==
  /\ \/ /\ chk["auto"].pc = "loop" /\ needs
        /\ needs' = FALSE /\ chk' = [chk EXCEPT !["auto"].pc = "capture"]
     \/ /\ chk["auto"].pc = "loop" /\ ~needs
        /\ chk' = [chk EXCEPT !["auto"].pc = "ending"] /\ UNCHANGED needs
     \/ /\ chk["auto"].pc = "ending"
        /\ chk' = [chk EXCEPT !["auto"] = Off] /\ UNCHANGED needs
  /\ UNCHANGED <<up, memVars, jobVars, diskVars, compactions, timeVars, histVars, countVars>>

\* Mutant: messages waiting for an acknowledgement are forgotten.
CapturedWithoutPending == queue \o dead \o delayed

\* What Checkpoint captures: the spill file and what goroutines hold are not in it.
\* (The pending messages come in map order; here in some order.)
PendingCopies == SetToSeq({pending[id] : id \in DOMAIN pending})
Captured == queue \o dead \o delayed \o PendingCopies

\* Checkpoint, under b.mu and pendingMu.
Capture(p) ==
  /\ chk[p].pc = "capture"
  /\ chk' = [chk EXCEPT ![p] = [pc |-> "captured", todo |-> Captured]]
  /\ exposed' = exposed \cup (InHands \ Ids(Captured))
  /\ UNCHANGED <<up, memVars, jobVars, diskVars, needs, compactions, timeVars, accepted, refused, settled,
                 dropped, countVars>>

\* Rewrite, outside the locks: Truncate, then one Write after the other.
Truncate(p) ==
  /\ chk[p].pc = "captured"
  /\ wal' = <<>>
  /\ chk' = [chk EXCEPT ![p].pc = "writing"]
  /\ UNCHANGED <<up, memVars, jobVars, spill, needs, compactions, timeVars, histVars, countVars>>

\* The records of concurrent publishes and acks fall between these.
Rewrite(p) ==
  /\ chk[p].pc = "writing" /\ chk[p].todo # <<>>
  /\ wal' = Append(wal, PubRec(Head(chk[p].todo)))
  /\ chk' = [chk EXCEPT ![p].todo = Tail(@)]
  /\ UNCHANGED <<up, memVars, jobVars, spill, needs, compactions, timeVars, histVars, countVars>>

\* The end of Checkpoint, which is also the end of recovery when main called it.
Finish(p) ==
  /\ chk[p].pc = "writing" /\ chk[p].todo = <<>>
  /\ chk' = [chk EXCEPT ![p] = IF p = "auto" THEN [Off EXCEPT !.pc = "loop"] ELSE Off]
  /\ up' = IF p = "caller" THEN "serving" ELSE up
  /\ UNCHANGED <<memVars, jobVars, diskVars, needs, compactions, timeVars, histVars, countVars>>

-----------------------------------------------------------------------------
(* Crash and recovery.                                                       *)

\* The process dies: what a rewrite under way has not written again is gone.
Crash ==
  /\ up # "down" /\ crashes < MaxCrashes
  /\ crashes' = crashes + 1 /\ up' = "down"
  /\ queue' = <<>> /\ delayed' = <<>> /\ pending' = <<>> /\ late' = {} /\ dead' = <<>>
  /\ hands' = [h \in Hand |-> Free] /\ sched' = IdleTick
  /\ chk' = [p \in DOMAIN chk |-> Off] /\ needs' = FALSE
  /\ exposed' = exposed \cup UNION {Ids(chk[p].todo) : p \in {r \in DOMAIN chk : chk[r].pc = "writing"}}
  /\ UNCHANGED <<diskVars, compactions, timeVars, accepted, refused, settled, dropped, purges>>

\* main: the WAL is replayed into the broker by IngestRecovered (expired messages
\* are discarded, delayed ones wait, what does not fit is spilled), then compacted.
Recover ==
  /\ up = "down"
  /\ delayed' = SelectSeq(Replay, LAMBDA m : m.id \in Delayed \ (due \cup expired))
  /\ LET ready == SelectSeq(Replay, LAMBDA m : m.id \notin (Delayed \ due) \cup expired)
         room  == IF Len(ready) < QueueCap THEN Len(ready) ELSE QueueCap
     IN  /\ queue' = SubSeq(ready, 1, room)
         /\ spill' = spill \o SubSeq(ready, room + 1, Len(ready))
  /\ up' = IF wal = <<>> THEN "serving" ELSE "starting"
  /\ chk' = IF wal = <<>> THEN chk ELSE [chk EXCEPT !["caller"].pc = "capture"]
  /\ UNCHANGED <<pending, late, dead, jobVars, wal, needs, compactions, timeVars, histVars, countVars>>

Next ==
  \/ \E id \in Msg : Publish(id)
  \/ \E c \in Consumer : Pop(c)
  \/ \E c \in Consumer : Track(c)
  \/ \E id \in Msg : Ack(id)
  \/ \E c \in Consumer, id \in Msg : Nack(c, id)
  \/ \E h \in Hand : RetryOrDeadLetter(h)
  \/ Purge
  \/ TakeReady
  \/ PushReady
  \/ ClearExpired
  \/ ReloadFromDisk
  \/ SnapshotPending
  \/ \E id \in Msg : RequeueTimedOut(id)
  \/ \E id \in Msg : SkipTimedOut(id)
  \/ EndTick
  \/ \E id \in Msg : Elapse(id)
  \/ CheckpointLoop
  \/ \E p \in {"auto", "caller"} : Capture(p)
  \/ \E p \in {"auto", "caller"} : Truncate(p)
  \/ \E p \in {"auto", "caller"} : Rewrite(p)
  \/ \E p \in {"auto", "caller"} : Finish(p)
  \/ Crash
  \/ Recover

Spec == Init /\ [][Next]_vars

\* Consumers keep polling, the scheduler's ticker and time run on, and goroutines
\* that have begun something go on with it.
FairSpec ==
  /\ Spec
  /\ \A c \in Consumer : WF_vars(Pop(c)) /\ WF_vars(Track(c))
  /\ \A h \in Hand : WF_vars(RetryOrDeadLetter(h))
  /\ WF_vars(TakeReady \/ PushReady \/ ClearExpired \/ ReloadFromDisk \/ SnapshotPending \/ EndTick)
  /\ \A id \in Msg : WF_vars(RequeueTimedOut(id) \/ SkipTimedOut(id)) /\ WF_vars(Elapse(id))
  /\ \A p \in {"auto", "caller"} : WF_vars(Capture(p) \/ Truncate(p) \/ Rewrite(p) \/ Finish(p))
  /\ WF_vars(CheckpointLoop) /\ WF_vars(Recover)

-----------------------------------------------------------------------------
(* Properties.                                                               *)

Unsettled == accepted \ (settled \cup expired)
InMemory == Ids(queue) \cup Ids(delayed) \cup Ids(dead) \cup DOMAIN pending \cup InHands
Held == InMemory \cup Ids(spill)
OnDisk == {id \in Msg : Survives(id)} \cup Ids(spill)
Rewriting == \E p \in DOMAIN chk : chk[p].pc = "writing"

\* The types of the tables and the files, and the bound on both queues.
TypeOK ==
  /\ up \in {"down", "starting", "serving"}
  /\ queue \in Seq(Copy) /\ delayed \in Seq(Copy) /\ dead \in Seq(Copy) /\ spill \in Seq(Copy)
  /\ Len(queue) <= QueueCap /\ Len(dead) <= QueueCap
  /\ DOMAIN pending \subseteq Msg /\ late \subseteq DOMAIN pending
  /\ \A id \in DOMAIN pending : pending[id] \in Copy /\ pending[id].id = id

\* api-reference.md:180-181: a message that is nacked, or times out, is "re-queued to
\* the original queue" or "moved to the dead letter queue": until a crash, a message
\* that is not settled is somewhere, whatever is full.
RetriedIsKept == crashes = 0 => Unsettled \subseteq Held

\* broker.go:173-211, 417-441, 457-491, 760-812: whatever consumers, the scheduler
\* and purges do at once, a message that is not settled is always in one of the
\* tables, in a goroutine's hands or in the spill file, unless a retry or a promotion
\* met a full queue; a crash takes away only messages that a checkpoint or a reload
\* had left off the disk.
NothingMislaid == up # "down" => Unsettled \ (exposed \cup dropped) \subseteq Held

\* broker.go:255-315, main.go:178-218: outside the rewrite of the WAL, the files have
\* every message that is not settled, except those dropped at a full queue, accepted
\* or held by a goroutine while a checkpoint was between its capture and its
\* truncation, cut off in a rewrite, or reloaded from the spill file after a checkpoint.
Recoverable == ~Rewriting => Unsettled \ (exposed \cup dropped) \subseteq OnDisk

Occurrences(s, id) == Cardinality({i \in DOMAIN s : s[i].id = id})
Copies(id) ==
  Occurrences(queue, id) + Occurrences(delayed, id) + Occurrences(dead, id) + Occurrences(spill, id)
  + Occurrences(sched.ready, id) + Cardinality({h \in Hand : hands[h].copy.id = id})
  + Cardinality({id} \cap DOMAIN pending)

\* broker.go:735-812, scheduler.go:61-72: until a restart, acks, nacks and timeouts
\* that race for a delivery never multiply the message, and a settled or dropped one
\* is nowhere.
OneCopy ==
  crashes = 0 => \A id \in Msg : Copies(id) <= (IF id \in settled \cup dropped THEN 0 ELSE 1)

\* scheduler.go:43-44, broker.go:430-434, 482-488, 562-586: a message whose consumers
\* never answer does not circulate: it is dead-lettered in the end, unless a full queue
\* or a crash took it first, delayed and spilled ones too; one whose TTL passes has
\* left every table and the spill file.
Gone(id) == up = "serving" /\ id \in expired \ Held
EveryMessageSettles ==
  \A id \in Msg : id \in accepted ~> id \in settled \cup dropped \cup exposed \cup Ids(dead) \/ Gone(id)

\* README.md:338 and persistence_test.go:399: compaction "removes acknowledged
\* messages and keeps only active ones": no message is lost by it.
CompactionKeepsActive == ~Rewriting => Unsettled \subseteq OnDisk

\* scheduler.go:43-44: the watcher requeues messages that have not been acknowledged
\* within the timeout, and no others.
OnlyLateRequeued == [][\A id \in Msg : RequeueTimedOut(id) => id \in late]_vars
=============================================================================
