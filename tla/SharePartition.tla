--------------------------- MODULE SharePartition ---------------------------
(***************************************************************************)
(* The share partition of the queue plane (internal/queuelog/share.go): the *)
(* window of per-record delivery state one consumer group keeps over one    *)
(* stream partition, the cursor that persists its base                      *)
(* (internal/stream/cursor.go), and the part of the stream partition it     *)
(* reads (first and next sequence, retention, unflushed tail).              *)
(*                                                                          *)
(* Every operation of share.go runs under sp.mu and is one action.  The     *)
(* clock is abstracted: a reap is given the set of leases it finds expired, *)
(* and any set of current leases may be.  Calls of a window operation are   *)
(* composed exactly as the code composes them: an operator on window        *)
(* records stands for each ...Locked helper.                                *)
(***************************************************************************)
EXTENDS Integers, FiniteSets

CONSTANTS
  Consumer,         \* consumer names
  NoConsumer,       \* the empty holder of an available entry
  MaxInFlight,      \* shareConfig.MaxInFlight
  MaxDelivery,      \* shareConfig.MaxDelivery
  MaxFetch,         \* bound: the largest prefetch a consumer asks for
  MaxSeq,           \* bound: the last sequence ever published
  MaxCount,         \* bound: the largest delivery count explored
  MaxRestarts,      \* bound: how often the process stops and starts again
  DeadLetterMayFail,\* TRUE when the DeadLetterFunc can return an error
  MayDisconnect,    \* TRUE when consumers can drop their connection
  MayRetain         \* TRUE when a retention policy is configured

ASSUME ConfigAssumption ==
  /\ NoConsumer \notin Consumer
  /\ MaxInFlight \in Nat \ {0}
  /\ MaxDelivery \in Nat \ {0}
  /\ MaxFetch \in Nat /\ MaxSeq \in Nat /\ MaxCount \in Nat /\ MaxRestarts \in Nat
  /\ {DeadLetterMayFail, MayDisconnect, MayRetain} \subseteq BOOLEAN

VARIABLES
  first,    \* Partition.firstSeq: the oldest readable sequence
  end,      \* Partition.nextSeq: the sequence the next append receives
  flushed,  \* records below this left the write buffer for the page cache
  win,      \* the sharePartition window
  cursor,   \* CursorStore.positions of the group, 0 when there is none
  durable,  \* what the cursor file holds (commits flushed so far)
  closed,   \* sharePartition.closed
  restarts, \* how often the process has been restarted (bounded)
  done,     \* history: sequences acknowledged or dead-lettered
  settled   \* history: those of them since the window was opened

logVars == <<first, end, flushed>>
vars == <<first, end, flushed, win, cursor, durable, closed, restarts, done, settled>>

-----------------------------------------------------------------------------
(* The window and the ...Locked helpers.                                    *)

Larger(a, b) == IF a > b THEN a ELSE b
Smaller(a, b) == IF a < b THEN a ELSE b

Entry == [count : Nat, holder : Consumer \cup {NoConsumer}]
Window(base, next, entries, retired, available) ==
  [base |-> base, next |-> next, entries |-> entries,
   retired |-> retired, available |-> available]
IsWindow(w) ==
  /\ w = Window(w.base, w.next, w.entries, w.retired, w.available)
  /\ w.base \in Nat /\ w.next \in Nat
  /\ DOMAIN w.entries \subseteq Nat /\ w.entries \in [DOMAIN w.entries -> Entry]
  /\ w.retired \subseteq Nat /\ w.available \subseteq Nat

\* openSharePartition: only the base is restored.
OpenWindow(firstSeq, position) ==
  LET b == Larger(firstSeq, position)
  IN  Window(b, b, [s \in {} |-> [count |-> 0, holder |-> NoConsumer]], {}, {})

Leased(w)    == {s \in DOMAIN w.entries : w.entries[s].holder # NoConsumer}
HeldBy(w, c) == {s \in DOMAIN w.entries : w.entries[s].holder = c}
\* Mutant: no record is ever given up.
NeverExhausted(w) == {}
Exhausted(w) == {s \in DOMAIN w.entries : w.entries[s].count >= MaxDelivery}

\* Mutant: releaseLocked forgets the heap push.
ReleaseWithoutPush(w, S) ==
  Window(w.base, w.next,
         [s \in DOMAIN w.entries |->
            [count  |-> w.entries[s].count,
             holder |-> IF s \in S THEN NoConsumer ELSE w.entries[s].holder]],
         w.retired, w.available)

\* releaseLocked, for every sequence of S.
Release(w, S) ==
  Window(w.base, w.next,
         [s \in DOMAIN w.entries |->
            [count  |-> w.entries[s].count,
             holder |-> IF s \in S THEN NoConsumer ELSE w.entries[s].holder]],
         w.retired, w.available \cup S)

\* retireLocked, for every sequence of S.
Retire(w, S) ==
  Window(w.base, w.next, [s \in DOMAIN w.entries \ S |-> w.entries[s]],
         w.retired \cup S, w.available)

\* reapExpiredLocked before it advances: exhausted leases are dead-lettered,
\* unless that fails, and the other expired ones released.
DeadLettered(w, expired, failed) == (expired \cap Exhausted(w)) \ failed
Reap(w, expired, failed) ==
  Retire(Release(w, expired \ DeadLettered(w, expired, failed)),
         DeadLettered(w, expired, failed))

\* Mutants: the base jumps over records still in flight; the retired records it
\* passes are not deleted; the commit is one past the base.
AdvancesPastGaps(w, b) == w.base <= b /\ b \notin w.retired
AdvanceKeepsRetired(w, b) == Window(b, w.next, w.entries, w.retired, w.available)
CommitsOnePast(c, from, to) == IF to > from THEN Larger(c, to + 1) ELSE c

\* advanceLocked: b is the first sequence at or above the base not retired.
AdvancesTo(w, b) == /\ w.base <= b
                    /\ b \notin w.retired
                    /\ \A s \in w.base .. (b - 1) : s \in w.retired
Advance(w, b) ==
  Window(b, w.next, w.entries, w.retired \ (w.base .. (b - 1)), w.available)
\* CursorStore.Commit is monotonic, and advanceLocked commits only when it moved.
Committed(c, from, to) == IF to > from THEN Larger(c, to) ELSE c

\* acquire, phase 1: pop the heap, oldest first, skipping stale entries, until
\* max records are leased or it is empty.
Redeliverable(w) == {s \in w.available : s \in DOMAIN w.entries /\ w.entries[s].holder = NoConsumer}
OldestOf(take, S, max) ==
  /\ take \subseteq S
  /\ Cardinality(take) = Smaller(max, Cardinality(S))
  /\ \A a \in take, b \in S \ take : a < b
Redeliver(w, take, max, c) ==
  Window(w.base, w.next,
         [s \in DOMAIN w.entries |->
            IF s \in take THEN [count |-> w.entries[s].count + 1, holder |-> c]
                          ELSE w.entries[s]],
         w.retired,
         IF Cardinality(take) = max THEN {h \in w.available : \A s \in take : s < h} ELSE {})

\* Mutant: the bound counts tracked records instead of the span of the window.
RoomByEntries(w) == MaxInFlight - Cardinality(DOMAIN w.entries)
Room(w) == MaxInFlight - (w.next - w.base)

\* skipToLocked: abandon everything below seq.
SkipTo(w, seq) ==
  IF seq <= w.base THEN w
  ELSE Window(seq, Larger(w.next, seq),
              [s \in {t \in DOMAIN w.entries : t >= seq} |-> w.entries[s]],
              {s \in w.retired : s >= seq}, w.available)

\* acquire, phase 2: lease up to want fresh records, as far as the window has
\* room and the log has records.
FreshCount(w, want, logEnd) ==
  LET n == Smaller(Smaller(want, Room(w)), logEnd - w.next) IN IF n > 0 THEN n ELSE 0
\* Mutant: next stops at the last record leased instead of after it.
FetchRereadsLast(w, n, c) ==
  Window(w.base, IF n > 1 THEN w.next + n - 1 ELSE w.next + n,
         [s \in DOMAIN w.entries \cup (w.next .. (w.next + n - 1)) |->
            IF s >= w.next THEN [count |-> 1, holder |-> c] ELSE w.entries[s]],
         w.retired, w.available)
Fetch(w, n, c) ==
  Window(w.base, w.next + n,
         [s \in DOMAIN w.entries \cup (w.next .. (w.next + n - 1)) |->
            IF s >= w.next THEN [count |-> 1, holder |-> c] ELSE w.entries[s]],
         w.retired, w.available)

-----------------------------------------------------------------------------
(* The operations.                                                          *)

Init ==
  /\ first = 1 /\ end = 1 /\ flushed = 1
  /\ win = OpenWindow(1, 0)
  /\ cursor = 0 /\ durable = 0
  /\ closed = FALSE /\ restarts = 0
  /\ done = {} /\ settled = {}

\* The reap at the head of acquire and in the sweeper, which advances the base
\* to b.
Reaps(expired, failed, b) ==
  /\ expired \subseteq Leased(win)
  /\ failed \subseteq (IF DeadLetterMayFail THEN expired \cap Exhausted(win) ELSE {})
  /\ AdvancesTo(Reap(win, expired, failed), b)

\* The second phase of acquire: fresh records, as many as are wanted and as the
\* window has room for, after a skip past what retention has deleted.  cur is the
\* cursor so far.  When readable is FALSE some ReadFrom fails: the call keeps what
\* it leased before the failure.
Fill(w, want, skips, cur, c, readable) ==
  LET reads   == want > 0 /\ Room(w) > 0
      behind  == reads /\ w.next < first
      skipped == IF skips THEN SkipTo(w, first) ELSE w
      most    == IF reads /\ (behind => skips) THEN FreshCount(skipped, want, end) ELSE 0
  IN  /\ skips => behind
      /\ readable /\ behind => skips
      /\ \E fresh \in (IF readable THEN most ELSE 0) .. most : win' = Fetch(skipped, fresh, c)
      /\ flushed' \in IF reads THEN {Larger(flushed, win'.next), end} ELSE {flushed}
      /\ cursor' = Committed(cur, w.base, skipped.base)

\* acquire (under TryConsume): reap, redeliver the oldest, then fill.
Acquire(c, max, expired, failed, readable) ==
  /\ ~closed
  /\ \A s \in DOMAIN win.entries : win.entries[s].count < MaxCount
  /\ \E b \in win.base .. win.next :
     /\ Reaps(expired, failed, b)
     /\ LET reaped == Advance(Reap(win, expired, failed), b)
        IN \E take \in SUBSET DOMAIN reaped.entries, skips \in BOOLEAN :
           /\ OldestOf(take, Redeliverable(reaped), max)
           /\ Fill(Redeliver(reaped, take, max, c), max - Cardinality(take), skips,
                   Committed(cursor, win.base, b), c, readable)
  /\ done' = done \cup DeadLettered(win, expired, failed)
  /\ settled' = settled \cup DeadLettered(win, expired, failed)
  /\ UNCHANGED <<first, end, durable, closed, restarts>>

\* acquire when retention closes the oldest segment under its ReadFrom: Read has
\* already copied the segment list, the closed file reads as empty, and the batch
\* continues with the oldest segment left.  (No lease to reap or to redeliver.)
AcquireDuringRetention(c, max) ==
  /\ MayRetain /\ ~closed
  /\ Redeliverable(win) = {} /\ win.next >= first
  /\ \E f \in (win.next + 1) .. (end - 1) :
       LET n == Smaller(Smaller(max, Room(win)), end - f)
       IN  /\ n > 0
           /\ first' = f
           /\ win' = Window(win.base, f + n,
                            [s \in DOMAIN win.entries \cup (f .. (f + n - 1)) |->
                               IF s >= f THEN [count |-> 1, holder |-> c] ELSE win.entries[s]],
                            win.retired, {})
           /\ flushed' = Larger(flushed, f + n)
  /\ UNCHANGED <<end, cursor, durable, closed, restarts, done, settled>>

\* startSweeper's tick.
Sweep(expired, failed) ==
  /\ ~closed
  /\ \E b \in win.base .. win.next :
       /\ Reaps(expired, failed, b)
       /\ win' = Advance(Reap(win, expired, failed), b)
       /\ cursor' = Committed(cursor, win.base, b)
  /\ done' = done \cup DeadLettered(win, expired, failed)
  /\ settled' = settled \cup DeadLettered(win, expired, failed)
  /\ UNCHANGED <<logVars, durable, closed, restarts>>

\* A record leaves the queue: it is retired and the base advances over it.
Settle(seq) ==
  /\ \E b \in win.base .. win.next :
       /\ AdvancesTo(Retire(win, {seq}), b)
       /\ win' = Advance(Retire(win, {seq}), b)
       /\ cursor' = Committed(cursor, win.base, b)
  /\ done' = done \cup {seq}
  /\ settled' = settled \cup {seq}
  /\ UNCHANGED <<logVars, durable, closed, restarts>>

Requeue(S) ==
  /\ win' = Release(win, S)
  /\ UNCHANGED <<logVars, cursor, durable, closed, restarts, done, settled>>

\* ack: refused unless the caller holds the lease.
Ack(c, seq) ==
  /\ ~closed
  /\ seq \in HeldBy(win, c)
  /\ Settle(seq)

\* nack: dead-letter when the consumer rejects the record or it is exhausted,
\* otherwise release it.
Nack(c, seq, requeue, deadLetterOK) ==
  /\ ~closed
  /\ seq \in HeldBy(win, c)
  /\ DeadLetterMayFail \/ deadLetterOK
  /\ IF requeue /\ seq \notin Exhausted(win) THEN Requeue({seq})
     ELSE IF deadLetterOK THEN Settle(seq)
     ELSE Requeue({seq})

\* releaseConsumer (a disconnect) and releaseAll (this node stopped leading).
ReleaseConsumer(c) == MayDisconnect /\ HeldBy(win, c) # {} /\ Requeue(HeldBy(win, c))
ReleaseAll == MayDisconnect /\ Leased(win) # {} /\ Requeue(Leased(win))

-----------------------------------------------------------------------------
(* The log under the window, the cursor file, and the process.              *)

\* Partition.Append, as seen from the queue.
Publish ==
  /\ end <= MaxSeq
  /\ end' = end + 1
  /\ UNCHANGED <<first, flushed, win, cursor, durable, closed, restarts, done, settled>>

\* EnforceRetention drops whole sealed segments, never the active one; sealed
\* segments have been flushed.
EnforceRetention ==
  /\ MayRetain
  /\ \E f \in (first + 1) .. (end - 1) : first' = f /\ flushed' = Larger(flushed, f)
  /\ UNCHANGED <<end, win, cursor, durable, closed, restarts, done, settled>>

\* StartAutoFlush's tick on the cursor store.
FlushCursors ==
  /\ durable # cursor
  /\ durable' = cursor
  /\ UNCHANGED <<logVars, win, cursor, closed, restarts, done, settled>>

\* Queue.Close: closes the window and flushes the cursors.
Close ==
  /\ ~closed
  /\ closed' = TRUE
  /\ durable' = cursor
  /\ UNCHANGED <<logVars, win, cursor, restarts, done, settled>>

\* Open after Close.
Reopen ==
  /\ closed /\ restarts < MaxRestarts
  /\ restarts' = restarts + 1
  /\ closed' = FALSE
  /\ win' = OpenWindow(first, cursor)
  /\ settled' = {}
  /\ UNCHANGED <<logVars, cursor, durable, done>>

\* Mutant: the cursor is restored as the last settled sequence, without checking
\* that there is one.
RestartAtLastSettled(logEnd, pos) ==
  /\ restarts < MaxRestarts
  /\ restarts' = restarts + 1
  /\ end' = logEnd
  /\ flushed' = logEnd
  /\ cursor' = pos - 1 /\ durable' = pos - 1
  /\ closed' = FALSE
  /\ win' = OpenWindow(first, pos - 1)
  /\ done' = {s \in done : s < logEnd}
  /\ settled' = {}
  /\ UNCHANGED first

\* A crash and the restart after it, keeping log records below logEnd and the
\* cursor position pos.
RestartAt(logEnd, pos) ==
  /\ restarts < MaxRestarts
  /\ restarts' = restarts + 1
  /\ end' = logEnd
  /\ flushed' = logEnd
  /\ cursor' = pos /\ durable' = pos
  /\ closed' = FALSE
  /\ win' = OpenWindow(first, pos)
  /\ done' = {s \in done : s < logEnd}
  /\ settled' = {}
  /\ UNCHANGED first

\* The process dies: its write buffers are lost.
Crash == \E e \in flushed .. end : RestartAt(e, durable)

\* The machine dies: neither file has been fsynced, so each may lose its tail.
PowerLoss == \E e \in first .. end, p \in 0 .. durable : RestartAt(e, p)

Next ==
  \/ \E c \in Consumer, max \in 1 .. MaxFetch, readable \in BOOLEAN :
       \E expired \in SUBSET DOMAIN win.entries : \E failed \in SUBSET expired :
         Acquire(c, max, expired, failed, readable)
  \/ \E expired \in SUBSET DOMAIN win.entries : \E failed \in SUBSET expired : Sweep(expired, failed)
  \/ \E c \in Consumer, seq \in DOMAIN win.entries : Ack(c, seq)
  \/ \E c \in Consumer, seq \in DOMAIN win.entries, requeue, ok \in BOOLEAN : Nack(c, seq, requeue, ok)
  \/ \E c \in Consumer : ReleaseConsumer(c)
  \/ ReleaseAll
  \/ Publish
  \/ EnforceRetention
  \/ FlushCursors
  \/ Close
  \/ Reopen
  \/ Crash

Spec == Init /\ [][Next]_vars

\* The same system on a machine that can also lose power.
PowerLossSpec == Init /\ [][Next \/ PowerLoss]_vars

\* The same system when retention can run during a read of acquire.
RaceNext == Next \/ \E c \in Consumer, max \in 1 .. MaxFetch : AcquireDuringRetention(c, max)

\* Some consumer keeps polling and its reads succeed; the sweeper's ticker finds
\* every lease that is never settled expired.
Fairness ==
  /\ WF_vars(\E c \in Consumer : Acquire(c, 1, {}, {}, TRUE))
  /\ \A s \in 1 .. MaxSeq :
       WF_vars(\E expired \in SUBSET DOMAIN win.entries : s \in expired /\ Sweep(expired, {}))
FairSpec == Spec /\ Fairness
RaceSpec == Init /\ [][RaceNext]_vars /\ Fairness

-----------------------------------------------------------------------------
(* Properties.                                                              *)

\* The types of the state.
TypeOK ==
  /\ first \in Nat /\ end \in Nat /\ flushed \in Nat
  /\ IsWindow(win)
  /\ cursor \in Nat /\ durable \in Nat
  /\ closed \in BOOLEAN /\ restarts \in Nat
  /\ done \subseteq Nat /\ settled \subseteq Nat

\* share.go:121-126 and 138-142: between base and next every sequence is either
\* tracked by an entry or retired, never both and never neither, nothing outside
\* has state, and the base itself is never retired.
WindowPartitioned ==
  /\ win.base <= win.next
  /\ DOMAIN win.entries \cup win.retired = win.base .. (win.next - 1)
  /\ DOMAIN win.entries \cap win.retired = {}
  /\ win.base \notin win.retired

\* share.go:97-101: releases, retries, skips and restarts never let the window
\* grow past MaxInFlight.
InFlightBounded == win.next - win.base <= MaxInFlight

\* share.go:143: the heap holds exactly the records of the window that wait for
\* redelivery.  One missing from it would never be handed out again and would pin
\* the base; the stale ones acquire skips are all below the base.
HeapMatchesWindow ==
  {s \in win.available : s >= win.base} =
    {s \in DOMAIN win.entries : win.entries[s].holder = NoConsumer}

\* queue-plane.md:62-67, at-least-once: no record that the log still holds is
\* below the window base, or below a committed position a restart would resume
\* from, unless it was acknowledged or dead-lettered.
AtLeastOnce ==
  \A s \in first .. (end - 1) :
    s < Larger(win.base, Larger(cursor, durable)) => s \in done

\* A record acknowledged or dead-lettered is not in the window again, and so is
\* not delivered again, until the process restarts (share.go:159-164).
SettledStaysOut == settled \cap DOMAIN win.entries = {}

\* The cursor never names a sequence the log has not assigned: after a crash it
\* would skip the records that are given those sequences next.
CursorWithinLog == Larger(cursor, durable) <= end

\* share.go:38-39: a record delivered MaxDelivery times without being acknowledged
\* is dead-lettered, so it is never handed out more often than that.
DeliveryCapped == \A s \in DOMAIN win.entries : win.entries[s].count <= MaxDelivery

\* share.go:400-403 and queue-plane.md:73-78: even when no consumer ever settles
\* anything, every published record is eventually behind the base of an open queue.
EveryRecordLeavesTheQueue ==
  \A s \in 1 .. MaxSeq : s < end ~> (s < win.base \/ s >= end \/ closed)

=============================================================================
