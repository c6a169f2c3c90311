------------------------ MODULE ReplicationLinkProofs ------------------------
(***************************************************************************)
(* Proofs about ReplicationLink, for any number of followers, any batch     *)
(* size, any MinInSync and any bounds.                                      *)
(***************************************************************************)
EXTENDS ReplicationLink, FiniteSetTheorems, TLAPS

\* The provers a leaf is given when it names none, with ample time for each.
USE SMTT(40), ZenonT(40)

\* No frame on its way to a follower holds a record the leader has not written.
FramesWritten ==
  \A f \in Follower : /\ \A i \in 1 .. Len(wire[f]) : wire[f][i][2] < lnext
                      /\ \A b \in late[f] : b[2] < lnext

\* The inductive invariant of the copying half, crashes included.
LogInv == TypeOK /\ FollowerIsPrefix /\ FramesWritten

\* An acknowledgement on its way was true when it was sent, and a log only grows.
AcksHeld == \A a \in ackWire : a[3] <= Len(flog[a[1]])

\* The inductive invariant of the acknowledging half, for followers that keep
\* what they have appended.
IInv == LogInv /\ AcksHeld /\ AckedIsHeld /\ ConfirmedIsReplicated

-----------------------------------------------------------------------------
(* Batches.                                                                 *)

\* ReadFrom returns nothing beyond the end of the log.
LEMMA ReadableWritten ==
  ASSUME lnext \in Nat, lfirst \in Nat, NEW p \in Nat, NEW b \in Readable(p)
  PROVE  b \in Batch /\ b[2] < lnext
<1>1. PICK h \in p .. (lnext - 1) : b = <<p, h>>
  BY DEF Readable
<1> QED
  BY <1>1 DEF Batch

\* Queueing a frame of written records, or taking one off, leaves frames of
\* written records.
LEMMA FrameQueues ==
  ASSUME NEW n \in Nat, NEW q \in Seq(Batch), \A i \in 1 .. Len(q) : q[i][2] < n
  PROVE  /\ \A b \in Batch : b[2] < n =>
              /\ Append(q, b) \in Seq(Batch)
              /\ \A i \in 1 .. Len(Append(q, b)) : Append(q, b)[i][2] < n
         /\ q # <<>> => /\ Head(q) \in Batch /\ Head(q)[2] < n
                        /\ Tail(q) \in Seq(Batch)
                        /\ \A i \in 1 .. Len(Tail(q)) : Tail(q)[i][2] < n
<1>1. ASSUME NEW b \in Batch, b[2] < n
      PROVE  /\ Append(q, b) \in Seq(Batch)
             /\ \A i \in 1 .. Len(Append(q, b)) : Append(q, b)[i][2] < n
  BY <1>1
<1>2. ASSUME q # <<>>
      PROVE  /\ Head(q) \in Batch /\ Head(q)[2] < n
             /\ Tail(q) \in Seq(Batch)
             /\ \A i \in 1 .. Len(Tail(q)) : Tail(q)[i][2] < n
  BY <1>2
<1> QED
  BY <1>1, <1>2

\* AppendReplicated keeps a log a prefix of the sequence numbers, never shortens
\* it, and extends it at most to the last record of the batch.
LEMMA AppendReplicatedPrefix ==
  ASSUME NEW log \in Seq(Nat), \A i \in 1 .. Len(log) : log[i] = i,
         NEW lo \in Nat, NEW hi \in Nat
  PROVE  LET r == AppendReplicated(log, lo, hi)
         IN  /\ r \in Seq(Nat)
             /\ \A i \in 1 .. Len(r) : r[i] = i
             /\ Len(log) <= Len(r)
             /\ Len(r) = Len(log) \/ Len(r) = hi
<1>1. CASE hi <= Len(log)
  BY <1>1 DEF AppendReplicated
<1>2. CASE hi > Len(log)
  <2> DEFINE r == [i \in 1 .. hi |-> IF i <= Len(log) THEN log[i] ELSE i]
  <2>1. \A i \in 1 .. hi : r[i] = i
    OBVIOUS
  <2>2. r \in [1 .. hi -> Nat]
    OBVIOUS
  <2>3. r \in Seq(Nat) /\ Len(r) = hi
    BY <2>2
  <2>4. AppendReplicated(log, lo, hi) = r
    BY <1>2 DEF AppendReplicated
  <2> QED
    BY <1>2, <2>1, <2>3, <2>4
<1> QED
  BY <1>1, <1>2

-----------------------------------------------------------------------------
(* The copying half.                                                        *)

\* The initial states satisfy the invariant.
LEMMA InitLogInv == Init => LogInv
BY LinkAssumption DEF Init, LogInv, TypeOK, FollowerIsPrefix, FramesWritten, Batch

\* The end of a session leaves the leader alone and empties the connection.
LEMMA SessionEndsInv ==
  ASSUME LogInv, NEW f \in Follower, SessionEnds(f),
         flog' \in [Follower -> Seq(Nat)], synced' \in [Follower -> Nat], syncing' \subseteq Follower
  PROVE  TypeOK' /\ FramesWritten' /\ lnext' = lnext
<1>1. conn' \in [Follower -> Nat] /\ from' \in [Follower -> Nat] /\ sent' \in [Follower -> Int]
  BY DEF SessionEnds, LogInv, TypeOK
<1>2. fetches' \in [Follower -> Seq(Nat)]
  BY DEF SessionEnds, LogInv, TypeOK
<1>3. late' \in [Follower -> SUBSET Batch]
  BY DEF SessionEnds, LogInv, TypeOK
<1>4. wire' \in [Follower -> Seq(Batch)]
  BY DEF SessionEnds, LogInv, TypeOK
<1>5. UNCHANGED <<leaderVars, conns, ackWire, serving, leaving, followers, acked, confirmed>>
  BY DEF SessionEnds
<1>6. TypeOK'
  BY <1>1, <1>2, <1>3, <1>4, <1>5, Zenon DEF LogInv, TypeOK, leaderVars
<1>7. FramesWritten'
  <2>1. wire' = [wire EXCEPT ![f] = <<>>] /\ late' = [late EXCEPT ![f] = {}]
    BY DEF SessionEnds
  <2>2. /\ wire'[f] = <<>> /\ late'[f] = {}
        /\ \A g \in Follower \ {f} : wire'[g] = wire[g] /\ late'[g] = late[g]
    BY <2>1 DEF LogInv, TypeOK
  <2>3. Len(wire'[f]) = 0
    BY <2>2
  <2>4. \A g \in Follower : /\ \A i \in 1 .. Len(wire'[g]) : wire'[g][i][2] < lnext
                           /\ \A b \in late'[g] : b[2] < lnext
    <3> SUFFICES ASSUME NEW g \in Follower
                 PROVE  /\ \A i \in 1 .. Len(wire'[g]) : wire'[g][i][2] < lnext
                        /\ \A b \in late'[g] : b[2] < lnext
      OBVIOUS
    <3>1. CASE g = f
      BY <2>2, <2>3, <3>1
    <3>2. CASE g # f
      BY <2>2, <3>2, Zenon DEF LogInv, FramesWritten
    <3> QED
      BY <3>1, <3>2
  <2> QED
    BY <2>4, <1>5 DEF FramesWritten, leaderVars
<1> QED
  BY <1>5, <1>6, <1>7 DEF leaderVars

\* Every step, a crash included, preserves it.
LEMMA LogStep == LogInv /\ [CrashNext]_vars => LogInv'
<1> SUFFICES ASSUME LogInv, [CrashNext]_vars PROVE LogInv'
  OBVIOUS
<1> USE DEF LogInv
<1>1. CASE AppendContext
  <2>1. lnext' = lnext + 1 /\ lnext' \in Nat
    BY <1>1 DEF AppendContext, TypeOK
  <2>2. UNCHANGED <<lfirst, diskVars, streamVars, ackVars, confirmed>>
    BY <1>1 DEF AppendContext
  <2>3. TypeOK'
    BY <2>1, <2>2, Zenon DEF TypeOK, diskVars, streamVars, ackVars
  <2>4. FollowerIsPrefix'
    BY <2>1, <2>2 DEF TypeOK, FollowerIsPrefix, diskVars
  <2>5. FramesWritten'
    <3>1. \A f \in Follower : /\ wire[f] \in Seq(Nat \X Nat)
                             /\ \A b \in late[f] : b \in Nat \X Nat
      BY DEF TypeOK, Batch
    <3>2. \A f \in Follower : \A i \in 1 .. Len(wire[f]) : wire[f][i][2] \in Nat
      BY <3>1
    <3>3. \A f \in Follower : \A b \in late[f] : b[2] \in Nat
      BY <3>1
    <3>4. \A n \in Nat : n < lnext => n < lnext'
      BY <2>1 DEF TypeOK
    <3>5. wire' = wire /\ late' = late
      BY <2>2 DEF streamVars
    <3> QED
      BY <3>2, <3>3, <3>4, <3>5 DEF FramesWritten
  <2> QED
    BY <2>3, <2>4, <2>5
<1>2. CASE EnforceRetention
  <2>1. lfirst' \in Nat
    BY <1>2 DEF EnforceRetention, TypeOK
  <2>2. UNCHANGED <<lnext, diskVars, streamVars, ackVars, confirmed>>
    BY <1>2 DEF EnforceRetention
  <2>3. TypeOK'
    BY <2>1, <2>2, Zenon DEF TypeOK, diskVars, streamVars, ackVars
  <2> QED
    BY <2>2, <2>3 DEF FollowerIsPrefix, FramesWritten, diskVars, streamVars, ackVars
<1>3. ASSUME NEW f \in Follower, Connect(f) PROVE LogInv'
  <2>1. conns' \in [Follower -> Nat]
    BY <1>3 DEF Connect, TypeOK
  <2>2. conn' \in [Follower -> Nat]
    BY <1>3 DEF Connect, TypeOK
  <2>3. serving' \subseteq Follower \X Nat /\ followers' \subseteq Follower
    BY <1>3 DEF Connect, TypeOK
  <2>4. fetches' \in [Follower -> Seq(Nat)]
    BY <1>3 DEF Connect, TypeOK, LocalNext
  <2>5. UNCHANGED <<leaderVars, diskVars, from, late, wire, sent, ackWire, leaving, acked, confirmed>>
    BY <1>3 DEF Connect
  <2>6. TypeOK'
    BY <2>1, <2>2, <2>3, <2>4, <2>5, Zenon DEF TypeOK, leaderVars, diskVars
  <2> QED
    BY <2>5, <2>6 DEF FollowerIsPrefix, FramesWritten, leaderVars, diskVars
<1>4. ASSUME NEW f \in Follower, Disconnect(f) PROVE LogInv'
  BY <1>4, SessionEndsInv, Zenon DEF Disconnect, TypeOK, FollowerIsPrefix, diskVars
<1>5. ASSUME NEW f \in Follower, NEW c \in 1 .. MaxConns, EndServe(f, c) PROVE LogInv'
  <2>1. serving' \subseteq Follower \X Nat /\ leaving' \subseteq Follower \X Nat
    BY <1>5 DEF EndServe, TypeOK
  <2>2. followers' \subseteq Follower /\ ackWire' \subseteq Follower \X Nat \X Nat
    BY <1>5 DEF EndServe, TypeOK
  <2>3. UNCHANGED <<leaderVars, diskVars, streamVars, sent, acked, confirmed>>
    BY <1>5 DEF EndServe
  <2>4. TypeOK'
    BY <2>1, <2>2, <2>3, Zenon DEF TypeOK, leaderVars, diskVars, streamVars
  <2> QED
    BY <2>3, <2>4 DEF FollowerIsPrefix, FramesWritten, leaderVars, diskVars, streamVars
<1>6. ASSUME NEW f \in Follower, NEW c \in 1 .. MaxConns, DropAcks(f, c) PROVE LogInv'
  <2>1. leaving' \subseteq Follower \X Nat
    BY <1>6 DEF DropAcks, TypeOK
  <2>2. DOMAIN acked' \subseteq Follower /\ acked' \in [DOMAIN acked' -> Nat]
    BY <1>6 DEF DropAcks, TypeOK
  <2>3. UNCHANGED <<leaderVars, diskVars, streamVars, sent, ackWire, serving, followers, confirmed>>
    BY <1>6 DEF DropAcks
  <2>4. TypeOK'
    BY <2>1, <2>2, <2>3, Zenon DEF TypeOK, leaderVars, diskVars, streamVars
  <2> QED
    BY <2>3, <2>4 DEF FollowerIsPrefix, FramesWritten, leaderVars, diskVars, streamVars
<1>7. ASSUME NEW f \in Follower, HandleFetch(f) PROVE LogInv'
  <2>1. PICK reads \in SUBSET Batch : /\ \A b \in reads : b[2] < lnext
                                     /\ late' = [late EXCEPT ![f] = @ \cup reads]
    <3>1. PICK reads \in {{}} \cup IF from[f] = 0 THEN {} ELSE {{b} : b \in Readable(from[f])} :
            late' = [late EXCEPT ![f] = @ \cup reads]
      BY <1>7, Zenon DEF HandleFetch
    <3>2. \A b \in reads : b \in Readable(from[f])
      BY <3>1
    <3>3. \A b \in reads : b \in Batch /\ b[2] < lnext
      BY <3>2, ReadableWritten DEF TypeOK
    <3> QED
      BY <3>1, <3>3, Zenon
  <2>2. late' \in [Follower -> SUBSET Batch]
    BY <2>1 DEF TypeOK
  <2>3. Head(fetches[f]) \in Nat /\ Tail(fetches[f]) \in Seq(Nat)
    BY <1>7 DEF HandleFetch, TypeOK
  <2>4. from' \in [Follower -> Nat]
    BY <1>7, <2>3 DEF HandleFetch, TypeOK
  <2>5. fetches' \in [Follower -> Seq(Nat)]
    BY <1>7, <2>3 DEF HandleFetch, TypeOK
  <2>6. UNCHANGED <<leaderVars, diskVars, conn, conns, wire, ackVars, confirmed>>
    BY <1>7 DEF HandleFetch
  <2>7. TypeOK'
    BY <2>2, <2>4, <2>5, <2>6, Zenon DEF TypeOK, leaderVars, diskVars, ackVars
  <2>8. FramesWritten'
    BY <2>1, <2>6, Zenon DEF TypeOK, FramesWritten, leaderVars
  <2> QED
    BY <2>6, <2>7, <2>8 DEF FollowerIsPrefix, leaderVars, diskVars
<1>8. ASSUME NEW f \in Follower, ResumeAtFirst(f) PROVE LogInv'
  <2>1. from' \in [Follower -> Nat]
    BY <1>8 DEF ResumeAtFirst, TypeOK
  <2>2. UNCHANGED <<leaderVars, diskVars, conn, conns, fetches, late, wire, ackVars, confirmed>>
    BY <1>8 DEF ResumeAtFirst
  <2>3. TypeOK'
    BY <2>1, <2>2, Zenon DEF TypeOK, leaderVars, diskVars, ackVars
  <2> QED
    BY <2>2, <2>3 DEF FollowerIsPrefix, FramesWritten, leaderVars, diskVars, ackVars
<1>9. ASSUME NEW f \in Follower, Ship(f) PROVE LogInv'
  <2>1. PICK b \in Batch : /\ b[2] < lnext
                          /\ wire' = [wire EXCEPT ![f] = Append(@, b)]
                          /\ from' = [from EXCEPT ![f] = b[2] + 1]
    BY <1>9, ReadableWritten, Zenon DEF Ship, TypeOK
  <2>2. UNCHANGED <<leaderVars, diskVars, conn, conns, fetches, late, ackVars, confirmed>>
    BY <1>9 DEF Ship
  <2>3. /\ Append(wire[f], b) \in Seq(Batch)
        /\ \A i \in 1 .. Len(Append(wire[f], b)) : Append(wire[f], b)[i][2] < lnext
    BY <2>1, FrameQueues DEF TypeOK, FramesWritten
  <2>4. wire' \in [Follower -> Seq(Batch)]
    BY <2>1, <2>3 DEF TypeOK
  <2>5. from' \in [Follower -> Nat]
    BY <2>1 DEF TypeOK, Batch
  <2>6. TypeOK'
    BY <2>2, <2>4, <2>5, Zenon DEF TypeOK, leaderVars, diskVars, ackVars
  <2>7. FramesWritten'
    BY <2>1, <2>2, <2>3, Zenon DEF TypeOK, FramesWritten, leaderVars
  <2> QED
    BY <2>2, <2>6, <2>7 DEF FollowerIsPrefix, leaderVars, diskVars
<1>10. ASSUME NEW f \in Follower, ShipLate(f) PROVE LogInv'
  <2>1. PICK b \in late[f] : /\ wire' = [wire EXCEPT ![f] = Append(@, b)]
                            /\ late' = [late EXCEPT ![f] = @ \ {b}]
    BY <1>10, Zenon DEF ShipLate
  <2>2. UNCHANGED <<leaderVars, diskVars, conn, conns, fetches, from, ackVars, confirmed>>
    BY <1>10 DEF ShipLate
  <2>3. b \in Batch /\ b[2] < lnext
    BY DEF TypeOK, FramesWritten
  <2>4. /\ Append(wire[f], b) \in Seq(Batch)
        /\ \A i \in 1 .. Len(Append(wire[f], b)) : Append(wire[f], b)[i][2] < lnext
    BY <2>3, FrameQueues DEF TypeOK, FramesWritten
  <2>5. wire' \in [Follower -> Seq(Batch)]
    BY <2>1, <2>4 DEF TypeOK
  <2>6. late' \in [Follower -> SUBSET Batch]
    BY <2>1, Zenon DEF TypeOK
  <2>7. TypeOK'
    BY <2>2, <2>5, <2>6, Zenon DEF TypeOK, leaderVars, diskVars, ackVars
  <2>8. FramesWritten'
    BY <2>1, <2>2, <2>4, Zenon DEF TypeOK, FramesWritten, leaderVars
  <2> QED
    BY <2>2, <2>7, <2>8 DEF FollowerIsPrefix, leaderVars, diskVars
<1>11. ASSUME NEW f \in Follower, ApplyBatch(f) PROVE LogInv'
  <2> DEFINE lo == Head(wire[f])[1]
             hi == Head(wire[f])[2]
  <2>1. /\ lo \in Nat /\ hi \in Nat /\ hi < lnext
        /\ Tail(wire[f]) \in Seq(Batch)
        /\ \A i \in 1 .. Len(Tail(wire[f])) : Tail(wire[f])[i][2] < lnext
    <3>1. wire[f] \in Seq(Batch) /\ wire[f] # <<>> /\ \A i \in 1 .. Len(wire[f]) : wire[f][i][2] < lnext
      BY <1>11 DEF ApplyBatch, TypeOK, FramesWritten
    <3>2. /\ Head(wire[f]) \in Batch /\ Head(wire[f])[2] < lnext
          /\ Tail(wire[f]) \in Seq(Batch)
          /\ \A i \in 1 .. Len(Tail(wire[f])) : Tail(wire[f])[i][2] < lnext
      BY <3>1, FrameQueues, Zenon DEF TypeOK
    <3> QED
      BY <3>2 DEF Batch
  <2>2. flog[f] \in Seq(Nat) /\ \A i \in 1 .. Len(flog[f]) : flog[f][i] = i
    BY DEF TypeOK, FollowerIsPrefix
  <2>3. PICK log \in Seq(Nat) : /\ flog' = [flog EXCEPT ![f] = log]
                                /\ \A i \in 1 .. Len(log) : log[i] = i
                                /\ Len(log) < lnext
    <3>1. CASE lo > LocalNext(f)
      BY <1>11, <2>1, <2>2, <3>1 DEF ApplyBatch, diskVars, TypeOK, FollowerIsPrefix
    <3>2. CASE ~(lo > LocalNext(f))
      <4> DEFINE r == AppendReplicated(flog[f], lo, hi)
      <4>1. /\ r \in Seq(Nat)
            /\ \A i \in 1 .. Len(r) : r[i] = i
            /\ Len(r) = Len(flog[f]) \/ Len(r) = hi
        BY <2>1, <2>2, AppendReplicatedPrefix, Zenon
      <4>2. flog' = [flog EXCEPT ![f] = r]
        BY <1>11, <3>2 DEF ApplyBatch
      <4> HIDE DEF r
      <4>3. Len(r) < lnext
        BY <2>1, <4>1 DEF FollowerIsPrefix
      <4> QED
        BY <4>1, <4>2, <4>3, Zenon
    <3> QED
      BY <3>1, <3>2
  <2>4. fetches' \in [Follower -> Seq(Nat)] /\ synced' = synced /\ syncing' \subseteq Follower
    <3>1. CASE lo > LocalNext(f)
      <4>1. fetches' = [fetches EXCEPT ![f] = Append(@, LocalNext(f))] /\ UNCHANGED diskVars
        BY <1>11, <3>1 DEF ApplyBatch
      <4>2. Append(fetches[f], LocalNext(f)) \in Seq(Nat)
        BY <2>2 DEF TypeOK, LocalNext
      <4> QED
        BY <4>1, <4>2 DEF TypeOK, diskVars
    <3>2. CASE ~(lo > LocalNext(f))
      BY <1>11, <3>2, Zenon DEF ApplyBatch, TypeOK
    <3> QED
      BY <3>1, <3>2
  <2>5. wire' = [wire EXCEPT ![f] = Tail(@)]
    BY <1>11 DEF ApplyBatch
  <2>6. UNCHANGED <<leaderVars, conn, conns, from, late, ackVars, confirmed>>
    BY <1>11 DEF ApplyBatch
  <2>7. TypeOK'
    <3>1. flog' \in [Follower -> Seq(Nat)]
      BY <2>3 DEF TypeOK
    <3>2. wire' \in [Follower -> Seq(Batch)]
      BY <2>1, <2>5 DEF TypeOK
    <3> QED
      BY <3>1, <3>2, <2>4, <2>6, Zenon DEF TypeOK, leaderVars, ackVars
  <2>8. FollowerIsPrefix'
    BY <2>3, <2>6, Zenon DEF TypeOK, FollowerIsPrefix, leaderVars
  <2>9. FramesWritten'
    BY <2>1, <2>5, <2>6, Zenon DEF TypeOK, FramesWritten, leaderVars
  <2> QED
    BY <2>7, <2>8, <2>9
<1>12. ASSUME NEW f \in Follower, SyncBatch(f) PROVE LogInv'
  <2>1. synced' \in [Follower -> Nat] /\ syncing' \subseteq Follower
    BY <1>12 DEF SyncBatch, TypeOK
  <2>2. UNCHANGED <<leaderVars, flog, streamVars, ackVars, confirmed>>
    BY <1>12 DEF SyncBatch
  <2>3. TypeOK'
    BY <2>1, <2>2, Zenon DEF TypeOK, leaderVars, streamVars, ackVars
  <2> QED
    BY <2>2, <2>3 DEF FollowerIsPrefix, FramesWritten, leaderVars, streamVars
<1>13. ASSUME NEW f \in Follower, SyncFails(f) PROVE LogInv'
  BY <1>13, SessionEndsInv, Zenon DEF SyncFails, TypeOK, FollowerIsPrefix
<1>14. ASSUME NEW f \in Follower, SendAck(f) PROVE LogInv'
  <2>1. sent' \in [Follower -> Int]
    BY <1>14 DEF SendAck, TypeOK
  <2>2. ackWire' \subseteq Follower \X Nat \X Nat
    BY <1>14 DEF SendAck, TypeOK
  <2>3. UNCHANGED <<leaderVars, diskVars, streamVars, serving, leaving, followers, acked, confirmed>>
    BY <1>14 DEF SendAck
  <2>4. TypeOK'
    BY <2>1, <2>2, <2>3, Zenon DEF TypeOK, leaderVars, diskVars, streamVars
  <2> QED
    BY <2>3, <2>4 DEF FollowerIsPrefix, FramesWritten, leaderVars, diskVars, streamVars
<1>15. ASSUME NEW f \in Follower, NEW c \in 1 .. MaxConns, NEW s \in 0 .. MaxSeq, RecordAck(f, c, s)
       PROVE LogInv'
  <2>1. DOMAIN acked' \subseteq Follower /\ acked' \in [DOMAIN acked' -> Nat]
    BY <1>15 DEF RecordAck, TypeOK
  <2>2. ackWire' \subseteq Follower \X Nat \X Nat
    BY <1>15 DEF RecordAck, TypeOK
  <2>3. UNCHANGED <<leaderVars, diskVars, streamVars, sent, serving, leaving, followers, confirmed>>
    BY <1>15 DEF RecordAck
  <2>4. TypeOK'
    BY <2>1, <2>2, <2>3, Zenon DEF TypeOK, leaderVars, diskVars, streamVars
  <2> QED
    BY <2>3, <2>4 DEF FollowerIsPrefix, FramesWritten, leaderVars, diskVars, streamVars
<1>16. ASSUME NEW s \in 1 .. MaxSeq, WaitFor(s) PROVE LogInv'
  <2>1. confirmed' \subseteq Nat
    BY <1>16 DEF WaitFor, TypeOK
  <2>2. UNCHANGED <<leaderVars, diskVars, streamVars, ackVars>>
    BY <1>16 DEF WaitFor
  <2>3. TypeOK'
    BY <2>1, <2>2, Zenon DEF TypeOK, leaderVars, diskVars, streamVars, ackVars
  <2> QED
    BY <2>2, <2>3 DEF FollowerIsPrefix, FramesWritten, leaderVars, diskVars, streamVars, ackVars
<1>17. ASSUME NEW f \in Follower, FollowerCrash(f) PROVE LogInv'
  <2>1. PICK n \in synced[f] .. Len(flog[f]) : flog' = [flog EXCEPT ![f] = SubSeq(@, 1, n)]
    BY <1>17, Zenon DEF FollowerCrash
  <2>2. /\ SubSeq(flog[f], 1, n) \in Seq(Nat)
        /\ Len(SubSeq(flog[f], 1, n)) = n
        /\ \A i \in 1 .. n : SubSeq(flog[f], 1, n)[i] = i
    <3>1. flog[f] \in Seq(Nat) /\ n \in Nat /\ n <= Len(flog[f])
      BY DEF TypeOK
    <3>2. /\ SubSeq(flog[f], 1, n) \in Seq(Nat)
          /\ Len(SubSeq(flog[f], 1, n)) = n
          /\ \A i \in 1 .. n : SubSeq(flog[f], 1, n)[i] = flog[f][i]
      BY <3>1
    <3>3. \A i \in 1 .. Len(flog[f]) : flog[f][i] = i
      BY DEF FollowerIsPrefix
    <3>4. \A i \in 1 .. n : i \in 1 .. Len(flog[f])
      BY <3>1
    <3> QED
      BY <3>2, <3>3, <3>4
  <2>3. flog' \in [Follower -> Seq(Nat)]
    BY <2>1, <2>2, Zenon DEF TypeOK
  <2>4. TypeOK' /\ FramesWritten' /\ lnext' = lnext
    BY <1>17, <2>3, SessionEndsInv, Zenon DEF FollowerCrash, TypeOK
  <2>5. FollowerIsPrefix'
    <3>1. n \in Nat /\ n <= Len(flog[f])
      BY DEF TypeOK
    <3>2. /\ flog'[f] = SubSeq(flog[f], 1, n)
          /\ \A g \in Follower \ {f} : flog'[g] = flog[g]
      BY <2>1 DEF TypeOK
    <3>3. Len(flog[f]) \in Nat
      BY DEF TypeOK
    <3>4. n < lnext
      BY <3>1, <3>3 DEF TypeOK, FollowerIsPrefix
    <3> QED
      BY <2>2, <2>4, <3>2, <3>4 DEF FollowerIsPrefix
  <2> QED
    BY <2>4, <2>5
<1>18. ASSUME NEW f \in Follower, StreamFails(f) PROVE LogInv'
  <2>1. from' \in [Follower -> Nat]
    BY <1>18 DEF StreamFails, TypeOK
  <2>2. UNCHANGED <<leaderVars, diskVars, conn, conns, fetches, late, wire, ackVars, confirmed>>
    BY <1>18 DEF StreamFails
  <2>3. TypeOK'
    BY <2>1, <2>2, Zenon DEF TypeOK, leaderVars, diskVars, ackVars
  <2> QED
    BY <2>2, <2>3 DEF FollowerIsPrefix, FramesWritten, leaderVars, diskVars, ackVars
<1>19. CASE UNCHANGED vars
  BY <1>19, Zenon DEF vars, leaderVars, diskVars, streamVars, ackVars, TypeOK, FollowerIsPrefix, FramesWritten
<1> QED
  BY <1>1, <1>2, <1>3, <1>4, <1>5, <1>6, <1>7, <1>8, <1>9, <1>10, <1>11, <1>12, <1>13, <1>14,
     <1>15, <1>16, <1>17, <1>18, <1>19 DEF CrashNext, Next

\* partition.go:241-252: for every number of followers and every interleaving of
\* connections, streams, retention and crashes, a follower's log is a prefix of
\* the leader's.
THEOREM PrefixAlways == CrashSpec => [](TypeOK /\ FollowerIsPrefix)
<1>1. LogInv => TypeOK /\ FollowerIsPrefix
  BY DEF LogInv
<1> QED
  BY InitLogInv, LogStep, <1>1, PTL DEF CrashSpec

-----------------------------------------------------------------------------
(* The acknowledging half.                                                  *)

\* Without a crash no follower's log gets shorter.
LEMMA LogsGrow ==
  ASSUME LogInv, [Next]_vars
  PROVE  \A f \in Follower : Len(flog[f]) <= Len(flog'[f])
<1>1. CASE flog' = flog
  BY <1>1 DEF LogInv, TypeOK
<1>2. ASSUME NEW f \in Follower, ApplyBatch(f) PROVE \A g \in Follower : Len(flog[g]) <= Len(flog'[g])
  <2> DEFINE lo == Head(wire[f])[1]
             hi == Head(wire[f])[2]
             r == AppendReplicated(flog[f], lo, hi)
  <2>1. wire[f] \in Seq(Batch) /\ wire[f] # <<>> /\ \A i \in 1 .. Len(wire[f]) : wire[f][i][2] < lnext
    BY <1>2 DEF ApplyBatch, LogInv, TypeOK, FramesWritten
  <2>2. Head(wire[f]) \in Batch
    BY <2>1, FrameQueues DEF LogInv, TypeOK
  <2>3. lo \in Nat /\ hi \in Nat
    BY <2>2 DEF Batch
  <2>4. flog[f] \in Seq(Nat) /\ \A i \in 1 .. Len(flog[f]) : flog[f][i] = i
    BY DEF LogInv, TypeOK, FollowerIsPrefix
  <2>5. Len(flog[f]) <= Len(r)
    BY <2>3, <2>4, AppendReplicatedPrefix, Zenon
  <2>6. flog' = flog \/ flog' = [flog EXCEPT ![f] = r]
    BY <1>2 DEF ApplyBatch, diskVars
  <2> HIDE DEF r
  <2>7. CASE flog' = [flog EXCEPT ![f] = r]
    <3>1. flog'[f] = r /\ \A g \in Follower \ {f} : flog'[g] = flog[g]
      BY <2>7 DEF LogInv, TypeOK
    <3>2. \A g \in Follower : Len(flog[g]) \in Nat
      BY DEF LogInv, TypeOK
    <3> QED
      BY <2>5, <3>1, <3>2
  <2> QED
    BY <1>1, <2>6, <2>7
<1>3. \/ flog' = flog
      \/ \E f \in Follower : ApplyBatch(f)
  BY Zenon DEF Next, vars, AppendContext, EnforceRetention, Connect, Disconnect, EndServe, DropAcks,
         HandleFetch, ResumeAtFirst, Ship, StreamFails, ShipLate, SyncBatch, SyncFails, SendAck, RecordAck,
         WaitFor, diskVars
<1> QED
  BY <1>1, <1>2, <1>3

\* What WaitFor counts are followers that hold the record.
LEMMA WaitForHeld ==
  ASSUME IInv, NEW s \in 1 .. MaxSeq, WaitFor(s)
  PROVE  Cardinality({f \in Follower : Len(flog[f]) >= s}) >= MinInSync - 1
<1> DEFINE Holds == {f \in Follower : Len(flog[f]) >= s}
<1>1. \A f \in DOMAIN acked : f \in Follower /\ acked[f] \in Nat /\ Len(flog[f]) \in Nat
  BY DEF IInv, LogInv, TypeOK
<1>2. AtLeast(s) \subseteq Holds
  BY <1>1 DEF AtLeast, IInv, AckedIsHeld
<1>3. IsFiniteSet(Holds)
  BY LinkAssumption, FS_Subset
<1> HIDE DEF Holds
<1>4. IsFiniteSet(AtLeast(s)) /\ Cardinality(AtLeast(s)) <= Cardinality(Holds)
  BY <1>2, <1>3, FS_Subset
<1>5. Cardinality(AtLeast(s)) \in Nat /\ Cardinality(Holds) \in Nat /\ MinInSync - 1 \in Int
  BY <1>3, <1>4, FS_CardinalityType, LinkAssumption
<1>6. Cardinality(AtLeast(s)) >= MinInSync - 1
  BY DEF WaitFor
<1>7. Cardinality(Holds) >= MinInSync - 1
  BY <1>4, <1>5, <1>6
<1> QED
  BY <1>7 DEF Holds

\* What was acknowledged stays held: the three facts about acknowledgements are
\* preserved by every step without a crash.
LEMMA AckStep == IInv /\ [Next]_vars => IInv'
<1> SUFFICES ASSUME IInv, [Next]_vars PROVE IInv'
  OBVIOUS
<1>1. LogInv'
  BY LogStep DEF IInv, CrashNext
<1>2. \A f \in Follower : /\ Len(flog[f]) \in Nat /\ Len(flog'[f]) \in Nat
                         /\ Len(flog[f]) <= Len(flog'[f])
  <2>1. \A f \in Follower : Len(flog[f]) \in Nat
    BY DEF IInv, LogInv, TypeOK
  <2>2. \A f \in Follower : Len(flog'[f]) \in Nat
    BY <1>1 DEF LogInv, TypeOK
  <2>3. \A f \in Follower : Len(flog[f]) <= Len(flog'[f])
    BY LogsGrow DEF IInv
  <2> QED
    BY <2>1, <2>2, <2>3
<1>3. /\ \A a \in ackWire : a[1] \in Follower /\ a[3] \in Nat
      /\ \A f \in DOMAIN acked : f \in Follower /\ acked[f] \in Nat
  BY DEF IInv, LogInv, TypeOK
<1>4. AcksHeld'
  <2>1. ASSUME ackWire' \subseteq ackWire PROVE AcksHeld'
    BY <2>1, <1>2, <1>3 DEF IInv, AcksHeld
  <2>2. ASSUME NEW f \in Follower, SendAck(f) PROVE AcksHeld'
    <3>1. ackWire' = ackWire \cup {<<f, conn[f], Len(flog[f])>>} /\ flog' = flog
      BY <2>2 DEF SendAck, diskVars
    <3> QED
      BY <3>1, <1>2 DEF IInv, AcksHeld
  <2>3. \/ ackWire' \subseteq ackWire
        \/ \E f \in Follower : SendAck(f)
    BY Zenon DEF Next, vars, AppendContext, EnforceRetention, Connect, Disconnect, SessionEnds, EndServe,
           DropAcks, HandleFetch, ResumeAtFirst, Ship, StreamFails, ShipLate, ApplyBatch, SyncBatch, SyncFails,
           RecordAck, WaitFor, ackVars
  <2> QED
    BY <2>1, <2>2, <2>3
<1>5. AckedIsHeld'
  <2>1. CASE acked' = acked
    BY <2>1, <1>2, <1>3 DEF IInv, AckedIsHeld
  <2>2. ASSUME NEW f \in Follower, NEW c \in 1 .. MaxConns, DropAcks(f, c) PROVE AckedIsHeld'
    <3>1. acked' = [g \in DOMAIN acked \ {f} |-> acked[g]]
      BY <2>2 DEF DropAcks
    <3> QED
      BY <3>1, <1>2, <1>3 DEF IInv, AckedIsHeld
  <2>3. ASSUME NEW f \in Follower, NEW c \in 1 .. MaxConns, NEW s \in 0 .. MaxSeq, RecordAck(f, c, s)
        PROVE  AckedIsHeld'
    <3>1. /\ acked' = [g \in DOMAIN acked \cup {f} |->
                         IF g = f /\ (f \notin DOMAIN acked \/ s > acked[f]) THEN s ELSE acked[g]]
          /\ <<f, c, s>> \in ackWire /\ flog' = flog
      BY <2>3 DEF RecordAck, diskVars
    <3>2. s <= Len(flog[f])
      BY <3>1 DEF IInv, AcksHeld
    <3> QED
      BY <3>1, <3>2, <1>3 DEF IInv, AckedIsHeld
  <2>4. \/ acked' = acked
        \/ \E f \in Follower, c \in 1 .. MaxConns : DropAcks(f, c)
        \/ \E f \in Follower, c \in 1 .. MaxConns, s \in 0 .. MaxSeq : RecordAck(f, c, s)
    BY Zenon DEF Next, vars, AppendContext, EnforceRetention, Connect, Disconnect, SessionEnds, EndServe,
           HandleFetch, ResumeAtFirst, Ship, StreamFails, ShipLate, ApplyBatch, SyncBatch, SyncFails, SendAck,
           WaitFor, ackVars
  <2> QED
    BY <2>1, <2>2, <2>3, <2>4
<1>6. ConfirmedIsReplicated'
  <2> DEFINE Holds(log, s) == {f \in Follower : Len(log[f]) >= s}
  <2>1. \A s \in Nat : /\ IsFiniteSet(Holds(flog, s)) /\ IsFiniteSet(Holds(flog', s))
                      /\ Cardinality(Holds(flog, s)) \in Nat
                      /\ Cardinality(Holds(flog, s)) <= Cardinality(Holds(flog', s))
    <3> SUFFICES ASSUME NEW s \in Nat
                 PROVE  /\ IsFiniteSet(Holds(flog, s)) /\ IsFiniteSet(Holds(flog', s))
                        /\ Cardinality(Holds(flog, s)) \in Nat
                        /\ Cardinality(Holds(flog, s)) <= Cardinality(Holds(flog', s))
      BY Zenon
    <3>1. IsFiniteSet(Holds(flog', s))
      BY LinkAssumption, FS_Subset
    <3>2. Holds(flog, s) \subseteq Holds(flog', s)
      BY <1>2
    <3> HIDE DEF Holds
    <3> QED
      BY <3>1, <3>2, FS_Subset, FS_CardinalityType
  <2>2. MinInSync - 1 \in Int /\ confirmed \subseteq Nat
    BY LinkAssumption DEF IInv, LogInv, TypeOK
  <2>3. \A s \in confirmed : Cardinality(Holds(flog, s)) >= MinInSync - 1
    BY DEF IInv, ConfirmedIsReplicated
  <2>4. ASSUME NEW s \in 1 .. MaxSeq, WaitFor(s)
        PROVE  /\ confirmed' = confirmed \cup {s}
               /\ Cardinality(Holds(flog, s)) >= MinInSync - 1
    BY <2>4, WaitForHeld DEF WaitFor
  <2>5. \A s \in confirmed' : s \in Nat /\ Cardinality(Holds(flog, s)) >= MinInSync - 1
    <3>1. CASE confirmed' = confirmed
      BY <2>2, <2>3, <3>1
    <3>2. CASE \E s \in 1 .. MaxSeq : WaitFor(s)
      <4>1. PICK s \in 1 .. MaxSeq : WaitFor(s)
        BY <3>2
      <4>2. confirmed' = confirmed \cup {s} /\ Cardinality(Holds(flog, s)) >= MinInSync - 1
        BY <2>4, <4>1, Zenon
      <4>3. s \in Nat
        OBVIOUS
      <4> HIDE DEF Holds
      <4> QED
        BY <2>2, <2>3, <4>2, <4>3
    <3>3. \/ confirmed' = confirmed
          \/ \E s \in 1 .. MaxSeq : WaitFor(s)
      BY Zenon DEF Next, vars, AppendContext, EnforceRetention, Connect, Disconnect, SessionEnds, EndServe,
             DropAcks, HandleFetch, ResumeAtFirst, Ship, StreamFails, ShipLate, ApplyBatch, SyncBatch, SyncFails,
             SendAck, RecordAck
    <3> QED
      BY <3>1, <3>2, <3>3
  <2>6. \A s \in confirmed' : Cardinality(Holds(flog', s)) >= MinInSync - 1
    <3> HIDE DEF Holds
    <3> QED
      BY <2>1, <2>2, <2>5, FS_CardinalityType
  <2> QED
    BY <2>6 DEF ConfirmedIsReplicated
<1> QED
  BY <1>1, <1>4, <1>5, <1>6 DEF IInv

\* leader.go:618-660: whatever the number of followers and MinInSync, a publisher is
\* told its record is replicated only once MinInSync nodes hold it, and every
\* recorded acknowledgement is true of the follower's log.
THEOREM ConfirmationIsHonest == Spec => [](AckedIsHeld /\ ConfirmedIsReplicated)
<1>1. Init => IInv
  <2>1. Init => AcksHeld /\ AckedIsHeld /\ ConfirmedIsReplicated
    BY DEF Init, AcksHeld, AckedIsHeld, ConfirmedIsReplicated
  <2> QED
    BY InitLogInv, <2>1 DEF IInv
<1>2. IInv => AckedIsHeld /\ ConfirmedIsReplicated
  BY DEF IInv
<1> QED
  BY <1>1, <1>2, AckStep, PTL DEF Spec

-----------------------------------------------------------------------------
(* The promise.                                                             *)

\* A batch applied is a copy of some of the leader's records, or nothing new.
LEMMA ApplyIsCopy ==
  ASSUME LogInv, LogInv', NEW f \in Follower, ApplyBatch(f)
  PROVE  [Promise!Copy(f)]_(Promise!vars)
<1> DEFINE held == [g \in Follower |-> Len(flog[g])]
<1>1. UNCHANGED <<lnext, confirmed>>
  BY DEF ApplyBatch, leaderVars
<1>2. flog \in [Follower -> Seq(Nat)] /\ flog' \in [Follower -> Seq(Nat)] /\ lnext \in Nat
  BY Zenon DEF LogInv, TypeOK
<1>3. CASE flog' = flog
  BY <1>1, <1>3 DEF Promise!vars
<1>4. CASE flog' # flog
  <2> DEFINE lo == Head(wire[f])[1]
             hi == Head(wire[f])[2]
             r == AppendReplicated(flog[f], lo, hi)
  <2>1. flog' = [flog EXCEPT ![f] = r]
    BY <1>4 DEF ApplyBatch, diskVars
  <2>2. lo \in Nat /\ hi \in Nat
    <3>1. wire[f] \in Seq(Batch) /\ wire[f] # <<>>
      BY DEF ApplyBatch, LogInv, TypeOK
    <3>2. Head(wire[f]) \in Nat \X Nat
      BY <3>1 DEF Batch
    <3> QED
      BY <3>2
  <2>3. Len(flog[f]) <= Len(r) /\ (Len(r) = Len(flog[f]) \/ Len(r) = hi)
    BY <1>2, <2>2, AppendReplicatedPrefix, Zenon DEF LogInv, FollowerIsPrefix
  <2>4. flog'[f] = r /\ \A g \in Follower \ {f} : flog'[g] = flog[g]
    BY <1>2, <2>1
  <2>5. Len(r) \in Nat /\ Len(flog[f]) \in Nat /\ Len(r) < lnext
    BY <1>1, <1>2, <2>4 DEF LogInv, FollowerIsPrefix
  <2> HIDE DEF r
  <2>6. held' = [held EXCEPT ![f] = Len(r)]
    BY <2>4, Zenon
  <2>7. CASE Len(r) = Len(flog[f])
    <3>1. held' = held
      BY <2>6, <2>7, Zenon
    <3> QED
      BY <1>1, <3>1 DEF Promise!vars
  <2>8. CASE Len(r) # Len(flog[f])
    <3>1. Len(r) \in (held[f] + 1) .. (lnext - 1)
      BY <1>2, <2>3, <2>5, <2>8
    <3> QED
      BY <1>1, <2>6, <3>1, Zenon DEF Promise!Copy
  <2> QED
    BY <2>7, <2>8
<1> QED
  BY <1>3, <1>4

\* Every step without a crash is a step of the promise or changes nothing it speaks of.
LEMMA PromiseStep == IInv /\ IInv' /\ [Next]_vars => [Promise!Next]_(Promise!vars)
<1> SUFFICES ASSUME IInv, IInv', [Next]_vars PROVE [Promise!Next]_(Promise!vars)
  OBVIOUS
<1>1. CASE AppendContext
  <2>1. lnext' - 1 = (lnext - 1) + 1 /\ UNCHANGED <<flog, confirmed>>
    BY <1>1 DEF AppendContext, diskVars, IInv, LogInv, TypeOK
  <2>2. Promise!Write
    BY <2>1 DEF Promise!Write
  <2> QED
    BY <2>2 DEF Promise!Next
<1>2. ASSUME NEW f \in Follower, ApplyBatch(f) PROVE [Promise!Next]_(Promise!vars)
  BY <1>2, ApplyIsCopy DEF IInv, Promise!Next
<1>3. ASSUME NEW s \in 1 .. MaxSeq, WaitFor(s) PROVE [Promise!Next]_(Promise!vars)
  <2>1. s \in 1 .. (lnext - 1) /\ s \notin confirmed /\ confirmed' = confirmed \cup {s}
    BY <1>3 DEF WaitFor, IInv, LogInv, TypeOK
  <2>2. UNCHANGED <<lnext, flog>>
    BY <1>3 DEF WaitFor, leaderVars, diskVars
  <2> DEFINE Holds == {f \in Follower : Len(flog[f]) >= s}
             held == [f \in Follower |-> Len(flog[f])]
  <2>3. Holds \in {Q \in SUBSET Follower : Cardinality(Q) >= MinInSync - 1}
    BY <1>3, WaitForHeld
  <2>4. \A f \in Holds : held[f] >= s
    OBVIOUS
  <2>5. held' = held /\ lnext' - 1 = lnext - 1
    BY <2>2
  <2>6. Promise!Confirm(s)
    BY <2>1, <2>3, <2>4, <2>5 DEF Promise!Confirm
  <2> QED
    BY <2>1, <2>6 DEF Promise!Next
<1>4. CASE UNCHANGED <<lnext, flog, confirmed>>
  BY <1>4 DEF Promise!vars
<1>5. \/ AppendContext
      \/ \E f \in Follower : ApplyBatch(f)
      \/ \E s \in 1 .. MaxSeq : WaitFor(s)
      \/ UNCHANGED <<lnext, flog, confirmed>>
  BY Zenon DEF Next, vars, EnforceRetention, Connect, Disconnect, SessionEnds, EndServe, DropAcks,
         HandleFetch, ResumeAtFirst, Ship, StreamFails, ShipLate, SyncBatch, SyncFails, SendAck, RecordAck,
         leaderVars, diskVars
<1> QED
  BY <1>1, <1>2, <1>3, <1>4, <1>5

\* replicate.go:82-94: for any number of followers and any MinInSync, the link
\* implements what AckWaiter promises: copies only grow and stay within the leader's
\* log, and a record is confirmed once, when MinInSync nodes hold it.
THEOREM PromiseIsKept == Spec => KeepsThePromise
<1>1. Init => IInv /\ Promise!Init
  <2>1. Init => AcksHeld /\ AckedIsHeld /\ ConfirmedIsReplicated
    BY DEF Init, AcksHeld, AckedIsHeld, ConfirmedIsReplicated
  <2>2. Init => Promise!Init
    BY DEF Init, Promise!Init
  <2> QED
    BY InitLogInv, <2>1, <2>2 DEF IInv
<1> QED
  BY <1>1, AckStep, PromiseStep, PTL DEF Spec, KeepsThePromise, Promise!Spec

=============================================================================
