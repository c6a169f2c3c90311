------------------------ MODULE SharePartitionProofs ------------------------
(***************************************************************************)
(* Proofs about SharePartition, for every set of consumers and every value *)
(* of the bounds: the window invariants hold whatever the crash, and        *)
(* at-least-once holds as long as the page cache survives.                  *)
(***************************************************************************)
EXTENDS SharePartition, FiniteSetTheorems, TLAPS

\* The provers a leaf is given when it names none, with ample time for each.
USE SMTT(40), ZenonT(40)

(* The state of the window between two ...Locked helpers: everything the    *)
(* safety invariants say of it, except that the base may be retired until   *)
(* advanceLocked has run.                                                   *)
HeapOK(w) == {s \in w.available : s >= w.base} =
               {s \in DOMAIN w.entries : w.entries[s].holder = NoConsumer}
Core(w) ==
  /\ IsWindow(w)
  /\ w.base <= w.next
  /\ DOMAIN w.entries \cup w.retired = w.base .. (w.next - 1)
  /\ DOMAIN w.entries \cap w.retired = {}
  /\ w.next - w.base <= MaxInFlight
  /\ HeapOK(w)

-----------------------------------------------------------------------------
(* What each helper does to the fields of a window.                         *)

\* The positions of a well-formed window are numbers in order, and every record
\* it tracks lies between them.
LEMMA CoreFacts ==
  ASSUME NEW w, Core(w)
  PROVE  /\ w.base \in Nat /\ w.next \in Nat /\ w.base <= w.next
         /\ \A s \in DOMAIN w.entries : s \in Nat /\ s < w.next
<1>1. w.base \in Nat /\ w.next \in Nat /\ w.base <= w.next /\ DOMAIN w.entries \subseteq Nat
  BY DEF Core, IsWindow
<1>2. DOMAIN w.entries \subseteq w.base .. (w.next - 1)
  BY DEF Core
<1> QED BY <1>1, <1>2

\* releaseLocked keeps the window well formed, and the lease count of the rest.
LEMMA ReleaseCore ==
  ASSUME NEW w, Core(w), NEW S, S \subseteq DOMAIN w.entries
  PROVE  /\ Core(Release(w, S))
         /\ Release(w, S).base = w.base
         /\ Release(w, S).next = w.next
         /\ Release(w, S).retired = w.retired
         /\ DOMAIN Release(w, S).entries = DOMAIN w.entries
         /\ \A s \in DOMAIN w.entries \ S : Release(w, S).entries[s] = w.entries[s]
<1> DEFINE r == Release(w, S)
<1>1. /\ r.base = w.base /\ r.next = w.next /\ r.retired = w.retired
      /\ r.available = w.available \cup S
      /\ r.entries = [s \in DOMAIN w.entries |->
            [count  |-> w.entries[s].count,
             holder |-> IF s \in S THEN NoConsumer ELSE w.entries[s].holder]]
      /\ r = Window(r.base, r.next, r.entries, r.retired, r.available)
  BY DEF Release, Window
<1>2. \A s \in DOMAIN w.entries : w.entries[s] \in Entry
  BY DEF Core, IsWindow
<1>3. /\ DOMAIN r.entries = DOMAIN w.entries
      /\ \A s \in DOMAIN w.entries : r.entries[s] \in Entry
      /\ \A s \in DOMAIN w.entries \ S : r.entries[s] = w.entries[s]
      /\ \A s \in S : r.entries[s].holder = NoConsumer
  BY <1>1, <1>2 DEF Entry
<1> HIDE DEF r
<1>4. IsWindow(r)
  BY <1>1, <1>3, Zenon DEF Core, IsWindow
<1>5. HeapOK(r)
  <2>1. \A s \in DOMAIN w.entries : s >= w.base
    BY DEF Core, IsWindow
  <2> QED BY <1>1, <1>3, <2>1 DEF HeapOK, Core
<1> QED BY <1>1, <1>3, <1>4, <1>5, Zenon DEF Core, r

\* retireLocked, applied to leased records, keeps the window well formed: the
\* heap holds none of them.
LEMMA RetireCore ==
  ASSUME NEW w, Core(w), NEW S, S \subseteq Leased(w)
  PROVE  /\ Core(Retire(w, S))
         /\ Retire(w, S).base = w.base
         /\ Retire(w, S).next = w.next
         /\ Retire(w, S).retired = w.retired \cup S
         /\ DOMAIN Retire(w, S).entries = DOMAIN w.entries \ S
<1> DEFINE r == Retire(w, S)
<1>1. /\ r.base = w.base /\ r.next = w.next /\ r.retired = w.retired \cup S
      /\ r.available = w.available
      /\ r.entries = [s \in DOMAIN w.entries \ S |-> w.entries[s]]
      /\ r = Window(r.base, r.next, r.entries, r.retired, r.available)
  BY DEF Retire, Window
<1> HIDE DEF r
<1>2. /\ DOMAIN r.entries = DOMAIN w.entries \ S
      /\ \A s \in DOMAIN r.entries : r.entries[s] = w.entries[s]
      /\ S \subseteq DOMAIN w.entries
      /\ \A s \in S : w.entries[s].holder # NoConsumer
  BY <1>1 DEF Leased
<1>3. IsWindow(r)
  BY <1>1, <1>2 DEF Core, IsWindow
<1>4. HeapOK(r)
  BY <1>1, <1>2 DEF HeapOK, Core
<1>5. /\ DOMAIN r.entries \cup r.retired = r.base .. (r.next - 1)
      /\ DOMAIN r.entries \cap r.retired = {}
  BY <1>1, <1>2 DEF Core
<1> QED BY <1>1, <1>2, <1>3, <1>4, <1>5 DEF Core, r

\* reapExpiredLocked before it advances: what it dead-letters is retired.
LEMMA ReapCore ==
  ASSUME NEW w, Core(w), NEW E, E \subseteq Leased(w), NEW F
  PROVE  /\ Core(Reap(w, E, F))
         /\ Reap(w, E, F).base = w.base
         /\ Reap(w, E, F).next = w.next
         /\ Reap(w, E, F).retired = w.retired \cup DeadLettered(w, E, F)
         /\ DOMAIN Reap(w, E, F).entries = DOMAIN w.entries \ DeadLettered(w, E, F)
<1> DEFINE D == DeadLettered(w, E, F)
           r == Release(w, E \ D)
<1>1. D \subseteq E /\ E \subseteq DOMAIN w.entries
  BY DEF DeadLettered, Leased
<1>2. D \subseteq Leased(w)
  BY <1>1
<1> HIDE DEF D
<1>3. /\ Core(r) /\ r.base = w.base /\ r.next = w.next /\ r.retired = w.retired
      /\ DOMAIN r.entries = DOMAIN w.entries
      /\ \A s \in D : r.entries[s] = w.entries[s]
  BY <1>1, ReleaseCore
<1> HIDE DEF r
<1>4. D \subseteq Leased(r)
  BY <1>2, <1>3 DEF Leased
<1>5. /\ Core(Retire(r, D)) /\ Retire(r, D).base = r.base /\ Retire(r, D).next = r.next
      /\ Retire(r, D).retired = r.retired \cup D
      /\ DOMAIN Retire(r, D).entries = DOMAIN r.entries \ D
  BY <1>3, <1>4, RetireCore
<1>6. Reap(w, E, F) = Retire(r, D)
  BY DEF Reap, r, D
<1> QED BY <1>3, <1>5, <1>6 DEF D

\* advanceLocked keeps the window well formed and leaves a base that is not
\* retired; it only moves over retired sequences.
LEMMA AdvanceCore ==
  ASSUME NEW w, Core(w), NEW b \in w.base .. w.next, AdvancesTo(w, b)
  PROVE  /\ Core(Advance(w, b))
         /\ Advance(w, b).base = b
         /\ Advance(w, b).next = w.next
         /\ Advance(w, b).base \notin Advance(w, b).retired
         /\ Advance(w, b).retired \subseteq w.retired
         /\ Advance(w, b).entries = w.entries
<1> DEFINE r == Advance(w, b)
<1>1. /\ r.base = b /\ r.next = w.next /\ r.retired = w.retired \ (w.base .. (b - 1))
      /\ r.available = w.available /\ r.entries = w.entries
      /\ r = Window(r.base, r.next, r.entries, r.retired, r.available)
  BY DEF Advance, Window
<1> HIDE DEF r
<1>2. w.base \in Nat /\ w.next \in Nat /\ b \in Nat /\ w.base <= b /\ b <= w.next
  BY DEF Core, IsWindow
<1>3. IsWindow(r)
  BY <1>1, <1>2 DEF Core, IsWindow
<1>4. \A s \in DOMAIN w.entries : s \in Nat /\ s >= b
  BY <1>2 DEF Core, IsWindow, AdvancesTo
<1>5. HeapOK(r)
  BY <1>1, <1>2, <1>4 DEF HeapOK, Core, IsWindow
<1>6. /\ DOMAIN r.entries \cup r.retired = r.base .. (r.next - 1)
      /\ DOMAIN r.entries \cap r.retired = {}
  BY <1>1, <1>2, <1>4 DEF Core, IsWindow
<1>7. r.next - r.base <= MaxInFlight
  BY <1>1, <1>2, ConfigAssumption DEF Core
<1> QED BY <1>1, <1>2, <1>3, <1>5, <1>6, <1>7 DEF Core, r, AdvancesTo

\* acquire, phase 1, keeps the window well formed: what it pops and does not
\* lease is stale, and what it leaves on the heap is newer than what it leases.
LEMMA RedeliverCore ==
  ASSUME NEW w, Core(w), NEW max \in Nat, NEW c \in Consumer,
         NEW take, OldestOf(take, Redeliverable(w), max)
  PROVE  /\ Core(Redeliver(w, take, max, c))
         /\ Redeliver(w, take, max, c).base = w.base
         /\ Redeliver(w, take, max, c).next = w.next
         /\ Redeliver(w, take, max, c).retired = w.retired
         /\ DOMAIN Redeliver(w, take, max, c).entries = DOMAIN w.entries
         /\ Cardinality(take) \in Nat
<1> DEFINE r == Redeliver(w, take, max, c)
           S == Redeliverable(w)
<1>1. /\ r.base = w.base /\ r.next = w.next /\ r.retired = w.retired
      /\ r.available = IF Cardinality(take) = max
                       THEN {h \in w.available : \A s \in take : s < h} ELSE {}
      /\ r.entries = [s \in DOMAIN w.entries |->
            IF s \in take THEN [count |-> w.entries[s].count + 1, holder |-> c]
                          ELSE w.entries[s]]
      /\ r = Window(r.base, r.next, r.entries, r.retired, r.available)
  BY DEF Redeliver, Window
<1> HIDE DEF r
<1>2. S = {s \in DOMAIN w.entries : w.entries[s].holder = NoConsumer}
  <2>1. \A s \in DOMAIN w.entries : s >= w.base
    BY DEF Core, IsWindow
  <2> QED BY <2>1 DEF Redeliverable, Core, HeapOK
<1>3. IsFiniteSet(S)
  <2>1. S \subseteq w.base .. (w.next - 1)
    BY <1>2 DEF Core
  <2>2. IsFiniteSet(w.base .. (w.next - 1))
    <3>1. w.base \in Int /\ w.next - 1 \in Int
      BY DEF Core, IsWindow
    <3> QED BY <3>1, FS_Interval
  <2> QED BY <2>1, <2>2, FS_Subset, Zenon
<1>4. /\ take \subseteq S /\ take \subseteq DOMAIN w.entries
      /\ Cardinality(take) = Smaller(max, Cardinality(S))
      /\ \A a \in take, b \in S \ take : a < b
  BY <1>2 DEF OldestOf
<1>5. Cardinality(S) \in Nat
  BY <1>3, FS_CardinalityType
<1>6. Cardinality(take) # max => take = S
  <2>1. Cardinality(take) # max => Cardinality(take) = Cardinality(S)
    BY <1>4 DEF Smaller
  <2> QED BY <2>1, <1>3, <1>4, FS_Subset
<1>7. /\ DOMAIN r.entries = DOMAIN w.entries
      /\ \A s \in DOMAIN w.entries : r.entries[s] \in Entry
      /\ \A s \in take : r.entries[s].holder = c
      /\ \A s \in DOMAIN w.entries \ take : r.entries[s] = w.entries[s]
  <2>1. \A s \in DOMAIN w.entries : w.entries[s] \in Entry
    BY DEF Core, IsWindow
  <2> QED BY <1>1, <1>4, <2>1 DEF Entry
<1>8. IsWindow(r)
  <2>1. r.entries \in [DOMAIN r.entries -> Entry]
    BY <1>1, <1>7
  <2>2. r.available \subseteq Nat
    BY <1>1 DEF Core, IsWindow
  <2> QED BY <1>1, <1>7, <2>1, <2>2 DEF Core, IsWindow
<1>9. c # NoConsumer
  BY ConfigAssumption
<1>10. {s \in DOMAIN r.entries : r.entries[s].holder = NoConsumer} = S \ take
  BY <1>2, <1>4, <1>7, <1>9
<1>11. HeapOK(r)
  <2>1. S = {s \in w.available : s >= w.base}
    BY <1>2 DEF Core, HeapOK
  <2>2. CASE Cardinality(take) = max
    <3>1. \A h \in S : (\A s \in take : s < h) <=> h \notin take
      <4>1. \A h \in S : h \in Nat
        BY <2>1 DEF Core, IsWindow
      <4> QED BY <1>4, <4>1
    <3> QED BY <1>1, <1>10, <2>1, <2>2, <3>1 DEF HeapOK
  <2>3. CASE Cardinality(take) # max
    BY <1>1, <1>6, <1>10, <2>3 DEF HeapOK
  <2> QED BY <2>2, <2>3
<1>12. Cardinality(take) \in Nat
  BY <1>4, <1>5 DEF Smaller
<1> QED BY <1>1, <1>7, <1>8, <1>11, <1>12 DEF Core, r

\* skipToLocked past the whole window leaves an empty, well formed one.
LEMMA SkipToCore ==
  ASSUME NEW w, Core(w), NEW seq \in Nat, w.next < seq
  PROVE  /\ Core(SkipTo(w, seq))
         /\ SkipTo(w, seq).base = seq
         /\ SkipTo(w, seq).next = seq
         /\ SkipTo(w, seq).retired = {}
         /\ DOMAIN SkipTo(w, seq).entries = {}
<1> DEFINE r == SkipTo(w, seq)
<1>1. w.base \in Nat /\ w.next \in Nat /\ w.base <= w.next
  BY DEF Core, IsWindow
<1>2. /\ r.base = seq /\ r.next = seq
      /\ r.retired = {s \in w.retired : s >= seq} /\ r.available = w.available
      /\ r.entries = [s \in {t \in DOMAIN w.entries : t >= seq} |-> w.entries[s]]
      /\ r = Window(r.base, r.next, r.entries, r.retired, r.available)
  BY <1>1 DEF SkipTo, Window, Larger
<1> HIDE DEF r
<1>3. \A s \in DOMAIN w.entries \cup w.retired : s \in Nat /\ s < seq
  BY <1>1 DEF Core
<1>4. r.retired = {} /\ DOMAIN r.entries = {}
  BY <1>1, <1>2, <1>3
<1>5. IsWindow(r)
  <2>1. r.entries \in [DOMAIN r.entries -> Entry]
    BY <1>2, <1>4
  <2> QED BY <1>2, <1>4, <2>1 DEF Core, IsWindow
<1>6. HeapOK(r)
  <2>1. \A s \in w.available : s < seq
    <3> SUFFICES ASSUME NEW s \in w.available, s >= seq PROVE FALSE
      BY DEF Core, IsWindow
    <3>1. s >= w.base
      BY <1>1 DEF Core, IsWindow
    <3>2. s \in DOMAIN w.entries
      BY <3>1 DEF Core, HeapOK
    <3> QED BY <3>2, <1>3
  <2> QED BY <1>2, <1>4, <2>1 DEF HeapOK, Core, IsWindow
<1> QED BY <1>2, <1>4, <1>5, <1>6, ConfigAssumption DEF Core, r

\* acquire, phase 2, keeps the window well formed as long as it has room.
LEMMA FetchCore ==
  ASSUME NEW w, Core(w), NEW n \in Nat, n <= Room(w) \/ n = 0, NEW c \in Consumer
  PROVE  /\ Core(Fetch(w, n, c))
         /\ Fetch(w, n, c).base = w.base
         /\ Fetch(w, n, c).next = w.next + n
         /\ Fetch(w, n, c).retired = w.retired
         /\ DOMAIN Fetch(w, n, c).entries = DOMAIN w.entries \cup (w.next .. (w.next + n - 1))
<1> DEFINE r == Fetch(w, n, c)
<1>1. w.base \in Nat /\ w.next \in Nat /\ w.base <= w.next
  BY DEF Core, IsWindow
<1>2. /\ r.base = w.base /\ r.next = w.next + n
      /\ r.retired = w.retired /\ r.available = w.available
      /\ r.entries = [s \in DOMAIN w.entries \cup (w.next .. (w.next + n - 1)) |->
            IF s >= w.next THEN [count |-> 1, holder |-> c] ELSE w.entries[s]]
      /\ r = Window(r.base, r.next, r.entries, r.retired, r.available)
  BY DEF Fetch, Window
<1> HIDE DEF r
<1>3. \A s \in DOMAIN w.entries \cup w.retired : s \in Nat /\ w.base <= s /\ s < w.next
  BY <1>1 DEF Core
<1>4. c # NoConsumer
  BY ConfigAssumption
<1>5. /\ DOMAIN r.entries = DOMAIN w.entries \cup (w.next .. (w.next + n - 1))
      /\ \A s \in DOMAIN w.entries : r.entries[s] = w.entries[s]
      /\ \A s \in w.next .. (w.next + n - 1) : r.entries[s] = [count |-> 1, holder |-> c]
  BY <1>1, <1>2, <1>3
<1>6. IsWindow(r)
  <2>1. r.entries \in [DOMAIN r.entries -> Entry]
    BY <1>2, <1>5 DEF Core, IsWindow, Entry
  <2> QED BY <1>1, <1>2, <1>5, <2>1 DEF Core, IsWindow
<1>7. HeapOK(r)
  BY <1>2, <1>4, <1>5 DEF HeapOK, Core
<1>8. /\ DOMAIN r.entries \cup r.retired = r.base .. (r.next - 1)
      /\ DOMAIN r.entries \cap r.retired = {}
  BY <1>1, <1>2, <1>3, <1>5 DEF Core
<1>9. r.base <= r.next /\ r.next - r.base <= MaxInFlight
  BY <1>1, <1>2, ConfigAssumption DEF Core, Room
<1> QED BY <1>2, <1>5, <1>6, <1>7, <1>8, <1>9 DEF Core, r

\* openSharePartition starts with an empty, well formed window.
LEMMA OpenWindowCore ==
  ASSUME NEW f \in Nat, NEW p \in Nat
  PROVE  /\ Core(OpenWindow(f, p))
         /\ OpenWindow(f, p).base = Larger(f, p)
         /\ OpenWindow(f, p).next = Larger(f, p)
         /\ OpenWindow(f, p).retired = {}
         /\ DOMAIN OpenWindow(f, p).entries = {}
<1> DEFINE r == OpenWindow(f, p)
<1>1. /\ r.base = Larger(f, p) /\ r.next = Larger(f, p) /\ r.retired = {}
      /\ r.available = {}
      /\ r.entries = [s \in {} |-> [count |-> 0, holder |-> NoConsumer]]
      /\ r = Window(r.base, r.next, r.entries, r.retired, r.available)
  BY DEF OpenWindow, Window
<1> HIDE DEF r
<1>2. Larger(f, p) \in Nat
  BY DEF Larger
<1>3. IsWindow(r) /\ DOMAIN r.entries = {}
  BY <1>1, <1>2 DEF IsWindow
<1> QED BY <1>1, <1>2, <1>3, ConfigAssumption DEF Core, HeapOK, r

-----------------------------------------------------------------------------
(* The inductive invariant.                                                 *)

\* The window between two operations.
WindowInv == Core(win) /\ win.base \notin win.retired

\* The positions of cursor, window and log, in the order the code keeps them:
\* a position is committed only once the window is past it, and a record is read,
\* and hence flushed, before it enters the window.
Ordered ==
  /\ durable <= cursor /\ cursor <= win.base
  /\ win.next <= flushed /\ flushed <= end
  /\ first <= flushed

\* What is retired, or behind the base and still in the log, is done; and what
\* was settled since the start of the process is behind next and not tracked.
Accounted ==
  /\ win.retired \subseteq done
  /\ \A s \in first .. (end - 1) : s < win.base => s \in done
  /\ \A s \in settled : s < win.next /\ s \notin DOMAIN win.entries

IInv == TypeOK /\ WindowInv /\ Ordered /\ Accounted

\* The second phase of acquire: the window it leaves, relative to the one it found.
\* The last disjunct is the skip past a retention gap.
LEMMA FillStep ==
  ASSUME NEW w, Core(w), w.base \notin w.retired,
         NEW want \in Int, NEW skips \in BOOLEAN, NEW cur \in Nat, NEW c \in Consumer,
         NEW readable \in BOOLEAN, Fill(w, want, skips, cur, c, readable),
         first \in Nat, end \in Nat, flushed \in Nat
  PROVE  /\ WindowInv' /\ win'.retired \subseteq w.retired /\ flushed' \in Nat
         /\ \/ win'.next = w.next /\ flushed' = flushed
            \/ /\ win'.next <= Larger(first, Larger(w.next, end))
               /\ flushed' \in {Larger(flushed, win'.next), end}
         /\ \/ /\ win'.base = w.base /\ win'.next >= w.next
               /\ \A s \in DOMAIN win'.entries : s \in DOMAIN w.entries \/ s >= w.next
               /\ cursor' = cur
            \/ /\ win'.base = first /\ w.next < first /\ win'.next >= first
               /\ \A s \in DOMAIN win'.entries : s >= first
               /\ cursor' = Committed(cur, w.base, first)
<1> DEFINE reads   == want > 0 /\ Room(w) > 0
           behind  == reads /\ w.next < first
           skipped == IF skips THEN SkipTo(w, first) ELSE w
           most    == IF reads /\ (behind => skips) THEN FreshCount(skipped, want, end) ELSE 0
<1>1. /\ skips => behind
      /\ \E fresh \in (IF readable THEN most ELSE 0) .. most : win' = Fetch(skipped, fresh, c)
      /\ flushed' \in IF reads THEN {Larger(flushed, win'.next), end} ELSE {flushed}
      /\ cursor' = Committed(cur, w.base, skipped.base)
  BY DEF Fill
<1>2. w.base \in Nat /\ w.next \in Nat /\ w.base <= w.next
  BY CoreFacts
<1>3. skips => w.next < first
  BY <1>1
<1>4. skips => reads
  BY <1>1
<1>5. PICK fresh \in (IF readable THEN most ELSE 0) .. most : win' = Fetch(skipped, fresh, c)
  BY <1>1
<1>6. flushed' \in IF reads THEN {Larger(flushed, win'.next), end} ELSE {flushed}
  BY <1>1
<1>7. cursor' = Committed(cur, w.base, skipped.base)
  BY <1>1
<1>8. ~skips => skipped = w
  OBVIOUS
<1>9. skips => /\ Core(skipped) /\ skipped.base = first /\ skipped.next = first
               /\ skipped.retired = {} /\ DOMAIN skipped.entries = {}
  BY <1>3, SkipToCore
<1> HIDE DEF skipped
<1>10. Core(skipped) /\ skipped.base \notin skipped.retired
  BY <1>8, <1>9
<1>11. skipped.base \in Nat /\ skipped.next \in Nat /\ Room(skipped) \in Int
  <2>1. skipped.base \in Nat /\ skipped.next \in Nat
    BY <1>10, CoreFacts
  <2> QED BY <2>1, ConfigAssumption DEF Room
<1>12. most \in Nat /\ (most > 0 => reads /\ most <= Room(skipped) /\ most <= end - skipped.next)
  <2>1. CASE reads /\ (behind => skips)
    BY <2>1, <1>11 DEF FreshCount, Smaller
  <2>2. CASE ~(reads /\ (behind => skips))
    BY <2>2
  <2> QED BY <2>1, <2>2
<1> HIDE DEF most, reads, behind
<1>13. fresh \in Nat /\ fresh <= most
  BY <1>5, <1>12
<1>14. /\ fresh <= Room(skipped) \/ fresh = 0
       /\ fresh > 0 => reads /\ fresh <= end - skipped.next
  BY <1>11, <1>12, <1>13
<1>15. /\ Core(win') /\ win'.base = skipped.base /\ win'.next = skipped.next + fresh
       /\ win'.retired = skipped.retired
       /\ DOMAIN win'.entries = DOMAIN skipped.entries \cup (skipped.next .. (skipped.next + fresh - 1))
  BY <1>5, <1>10, <1>13, <1>14, FetchCore
<1>16. WindowInv' /\ win'.retired \subseteq w.retired
  BY <1>8, <1>9, <1>10, <1>15 DEF WindowInv
<1>17. win'.next \in Nat
  BY <1>11, <1>13, <1>15
<1>18. flushed' \in Nat
  BY <1>6, <1>17 DEF Larger
<1>19. \/ win'.next = w.next /\ flushed' = flushed
       \/ /\ win'.next <= Larger(first, Larger(w.next, end))
          /\ flushed' \in {Larger(flushed, win'.next), end}
  <2>1. CASE reads
    <3>1. flushed' \in {Larger(flushed, win'.next), end}
      BY <2>1, <1>6
    <3>2. skipped.next <= Larger(first, Larger(w.next, end))
      BY <1>2, <1>8, <1>9 DEF Larger
    <3>3. fresh > 0 => win'.next <= end
      BY <1>11, <1>13, <1>14, <1>15
    <3>4. fresh = 0 => win'.next = skipped.next
      BY <1>11, <1>15
    <3>5. end <= Larger(first, Larger(w.next, end)) /\ Larger(first, Larger(w.next, end)) \in Nat
      BY <1>2 DEF Larger
    <3> QED BY <3>1, <3>2, <3>3, <3>4, <3>5, <1>13, <1>17
  <2>2. CASE ~reads
    <3>1. fresh = 0 /\ ~skips /\ flushed' = flushed
      BY <2>2, <1>4, <1>6, <1>13, <1>14
    <3> QED BY <3>1, <1>2, <1>8, <1>15
  <2> QED BY <2>1, <2>2
<1>20. \/ /\ win'.base = w.base /\ win'.next >= w.next
          /\ \A s \in DOMAIN win'.entries : s \in DOMAIN w.entries \/ s >= w.next
          /\ cursor' = cur
       \/ /\ win'.base = first /\ w.next < first /\ win'.next >= first
          /\ \A s \in DOMAIN win'.entries : s >= first
          /\ cursor' = Committed(cur, w.base, first)
  <2>1. CASE ~skips
    <3>1. Committed(cur, w.base, w.base) = cur
      BY <1>2 DEF Committed
    <3> QED BY <2>1, <3>1, <1>2, <1>7, <1>8, <1>13, <1>15
  <2>2. CASE skips
    <3>1. \A s \in DOMAIN win'.entries : s >= first
      BY <2>2, <1>9, <1>13, <1>15
    <3> QED BY <2>2, <3>1, <1>3, <1>7, <1>9, <1>13, <1>15
  <2> QED BY <2>1, <2>2
<1> QED BY <1>16, <1>18, <1>19, <1>20

\* acquire: the window it leaves, relative to the one it found.  b is where the
\* reap leaves the base; the second disjunct is the skip past a retention gap.
AcquireLeaves(D) ==
  /\ WindowInv'
  /\ D \subseteq DOMAIN win.entries
  /\ flushed' \in Nat
  /\ win'.retired \subseteq win.retired \cup D
  /\ \E b \in win.base .. win.next :
       /\ \A s \in win.base .. (b - 1) : s \in win.retired \cup D
       /\ \/ /\ win'.base = b
             /\ win'.next >= win.next
             /\ \A s \in DOMAIN win'.entries : s \in DOMAIN win.entries \ D \/ s >= win.next
             /\ cursor' = Committed(cursor, win.base, b)
          \/ /\ win'.base = first /\ win.next < first
             /\ win'.next >= first
             /\ \A s \in DOMAIN win'.entries : s >= first
             /\ cursor' = Committed(Committed(cursor, win.base, b), b, first)
  /\ \/ win'.next = win.next /\ flushed' = flushed
     \/ /\ win'.next <= Larger(first, Larger(win.next, end))
        /\ flushed' \in {Larger(flushed, win'.next), end}

\* acquire leaves the window so.
LEMMA AcquireStep ==
  ASSUME TypeOK, WindowInv,
         NEW c \in Consumer, NEW max \in 1 .. MaxFetch, NEW readable \in BOOLEAN,
         NEW expired, NEW failed, Acquire(c, max, expired, failed, readable),
         NEW D, D = DeadLettered(win, expired, failed)
  PROVE  AcquireLeaves(D)
<1>1. PICK b \in win.base .. win.next :
        /\ Reaps(expired, failed, b)
        /\ \E take \in SUBSET DOMAIN Advance(Reap(win, expired, failed), b).entries,
              skips \in BOOLEAN :
             /\ OldestOf(take, Redeliverable(Advance(Reap(win, expired, failed), b)), max)
             /\ Fill(Redeliver(Advance(Reap(win, expired, failed), b), take, max, c),
                     max - Cardinality(take), skips, Committed(cursor, win.base, b), c, readable)
  BY DEF Acquire
<1>2. Core(win)
  BY DEF WindowInv
<1>3. win.base \in Nat /\ win.next \in Nat
  BY <1>2, CoreFacts
<1>4. first \in Nat /\ end \in Nat /\ flushed \in Nat /\ cursor \in Nat
  BY DEF TypeOK
<1>5. max \in Nat
  BY ConfigAssumption
<1>6. b \in Nat /\ win.base <= b /\ b <= win.next
  BY <1>3
<1>7. D \subseteq DOMAIN win.entries /\ expired \subseteq Leased(win)
  BY <1>1 DEF Reaps, DeadLettered, Exhausted
<1> DEFINE reap == Reap(win, expired, failed)
<1>8. /\ Core(reap) /\ reap.base = win.base /\ reap.next = win.next
      /\ reap.retired = win.retired \cup D
      /\ DOMAIN reap.entries = DOMAIN win.entries \ D
  BY <1>2, <1>7, ReapCore
<1>9. AdvancesTo(reap, b)
  BY <1>1 DEF Reaps
<1> DEFINE reaped == Advance(reap, b)
<1>10. PICK take \in SUBSET DOMAIN reaped.entries, skips \in BOOLEAN :
         /\ OldestOf(take, Redeliverable(reaped), max)
         /\ Fill(Redeliver(reaped, take, max, c), max - Cardinality(take), skips,
                 Committed(cursor, win.base, b), c, readable)
  BY <1>1
<1> HIDE DEF reap
<1>11. /\ Core(reaped) /\ reaped.base = b /\ reaped.next = win.next
       /\ b \notin reaped.retired /\ reaped.retired \subseteq win.retired \cup D
       /\ DOMAIN reaped.entries = DOMAIN win.entries \ D
  <2>1. b \in reap.base .. reap.next
    BY <1>8
  <2> QED BY <2>1, <1>8, <1>9, AdvanceCore
<1>12. \A s \in win.base .. (b - 1) : s \in win.retired \cup D
  BY <1>8, <1>9 DEF AdvancesTo
<1> HIDE DEF reaped
<1> DEFINE redel == Redeliver(reaped, take, max, c)
           want  == max - Cardinality(take)
<1>13. /\ Core(redel) /\ redel.base = reaped.base /\ redel.next = reaped.next
       /\ redel.retired = reaped.retired /\ DOMAIN redel.entries = DOMAIN reaped.entries
       /\ Cardinality(take) \in Nat
  BY <1>5, <1>10, <1>11, RedeliverCore
<1>14. want \in Int
  BY <1>5, <1>13
<1>15. Committed(cursor, win.base, b) \in Nat
  BY <1>3, <1>4, <1>6 DEF Committed, Larger
<1>16. Fill(redel, want, skips, Committed(cursor, win.base, b), c, readable)
  BY <1>10
<1> HIDE DEF redel, want
<1>17. /\ redel.base = b /\ redel.next = win.next /\ redel.base \notin redel.retired
       /\ redel.retired \subseteq win.retired \cup D
       /\ DOMAIN redel.entries = DOMAIN win.entries \ D
  BY <1>11, <1>13
<1>18. /\ WindowInv' /\ win'.retired \subseteq redel.retired /\ flushed' \in Nat
       /\ \/ win'.next = redel.next /\ flushed' = flushed
          \/ /\ win'.next <= Larger(first, Larger(redel.next, end))
             /\ flushed' \in {Larger(flushed, win'.next), end}
       /\ \/ /\ win'.base = redel.base /\ win'.next >= redel.next
             /\ \A s \in DOMAIN win'.entries : s \in DOMAIN redel.entries \/ s >= redel.next
             /\ cursor' = Committed(cursor, win.base, b)
          \/ /\ win'.base = first /\ redel.next < first /\ win'.next >= first
             /\ \A s \in DOMAIN win'.entries : s >= first
             /\ cursor' = Committed(Committed(cursor, win.base, b), redel.base, first)
  BY <1>4, <1>13, <1>14, <1>15, <1>16, <1>17, FillStep
<1> QED BY <1>7, <1>12, <1>17, <1>18 DEF AcquireLeaves

\* The sweeper's reap, like the one of acquire.
LEMMA SweepStep ==
  ASSUME TypeOK, WindowInv, NEW expired, NEW failed, Sweep(expired, failed),
         NEW D, D = DeadLettered(win, expired, failed)
  PROVE  /\ WindowInv'
         /\ D \subseteq DOMAIN win.entries
         /\ win'.retired \subseteq win.retired \cup D
         /\ win'.base \in win.base .. win.next
         /\ \A s \in win.base .. (win'.base - 1) : s \in win.retired \cup D
         /\ win'.next = win.next
         /\ DOMAIN win'.entries = DOMAIN win.entries \ D
         /\ cursor' = Committed(cursor, win.base, win'.base)
<1>1. PICK b \in win.base .. win.next :
        /\ Reaps(expired, failed, b)
        /\ win' = Advance(Reap(win, expired, failed), b)
        /\ cursor' = Committed(cursor, win.base, b)
  BY DEF Sweep
<1> DEFINE reap == Reap(win, expired, failed)
<1>2. D \subseteq DOMAIN win.entries /\ expired \subseteq Leased(win)
  BY <1>1 DEF Reaps, DeadLettered, Exhausted
<1>3. /\ Core(reap) /\ reap.base = win.base /\ reap.next = win.next
      /\ reap.retired = win.retired \cup D
      /\ DOMAIN reap.entries = DOMAIN win.entries \ D
  BY <1>2, ReapCore DEF WindowInv
<1>4. AdvancesTo(reap, b) /\ win' = Advance(reap, b)
  BY <1>1 DEF Reaps
<1> HIDE DEF reap
<1>5. /\ Core(win') /\ win'.base = b /\ win'.next = win.next
      /\ win'.base \notin win'.retired /\ win'.retired \subseteq reap.retired
      /\ win'.entries = reap.entries
  BY <1>3, <1>4, AdvanceCore
<1>6. \A s \in win.base .. (b - 1) : s \in win.retired \cup D
  BY <1>3, <1>4 DEF AdvancesTo
<1> QED BY <1>1, <1>2, <1>3, <1>5, <1>6 DEF WindowInv

\* An acknowledgement or a dead letter retires one leased record and advances.
LEMMA SettleStep ==
  ASSUME TypeOK, WindowInv, NEW seq \in Leased(win), Settle(seq)
  PROVE  /\ WindowInv'
         /\ win'.retired \subseteq win.retired \cup {seq}
         /\ win'.base \in win.base .. win.next
         /\ \A s \in win.base .. (win'.base - 1) : s \in win.retired \cup {seq}
         /\ win'.next = win.next
         /\ DOMAIN win'.entries = DOMAIN win.entries \ {seq}
         /\ cursor' = Committed(cursor, win.base, win'.base)
<1> DEFINE ret == Retire(win, {seq})
<1>1. PICK b \in win.base .. win.next :
        /\ AdvancesTo(ret, b)
        /\ win' = Advance(ret, b)
        /\ cursor' = Committed(cursor, win.base, b)
  BY DEF Settle
<1>2. /\ Core(ret) /\ ret.base = win.base /\ ret.next = win.next
      /\ ret.retired = win.retired \cup {seq}
      /\ DOMAIN ret.entries = DOMAIN win.entries \ {seq}
  BY RetireCore DEF WindowInv
<1> HIDE DEF ret
<1>3. /\ Core(win') /\ win'.base = b /\ win'.next = win.next
      /\ win'.base \notin win'.retired /\ win'.retired \subseteq ret.retired
      /\ win'.entries = ret.entries
  BY <1>1, <1>2, AdvanceCore
<1>4. \A s \in win.base .. (b - 1) : s \in win.retired \cup {seq}
  BY <1>1, <1>2 DEF AdvancesTo
<1> QED BY <1>1, <1>2, <1>3, <1>4 DEF WindowInv

\* A release changes neither the positions nor which sequences are tracked.
LEMMA RequeueStep ==
  ASSUME TypeOK, WindowInv, NEW S, S \subseteq DOMAIN win.entries, Requeue(S)
  PROVE  /\ WindowInv'
         /\ win'.base = win.base /\ win'.next = win.next
         /\ win'.retired = win.retired
         /\ DOMAIN win'.entries = DOMAIN win.entries
BY ReleaseCore DEF Requeue, WindowInv

\* A committed position is a natural number, between the old one and the new base.
LEMMA CommittedNat ==
  ASSUME NEW p \in Nat, NEW from \in Nat, NEW to \in Nat
  PROVE  /\ Committed(p, from, to) \in Nat
         /\ p <= Committed(p, from, to)
         /\ p <= from /\ from <= to => Committed(p, from, to) <= to
BY DEF Committed, Larger

-----------------------------------------------------------------------------
(* The window invariants survive every step, the loss of power included.    *)

(* A freshly opened partition (openSharePartition, share.go:165-191)        *)
(* satisfies the inductive invariant.                                       *)
LEMMA InitInv == Init => IInv
<1> SUFFICES ASSUME Init PROVE IInv
  OBVIOUS
<1>1. /\ Core(win) /\ win.base = 1 /\ win.next = 1 /\ win.retired = {}
      /\ DOMAIN win.entries = {}
  BY OpenWindowCore DEF Init, Larger
<1>2. TypeOK
  BY <1>1, Zenon DEF TypeOK, Init, Core
<1>3. WindowInv
  BY <1>1 DEF WindowInv
<1>4. Ordered
  BY <1>1 DEF Ordered, Init
<1>5. Accounted
  BY <1>1 DEF Accounted, Init
<1> QED BY <1>2, <1>3, <1>4, <1>5 DEF IInv

(* Every locked operation of share.go, every restart and the loss of power  *)
(* keep the four window invariants.                                         *)
LEMMA WindowStep ==
  TypeOK /\ WindowInv /\ [Next \/ PowerLoss]_vars => TypeOK' /\ WindowInv'
<1> SUFFICES ASSUME TypeOK, WindowInv, [Next \/ PowerLoss]_vars
             PROVE  TypeOK' /\ WindowInv'
  OBVIOUS
<1>0. /\ win.base \in Nat /\ win.next \in Nat /\ win.base <= win.next
      /\ DOMAIN win.entries \subseteq Nat
  BY DEF WindowInv, Core, IsWindow
<1>w. WindowInv' => IsWindow(win')
  BY DEF WindowInv, Core
<1>1. ASSUME NEW c \in Consumer, NEW max \in 1 .. MaxFetch, NEW readable \in BOOLEAN,
             NEW expired \in SUBSET DOMAIN win.entries, NEW failed \in SUBSET expired,
             Acquire(c, max, expired, failed, readable)
      PROVE  TypeOK' /\ WindowInv'
  <2>a. PICK D : D = DeadLettered(win, expired, failed)
    OBVIOUS
  <2>b. AcquireLeaves(D)
    BY <1>1, <2>a, AcquireStep
  <2>1. D \subseteq Nat /\ WindowInv' /\ flushed' \in Nat /\ first \in Nat
    BY <1>0, <2>b DEF AcquireLeaves, TypeOK
  <2>2. PICK b \in win.base .. win.next :
          \/ cursor' = Committed(cursor, win.base, b)
          \/ cursor' = Committed(Committed(cursor, win.base, b), b, first)
    BY <2>b DEF AcquireLeaves
  <2>3. cursor' \in Nat
    <3>1. b \in Nat /\ cursor \in Nat
      BY <1>0 DEF TypeOK
    <3>2. Committed(cursor, win.base, b) \in Nat
      BY <1>0, <3>1, CommittedNat, Zenon
    <3> QED BY <2>1, <2>2, <3>1, <3>2, CommittedNat, Zenon
  <2> QED BY <1>1, <1>w, <2>a, <2>1, <2>3, Zenon DEF TypeOK, Acquire
<1>2. ASSUME NEW expired \in SUBSET DOMAIN win.entries, NEW failed \in SUBSET expired,
             Sweep(expired, failed)
      PROVE  TypeOK' /\ WindowInv'
  <2> DEFINE D == DeadLettered(win, expired, failed)
  <2>1. /\ D \subseteq Nat /\ WindowInv' /\ win'.base \in Nat
        /\ cursor' = Committed(cursor, win.base, win'.base)
    BY <1>0, <1>2, SweepStep
  <2>2. cursor' \in Nat
    BY <1>0, <2>1, CommittedNat, Zenon DEF TypeOK
  <2> QED BY <1>2, <1>w, <2>1, <2>2, Zenon DEF TypeOK, Sweep, logVars
<1>3. ASSUME NEW seq \in Leased(win), Settle(seq)
      PROVE  TypeOK' /\ WindowInv'
  <2>1. /\ WindowInv' /\ win'.base \in Nat /\ seq \in Nat
        /\ cursor' = Committed(cursor, win.base, win'.base)
    BY <1>0, <1>3, SettleStep DEF Leased
  <2>2. cursor' \in Nat
    BY <1>0, <2>1, CommittedNat, Zenon DEF TypeOK
  <2> QED BY <1>3, <1>w, <2>1, <2>2 DEF TypeOK, Settle, logVars
<1>4. ASSUME NEW S, S \subseteq DOMAIN win.entries, Requeue(S)
      PROVE  TypeOK' /\ WindowInv'
  BY <1>4, <1>w, RequeueStep DEF TypeOK, Requeue, logVars
<1>5. ASSUME NEW c \in Consumer, NEW seq \in DOMAIN win.entries, Ack(c, seq)
      PROVE  TypeOK' /\ WindowInv'
  BY <1>3, <1>5, ConfigAssumption DEF Ack, HeldBy, Leased
<1>6. ASSUME NEW c \in Consumer, NEW seq \in DOMAIN win.entries,
             NEW requeue \in BOOLEAN, NEW ok \in BOOLEAN, Nack(c, seq, requeue, ok)
      PROVE  TypeOK' /\ WindowInv'
  <2>1. seq \in Leased(win) /\ {seq} \subseteq DOMAIN win.entries
    BY <1>6, ConfigAssumption DEF Nack, HeldBy, Leased
  <2>2. Settle(seq) \/ Requeue({seq})
    BY <1>6 DEF Nack
  <2> QED BY <1>3, <1>4, <2>1, <2>2
<1>7. ASSUME NEW c \in Consumer, ReleaseConsumer(c)
      PROVE  TypeOK' /\ WindowInv'
  BY <1>4, <1>7 DEF ReleaseConsumer, HeldBy
<1>8. CASE ReleaseAll
  BY <1>4, <1>8 DEF ReleaseAll, Leased
<1>9. CASE Publish
  BY <1>9 DEF Publish, TypeOK, WindowInv
<1>10. CASE EnforceRetention
  BY <1>10 DEF EnforceRetention, TypeOK, WindowInv, Larger
<1>11. CASE FlushCursors
  BY <1>11 DEF FlushCursors, TypeOK, WindowInv, logVars
<1>12. CASE Close
  BY <1>12 DEF Close, TypeOK, WindowInv, logVars
<1>13. CASE Reopen
  <2>1. WindowInv'
    BY <1>13, OpenWindowCore DEF Reopen, TypeOK, WindowInv
  <2>2. IsWindow(win')
    BY <1>w, <2>1
  <2>3. closed' \in BOOLEAN
    BY <1>13, Zenon DEF Reopen
  <2> QED BY <1>13, <2>1, <2>2, <2>3 DEF Reopen, TypeOK, logVars
<1>14. ASSUME NEW e \in Nat, NEW p \in Nat, RestartAt(e, p)
       PROVE  TypeOK' /\ WindowInv'
  <2>1. WindowInv'
    BY <1>14, OpenWindowCore DEF RestartAt, TypeOK, WindowInv
  <2>2. IsWindow(win')
    BY <1>w, <2>1
  <2>3. closed' \in BOOLEAN
    BY <1>14, Zenon DEF RestartAt
  <2>4. /\ first' \in Nat /\ end' \in Nat /\ flushed' \in Nat
        /\ cursor' \in Nat /\ durable' \in Nat /\ restarts' \in Nat
    BY <1>14 DEF RestartAt, TypeOK
  <2>5. done' \subseteq Nat /\ settled' \subseteq Nat
    BY <1>14, Zenon DEF RestartAt, TypeOK
  <2> QED BY <2>1, <2>2, <2>3, <2>4, <2>5 DEF TypeOK
<1>15. CASE Crash
  <2>1. PICK e \in flushed .. end : RestartAt(e, durable)
    BY <1>15 DEF Crash
  <2> QED BY <1>14, <2>1 DEF TypeOK
<1>16. CASE PowerLoss
  <2>1. PICK e \in first .. end, p \in 0 .. durable : RestartAt(e, p)
    BY <1>16 DEF PowerLoss
  <2> QED BY <1>14, <2>1 DEF TypeOK
<1>17. CASE UNCHANGED vars
  BY <1>17 DEF vars, TypeOK, WindowInv
<1> QED BY <1>1, <1>2, <1>5, <1>6, <1>7, <1>8, <1>9, <1>10, <1>11, <1>12, <1>13,
           <1>15, <1>16, <1>17 DEF Next

-----------------------------------------------------------------------------
(* Without a loss of power, the positions stay ordered and every record is   *)
(* accounted for.                                                           *)

\* A step that retires R, moves the base over retired records only and keeps the
\* log: the sweep, the acknowledgement and the dead letter.
LEMMA RetiringStep ==
  ASSUME IInv, NEW R, R \subseteq DOMAIN win.entries,
         WindowInv', win'.retired \subseteq win.retired \cup R,
         win'.base \in win.base .. win.next,
         \A s \in win.base .. (win'.base - 1) : s \in win.retired \cup R,
         win'.next = win.next,
         DOMAIN win'.entries = DOMAIN win.entries \ R,
         cursor' = Committed(cursor, win.base, win'.base),
         done' = done \cup R, settled' = settled \cup R,
         UNCHANGED <<first, end, flushed, durable>>
  PROVE  Ordered' /\ Accounted'
<1>1. /\ win.base \in Nat /\ win.next \in Nat /\ win.base <= win.next
      /\ win'.base \in Nat /\ win.base <= win'.base
      /\ cursor \in Nat /\ durable \in Nat /\ first \in Nat /\ end \in Nat
  <2>1. Core(win)
    BY DEF IInv, WindowInv
  <2>2. win.base \in Nat /\ win.next \in Nat /\ win.base <= win.next
    BY <2>1, CoreFacts
  <2>3. cursor \in Nat /\ durable \in Nat /\ first \in Nat /\ end \in Nat
    BY DEF IInv, TypeOK
  <2> QED BY <2>2, <2>3
<1>2. cursor' \in Nat /\ cursor <= cursor' /\ cursor' <= win'.base
  BY <1>1, CommittedNat, Zenon DEF IInv, Ordered
<1>3. Ordered'
  BY <1>1, <1>2 DEF IInv, Ordered
<1>4. \A s \in R : s \in Nat /\ s < win.next
  BY <1>1 DEF IInv, WindowInv, Core
<1>5. \A s \in first .. (end - 1) : s < win'.base => s \in done'
  BY <1>1 DEF IInv, Accounted
<1>6. \A s \in settled' : s < win'.next /\ s \notin DOMAIN win'.entries
  BY <1>4 DEF IInv, Accounted
<1> QED BY <1>3, <1>5, <1>6 DEF IInv, Accounted

\* acquire keeps the positions ordered and every record accounted for.
LEMMA AcquireAccounted ==
  ASSUME IInv, NEW c \in Consumer, NEW max \in 1 .. MaxFetch, NEW readable \in BOOLEAN,
         NEW expired, NEW failed, Acquire(c, max, expired, failed, readable)
  PROVE  Ordered' /\ Accounted'
<1>a. PICK D : D = DeadLettered(win, expired, failed)
  OBVIOUS
<1>t. TypeOK /\ WindowInv
  BY DEF IInv
<1>b. AcquireLeaves(D)
  BY <1>a, <1>t, AcquireStep
<1>1. /\ WindowInv' /\ D \subseteq DOMAIN win.entries
      /\ flushed' \in Nat /\ win'.retired \subseteq win.retired \cup D
      /\ \/ win'.next = win.next /\ flushed' = flushed
         \/ /\ win'.next <= Larger(first, Larger(win.next, end))
            /\ flushed' \in {Larger(flushed, win'.next), end}
  BY <1>b DEF AcquireLeaves
<1>2. PICK b \in win.base .. win.next :
        /\ \A s \in win.base .. (b - 1) : s \in win.retired \cup D
        /\ \/ /\ win'.base = b
              /\ win'.next >= win.next
              /\ \A s \in DOMAIN win'.entries : s \in DOMAIN win.entries \ D \/ s >= win.next
              /\ cursor' = Committed(cursor, win.base, b)
           \/ /\ win'.base = first /\ win.next < first
              /\ win'.next >= first
              /\ \A s \in DOMAIN win'.entries : s >= first
              /\ cursor' = Committed(Committed(cursor, win.base, b), b, first)
  BY <1>b DEF AcquireLeaves
<1>3. /\ done' = done \cup D /\ settled' = settled \cup D
      /\ first' = first /\ end' = end /\ durable' = durable
  BY <1>a DEF Acquire
<1>4. /\ win.base \in Nat /\ win.next \in Nat /\ win.base <= win.next
      /\ b \in Nat /\ win.base <= b /\ b <= win.next
      /\ cursor \in Nat /\ durable \in Nat /\ first \in Nat /\ end \in Nat /\ flushed \in Nat
      /\ \A s \in DOMAIN win.entries : s \in Nat /\ s < win.next
  <2>1. Core(win)
    BY DEF IInv, WindowInv
  <2>2. /\ win.base \in Nat /\ win.next \in Nat /\ win.base <= win.next
        /\ \A s \in DOMAIN win.entries : s \in Nat /\ s < win.next
    BY <2>1, CoreFacts
  <2>3. cursor \in Nat /\ durable \in Nat /\ first \in Nat /\ end \in Nat /\ flushed \in Nat
    BY DEF IInv, TypeOK
  <2> QED BY <2>2, <2>3
<1>5. /\ win'.base \in Nat /\ win'.next \in Nat /\ win'.base <= win'.next
      /\ \A s \in DOMAIN win'.entries : s \in Nat
  <2>1. Core(win')
    BY <1>1 DEF WindowInv
  <2> QED BY <2>1, CoreFacts
<1>6. cursor' \in Nat /\ cursor <= cursor' /\ cursor' <= win'.base
  <2>1. /\ Committed(cursor, win.base, b) \in Nat
        /\ cursor <= Committed(cursor, win.base, b)
        /\ Committed(cursor, win.base, b) <= b
    BY <1>4, CommittedNat, Zenon DEF IInv, Ordered
  <2>2. CASE win'.base = b /\ cursor' = Committed(cursor, win.base, b)
    BY <2>1, <2>2
  <2>3. CASE /\ win'.base = first /\ win.next < first
             /\ cursor' = Committed(Committed(cursor, win.base, b), b, first)
    <3> DEFINE p == Committed(cursor, win.base, b)
    <3>1. p \in Nat /\ cursor <= p /\ p <= b /\ b <= first
      BY <1>4, <2>1, <2>3
    <3> HIDE DEF p
    <3>2. /\ Committed(p, b, first) \in Nat /\ p <= Committed(p, b, first)
          /\ Committed(p, b, first) <= first
      BY <1>4, <3>1, CommittedNat, Zenon
    <3>3. cursor' = Committed(p, b, first) /\ win'.base = first
      BY <2>3 DEF p
    <3> QED BY <1>4, <3>1, <3>2, <3>3
  <2> QED BY <1>2, <2>2, <2>3
<1>7. /\ first <= end /\ win.next <= end
      /\ durable <= cursor /\ win.next <= flushed /\ flushed <= end /\ first <= flushed
  BY <1>4 DEF IInv, Ordered
<1>8. win'.next <= flushed' /\ flushed' <= end /\ first <= flushed'
  BY <1>1, <1>4, <1>5, <1>7 DEF Larger
<1>9. Ordered'
  BY <1>3, <1>4, <1>6, <1>7, <1>8 DEF Ordered
<1>10. \A s \in first .. (end - 1) : s < win'.base => s \in done'
  BY <1>2, <1>3, <1>4 DEF IInv, Accounted
<1>11. \A s \in settled' : s < win'.next /\ s \notin DOMAIN win'.entries
  <2> SUFFICES ASSUME NEW s \in settled'
               PROVE  s < win'.next /\ s \notin DOMAIN win'.entries
    OBVIOUS
  <2>1. s \in Nat /\ s < win.next /\ s \notin DOMAIN win.entries \ D
    BY <1>1, <1>3, <1>4 DEF IInv, Accounted, TypeOK
  <2> QED BY <1>2, <1>4, <1>5, <2>1
<1> QED BY <1>1, <1>3, <1>9, <1>10, <1>11 DEF IInv, Accounted

(* Every step short of the loss of power keeps the whole invariant,         *)
(* accounting included.                                                     *)
LEMMA StepInv == IInv /\ [Next]_vars => IInv'
<1> SUFFICES ASSUME IInv, [Next]_vars PROVE IInv'
  OBVIOUS
<1>0. TypeOK' /\ WindowInv'
  BY WindowStep DEF IInv
<1> SUFFICES Ordered' /\ Accounted'
  BY <1>0 DEF IInv
<1>t. /\ TypeOK /\ WindowInv /\ Ordered /\ Accounted
      /\ win.base \in Nat /\ win.next \in Nat /\ win.base <= win.next
  BY DEF IInv, WindowInv, Core, IsWindow
<1>1. ASSUME NEW c \in Consumer, NEW max \in 1 .. MaxFetch, NEW readable \in BOOLEAN,
             NEW expired \in SUBSET DOMAIN win.entries, NEW failed \in SUBSET expired,
             Acquire(c, max, expired, failed, readable)
      PROVE  Ordered' /\ Accounted'
  BY <1>1, AcquireAccounted
<1>2. ASSUME NEW expired \in SUBSET DOMAIN win.entries, NEW failed \in SUBSET expired,
             Sweep(expired, failed)
      PROVE  Ordered' /\ Accounted'
  <2>a. PICK D : D = DeadLettered(win, expired, failed)
    OBVIOUS
  <2>1. /\ D \subseteq DOMAIN win.entries
        /\ WindowInv' /\ win'.retired \subseteq win.retired \cup D
        /\ win'.base \in win.base .. win.next
        /\ \A s \in win.base .. (win'.base - 1) : s \in win.retired \cup D
        /\ win'.next = win.next
        /\ DOMAIN win'.entries = DOMAIN win.entries \ D
        /\ cursor' = Committed(cursor, win.base, win'.base)
    BY <1>2, <1>t, <2>a, SweepStep
  <2>2. /\ done' = done \cup D /\ settled' = settled \cup D
        /\ UNCHANGED <<first, end, flushed, durable>>
    BY <1>2, <2>a DEF Sweep, logVars
  <2> QED BY <2>1, <2>2, RetiringStep
<1>3. ASSUME NEW seq \in Leased(win), Settle(seq)
      PROVE  Ordered' /\ Accounted'
  <2>1. /\ {seq} \subseteq DOMAIN win.entries
        /\ WindowInv' /\ win'.retired \subseteq win.retired \cup {seq}
        /\ win'.base \in win.base .. win.next
        /\ \A s \in win.base .. (win'.base - 1) : s \in win.retired \cup {seq}
        /\ win'.next = win.next
        /\ DOMAIN win'.entries = DOMAIN win.entries \ {seq}
        /\ cursor' = Committed(cursor, win.base, win'.base)
    BY <1>3, <1>t, SettleStep DEF Leased
  <2>2. /\ done' = done \cup {seq} /\ settled' = settled \cup {seq}
        /\ UNCHANGED <<first, end, flushed, durable>>
    BY <1>3 DEF Settle, logVars
  <2> QED BY <2>1, <2>2, RetiringStep, Zenon
<1>4. ASSUME NEW S, S \subseteq DOMAIN win.entries, Requeue(S)
      PROVE  Ordered' /\ Accounted'
  <2>1. /\ win'.base = win.base /\ win'.next = win.next /\ win'.retired = win.retired
        /\ DOMAIN win'.entries = DOMAIN win.entries
    BY <1>4, <1>t, RequeueStep
  <2> QED BY <1>4, <1>t, <2>1 DEF Requeue, Ordered, Accounted, logVars
<1>5. ASSUME NEW c \in Consumer, NEW seq \in DOMAIN win.entries, Ack(c, seq)
      PROVE  Ordered' /\ Accounted'
  BY <1>3, <1>5, ConfigAssumption DEF Ack, HeldBy, Leased
<1>6. ASSUME NEW c \in Consumer, NEW seq \in DOMAIN win.entries,
             NEW requeue \in BOOLEAN, NEW ok \in BOOLEAN, Nack(c, seq, requeue, ok)
      PROVE  Ordered' /\ Accounted'
  <2>1. seq \in Leased(win) /\ {seq} \subseteq DOMAIN win.entries
    BY <1>6, ConfigAssumption DEF Nack, HeldBy, Leased
  <2>2. Settle(seq) \/ Requeue({seq})
    BY <1>6 DEF Nack
  <2> QED BY <1>3, <1>4, <2>1, <2>2
<1>7. ASSUME NEW c \in Consumer, ReleaseConsumer(c)
      PROVE  Ordered' /\ Accounted'
  BY <1>4, <1>7 DEF ReleaseConsumer, HeldBy
<1>8. CASE ReleaseAll
  BY <1>4, <1>8 DEF ReleaseAll, Leased
<1>9. CASE Publish
  BY <1>9, <1>t DEF Publish, Ordered, Accounted, TypeOK
<1>10. CASE EnforceRetention
  BY <1>10, <1>t DEF EnforceRetention, Ordered, Accounted, TypeOK, Larger
<1>11. CASE FlushCursors
  BY <1>11, <1>t DEF FlushCursors, Ordered, Accounted, TypeOK, logVars
<1>12. CASE Close
  BY <1>12, <1>t DEF Close, Ordered, Accounted, TypeOK, logVars
<1>13. CASE Reopen
  <2>1. /\ win'.base = Larger(first, cursor) /\ win'.next = Larger(first, cursor)
        /\ win'.retired = {} /\ DOMAIN win'.entries = {}
    BY <1>13, <1>t, OpenWindowCore DEF Reopen, TypeOK
  <2>2. /\ settled' = {} /\ done' = done
        /\ UNCHANGED <<first, end, flushed, cursor, durable>>
    BY <1>13 DEF Reopen, logVars
  <2> QED BY <1>t, <2>1, <2>2 DEF Ordered, Accounted, TypeOK, Larger
<1>14. CASE Crash
  <2>1. PICK e \in flushed .. end : RestartAt(e, durable)
    BY <1>14 DEF Crash
  <2>2. /\ win'.base = Larger(first, durable) /\ win'.next = Larger(first, durable)
        /\ win'.retired = {} /\ DOMAIN win'.entries = {}
    BY <2>1, <1>t, OpenWindowCore DEF RestartAt, TypeOK
  <2>3. /\ settled' = {} /\ done' = {s \in done : s < e}
        /\ end' = e /\ flushed' = e /\ first' = first
        /\ cursor' = durable /\ durable' = durable
    BY <2>1 DEF RestartAt
  <2> QED BY <1>t, <2>1, <2>2, <2>3 DEF Ordered, Accounted, TypeOK, Larger
<1>15. CASE UNCHANGED vars
  BY <1>15, <1>t DEF vars, Ordered, Accounted
<1> QED BY <1>1, <1>2, <1>5, <1>6, <1>7, <1>8, <1>9, <1>10, <1>11, <1>12, <1>13,
           <1>14, <1>15 DEF Next

-----------------------------------------------------------------------------
(* The theorems.                                                            *)

\* Whatever is lost in a crash, power included, the window of share.go stays
\* well typed, partitioned into tracked and retired sequences, bounded by
\* MaxInFlight, and its heap holds exactly the records awaiting redelivery.
THEOREM WindowSafe ==
  PowerLossSpec => [](TypeOK /\ WindowPartitioned /\ InFlightBounded /\ HeapMatchesWindow)
<1>1. Init => TypeOK /\ WindowInv
  BY InitInv DEF IInv
<1>2. TypeOK /\ WindowInv /\ [Next \/ PowerLoss]_vars => TypeOK' /\ WindowInv'
  BY WindowStep
<1>3. TypeOK /\ WindowInv => TypeOK /\ WindowPartitioned /\ InFlightBounded /\ HeapMatchesWindow
  BY DEF WindowInv, Core, HeapOK, WindowPartitioned, InFlightBounded, HeapMatchesWindow
<1> QED BY <1>1, <1>2, <1>3, PTL DEF PowerLossSpec

\* The same, together with the order of the positions and the account of every
\* record, is inductive when only the write buffers can be lost.
THEOREM InvHolds == Spec => []IInv
BY InitInv, StepInv, PTL DEF Spec

\* At-least-once (queue-plane.md:62-67) for every number of consumers and every
\* MaxInFlight and MaxDelivery: across releases, retries, retention and process
\* crashes, no record the log holds falls below a position unsettled.
THEOREM NoRecordSkipped == Spec => []AtLeastOnce
<1>1. IInv => AtLeastOnce
  BY DEF IInv, TypeOK, WindowInv, Core, IsWindow, Ordered, Accounted, AtLeastOnce, Larger
<1> QED BY <1>1, InvHolds, PTL

\* A settled record is not delivered again before a restart.
THEOREM SettledNotRedelivered == Spec => []SettledStaysOut
<1>1. IInv => SettledStaysOut
  BY DEF IInv, Accounted, SettledStaysOut
<1> QED BY <1>1, InvHolds, PTL

\* A process crash never leaves a committed position beyond the log.
THEOREM CursorStaysInLog == Spec => []CursorWithinLog
<1>1. IInv => CursorWithinLog
  BY DEF IInv, TypeOK, WindowInv, Core, IsWindow, Ordered, CursorWithinLog, Larger
<1> QED BY <1>1, InvHolds, PTL
=============================================================================
