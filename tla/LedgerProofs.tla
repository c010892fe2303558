---------------------------- MODULE LedgerProofs ----------------------------
(* What the ledger tells and promises, for any requests, subjects, event     *)
(* configurations, capacities and number of crashes, faults and syncs.       *)
EXTENDS Ledger, FiniteSetTheorems, TLAPS

----------------------------------------------------------------------------
(* Sequences of anything: what is in them is of no concern here. *)

IsSeq(s) == \E R : s \in Seq(R)

\* A sequence has a length and elements.
LEMMA SeqLength ==
  ASSUME NEW s, IsSeq(s)
  PROVE  Len(s) \in Nat /\ DOMAIN s = 1 .. Len(s) /\ (s = <<>> <=> Len(s) = 0)
BY DEF IsSeq

\* A function on 1 .. n is a sequence.
LEMMA FunIsSeq ==
  ASSUME NEW n \in Nat, NEW R, NEW s \in [1 .. n -> R]
  PROVE  IsSeq(s) /\ Len(s) = n
<1>1. s \in Seq(R)
  OBVIOUS
<1>2. Len(s) = n
  BY <1>1
<1> QED
  BY <1>1, <1>2 DEF IsSeq

\* An operation queued at the end.
LEMMA SeqAppend ==
  ASSUME NEW s, IsSeq(s), NEW e
  PROVE  /\ IsSeq(Append(s, e)) /\ Len(Append(s, e)) = Len(s) + 1
         /\ \A i \in 1 .. Len(s) : Append(s, e)[i] = s[i]
         /\ Append(s, e)[Len(s) + 1] = e
<1>1. PICK R : s \in Seq(R)
  BY DEF IsSeq
<1>2. s \in Seq(R \cup {e}) /\ e \in R \cup {e}
  BY <1>1
<1>3. Append(s, e) \in Seq(R \cup {e})
  BY <1>2
<1> QED
  BY <1>2, <1>3 DEF IsSeq

\* The head of a queue taken off.
LEMMA SeqTail ==
  ASSUME NEW s, IsSeq(s), s # <<>>
  PROVE  /\ IsSeq(Tail(s)) /\ Len(Tail(s)) = Len(s) - 1 /\ Len(s) \in Nat \ {0}
         /\ Head(s) = s[1]
         /\ \A i \in 1 .. Len(s) - 1 : Tail(s)[i] = s[i + 1]
<1>1. PICK R : s \in Seq(R)
  BY DEF IsSeq
<1>2. Tail(s) \in Seq(R)
  BY <1>1
<1> QED
  BY <1>1, <1>2 DEF IsSeq

\* Two tables, one after the other.
LEMMA SeqConcat ==
  ASSUME NEW s, NEW t, IsSeq(s), IsSeq(t)
  PROVE  /\ IsSeq(s \o t) /\ Len(s \o t) = Len(s) + Len(t)
         /\ \A i \in 1 .. Len(s) : (s \o t)[i] = s[i]
         /\ \A i \in 1 .. Len(t) : (s \o t)[Len(s) + i] = t[i]
<1>1. PICK R, T : s \in Seq(R) /\ t \in Seq(T)
  BY DEF IsSeq
<1>2. s \in Seq(R \cup T) /\ t \in Seq(R \cup T)
  BY <1>1
<1>3. s \o t \in Seq(R \cup T)
  BY <1>2
<1> QED
  BY <1>2, <1>3 DEF IsSeq

\* A part of a sequence.
LEMMA SeqSub ==
  ASSUME NEW s, IsSeq(s), NEW m \in Nat \ {0}, NEW n \in Nat, n <= Len(s), m <= n + 1
  PROVE  /\ IsSeq(SubSeq(s, m, n)) /\ Len(SubSeq(s, m, n)) = n - m + 1
         /\ \A i \in 1 .. n - m + 1 : SubSeq(s, m, n)[i] = s[m + i - 1]
<1>1. PICK R : s \in Seq(R)
  BY DEF IsSeq
<1>2. SubSeq(s, m, n) \in Seq(R)
  BY <1>1
<1> QED
  BY <1>1, <1>2 DEF IsSeq

\* The smaller of two numbers.
LEMMA MinOfTwo ==
  ASSUME NEW a \in Int, NEW b \in Int
  PROVE  /\ Min({a, b}) \in {a, b} /\ Min({a, b}) <= a /\ Min({a, b}) <= b
<1>1. \E x \in {a, b} : \A y \in {a, b} : x <= y
  OBVIOUS
<1> QED
  BY <1>1 DEF Min

LEMMA MaxOfTwo ==
  ASSUME NEW a \in Int, NEW b \in Int
  PROVE  /\ Max({a, b}) \in {a, b} /\ a <= Max({a, b}) /\ b <= Max({a, b})
<1>1. \E x \in {a, b} : \A y \in {a, b} : x >= y
  OBVIOUS
<1> QED
  BY <1>1 DEF Max

\* Ascending lists every element of a finite set of numbers once, in order.
LEMMA AscendingIs ==
  ASSUME NEW S \in SUBSET Int, IsFiniteSet(S)
  PROVE  /\ Cardinality(S) \in Nat
         /\ IsSeq(Ascending(S)) /\ Len(Ascending(S)) = Cardinality(S)
         /\ \A n \in 1 .. Cardinality(S) : Ascending(S)[n] \in S
         /\ \A m, n \in 1 .. Cardinality(S) : m < n => Ascending(S)[m] < Ascending(S)[n]
         /\ \A i \in S : \E n \in 1 .. Cardinality(S) : Ascending(S)[n] = i
<1> DEFINE below(i) == {j \in S : j < i}
           place == [i \in S |-> Cardinality(below(i)) + 1]
           N == Cardinality(S)
<1>1. N \in Nat
  BY FS_CardinalityType
<1>2. ASSUME NEW i \in S
      PROVE  IsFiniteSet(below(i)) /\ Cardinality(below(i)) \in Nat /\ Cardinality(below(i)) < N
  <2>1. below(i) \in SUBSET S /\ below(i) # S
    OBVIOUS
  <2>2. IsFiniteSet(below(i)) /\ Cardinality(below(i)) <= N /\ N # Cardinality(below(i))
    BY <2>1, FS_Subset, Zenon
  <2>3. Cardinality(below(i)) \in Nat
    BY <2>2, FS_CardinalityType
  <2> QED
    BY <2>2, <2>3, <1>1
<1>3. ASSUME NEW i \in S, NEW k \in S, i < k
      PROVE  Cardinality(below(i)) < Cardinality(below(k))
  <2>0. i \in Int /\ k \in Int /\ \A j \in S : j \in Int
    OBVIOUS
  <2>1. i \in below(k) /\ i \notin below(i)
    BY <1>3, <2>0
  <2>4. \A j \in below(i) : j \in below(k)
    BY <1>3, <2>0
  <2>5. below(i) \in SUBSET below(k)
    BY <2>4
  <2>2. below(i) # below(k)
    BY <2>1
  <2>3. Cardinality(below(i)) <= Cardinality(below(k)) /\ Cardinality(below(k)) # Cardinality(below(i))
    BY <1>2, <2>5, <2>2, FS_Subset, Zenon
  <2> QED
    BY <1>2, <2>3
<1>4. place \in [S -> 1 .. N]
  <2> HIDE DEF below
  <2> QED
    BY <1>1, <1>2
<1>5. \A i, k \in S : place[i] = place[k] => i = k
  <2> SUFFICES ASSUME NEW i \in S, NEW k \in S, i # k PROVE place[i] # place[k]
    OBVIOUS
  <2>1. i < k \/ k < i
    OBVIOUS
  <2> HIDE DEF below
  <2> QED
    BY <1>2, <1>3, <2>1
<1>6. place \in Surjection(S, 1 .. N)
  <2> HIDE DEF place
  <2>1. place \in Injection(S, 1 .. N)
    BY <1>4, <1>5 DEF Injection, IsInjective
  <2>2. IsFiniteSet(1 .. N) /\ Cardinality(1 .. N) = N
    BY <1>1, FS_Interval
  <2> QED
    BY <2>1, <2>2, FS_Injection
<1>7. ASSUME NEW n \in 1 .. N
      PROVE  Ascending(S)[n] \in S /\ Cardinality(below(Ascending(S)[n])) = n - 1
  <2>1. PICK i \in S : place[i] = n
    <3> HIDE DEF place
    <3> QED
      BY <1>6 DEF Surjection
  <2>2. Cardinality(below(i)) = n - 1
    BY <2>1, <1>2
  <2>3. Ascending(S)[n] = CHOOSE k \in S : Cardinality(below(k)) = n - 1
    BY DEF Ascending
  <2> HIDE DEF below
  <2> QED
    BY <2>2, <2>3
<1>8. Ascending(S) \in [1 .. N -> S]
  <2> DEFINE nth(n) == CHOOSE i \in S : Cardinality(below(i)) = n - 1
             order == Ascending(S)
  <2>1. order = [n \in 1 .. N |-> nth(n)]
    BY Zenon DEF Ascending
  <2> HIDE DEF nth, order
  <2>2. order = [n \in 1 .. N |-> order[n]]
    BY <2>1
  <2>3. \A n \in 1 .. N : order[n] \in S
    BY <1>7 DEF order
  <2>4. order \in [1 .. N -> S]
    BY <2>2, <2>3
  <2> QED
    BY <2>4 DEF order
<1>9. IsSeq(Ascending(S)) /\ Len(Ascending(S)) = N
  BY <1>1, <1>8, FunIsSeq
<1>10. ASSUME NEW m \in 1 .. N, NEW n \in 1 .. N, m < n PROVE Ascending(S)[m] < Ascending(S)[n]
  <2> DEFINE a == Ascending(S)[m]
             b == Ascending(S)[n]
  <2>1. /\ a \in S /\ b \in S
        /\ Cardinality(below(a)) = m - 1 /\ Cardinality(below(b)) = n - 1
    BY <1>7
  <2>2. a # b /\ ~(b < a)
    <3> HIDE DEF below, a, b
    <3> QED
      BY <2>1, <1>3, <1>10, <1>1
  <2> HIDE DEF below, a, b
  <2>3. a < b
    BY <2>1, <2>2
  <2> QED
    BY <2>3 DEF a, b
<1>11. ASSUME NEW i \in S PROVE \E n \in 1 .. N : Ascending(S)[n] = i
  <2> DEFINE n == Cardinality(below(i)) + 1
             a == Ascending(S)[n]
  <2>1. n \in 1 .. N
    BY <1>1, <1>2
  <2>2. a \in S /\ Cardinality(below(a)) = Cardinality(below(i))
    <3> HIDE DEF below
    <3> QED
      BY <2>1, <1>7, <1>2
  <2>3. a = i
    <3>1. ~(a < i) /\ ~(i < a)
      <4> HIDE DEF below, a
      <4> QED
        BY <1>2, <1>3, <2>2
    <3>2. a \in Int /\ i \in Int
      BY <2>2
    <3> QED
      BY <3>1, <3>2
  <2> QED
    BY <2>1, <2>3
<1> HIDE DEF place, below
<1> QED
  BY <1>1, <1>7, <1>9, <1>10, <1>11

----------------------------------------------------------------------------
(* The state's shape: type correctness, with what the tables hold left open. *)

PodShape(p) ==
  p = [ring |-> p.ring, dropped |-> p.dropped, pending |-> p.pending, discarded |-> p.discarded,
       client |-> p.client, pc |-> p.pc, answer |-> p.answer]

PodOK ==
  /\ PodShape(pod)
  /\ IsSeq(pod.ring) /\ Len(pod.ring) <= RING_CAPACITY
  /\ IsSeq(pod.pending) /\ Len(pod.pending) <= RETAINED_BATCHES
  /\ \A i \in 1 .. Len(pod.pending) : IsSeq(pod.pending[i])
  /\ pod.pc \in {"waiting", "sending", "called"} /\ (pod.pc # "waiting" => pod.pending # <<>>)

RespShape(x) == x = [pc |-> x.pc, at |-> x.at, finished |-> x.finished, tracker |-> x.tracker]

RespOK ==
  /\ resp = [r \in Requests |-> resp[r]]
  /\ \A r \in Requests : RespShape(resp[r]) /\ resp[r].at \in 0 .. Len(Body[r])

\* A sync, before and after it is queued.
SyncOK(c) ==
  /\ c.op = "SyncSpend" /\ c.subject \in Subjects
  /\ c.window \in Nat /\ c.delta \in Nat /\ c.limit \in Nat

OpNames == {"Write", "Declare", "SyncSpend", "PruneSpend", "DueEvents", "EventDelivered", "EventFailed"}

OpOK(o) ==
  /\ o.op \in OpNames
  /\ o.op = "Write" => IsSeq(o.records) /\ o = [op |-> "Write", records |-> o.records, live |-> o.live]
  /\ o.op = "Declare" => o = [op |-> "Declare", policies |-> o.policies, live |-> o.live]
  /\ o.op = "SyncSpend" => SyncOK(o)

QueueOK ==
  /\ \A c \in calls : SyncOK(c)
  /\ IsSeq(ops) /\ Len(ops) <= OPS_CAPACITY
  /\ \A i \in 1 .. Len(ops) : OpOK(ops[i])

WorldShape(w) ==
  w = [window |-> w.window, held |-> w.held, changes |-> w.changes, syncs |-> w.syncs,
       crashes |-> w.crashes, faults |-> w.faults, reads |-> w.reads, declares |-> w.declares,
       deltas |-> w.deltas, shapes |-> w.shapes, builds |-> w.builds]

WorldOK ==
  /\ WorldShape(world)
  /\ world.window \in Nat /\ world.deltas \subseteq Nat /\ world.shapes \subseteq Nat

\* The configuration in force is one the ledger may be started with.
LedgerShape(l) == l = [up |-> l.up, config |-> l.config, configs |-> l.configs]

LedgerOK ==
  /\ LedgerShape(ledger)
  /\ ledger.config \in ledger.configs
  /\ \A c \in ledger.configs : IsFiniteSet(c.thresholds) /\ c.thresholds \subseteq Nat \ {0}

DbShape(d) ==
  d = [rows |-> d.rows, spend |-> d.spend, policies |-> d.policies, outbox |-> d.outbox, nextId |-> d.nextId]

OutboxRow(e) == e = [event |-> e.event, attempts |-> e.attempts, wait |-> e.wait] /\ e.attempts \in Nat

\* AUTOINCREMENT: every id in the outbox was given out.
DbOK ==
  /\ DbShape(db) /\ IsSeq(db.rows)
  /\ db.nextId \in Nat \ {0} /\ db.nextId - 1 <= MaxEvents
  /\ DOMAIN db.outbox \subseteq 1 .. db.nextId - 1
  /\ db.outbox = [id \in DOMAIN db.outbox |-> db.outbox[id]]
  /\ \A id \in DOMAIN db.outbox : OutboxRow(db.outbox[id])

SpendOK ==
  /\ db.spend = [k \in DOMAIN db.spend |-> db.spend[k]]
  /\ DOMAIN db.spend \subseteq Subjects \X Nat
  /\ \A k \in DOMAIN db.spend : db.spend[k] \in [spent : Nat, limit : Nat, alerted : Nat]

HistShape(h) ==
  h = [accepted |-> h.accepted, gone |-> h.gone, settled |-> h.settled, made |-> h.made,
       lost |-> h.lost, synced |-> h.synced, pruned |-> h.pruned]

\* Every id has its event.
HistOK == HistShape(hist) /\ IsSeq(hist.accepted) /\ Len(hist.accepted) = db.nextId - 1

\* What the constants are assumed to be.
LEMMA Bounds ==
  /\ RING_CAPACITY \in Nat /\ BATCH_SIZE \in Nat /\ RETAINED_BATCHES \in Nat \ {0}
  /\ OPS_CAPACITY \in Nat /\ DUE_LIMIT \in Nat /\ PAGE \in Nat /\ MaxEvents \in Nat
  /\ MAX_ATTEMPTS \in Nat
  /\ \A r \in Requests : Len(Body[r]) \in Nat
BY LedgerAssumption, StoreAssumption

\* The pod's part of a step: a record pushed ...
LEMMA PushOK == ASSUME PodOK, NEW r, NEW tokens, Push(r, tokens) PROVE PodOK'
<1> DEFINE e == [req |-> r, tokens |-> tokens]
<1>1. CASE Len(pod.ring) >= RING_CAPACITY
  BY <1>1 DEF PodOK, PodShape, Push
<1>2. CASE ~(Len(pod.ring) >= RING_CAPACITY)
  <2>1. /\ IsSeq(Append(pod.ring, e)) /\ Len(Append(pod.ring, e)) = Len(pod.ring) + 1
        /\ Len(pod.ring) \in Nat
    BY SeqAppend, SeqLength DEF PodOK
  <2>2. pod' = [pod EXCEPT !.ring = Append(@, e)]
    BY <1>2 DEF Push
  <2> HIDE DEF e
  <2>3. /\ pod'.ring = Append(pod.ring, e) /\ pod'.pending = pod.pending /\ pod'.pc = pod.pc
        /\ PodShape(pod')
    BY <2>2 DEF PodOK, PodShape
  <2>4. Len(pod'.ring) <= RING_CAPACITY
    BY <1>2, <2>1, <2>3, Bounds
  <2> QED
    BY <2>1, <2>3, <2>4 DEF PodOK
<1> QED
  BY <1>1, <1>2

\* ... a step that leaves its records where they are ...
LEMMA PodKept ==
  ASSUME PodOK, PodShape(pod'), pod'.ring = pod.ring, pod'.pending = pod.pending,
         pod'.pc \in {"waiting", "sending", "called"}, pod'.pc # "waiting" => pod.pending # <<>>
  PROVE  PodOK'
BY DEF PodOK

\* ... a batch of n records taken off the ring, and x batches discarded ...
Took(n, x) ==
  /\ Len(pod'.ring) = Len(pod.ring) - n
  /\ \A i \in 1 .. Len(pod.ring) - n : pod'.ring[i] = pod.ring[n + i]
  /\ \A a \in 1 .. Len(pod'.pending) :
       \/ a + x \in 1 .. Len(pod.pending) /\ pod'.pending[a] = pod.pending[a + x]
       \/ /\ a + x = Len(pod.pending) + 1 /\ Len(pod'.pending[a]) = n
          /\ \A i \in 1 .. n : pod'.pending[a][i] = pod.ring[i]

LEMMA TakeOK ==
  ASSUME PodOK, Take
  PROVE  /\ PodOK' /\ pod'.answer = pod.answer /\ pod'.pc \in {"waiting", "sending"}
         /\ \E n \in 0 .. Len(pod.ring), x \in Nat : Took(n, x)
<1> DEFINE n == Min({BATCH_SIZE, Len(pod.ring)})
           taken == SubSeq(pod.ring, 1, n)
           pending == IF n = 0 THEN pod.pending ELSE Append(pod.pending, taken)
           excess == Max({0, Len(pending) - RETAINED_BATCHES})
           ring1 == SubSeq(pod.ring, n + 1, Len(pod.ring))
           pending1 == SubSeq(pending, excess + 1, Len(pending))
<1>0. /\ IsSeq(pod.ring) /\ IsSeq(pod.pending) /\ Len(pod.ring) \in Nat /\ Len(pod.pending) \in Nat
      /\ Len(pod.ring) <= RING_CAPACITY /\ \A i \in 1 .. Len(pod.pending) : IsSeq(pod.pending[i])
  BY SeqLength DEF PodOK
<1>1. n \in Nat /\ n <= Len(pod.ring)
  <2>1. BATCH_SIZE \in Int /\ Len(pod.ring) \in Int
    BY <1>0, Bounds
  <2>2. n \in {BATCH_SIZE, Len(pod.ring)} /\ n <= Len(pod.ring)
    BY <2>1, MinOfTwo, Zenon
  <2> QED
    BY <1>0, <2>2, Bounds
<1>2. pod' = [pod EXCEPT !.ring = ring1, !.pending = pending1,
                         !.discarded = @ + Len(RecordsIn(SubSeq(pending, 1, excess))),
                         !.pc = IF pending = <<>> THEN "waiting" ELSE "sending"]
  BY DEF Take, Taken
<1> HIDE DEF n
<1>3. /\ IsSeq(ring1) /\ Len(ring1) = Len(pod.ring) - (n + 1) + 1
      /\ \A i \in 1 .. Len(pod.ring) - (n + 1) + 1 : ring1[i] = pod.ring[n + 1 + i - 1]
  BY <1>0, <1>1, SeqSub
<1>4. Len(ring1) <= RING_CAPACITY
  BY <1>0, <1>1, <1>3, Bounds
<1>5. /\ IsSeq(taken) /\ Len(taken) = n - 1 + 1
      /\ \A i \in 1 .. n - 1 + 1 : taken[i] = pod.ring[1 + i - 1]
  BY <1>0, <1>1, SeqSub
<1> HIDE DEF taken
<1>6. /\ IsSeq(pending) /\ Len(pending) \in Nat
      /\ \A i \in 1 .. Len(pending) :
           /\ IsSeq(pending[i])
           /\ \/ i \in 1 .. Len(pod.pending) /\ pending[i] = pod.pending[i]
              \/ i = Len(pod.pending) + 1 /\ pending[i] = taken
  <2>1. CASE n = 0
    BY <1>0, <2>1
  <2>2. CASE n # 0
    <3>1. pending = Append(pod.pending, taken)
      BY <2>2
    <3> HIDE DEF pending
    <3>2. /\ IsSeq(pending) /\ Len(pending) = Len(pod.pending) + 1
          /\ \A i \in 1 .. Len(pod.pending) : pending[i] = pod.pending[i]
          /\ pending[Len(pod.pending) + 1] = taken
      BY <1>0, <3>1, SeqAppend
    <3>3. ASSUME NEW i \in 1 .. Len(pending)
          PROVE  /\ IsSeq(pending[i])
                 /\ \/ i \in 1 .. Len(pod.pending) /\ pending[i] = pod.pending[i]
                    \/ i = Len(pod.pending) + 1 /\ pending[i] = taken
      <4>1. CASE i = Len(pod.pending) + 1
        BY <1>5, <3>2, <4>1
      <4>2. CASE i # Len(pod.pending) + 1
        <5>1. i \in 1 .. Len(pod.pending)
          BY <1>0, <3>2, <4>2
        <5> QED
          BY <1>0, <3>2, <5>1
      <4> QED
        BY <4>1, <4>2
    <3> QED
      BY <1>0, <3>2, <3>3
  <2> QED
    BY <2>1, <2>2
<1> HIDE DEF pending
<1>7. excess \in Nat /\ excess <= Len(pending) /\ Len(pending) - excess <= RETAINED_BATCHES
      /\ (Len(pending) # 0 => excess < Len(pending))
  <2>1. /\ excess \in {0, Len(pending) - RETAINED_BATCHES}
        /\ 0 <= excess /\ Len(pending) - RETAINED_BATCHES <= excess
    <3>1. 0 \in Int /\ Len(pending) - RETAINED_BATCHES \in Int
      BY <1>6, Bounds
    <3> QED
      BY <3>1, MaxOfTwo, Zenon
  <2> HIDE DEF excess
  <2> QED
    BY <1>6, <2>1, Bounds
<1> HIDE DEF excess
<1>8. /\ IsSeq(pending1) /\ Len(pending1) = Len(pending) - (excess + 1) + 1
      /\ \A i \in 1 .. Len(pending) - (excess + 1) + 1 : pending1[i] = pending[excess + 1 + i - 1]
  BY <1>6, <1>7, SeqSub
<1> HIDE DEF ring1, pending1
<1>9. Len(pending1) <= RETAINED_BATCHES /\ \A i \in 1 .. Len(pending1) : IsSeq(pending1[i])
  <2>1. Len(pending1) = Len(pending) - excess
    BY <1>6, <1>7, <1>8
  <2>2. ASSUME NEW i \in 1 .. Len(pending1) PROVE IsSeq(pending1[i])
    <3>1. pending1[i] = pending[excess + 1 + i - 1] /\ excess + 1 + i - 1 \in 1 .. Len(pending)
      BY <1>6, <1>7, <1>8, <2>1
    <3> QED
      BY <3>1, <1>6
  <2> QED
    BY <1>7, <2>1, <2>2
<1>10. pending # <<>> => pending1 # <<>>
  BY <1>6, <1>7, <1>8, SeqLength
<1>11. /\ pod'.ring = ring1 /\ pod'.pending = pending1 /\ PodShape(pod')
       /\ pod'.pc = IF pending = <<>> THEN "waiting" ELSE "sending"
       /\ pod'.answer = pod.answer
  BY <1>2 DEF PodOK, PodShape
<1>12. Took(n, excess)
  <2>1. Len(ring1) = Len(pod.ring) - n /\ Len(taken) = n
    BY <1>0, <1>1, <1>3, <1>5
  <2>2. ASSUME NEW i \in 1 .. Len(pod.ring) - n PROVE ring1[i] = pod.ring[n + i]
    <3>1. i \in 1 .. Len(pod.ring) - (n + 1) + 1 /\ n + 1 + i - 1 = n + i
      BY <1>0, <1>1
    <3> QED
      BY <1>3, <3>1
  <2>3. ASSUME NEW i \in 1 .. n PROVE taken[i] = pod.ring[i]
    <3>1. i \in 1 .. n - 1 + 1 /\ 1 + i - 1 = i
      BY <1>1
    <3> QED
      BY <1>5, <3>1
  <2>4. ASSUME NEW a \in 1 .. Len(pending1)
        PROVE  \/ a + excess \in 1 .. Len(pod.pending) /\ pending1[a] = pod.pending[a + excess]
               \/ a + excess = Len(pod.pending) + 1 /\ pending1[a] = taken
    <3>1. /\ a \in 1 .. Len(pending) - (excess + 1) + 1 /\ excess + 1 + a - 1 = a + excess
          /\ a + excess \in 1 .. Len(pending)
      BY <1>6, <1>7, <1>8
    <3>2. pending1[a] = pending[a + excess]
      BY <1>8, <3>1
    <3> QED
      BY <1>6, <3>1, <3>2
  <2> QED
    BY <1>11, <2>1, <2>2, <2>3, <2>4 DEF Took
<1>13. PodOK'
  BY <1>3, <1>4, <1>8, <1>9, <1>10, <1>11 DEF PodOK
<1>14. n \in 0 .. Len(pod.ring) /\ excess \in Nat
  BY <1>0, <1>1, <1>7
<1> QED
  BY <1>11, <1>12, <1>13, <1>14

\* ... and an answer.
LEMMA AnsweredOK == ASSUME PodOK, Answered PROVE PodOK'
<1>1. CASE pod.answer = "ok"
  <2>1. /\ IsSeq(pod.pending) /\ pod.pending # <<>> /\ Len(pod.pending) \in Nat
        /\ pod' = [pod EXCEPT !.pending = Tail(@), !.pc = "waiting", !.answer = "none"]
    BY <1>1, SeqLength DEF PodOK, Answered
  <2>2. /\ pod'.ring = pod.ring /\ pod'.pending = Tail(pod.pending) /\ pod'.pc = "waiting"
        /\ PodShape(pod')
    BY <2>1 DEF PodOK, PodShape
  <2>3. /\ IsSeq(Tail(pod.pending)) /\ Len(Tail(pod.pending)) = Len(pod.pending) - 1
        /\ Len(pod.pending) \in Nat \ {0}
        /\ \A i \in 1 .. Len(pod.pending) - 1 : Tail(pod.pending)[i] = pod.pending[i + 1]
    BY <2>1, SeqTail
  <2>4. /\ Len(pod'.pending) <= RETAINED_BATCHES
        /\ \A i \in 1 .. Len(pod'.pending) : IsSeq(pod'.pending[i])
    BY <2>2, <2>3, Bounds DEF PodOK
  <2> QED
    BY <2>2, <2>3, <2>4 DEF PodOK
<1>2. CASE pod.answer # "ok"
  <2>1. pod' = [pod EXCEPT !.client = FALSE, !.pc = "waiting", !.answer = "none"]
    BY <1>2 DEF Answered, Failed
  <2>2. pod'.ring = pod.ring /\ pod'.pending = pod.pending /\ pod'.pc = "waiting" /\ PodShape(pod')
    BY <2>1 DEF PodOK, PodShape
  <2> QED
    BY <2>2, PodKept
<1> QED
  BY <1>1, <1>2

\* Every step keeps the ring and the retained batches within their capacity.
LEMMA PodStep == ASSUME PodOK, [Next]_vars PROVE PodOK'
<1>1. ASSUME pod' = pod PROVE PodOK'
  BY <1>1 DEF PodOK
<1>2. ASSUME NEW r \in Requests, BodyOver(r) \/ BodyDropped(r) PROVE PodOK'
  BY <1>1, <1>2, PushOK DEF BodyOver, BodyDropped, Finish
<1>3. ASSUME NEW r \in Requests, Refuse(r) PROVE PodOK'
  BY <1>3, PushOK DEF Refuse
<1>4. CASE Connect
  <2>1. /\ pod'.ring = pod.ring /\ pod'.pending = pod.pending /\ PodShape(pod')
        /\ pod'.pc \in {pod.pc, "waiting"}
    BY <1>4 DEF Connect, Failed, PodOK, PodShape
  <2> QED
    BY <2>1, PodKept DEF PodOK
<1>5. CASE Report
  <2>1. /\ pod'.ring = pod.ring /\ pod'.pending = pod.pending /\ PodShape(pod')
        /\ pod'.pc = "called" /\ pod.pc = "sending"
    BY <1>5 DEF Report, PodOK, PodShape
  <2> QED
    BY <2>1, PodKept DEF PodOK
<1>6. CASE ReportBreaks
  <2>1. /\ pod'.ring = pod.ring /\ pod'.pending = pod.pending /\ PodShape(pod') /\ pod'.pc = "waiting"
    BY <1>6 DEF ReportBreaks, Failed, PodOK, PodShape
  <2> QED
    BY <2>1, PodKept
<1>7. CASE StoreWrite \/ StorageError \/ Crash
  <2>1. pod' = pod \/ pod' = [pod EXCEPT !.answer = "ok"] \/ pod' = [pod EXCEPT !.answer = "err"]
    BY <1>7 DEF StoreWrite, StorageError, Crash
  <2>2. /\ pod'.ring = pod.ring /\ pod'.pending = pod.pending /\ PodShape(pod') /\ pod'.pc = pod.pc
    BY <2>1 DEF PodOK, PodShape
  <2> QED
    BY <2>2, PodKept DEF PodOK
<1>8. ASSUME NEW r \in Requests, Frame(r) PROVE pod' = pod
  BY <1>8 DEF Frame
<1>9. CASE \/ DeclareStep \/ DeclareBreaks \/ ConfigChanges \/ SyncCalled \/ SyncQueued
           \/ Sweep \/ WindowEnds \/ DeliveryStep
  BY <1>1, <1>9 DEF DeclareStep, DeclareWakes, Declare, DeclareBreaks, ConfigChanges, SyncCalled,
     SyncQueued, Sweep, WindowEnds, DeliveryStep, ReadDue, Post
<1>10. CASE \/ StoreSync \/ StorePrune \/ StoreDeclare \/ StoreDue \/ StoreDelivered \/ StoreFailed
            \/ Export \/ Restart \/ Tick \/ Minute
  BY <1>1, <1>10 DEF StoreSync, StorePrune, StoreDeclare, StoreDue, StoreDelivered, StoreFailed,
     Export, Restart, Tick, Minute
<1>11. CASE UNCHANGED vars
  BY <1>1, <1>11 DEF vars
<1> QED
  BY <1>1, <1>2, <1>3, <1>4, <1>5, <1>6, <1>7, <1>8, <1>9, <1>10, <1>11, TakeOK, AnsweredOK
  DEF Next, DrainStep, StorageStep

\* What a frame, or the end of the body, leaves of a response is a response.
LEMMA RespParts ==
  ASSUME NEW y, RespShape(y), NEW z, NEW a, NEW t
  PROVE  /\ z = [y EXCEPT !.pc = a, !.finished = t] => RespShape(z) /\ z.at = y.at
         /\ z = [y EXCEPT !.at = a, !.tracker = t] => RespShape(z) /\ z.at = a
BY DEF RespShape

LEMMA RespChanged ==
  ASSUME RespOK, NEW r \in Requests, NEW x, RespShape(x), x.at \in 0 .. Len(Body[r]),
         resp' = [resp EXCEPT ![r] = x]
  PROVE  RespOK'
<1>1. DOMAIN resp = Requests
  BY DEF RespOK
<1>2. resp' = [q \in Requests |-> IF q = r THEN x ELSE resp[q]]
  BY <1>1
<1>3. \A q \in Requests : RespShape(resp'[q]) /\ resp'[q].at \in 0 .. Len(Body[q])
  BY <1>2 DEF RespOK
<1>4. resp' = [q \in Requests |-> resp'[q]]
  BY <1>2
<1> QED
  BY <1>3, <1>4, Zenon DEF RespOK

\* No frame is read beyond the end of the body.
LEMMA RespStep == ASSUME RespOK, [Next]_vars PROVE RespOK'
<1>1. ASSUME resp' = resp PROVE RespOK'
  BY <1>1 DEF RespOK
<1>0. DOMAIN resp = Requests
  BY DEF RespOK
<1>2. ASSUME NEW r \in Requests, BodyOver(r) \/ BodyDropped(r) \/ Refuse(r) PROVE RespOK'
  <2>1. PICK pc : resp' = [resp EXCEPT ![r].pc = pc, ![r].finished = TRUE]
    BY <1>2 DEF BodyOver, BodyDropped, Refuse
  <2> DEFINE x == [resp[r] EXCEPT !.pc = pc, !.finished = TRUE]
  <2>2. resp' = [resp EXCEPT ![r] = x]
    BY <1>0, <2>1
  <2>3. RespShape(x) /\ x.at = resp[r].at
    BY RespParts, Zenon DEF RespOK
  <2> HIDE DEF x
  <2>4. x.at \in 0 .. Len(Body[r])
    BY <2>3 DEF RespOK
  <2> QED
    BY <2>2, <2>3, <2>4, RespChanged
<1>3. ASSUME NEW r \in Requests, Frame(r) PROVE RespOK'
  <2>1. PICK n \in 1 .. Len(Body[r]) - resp[r].at :
          resp' = [resp EXCEPT ![r].at = @ + n,
                               ![r].tracker = feed(@, SubSeq(Body[r], resp[r].at + 1, resp[r].at + n))]
    BY <1>3 DEF Frame
  <2>0. resp[r].at \in 0 .. Len(Body[r]) /\ Len(Body[r]) \in Nat
    BY Bounds, Zenon DEF RespOK
  <2>2. resp[r].at + n \in 0 .. Len(Body[r])
    BY <2>0
  <2> DEFINE t == feed(resp[r].tracker, SubSeq(Body[r], resp[r].at + 1, resp[r].at + n))
             x == [resp[r] EXCEPT !.at = @ + n, !.tracker = t]
  <2>3. resp' = [resp EXCEPT ![r] = x]
    BY <1>0, <2>1
  <2> HIDE DEF t
  <2>4. RespShape(x) /\ x.at = resp[r].at + n
    <3>1. x = [resp[r] EXCEPT !.at = resp[r].at + n, !.tracker = t]
      OBVIOUS
    <3> HIDE DEF x
    <3> QED
      BY <3>1, RespParts, Zenon DEF RespOK
  <2> HIDE DEF x
  <2> QED
    BY <2>2, <2>3, <2>4, RespChanged
<1>4. CASE \/ DrainStep \/ ReportBreaks \/ DeclareStep \/ DeclareBreaks \/ ConfigChanges \/ SyncCalled
           \/ SyncQueued \/ Sweep \/ WindowEnds \/ DeliveryStep
  BY <1>1, <1>4 DEF DrainStep, Take, Connect, Report, Answered, ReportBreaks, DeclareStep,
     DeclareWakes, Declare, DeclareBreaks, ConfigChanges, SyncCalled, SyncQueued, Sweep, WindowEnds,
     DeliveryStep, ReadDue, Post
<1>5. CASE StorageStep \/ StorageError \/ Export \/ Crash \/ Restart \/ Tick \/ Minute
  BY <1>1, <1>5 DEF StorageStep, StoreWrite, StoreSync, StorePrune, StoreDeclare, StoreDue,
     StoreDelivered, StoreFailed, StorageError, Export, Crash, Restart, Tick, Minute
<1>6. CASE UNCHANGED vars
  BY <1>1, <1>6 DEF vars
<1> QED
  BY <1>2, <1>3, <1>4, <1>5, <1>6 DEF Next

\* An operation is queued, done, or left by whoever asked for it.
LEMMA QueueAppend ==
  ASSUME QueueOK, NEW o, OpOK(o), Queue(o), calls' \subseteq calls
  PROVE  QueueOK'
<1>1. /\ ops' = Append(ops, o) /\ IsSeq(ops) /\ Len(ops) < OPS_CAPACITY /\ Len(ops) \in Nat
      /\ \A i \in 1 .. Len(ops) : OpOK(ops[i])
  BY SeqLength DEF Queue, QueueOK
<1>2. /\ IsSeq(ops') /\ Len(ops') = Len(ops) + 1
      /\ \A i \in 1 .. Len(ops) : ops'[i] = ops[i]
      /\ ops'[Len(ops) + 1] = o
  BY <1>1, SeqAppend
<1>3. ASSUME NEW i \in 1 .. Len(ops') PROVE OpOK(ops'[i])
  <2>1. i \in 1 .. Len(ops) \/ i = Len(ops) + 1
    BY <1>1, <1>2
  <2> QED
    BY <1>1, <1>2, <2>1
<1>4. Len(ops') <= OPS_CAPACITY
  BY <1>1, <1>2, Bounds
<1> QED
  BY <1>2, <1>3, <1>4 DEF QueueOK, OpOK, SyncOK

LEMMA QueueTail ==
  ASSUME QueueOK, ops # <<>>, ops' = Tail(ops), calls' = calls
  PROVE  QueueOK'
<1>1. /\ IsSeq(ops) /\ \A i \in 1 .. Len(ops) : OpOK(ops[i])
  BY DEF QueueOK
<1>2. /\ IsSeq(ops') /\ Len(ops') = Len(ops) - 1 /\ Len(ops) \in Nat \ {0}
      /\ \A i \in 1 .. Len(ops) - 1 : ops'[i] = ops[i + 1]
  BY <1>1, SeqTail
<1>3. ASSUME NEW i \in 1 .. Len(ops') PROVE OpOK(ops'[i])
  <2>1. i + 1 \in 1 .. Len(ops) /\ ops'[i] = ops[i + 1]
    BY <1>2
  <2> QED
    BY <1>1, <2>1
<1>4. Len(ops') <= OPS_CAPACITY
  BY <1>2, Bounds DEF QueueOK
<1> QED
  BY <1>2, <1>3, <1>4 DEF QueueOK, OpOK, SyncOK

\* Only who waits for the answer changes.
LEMMA ForsakenIs ==
  ASSUME QueueOK, NEW name \in {"Write", "Declare"}, ops' = Forsaken(name)
  PROVE  /\ IsSeq(ops') /\ Len(ops') = Len(ops) /\ Len(ops) \in Nat
         /\ \A i \in 1 .. Len(ops) :
              /\ ops'[i].op = ops[i].op /\ OpOK(ops'[i])
              /\ ops[i].op # name => ops'[i] = ops[i]
              /\ ops'[i].op = "Write" => ops'[i].records = ops[i].records
              /\ ops[i].op = name => ops'[i].live = FALSE
<1>1. /\ IsSeq(ops) /\ Len(ops) \in Nat /\ DOMAIN ops = 1 .. Len(ops)
      /\ \A i \in 1 .. Len(ops) : OpOK(ops[i])
  BY SeqLength DEF QueueOK
<1>2. ops' = [i \in 1 .. Len(ops) |->
               IF ops[i].op = name THEN [ops[i] EXCEPT !.live = FALSE] ELSE ops[i]]
  BY <1>1 DEF Forsaken
<1>3. ops' \in [1 .. Len(ops) -> {ops'[i] : i \in 1 .. Len(ops)}]
  BY <1>2
<1>4. IsSeq(ops') /\ Len(ops') = Len(ops)
  BY <1>1, <1>3, FunIsSeq
<1>5. ASSUME NEW i \in 1 .. Len(ops)
      PROVE  /\ ops'[i].op = ops[i].op /\ OpOK(ops'[i])
             /\ ops[i].op # name => ops'[i] = ops[i]
             /\ ops'[i].op = "Write" => ops'[i].records = ops[i].records
             /\ ops[i].op = name => ops'[i].live = FALSE
  <2>1. CASE ops[i].op # name
    BY <1>1, <1>2, <2>1
  <2>2. CASE ops[i].op = name /\ name = "Write"
    <3>1. /\ ops[i] = [op |-> "Write", records |-> ops[i].records, live |-> ops[i].live]
          /\ IsSeq(ops[i].records)
      BY <1>1, <2>2 DEF OpOK
    <3>2. ops'[i] = [op |-> "Write", records |-> ops[i].records, live |-> FALSE]
      BY <1>2, <2>2, <3>1
    <3> QED
      BY <2>2, <3>1, <3>2 DEF OpOK, OpNames
  <2>3. CASE ops[i].op = name /\ name = "Declare"
    <3>1. ops[i] = [op |-> "Declare", policies |-> ops[i].policies, live |-> ops[i].live]
      BY <1>1, <2>3 DEF OpOK
    <3>2. ops'[i] = [op |-> "Declare", policies |-> ops[i].policies, live |-> FALSE]
      BY <1>2, <2>3, <3>1
    <3> QED
      BY <2>3, <3>2 DEF OpOK, OpNames
  <2> QED
    BY <2>1, <2>2, <2>3
<1> QED
  BY <1>1, <1>4, <1>5

\* Every operation in the queue is one the storage thread knows, with its
\* arguments, and the queue is within its capacity.
LEMMA QueueStep == ASSUME PodOK, WorldOK, QueueOK, [Next]_vars PROVE QueueOK'
<1>1. ASSUME UNCHANGED <<ops, calls>> PROVE QueueOK'
  BY <1>1 DEF QueueOK, OpOK, SyncOK
<1>2. CASE Report
  <2> DEFINE o == [op |-> "Write", records |-> Head(pod.pending), live |-> TRUE]
  <2>1. IsSeq(pod.pending) /\ pod.pending # <<>> /\ Len(pod.pending) \in Nat \ {0}
        /\ Head(pod.pending) = pod.pending[1]
    BY <1>2, SeqTail DEF Report, PodOK
  <2>2. IsSeq(Head(pod.pending))
    BY <2>1 DEF PodOK
  <2>3. OpOK(o)
    BY <2>2 DEF OpOK, OpNames
  <2>4. Queue(o) /\ calls' = calls
    BY <1>2 DEF Report
  <2> HIDE DEF o
  <2> QED
    BY <2>3, <2>4, QueueAppend
<1>3. CASE Declare
  <2>1. CASE UNCHANGED ops
    BY <1>1, <1>3, <2>1 DEF Declare
  <2>2. CASE Queue([op |-> "Declare", policies |-> decl.policies, live |-> TRUE])
    <3>1. OpOK([op |-> "Declare", policies |-> decl.policies, live |-> TRUE]) /\ calls' = calls
      BY <1>3 DEF Declare, OpOK, OpNames
    <3> QED
      BY <2>2, <3>1, QueueAppend
  <2> QED
    BY <1>3, <2>1, <2>2 DEF Declare
<1>4. CASE SyncCalled
  <2>1. PICK s \in Subjects, d \in world.deltas, l \in world.shapes :
          calls' = calls \cup {[op |-> "SyncSpend", subject |-> s, window |-> world.window,
                                delta |-> d, limit |-> l, nth |-> world.syncs]}
    BY <1>4 DEF SyncCalled
  <2>2. d \in Nat /\ l \in Nat /\ world.window \in Nat
    BY DEF WorldOK
  <2>3. \A c \in calls' : SyncOK(c)
    BY <2>1, <2>2 DEF SyncOK, QueueOK
  <2> QED
    BY <1>4, <2>3 DEF SyncCalled, QueueOK, OpOK, SyncOK
<1>5. CASE SyncQueued
  <2>1. PICK c \in calls : Queue(c) /\ calls' = calls \ {c}
    BY <1>5 DEF SyncQueued
  <2>2. OpOK(c)
    BY DEF QueueOK, OpOK, SyncOK, OpNames
  <2> QED
    BY <2>1, <2>2, QueueAppend
<1>6. CASE Sweep
  <2>1. Queue([op |-> "PruneSpend", now |-> world.window]) /\ calls' = calls
    BY <1>6 DEF Sweep
  <2>2. OpOK([op |-> "PruneSpend", now |-> world.window])
    BY DEF OpOK, OpNames
  <2> QED
    BY <2>1, <2>2, QueueAppend
<1>7. CASE ReadDue
  <2>1. Queue([op |-> "DueEvents"]) /\ calls' = calls
    BY <1>7 DEF ReadDue
  <2>2. OpOK([op |-> "DueEvents"])
    BY DEF OpOK, OpNames
  <2> QED
    BY <2>1, <2>2, QueueAppend
<1>8. CASE Post
  <2> DEFINE e == Head(hook.due)
             ok == [op |-> "EventDelivered", id |-> e.id]
             err == [op |-> "EventFailed", id |-> e.id, attempts |-> e.attempts]
  <2>1. (Queue(ok) \/ Queue(err)) /\ calls' = calls
    BY <1>8 DEF Post, Queue
  <2>2. OpOK(ok) /\ OpOK(err)
    BY DEF OpOK, OpNames
  <2> HIDE DEF ok, err
  <2> QED
    BY <2>1, <2>2, QueueAppend
<1>9. CASE ReportBreaks \/ DeclareBreaks
  <2>1. \E name \in {"Write", "Declare"} : ops' = Forsaken(name) /\ calls' = calls
    BY <1>9 DEF ReportBreaks, DeclareBreaks
  <2>2. /\ IsSeq(ops') /\ Len(ops') = Len(ops) /\ calls' = calls
        /\ \A i \in 1 .. Len(ops) : OpOK(ops'[i])
    BY <2>1, ForsakenIs
  <2> QED
    BY <2>2 DEF QueueOK, OpOK, SyncOK
<1>10. CASE StorageStep \/ StorageError
  <2>1. ops # <<>> /\ ops' = Tail(ops) /\ calls' = calls
    BY <1>10 DEF StorageStep, StoreWrite, StoreSync, StorePrune, StoreDeclare, StoreDue,
       StoreDelivered, StoreFailed, StorageError, Done
  <2> QED
    BY <2>1, QueueTail
<1>11. CASE Crash
  <2>1. ops' = <<>> /\ calls' = {}
    BY <1>11 DEF Crash
  <2>2. IsSeq(<<>>) /\ Len(<<>>) = 0
    BY DEF IsSeq
  <2> QED
    BY <2>1, <2>2, Bounds DEF QueueOK
<1>12. ASSUME NEW r \in Requests, Frame(r) \/ BodyOver(r) \/ BodyDropped(r) \/ Refuse(r)
       PROVE  QueueOK'
  BY <1>1, <1>12 DEF Frame, BodyOver, BodyDropped, Refuse
<1>13. CASE \/ Take \/ Connect \/ Answered \/ DeclareWakes \/ ConfigChanges \/ WindowEnds
            \/ Export \/ Restart \/ Tick \/ Minute \/ UNCHANGED vars
  BY <1>1, <1>13 DEF Take, Connect, Answered, DeclareWakes, ConfigChanges, WindowEnds, Export,
     Restart, Tick, Minute, vars
<1> QED
  BY <1>2, <1>3, <1>4, <1>5, <1>6, <1>7, <1>8, <1>9, <1>10, <1>11, <1>12, <1>13
  DEF Next, DrainStep, DeclareStep, DeliveryStep

\* The deltas, the limits and the clock stay numbers.
LEMMA WorldStep == ASSUME WorldOK, [Next]_vars PROVE WorldOK'
<1>1. ASSUME world' = world PROVE WorldOK'
  BY <1>1 DEF WorldOK
<1>2. ASSUME NEW w, world' = w, WorldShape(w), w.window \in Nat, w.deltas = world.deltas,
             w.shapes = world.shapes
      PROVE  WorldOK'
  BY <1>2 DEF WorldOK
<1>3. CASE ReportBreaks \/ DeclareBreaks \/ StorageError
  <2>1. world' = world \/ world' = [world EXCEPT !.faults = @ - 1]
    BY <1>3 DEF ReportBreaks, DeclareBreaks, StorageError
  <2>2. /\ WorldShape(world') /\ world'.window = world.window
        /\ world'.deltas = world.deltas /\ world'.shapes = world.shapes
    BY <2>1 DEF WorldOK, WorldShape
  <2> QED
    BY <1>2, <2>2 DEF WorldOK
<1>4. CASE ConfigChanges
  <2>1. PICK l : world' = [world EXCEPT !.held = l, !.changes = @ - 1]
    BY <1>4 DEF ConfigChanges
  <2>2. /\ WorldShape(world') /\ world'.window = world.window
        /\ world'.deltas = world.deltas /\ world'.shapes = world.shapes
    BY <2>1 DEF WorldOK, WorldShape
  <2> QED
    BY <1>2, <2>2 DEF WorldOK
<1>5. CASE SyncCalled \/ Crash
  <2>1. world' = [world EXCEPT !.syncs = @ - 1] \/ world' = [world EXCEPT !.crashes = @ - 1]
    BY <1>5 DEF SyncCalled, Crash
  <2>2. /\ WorldShape(world') /\ world'.window = world.window
        /\ world'.deltas = world.deltas /\ world'.shapes = world.shapes
    BY <2>1 DEF WorldOK, WorldShape
  <2> QED
    BY <1>2, <2>2 DEF WorldOK
<1>6. CASE WindowEnds
  <2>1. world' = [world EXCEPT !.window = @ + 1] /\ world.window \in Nat
    BY <1>6 DEF WindowEnds, WorldOK
  <2>2. /\ WorldShape(world') /\ world'.window = world.window + 1
        /\ world'.deltas = world.deltas /\ world'.shapes = world.shapes
    BY <2>1 DEF WorldOK, WorldShape
  <2>3. world'.window \in Nat
    BY <2>1, <2>2
  <2> QED
    BY <1>2, <2>2, <2>3
<1>7. ASSUME NEW r \in Requests, Frame(r) \/ BodyOver(r) \/ BodyDropped(r) \/ Refuse(r)
      PROVE  WorldOK'
  BY <1>1, <1>7 DEF Frame, BodyOver, BodyDropped, Refuse
<1>8. CASE \/ DrainStep \/ DeclareStep \/ SyncQueued \/ Sweep \/ DeliveryStep \/ Export \/ Restart
           \/ Tick \/ Minute \/ UNCHANGED vars
  BY <1>1, <1>8 DEF DrainStep, Take, Connect, Report, Answered, DeclareStep, DeclareWakes, Declare,
     SyncQueued, Sweep, DeliveryStep, ReadDue, Post, Export, Restart, Tick, Minute, vars
<1>9. CASE StorageStep
  BY <1>1, <1>9 DEF StorageStep, StoreWrite, StoreSync, StorePrune, StoreDeclare, StoreDue,
     StoreDelivered, StoreFailed
<1> QED
  BY <1>3, <1>4, <1>5, <1>6, <1>7, <1>8, <1>9 DEF Next

\* A restarted ledger runs under one of its configurations.
LEMMA LedgerStep == ASSUME LedgerOK, [Next]_vars PROVE LedgerOK' /\ ledger'.configs = ledger.configs
<1> SUFFICES LedgerOK' /\ ledger'.configs = ledger.configs
  OBVIOUS
<1>1. ASSUME ledger' = ledger PROVE LedgerOK' /\ ledger'.configs = ledger.configs
  BY <1>1 DEF LedgerOK
<1>2. CASE Crash
  <2>1. ledger' = [ledger EXCEPT !.up = FALSE]
    BY <1>2 DEF Crash
  <2>2. LedgerShape(ledger') /\ ledger'.config = ledger.config /\ ledger'.configs = ledger.configs
    BY <2>1 DEF LedgerOK, LedgerShape
  <2> QED
    BY <2>2 DEF LedgerOK
<1>3. CASE Restart
  <2>1. PICK c \in ledger.configs : ledger' = [ledger EXCEPT !.up = TRUE, !.config = c]
    BY <1>3 DEF Restart
  <2>2. LedgerShape(ledger') /\ ledger'.config = c /\ ledger'.configs = ledger.configs
    BY <2>1 DEF LedgerOK, LedgerShape
  <2> QED
    BY <2>2 DEF LedgerOK
<1>4. ASSUME NEW r \in Requests, Frame(r) \/ BodyOver(r) \/ BodyDropped(r) \/ Refuse(r)
      PROVE  ledger' = ledger
  BY <1>4 DEF Frame, BodyOver, BodyDropped, Refuse
<1>5. CASE \/ DrainStep \/ ReportBreaks \/ DeclareStep \/ DeclareBreaks \/ ConfigChanges \/ SyncCalled
           \/ SyncQueued \/ Sweep \/ WindowEnds \/ DeliveryStep
  BY <1>1, <1>5 DEF DrainStep, Take, Connect, Report, Answered, ReportBreaks, DeclareStep,
     DeclareWakes, Declare, DeclareBreaks, ConfigChanges, SyncCalled, SyncQueued, Sweep, WindowEnds,
     DeliveryStep, ReadDue, Post
<1>6. CASE StorageStep \/ StorageError \/ Export \/ Tick \/ Minute \/ UNCHANGED vars
  BY <1>1, <1>6 DEF StorageStep, StoreWrite, StoreSync, StorePrune, StoreDeclare, StoreDue,
     StoreDelivered, StoreFailed, StorageError, Export, Tick, Minute, vars
<1> QED
  BY <1>1, <1>2, <1>3, <1>4, <1>5, <1>6 DEF Next

----------------------------------------------------------------------------
(* The transactions of the storage thread. *)

\* e is d with these events queued at the identifiers that come next.
Enqueued(d, events, e) ==
  /\ DbShape(e) /\ e.rows = d.rows /\ e.spend = d.spend
  /\ e.nextId = d.nextId + Len(events)
  /\ e.outbox = [id \in DOMAIN e.outbox |-> e.outbox[id]]
  /\ DOMAIN e.outbox = DOMAIN d.outbox \cup (d.nextId .. d.nextId + Len(events) - 1)
  /\ \A id \in DOMAIN d.outbox : e.outbox[id] = d.outbox[id]
  /\ \A id \in d.nextId .. d.nextId + Len(events) - 1 :
       e.outbox[id] = [event |-> events[id - d.nextId + 1], attempts |-> 0, wait |-> 0]

\* events::enqueue: the outbox grows by the events, under ids nobody used.
LEMMA EnqueueIs ==
  ASSUME NEW d, DbShape(d), d.nextId \in Nat \ {0}, DOMAIN d.outbox \subseteq 1 .. d.nextId - 1,
         NEW events, IsSeq(events), NEW e, e = enqueue(d, events)
  PROVE  Enqueued(d, events, e)
<1> DEFINE box == [id \in DOMAIN d.outbox \cup (d.nextId .. d.nextId + Len(events) - 1) |->
                     IF id < d.nextId THEN d.outbox[id]
                     ELSE [event |-> events[id - d.nextId + 1], attempts |-> 0, wait |-> 0]]
           next == d.nextId + Len(events)
<1>1. e = [d EXCEPT !.outbox = box, !.nextId = next]
  BY DEF enqueue
<1>0. Len(events) \in Nat
  BY SeqLength
<1>2. /\ DOMAIN box = DOMAIN d.outbox \cup (d.nextId .. d.nextId + Len(events) - 1)
      /\ \A id \in DOMAIN d.outbox : box[id] = d.outbox[id]
      /\ \A id \in d.nextId .. d.nextId + Len(events) - 1 :
           box[id] = [event |-> events[id - d.nextId + 1], attempts |-> 0, wait |-> 0]
      /\ box = [id \in DOMAIN box |-> box[id]]
  BY <1>0
<1> HIDE DEF box, next
<1>3. DbShape(e) /\ e.rows = d.rows /\ e.spend = d.spend /\ e.nextId = next /\ e.outbox = box
  BY <1>1 DEF DbShape
<1> QED
  BY <1>2, <1>3 DEF next, Enqueued

\* A transaction that queued these events.
Grown(E) ==
  /\ IsSeq(E) /\ DbShape(db') /\ db'.nextId = db.nextId + Len(E) /\ db'.nextId - 1 <= MaxEvents
  /\ db'.outbox = [id \in DOMAIN db'.outbox |-> db'.outbox[id]]
  /\ DOMAIN db'.outbox = DOMAIN db.outbox \cup (db.nextId .. db.nextId + Len(E) - 1)
  /\ \A id \in DOMAIN db.outbox : db'.outbox[id] = db.outbox[id]
  /\ \A id \in db.nextId .. db.nextId + Len(E) - 1 :
       db'.outbox[id] = [event |-> E[id - db.nextId + 1], attempts |-> 0, wait |-> 0]
  /\ hist'.accepted = hist.accepted \o E
  /\ HistShape(hist') /\ hist'.gone = hist.gone /\ hist'.pruned = hist.pruned

\* The history follows the outbox.
LEMMA AcceptedIs ==
  ASSUME HistOK, db.nextId \in Nat \ {0}, NEW E, IsSeq(E), NEW new, new.nextId = db.nextId + Len(E),
         \A id \in db.nextId .. db.nextId + Len(E) - 1 :
           new.outbox[id] = [event |-> E[id - db.nextId + 1], attempts |-> 0, wait |-> 0]
  PROVE  Accepted(new) = hist.accepted \o E
<1> DEFINE F == [i \in 1 .. new.nextId - db.nextId |-> new.outbox[db.nextId + i - 1].event]
<1>0. Len(E) \in Nat /\ DOMAIN E = 1 .. Len(E)
  BY SeqLength
<1>1. ASSUME NEW i \in 1 .. Len(E) PROVE F[i] = E[i]
  <2>1. /\ db.nextId + i - 1 \in db.nextId .. db.nextId + Len(E) - 1
        /\ (db.nextId + i - 1) - db.nextId + 1 = i /\ new.nextId - db.nextId = Len(E)
    BY <1>0
  <2>2. F[i] = new.outbox[db.nextId + i - 1].event
    BY <2>1
  <2>3. new.outbox[db.nextId + i - 1] = [event |-> E[i], attempts |-> 0, wait |-> 0]
    BY <2>1, Zenon
  <2> HIDE DEF F
  <2> QED
    BY <2>2, <2>3
<1>2. DOMAIN F = 1 .. Len(E) /\ F = [i \in 1 .. Len(E) |-> F[i]]
  BY <1>0
<1>3. E = [i \in 1 .. Len(E) |-> E[i]]
  BY <1>0 DEF IsSeq
<1>4. F = E
  <2> HIDE DEF F
  <2> QED
    BY <1>1, <1>2, <1>3
<1> QED
  BY <1>4 DEF Accepted

\* A transaction on the database that ended in enqueue.
LEMMA EnqueueGrows ==
  ASSUME DbOK, HistOK, NEW d, DbShape(d), d.nextId = db.nextId, d.outbox = db.outbox,
         NEW E, IsSeq(E), db' = enqueue(d, E), db'.nextId - 1 <= MaxEvents,
         hist'.accepted = Accepted(db'), HistShape(hist'), hist'.gone = hist.gone,
         hist'.pruned = hist.pruned
  PROVE  Grown(E) /\ db'.rows = d.rows /\ db'.spend = d.spend
<1>1. d.nextId \in Nat \ {0} /\ DOMAIN d.outbox \subseteq 1 .. d.nextId - 1
  BY DEF DbOK
<1>2. /\ DbShape(db') /\ db'.rows = d.rows /\ db'.spend = d.spend
      /\ db'.nextId = d.nextId + Len(E)
      /\ db'.outbox = [id \in DOMAIN db'.outbox |-> db'.outbox[id]]
      /\ DOMAIN db'.outbox = DOMAIN d.outbox \cup (d.nextId .. d.nextId + Len(E) - 1)
      /\ \A id \in DOMAIN d.outbox : db'.outbox[id] = d.outbox[id]
      /\ \A id \in d.nextId .. d.nextId + Len(E) - 1 :
           db'.outbox[id] = [event |-> E[id - d.nextId + 1], attempts |-> 0, wait |-> 0]
  <2> DEFINE e == db'
  <2>1. e = enqueue(d, E)
    OBVIOUS
  <2> HIDE DEF e
  <2>2. Enqueued(d, E, e)
    BY <1>1, <2>1, EnqueueIs, Zenon
  <2> QED
    BY <2>2, Zenon DEF e, Enqueued
<1>3. Accepted(db') = hist.accepted \o E
  <2> DEFINE e == db'
  <2>1. /\ db.nextId \in Nat \ {0} /\ e.nextId = db.nextId + Len(E)
        /\ \A id \in db.nextId .. db.nextId + Len(E) - 1 :
             e.outbox[id] = [event |-> E[id - db.nextId + 1], attempts |-> 0, wait |-> 0]
    BY <1>1, <1>2, Zenon
  <2> HIDE DEF e
  <2>2. Accepted(e) = hist.accepted \o E
    BY <2>1, AcceptedIs, Zenon
  <2> QED
    BY <2>2 DEF e
<1> QED
  BY <1>2, <1>3, Zenon DEF Grown

\* Store::insert_batch: the rows and the events of the refusals among them.
WroteRows(E) ==
  /\ IsSeq(db'.rows) /\ Len(db'.rows) \in Nat /\ Len(db.rows) <= Len(db'.rows)
  /\ \A i \in 1 .. Len(db.rows) : db'.rows[i] = db.rows[i]
  /\ \A k \in 1 .. Len(E) : \E i \in Len(db.rows) + 1 .. Len(db'.rows) : E[k] = RefusalEvent(i)
  /\ \A k, m \in 1 .. Len(E) : E[k] = E[m] => k = m
  /\ \A i \in Len(db.rows) + 1 .. Len(db'.rows) :
       Kind[db'.rows[i].req] \in ledger.config.refusals =>
         \E k \in 1 .. Len(E) : E[k] = RefusalEvent(i)

\* The records of a batch that are announced, and their events.
RefusalIds(records, refusals) == {i \in 1 .. Len(records) : Kind[records[i].req] \in refusals}
RefusalEvents(rows, ids) == [k \in DOMAIN Ascending(ids) |-> RefusalEvent(Len(rows) + Ascending(ids)[k])]

\* One event for each, once.
RefusalsTold(E, rows, records, refusals) ==
  /\ \A k \in 1 .. Len(E) : \E i \in 1 .. Len(records) : E[k] = RefusalEvent(Len(rows) + i)
  /\ \A k, m \in 1 .. Len(E) : E[k] = E[m] => k = m
  /\ \A i \in 1 .. Len(records) : Kind[records[i].req] \in refusals =>
       \E k \in 1 .. Len(E) : E[k] = RefusalEvent(Len(rows) + i)

LEMMA RefusalsOfBatch ==
  ASSUME NEW rows, IsSeq(rows), NEW records, IsSeq(records), NEW refusals, NEW E,
         E = RefusalEvents(rows, RefusalIds(records, refusals))
  PROVE  IsSeq(E) /\ RefusalsTold(E, rows, records, refusals)
<1> DEFINE ids == RefusalIds(records, refusals)
           order == Ascending(ids)
           N == Cardinality(ids)
<1>0. Len(records) \in Nat /\ Len(rows) \in Nat
  BY SeqLength
<1>1. /\ ids \in SUBSET (1 .. Len(records)) /\ ids \in SUBSET Int
      /\ \A i \in 1 .. Len(records) : i \in ids <=> Kind[records[i].req] \in refusals
  BY <1>0 DEF RefusalIds
<1> HIDE DEF ids
<1>2. IsFiniteSet(ids)
  <2>1. IsFiniteSet(1 .. Len(records))
    BY <1>0, FS_Interval
  <2> QED
    BY <1>1, <2>1, FS_Subset, Zenon
<1>3. /\ N \in Nat /\ IsSeq(order) /\ Len(order) = N
      /\ \A n \in 1 .. N : order[n] \in ids
      /\ \A m, n \in 1 .. N : m < n => order[m] < order[n]
      /\ \A i \in ids : \E n \in 1 .. N : order[n] = i
  BY <1>1, <1>2, AscendingIs, Zenon
<1>4. DOMAIN order = 1 .. N
  BY <1>3, SeqLength
<1>5. E = [k \in 1 .. N |-> RefusalEvent(Len(rows) + order[k])]
  BY <1>4 DEF RefusalEvents, ids
<1> HIDE DEF order, N
<1>6. E \in [1 .. N -> {RefusalEvent(Len(rows) + order[k]) : k \in 1 .. N}]
  BY <1>5
<1>7. IsSeq(E) /\ Len(E) = N
  BY <1>3, <1>6, FunIsSeq
<1>8. \A k \in 1 .. N : E[k] = RefusalEvent(Len(rows) + order[k]) /\ order[k] \in 1 .. Len(records)
  BY <1>1, <1>3, <1>5
<1>9. ASSUME NEW k \in 1 .. N, NEW m \in 1 .. N, E[k] = E[m] PROVE k = m
  <2>1. RefusalEvent(Len(rows) + order[k]) = RefusalEvent(Len(rows) + order[m])
    BY <1>8, <1>9
  <2>2. Len(rows) + order[k] = Len(rows) + order[m]
    BY <2>1 DEF RefusalEvent
  <2>3. order[k] \in Int /\ order[m] \in Int /\ k \in Int /\ m \in Int
    BY <1>0, <1>8, <1>3
  <2>4. order[k] = order[m]
    BY <1>0, <2>2, <2>3
  <2> QED
    BY <1>3, <2>4, <2>3
<1>10. ASSUME NEW i \in 1 .. Len(records), Kind[records[i].req] \in refusals
       PROVE  \E k \in 1 .. N : E[k] = RefusalEvent(Len(rows) + i)
  BY <1>1, <1>3, <1>8, <1>10
<1> QED
  BY <1>7, <1>8, <1>9, <1>10 DEF RefusalsTold

LEMMA StoredWrite ==
  ASSUME DbOK, HistOK, QueueOK, StoreWrite
  PROVE  /\ db'.rows = db.rows \o Head(ops).records
         /\ \E E : Grown(E) /\ WroteRows(E) /\ db'.spend = db.spend /\ hist'.synced = hist.synced
<1> DEFINE records == Head(ops).records
           E == RefusalEvents(db.rows, RefusalIds(records, ledger.config.refusals))
           rows == db.rows \o records
           d == [db EXCEPT !.rows = rows]
<1>1. IsSeq(records) /\ IsSeq(db.rows)
  <2>1. IsSeq(ops) /\ ops # <<>> /\ Head(ops).op = "Write"
    BY DEF StoreWrite, Done, QueueOK
  <2>2. Len(ops) \in Nat \ {0} /\ Head(ops) = ops[1]
    BY <2>1, SeqTail
  <2>3. OpOK(ops[1])
    BY <2>2 DEF QueueOK
  <2> QED
    BY <2>1, <2>2, <2>3 DEF OpOK, DbOK
<1>2. /\ db' = enqueue(d, E) /\ db'.nextId - 1 <= MaxEvents
      /\ hist' = [hist EXCEPT !.accepted = Accepted(db')]
  BY DEF StoreWrite, insert_batch, RefusalEvents, RefusalIds
<1> HIDE DEF records, E, rows
<1>3. DbShape(d) /\ d.nextId = db.nextId /\ d.outbox = db.outbox /\ d.spend = db.spend
      /\ d.rows = rows
  BY DEF DbOK, DbShape
<1> HIDE DEF d
<1>4. /\ HistShape(hist') /\ hist'.accepted = Accepted(db') /\ hist'.gone = hist.gone
      /\ hist'.pruned = hist.pruned /\ hist'.synced = hist.synced
  BY <1>2 DEF HistOK, HistShape
<1>5. /\ IsSeq(E)
      /\ \A k \in 1 .. Len(E) : \E i \in 1 .. Len(records) : E[k] = RefusalEvent(Len(db.rows) + i)
      /\ \A k, m \in 1 .. Len(E) : E[k] = E[m] => k = m
      /\ \A i \in 1 .. Len(records) : Kind[records[i].req] \in ledger.config.refusals =>
           \E k \in 1 .. Len(E) : E[k] = RefusalEvent(Len(db.rows) + i)
  <2>1. E = RefusalEvents(db.rows, RefusalIds(records, ledger.config.refusals))
    BY DEF E
  <2>2. IsSeq(E) /\ RefusalsTold(E, db.rows, records, ledger.config.refusals)
    BY <1>1, <2>1, RefusalsOfBatch, Zenon
  <2> QED
    BY <2>2 DEF RefusalsTold
<1>6. Grown(E) /\ db'.rows = db.rows \o records /\ db'.spend = db.spend
  BY <1>2, <1>3, <1>4, <1>5, EnqueueGrows DEF rows
<1>7. /\ IsSeq(db'.rows) /\ Len(db'.rows) = Len(db.rows) + Len(records)
      /\ \A i \in 1 .. Len(db.rows) : db'.rows[i] = db.rows[i]
      /\ \A i \in 1 .. Len(records) : db'.rows[Len(db.rows) + i] = records[i]
      /\ Len(db.rows) \in Nat /\ Len(records) \in Nat
  BY <1>1, <1>6, SeqConcat, SeqLength
<1>8. \A k \in 1 .. Len(E) : \E i \in Len(db.rows) + 1 .. Len(db'.rows) : E[k] = RefusalEvent(i)
  <2> TAKE k \in 1 .. Len(E)
  <2>1. PICK i \in 1 .. Len(records) : E[k] = RefusalEvent(Len(db.rows) + i)
    BY <1>5
  <2>2. Len(db.rows) + i \in Len(db.rows) + 1 .. Len(db'.rows)
    BY <1>7
  <2> QED
    BY <2>1, <2>2
<1>9. ASSUME NEW i \in Len(db.rows) + 1 .. Len(db'.rows),
             Kind[db'.rows[i].req] \in ledger.config.refusals
      PROVE  \E k \in 1 .. Len(E) : E[k] = RefusalEvent(i)
  <2> DEFINE j == i - Len(db.rows)
  <2>1. j \in 1 .. Len(records) /\ Len(db.rows) + j = i
    BY <1>7
  <2> HIDE DEF j
  <2>2. db'.rows[i] = records[j]
    BY <1>7, <2>1
  <2> QED
    BY <1>5, <1>9, <2>1, <2>2
<1>10. WroteRows(E)
  BY <1>5, <1>7, <1>8, <1>9 DEF WroteRows
<1> QED
  BY <1>4, <1>6, <1>10 DEF records

SpendRows == [spent : Nat, limit : Nat, alerted : Nat]

\* A share in whole percents reaches a threshold exactly when the total does.
LEMMA Reaches ==
  ASSUME NEW a \in Nat, NEW l \in Nat \ {0}, NEW t \in Nat, a >= t * l
  PROVE  a \div l >= t
<1> DEFINE q == a \div l
<1>1. q \in Int /\ a < l * (q + 1)
  OBVIOUS
<1> HIDE DEF q
<1>2. ASSUME q < t PROVE FALSE
  <2>1. q + 1 <= t
    BY <1>1, <1>2
  <2>2. l * (q + 1) <= l * t
    <3>1. PICK d \in Nat : t = (q + 1) + d
      <4>1. t - (q + 1) \in Nat /\ t = (q + 1) + (t - (q + 1))
        BY <1>1, <2>1
      <4> QED
        BY <4>1
    <3>2. l * t = l * (q + 1) + l * d /\ l * d >= 0
      BY <1>1, <3>1
    <3>3. l * (q + 1) \in Int /\ l * t \in Int /\ l * d \in Int
      BY <1>1
    <3> QED
      BY <3>2, <3>3
  <2>3. l * t = t * l /\ l * t \in Int /\ l * (q + 1) \in Int
    BY <1>1
  <2> QED
    BY <1>1, <2>2, <2>3
<1>3. q >= t
  BY <1>1, <1>2
<1> QED
  BY <1>3 DEF q

\* The events of the thresholds a sync crossed, and the row it leaves.
ThresholdEvents(s, w, crossed) == [k \in DOMAIN crossed |-> ThresholdEvent(s, w, crossed[k])]
Noted(row, crossed) ==
  [row EXCEPT !.alerted = IF crossed = <<>> THEN @ ELSE crossed[Len(crossed)]]

ThresholdsTold(E, s, w, before, row, thresholds) ==
  /\ \A k \in 1 .. Len(E) :
       \E p \in Nat : E[k] = ThresholdEvent(s, w, p) /\ before < p /\ p <= row.alerted
  /\ \A k, m \in 1 .. Len(E) : E[k] = E[m] => k = m
  /\ row.alerted = before \/ \E k \in 1 .. Len(E) : E[k] = ThresholdEvent(s, w, row.alerted)
  /\ \A t \in thresholds : row.limit > 0 /\ row.spent * 100 >= t * row.limit => t <= row.alerted

\* budget::sync_alerting
LEMMA ThresholdsOfSync ==
  ASSUME NEW s, NEW w, NEW row, row \in SpendRows,
         NEW thresholds, IsFiniteSet(thresholds), thresholds \subseteq Nat \ {0},
         NEW crossed, crossed = Ascending(Crossed(row, thresholds)),
         NEW after, after = Noted(row, crossed),
         NEW E, E = ThresholdEvents(s, w, crossed)
  PROVE  IsSeq(E) /\ after \in SpendRows /\ ThresholdsTold(E, s, w, row.alerted, after, thresholds)
<1> DEFINE C == Crossed(row, thresholds)
           N == Cardinality(C)
<1>0. row.alerted \in Nat /\ row.spent \in Nat /\ row.limit \in Nat
  BY DEF SpendRows
<1>1. /\ C \in SUBSET thresholds /\ C \in SUBSET Int
      /\ \A t \in C : t \in Nat /\ t > row.alerted
      /\ \A t \in thresholds : row.limit > 0 /\ t > row.alerted /\ (row.spent * 100) \div row.limit >= t
            => t \in C
  <2>1. C \in SUBSET thresholds /\ \A t \in thresholds : t \in Nat
    BY DEF Crossed
  <2>2. \A t \in C : t > row.alerted
    BY DEF Crossed
  <2>3. \A t \in thresholds : row.limit > 0 /\ t > row.alerted
                             /\ (row.spent * 100) \div row.limit >= t => t \in C
    BY DEF Crossed
  <2> HIDE DEF C
  <2> QED
    BY <2>1, <2>2, <2>3
<1> HIDE DEF C
<1>2. IsFiniteSet(C)
  BY <1>1, FS_Subset, Zenon
<1>3. /\ N \in Nat /\ IsSeq(Ascending(C)) /\ Len(Ascending(C)) = N
      /\ \A n \in 1 .. N : Ascending(C)[n] \in C
      /\ \A m, n \in 1 .. N : m < n => Ascending(C)[m] < Ascending(C)[n]
      /\ \A i \in C : \E n \in 1 .. N : Ascending(C)[n] = i
  BY <1>1, <1>2, AscendingIs, Zenon
<1>4. crossed = Ascending(C)
  BY DEF C
<1> HIDE DEF N
<1>5. /\ IsSeq(crossed) /\ Len(crossed) = N /\ DOMAIN crossed = 1 .. N /\ (crossed = <<>> <=> N = 0)
      /\ \A n \in 1 .. N : crossed[n] \in C /\ crossed[n] \in Nat /\ crossed[n] > row.alerted
      /\ \A m, n \in 1 .. N : m < n => crossed[m] < crossed[n]
      /\ \A i \in C : \E n \in 1 .. N : crossed[n] = i
  BY <1>1, <1>3, <1>4, SeqLength
<1>6. /\ after.spent = row.spent /\ after.limit = row.limit
      /\ after.alerted = IF N = 0 THEN row.alerted ELSE crossed[N]
      /\ after \in SpendRows
  <2>1. after.spent = row.spent /\ after.limit = row.limit
        /\ after.alerted = (IF crossed = <<>> THEN row.alerted ELSE crossed[Len(crossed)])
        /\ (after.alerted \in Nat => after \in SpendRows)
    BY DEF Noted, SpendRows
  <2>2. after.alerted = IF N = 0 THEN row.alerted ELSE crossed[N]
    BY <1>5, <2>1
  <2>3. after.alerted \in Nat
    BY <1>0, <1>3, <1>5, <2>2
  <2> QED
    BY <2>1, <2>2, <2>3
<1>7. E = [k \in 1 .. N |-> ThresholdEvent(s, w, crossed[k])]
  BY <1>5 DEF ThresholdEvents
<1>8. E \in [1 .. N -> {ThresholdEvent(s, w, crossed[k]) : k \in 1 .. N}]
  BY <1>7
<1>9. IsSeq(E) /\ Len(E) = N /\ \A k \in 1 .. N : E[k] = ThresholdEvent(s, w, crossed[k])
  <2>1. IsSeq(E) /\ Len(E) = N
    BY <1>3, <1>8, FunIsSeq
  <2> QED
    BY <1>7, <2>1
<1>10. ASSUME NEW n \in 1 .. N PROVE crossed[n] <= after.alerted
  <2>1. /\ N # 0 /\ N \in 1 .. N /\ (n = N \/ n < N) /\ after.alerted = crossed[N]
    BY <1>3, <1>6
  <2>2. crossed[n] \in Nat /\ crossed[N] \in Nat /\ (n < N => crossed[n] < crossed[N])
    BY <1>5, <2>1
  <2> QED
    BY <2>1, <2>2
<1>11. ASSUME NEW k \in 1 .. N, NEW m \in 1 .. N, E[k] = E[m] PROVE k = m
  <2>1. ThresholdEvent(s, w, crossed[k]) = ThresholdEvent(s, w, crossed[m])
    BY <1>9, <1>11
  <2>2. crossed[k] = crossed[m]
    BY <2>1 DEF ThresholdEvent
  <2>3. k < m \/ m < k \/ k = m
    BY <1>3
  <2>4. crossed[k] \in Nat /\ ~(crossed[k] < crossed[m]) /\ ~(crossed[m] < crossed[k])
    BY <1>5, <2>2
  <2> QED
    BY <1>5, <2>3, <2>4
<1>12. after.alerted = row.alerted \/ \E k \in 1 .. N : E[k] = ThresholdEvent(s, w, after.alerted)
  BY <1>3, <1>6, <1>9
<1>13. ASSUME NEW t \in thresholds, after.limit > 0, after.spent * 100 >= t * after.limit
       PROVE  t <= after.alerted
  <2>1. t \in Nat /\ row.limit \in Nat \ {0} /\ row.spent * 100 \in Nat /\ row.spent * 100 >= t * row.limit
    BY <1>0, <1>6, <1>13
  <2>2. (row.spent * 100) \div row.limit >= t
    BY <2>1, Reaches
  <2>3. CASE t > row.alerted
    <3>1. t \in C
      BY <1>1, <2>1, <2>2, <2>3
    <3> QED
      BY <1>5, <1>10, <3>1
  <2>4. CASE ~(t > row.alerted)
    <3>1. after.alerted \in Nat /\ row.alerted <= after.alerted
      <4>1. CASE N = 0
        BY <1>0, <1>6, <4>1
      <4>2. CASE N # 0
        <5>1. N \in 1 .. N
          BY <1>3, <4>2
        <5>2. after.alerted = crossed[N] /\ crossed[N] \in Nat /\ crossed[N] > row.alerted
          BY <1>5, <1>6, <4>2, <5>1
        <5> QED
          BY <1>0, <5>2
      <4> QED
        BY <4>1, <4>2
    <3> QED
      BY <1>0, <2>1, <2>4, <3>1
  <2> QED
    BY <2>3, <2>4
<1>14. \A k \in 1 .. N : \E p \in Nat : E[k] = ThresholdEvent(s, w, p) /\ row.alerted < p /\ p <= after.alerted
  BY <1>0, <1>5, <1>9, <1>10
<1> QED
  BY <1>6, <1>9, <1>11, <1>12, <1>13, <1>14 DEF ThresholdsTold

\* The row a sync finds, and what it makes of it.
LEMMA FoundRow == ASSUME SpendOK, NEW s, NEW w PROVE SpendRow(db, s, w) \in SpendRows
BY DEF SpendRow, SpendRows, SpendOK

LEMMA SyncedRow ==
  ASSUME NEW old \in SpendRows, NEW delta \in Nat, NEW limit \in Nat
  PROVE  LET row == [old EXCEPT !.spent = @ + delta, !.limit = IF limit > 0 THEN limit ELSE @]
         IN row \in SpendRows /\ row.alerted = old.alerted
<1>1. old.spent + delta \in Nat /\ old.alerted \in Nat /\ old.limit \in Nat
  BY DEF SpendRows
<1> QED
  BY <1>1 DEF SpendRows

\* Store::sync_spend
LEMMA StoredSync ==
  ASSUME DbOK, SpendOK, HistOK, QueueOK, LedgerOK, StoreSync
  PROVE  \E E, row : \E s \in Subjects, w \in Nat :
           /\ Grown(E) /\ db'.rows = db.rows /\ row \in SpendRows
           /\ db'.spend = Put(db.spend, <<s, w>>, row)
           /\ ThresholdsTold(E, s, w, SpendRow(db, s, w).alerted, row, ledger.config.thresholds)
           /\ hist'.synced = hist.synced \cup {<<s, w>>}
<1> DEFINE c == Head(ops)
           s == c.subject
           w == c.window
           old == SpendRow(db, s, w)
           row == [old EXCEPT !.spent = @ + c.delta, !.limit = IF c.limit > 0 THEN c.limit ELSE @]
           thresholds == ledger.config.thresholds
           crossed == Ascending(Crossed(row, thresholds))
           after == Noted(row, crossed)
           told == IF c.limit > 0 THEN upsert_policy(db, Policy, c.limit) ELSE db
           spend == Put(db.spend, <<s, w>>, after)
           d == [told EXCEPT !.spend = spend]
           E == ThresholdEvents(s, w, crossed)
<1>1. s \in Subjects /\ w \in Nat /\ c.delta \in Nat /\ c.limit \in Nat
  <2>1. IsSeq(ops) /\ ops # <<>> /\ Head(ops).op = "SyncSpend"
    BY DEF StoreSync, Done, QueueOK
  <2>2. Len(ops) \in Nat \ {0} /\ Head(ops) = ops[1]
    BY <2>1, SeqTail
  <2>3. OpOK(ops[1])
    BY <2>2 DEF QueueOK
  <2> QED
    BY <2>1, <2>2, <2>3 DEF OpOK, SyncOK
<1>2. /\ told.spend = db.spend /\ told.nextId = db.nextId /\ told.outbox = db.outbox
      /\ told.rows = db.rows /\ DbShape(told)
  BY DEF upsert_policy, DbOK, DbShape
<1>3. /\ db' = enqueue(d, E) /\ db'.nextId - 1 <= MaxEvents
      /\ hist' = [hist EXCEPT !.accepted = Accepted(db'), !.synced = @ \cup {<<s, w>>}]
  <2>1. \E new \in {sync_spend(db, Policy, s, w, c.delta, c.limit, ledger.config)} :
          /\ new.nextId - 1 <= MaxEvents
          /\ db' = new
          /\ hist' = [hist EXCEPT !.accepted = Accepted(new), !.synced = @ \cup {<<s, w>>}]
    BY Zenon DEF StoreSync
  <2>2. sync_spend(db, Policy, s, w, c.delta, c.limit, ledger.config)
          = enqueue([told EXCEPT !.spend = Put(@, <<s, w>>, after)], E)
    BY Zenon DEF sync_spend, ThresholdEvents, Noted
  <2>3. [told EXCEPT !.spend = Put(@, <<s, w>>, after)] = d
    <3> HIDE DEF told, after
    <3> QED
      BY <1>2
  <2> HIDE DEF d, E, told
  <2> QED
    BY <2>1, <2>2, <2>3
<1>4. old \in SpendRows /\ row \in SpendRows /\ row.alerted = old.alerted
  <2>1. c.delta \in Nat /\ c.limit \in Nat
    BY <1>1
  <2>2. old \in SpendRows
    BY FoundRow
  <2> HIDE DEF c, old
  <2> QED
    BY <2>1, <2>2, SyncedRow
<1>5. IsFiniteSet(thresholds) /\ thresholds \subseteq Nat \ {0}
  BY DEF LedgerOK
<1>6. IsSeq(E) /\ after \in SpendRows /\ ThresholdsTold(E, s, w, row.alerted, after, thresholds)
  <2>1. row \in SpendRows
    BY <1>4
  <2>2. /\ crossed = Ascending(Crossed(row, thresholds)) /\ after = Noted(row, crossed)
        /\ E = ThresholdEvents(s, w, crossed)
    OBVIOUS
  <2> HIDE DEF row, thresholds, s, w, crossed, after, E
  <2> QED
    BY <2>1, <2>2, <1>5, ThresholdsOfSync, Zenon
<1> HIDE DEF c, s, w, old, row, thresholds, crossed, after, told, E, spend
<1>7. /\ DbShape(d) /\ d.nextId = db.nextId /\ d.outbox = db.outbox /\ d.rows = db.rows
      /\ d.spend = spend
  BY <1>2 DEF DbShape
<1> HIDE DEF d
<1>8. /\ HistShape(hist') /\ hist'.accepted = Accepted(db') /\ hist'.gone = hist.gone
      /\ hist'.pruned = hist.pruned /\ hist'.synced = hist.synced \cup {<<s, w>>}
  <2> DEFINE a == Accepted(db')
             y == hist.synced \cup {<<s, w>>}
  <2>1. hist' = [hist EXCEPT !.accepted = a, !.synced = y]
    BY <1>3 DEF HistOK, HistShape
  <2> HIDE DEF a, y
  <2>2. /\ HistShape(hist') /\ hist'.accepted = a /\ hist'.gone = hist.gone
        /\ hist'.pruned = hist.pruned /\ hist'.synced = y
    BY <2>1 DEF HistOK, HistShape
  <2> QED
    BY <2>2 DEF a, y
<1>9. Grown(E) /\ db'.rows = db.rows /\ db'.spend = spend
  BY <1>3, <1>6, <1>7, <1>8, EnqueueGrows
<1>10. /\ db'.spend = Put(db.spend, <<s, w>>, after)
       /\ ThresholdsTold(E, s, w, SpendRow(db, s, w).alerted, after, ledger.config.thresholds)
  BY <1>4, <1>6, <1>9 DEF spend, old, thresholds
<1> QED
  BY <1>1, <1>6, <1>8, <1>9, <1>10

\* Where the delivery task is, and what it has of the outbox: the round's
\* events are in the outbox with the attempts it read, each once.
HookNames == {"DueEvents", "EventDelivered", "EventFailed"}

HookShape(h) == h = [pc |-> h.pc, due |-> h.due]

RoundOK ==
  /\ HookShape(hook) /\ IsSeq(hook.due)
  /\ hook.pc \in {"asleep", "reading", "posting", "clearing"}
  /\ hook.pc \in {"asleep", "reading"} => hook.due = <<>>
  /\ hook.pc = "posting" => hook.due # <<>>
  /\ \A n \in 1 .. Len(hook.due) :
       /\ hook.due[n].id \in DOMAIN db.outbox
       /\ hook.due[n].attempts = db.outbox[hook.due[n].id].attempts
  /\ \A m, n \in 1 .. Len(hook.due) : hook.due[m].id = hook.due[n].id => m = n

\* The operation the task waits for.
AskedOK(o, task, outbox, got) ==
  /\ o.op = "DueEvents" => task.pc = "reading"
  /\ o.op \in {"EventDelivered", "EventFailed"} =>
       /\ task.pc = "clearing" /\ o.id \in DOMAIN outbox
       /\ \A n \in 1 .. Len(task.due) : task.due[n].id # o.id
  /\ o.op = "EventDelivered" => o.id \in got
  /\ o.op = "EventFailed" => task.due = <<>> /\ o.attempts = outbox[o.id].attempts

\* It waits for one at a time.
AsksOnce ==
  \A i \in 1 .. Len(ops) : ops[i].op \in HookNames =>
    /\ AskedOK(ops[i], hook, db.outbox, seen)
    /\ \A j \in 1 .. Len(ops) : ops[j].op \in HookNames => j = i

HookOK == RoundOK /\ AsksOnce

\* The head of the queue.
LEMMA HeadIs ==
  ASSUME QueueOK, NEW name, Done(name)
  PROVE  /\ IsSeq(ops) /\ Len(ops) \in Nat \ {0} /\ Head(ops) = ops[1] /\ ops[1].op = name
         /\ OpOK(ops[1]) /\ ops' = Tail(ops) /\ ops # <<>>
<1>1. IsSeq(ops) /\ ops # <<>> /\ Head(ops).op = name /\ ops' = Tail(ops)
  BY DEF Done, QueueOK
<1>2. Len(ops) \in Nat \ {0} /\ Head(ops) = ops[1]
  BY <1>1, SeqTail
<1>3. OpOK(ops[1])
  BY <1>2 DEF QueueOK
<1> QED
  BY <1>1, <1>2, <1>3

\* A transaction that touches neither rows nor spend nor the ids given out.
Kept ==
  /\ DbShape(db') /\ db'.rows = db.rows /\ db'.spend = db.spend /\ db'.nextId = db.nextId

LEMMA PolicyStep ==
  ASSUME DbOK, StoreDeclare \/ Minute
  PROVE  Kept /\ db'.outbox = db.outbox
<1>1. \E p : db' = [db EXCEPT !.policies = p]
  BY DEF StoreDeclare, Minute, declare, Aged, DbOK, DbShape
<1> QED
  BY <1>1 DEF DbOK, DbShape, Kept

\* A row of the outbox with another wait is one.
LEMMA RowWaits ==
  ASSUME NEW e, OutboxRow(e), NEW x, NEW w, x = [e EXCEPT !.wait = w]
  PROVE  OutboxRow(x) /\ x.attempts = e.attempts
BY DEF OutboxRow

LEMMA TickStep ==
  ASSUME DbOK, Tick
  PROVE  /\ Kept /\ DOMAIN db'.outbox = DOMAIN db.outbox
         /\ db'.outbox = [id \in DOMAIN db'.outbox |-> db'.outbox[id]]
         /\ \A id \in DOMAIN db.outbox :
              OutboxRow(db'.outbox[id]) /\ db'.outbox[id].attempts = db.outbox[id].attempts
<1> DEFINE wait(i) == IF db.outbox[i].wait > 0 THEN db.outbox[i].wait - 1 ELSE 0
           box == [i \in DOMAIN db.outbox |-> [db.outbox[i] EXCEPT !.wait = wait(i)]]
<1>1. db' = [db EXCEPT !.outbox = box]
  BY DEF Tick, Waited
<1> HIDE DEF wait
<1>3. ASSUME NEW id \in DOMAIN db.outbox
      PROVE  OutboxRow(box[id]) /\ box[id].attempts = db.outbox[id].attempts
  <2>1. box[id] = [db.outbox[id] EXCEPT !.wait = wait(id)]
    OBVIOUS
  <2>2. OutboxRow(db.outbox[id])
    BY DEF DbOK
  <2> HIDE DEF box
  <2> QED
    BY <2>1, <2>2, RowWaits, Zenon
<1>4. DOMAIN box = DOMAIN db.outbox /\ box = [id \in DOMAIN box |-> box[id]]
  OBVIOUS
<1> HIDE DEF box
<1>5. Kept /\ db'.outbox = box
  BY <1>1 DEF DbOK, DbShape, Kept
<1> QED
  BY <1>3, <1>4, <1>5

\* An event that leaves the outbox.
Left(id) ==
  /\ DOMAIN db'.outbox = DOMAIN db.outbox \ {id}
  /\ db'.outbox = [i \in DOMAIN db'.outbox |-> db'.outbox[i]]
  /\ \A i \in DOMAIN db'.outbox : db'.outbox[i] = db.outbox[i]

LEMMA WithoutIs ==
  ASSUME DbOK, NEW id, db' = [db EXCEPT !.outbox = Without(@, id)]
  PROVE  Kept /\ Left(id)
<1> DEFINE box == [i \in DOMAIN db.outbox \ {id} |-> db.outbox[i]]
<1>1. db' = [db EXCEPT !.outbox = box]
  BY DEF Without
<1>2. /\ DOMAIN box = DOMAIN db.outbox \ {id} /\ box = [i \in DOMAIN box |-> box[i]]
      /\ \A i \in DOMAIN box : box[i] = db.outbox[i]
  OBVIOUS
<1> HIDE DEF box
<1>3. Kept /\ db'.outbox = box
  BY <1>1 DEF DbOK, DbShape, Kept
<1> QED
  BY <1>2, <1>3 DEF Left

\* A refused delivery is counted.
Counted(id) ==
  /\ DOMAIN db'.outbox = DOMAIN db.outbox
  /\ db'.outbox = [i \in DOMAIN db'.outbox |-> db'.outbox[i]]
  /\ \A i \in DOMAIN db.outbox : i # id => db'.outbox[i] = db.outbox[i]
  /\ id \in DOMAIN db.outbox =>
       OutboxRow(db'.outbox[id]) /\ db'.outbox[id].attempts = db.outbox[id].attempts + 1

LEMMA CountedIs ==
  ASSUME DbOK, NEW id \in DOMAIN db.outbox, ~Drops(db.outbox[id].attempts),
         db' = failed(db, id, db.outbox[id].attempts)
  PROVE  Kept /\ Counted(id)
<1> DEFINE n == db.outbox[id].attempts + 1
           pause == backoff_secs(n)
           row == [db.outbox[id] EXCEPT !.attempts = n, !.wait = pause]
           box == [i \in DOMAIN db.outbox |-> IF i = id THEN row ELSE db.outbox[i]]
<1>1. db' = [db EXCEPT !.outbox = box]
  BY DEF failed
<1>0. OutboxRow(db.outbox[id])
  BY DEF DbOK
<1>2. n \in Nat
  BY <1>0 DEF OutboxRow
<1> HIDE DEF n, pause
<1>3. OutboxRow(row) /\ row.attempts = n
  <2> DEFINE e == db.outbox[id]
  <2>1. row = [e EXCEPT !.attempts = n, !.wait = pause] /\ OutboxRow(e)
    BY <1>0
  <2> HIDE DEF row, e
  <2> QED
    BY <1>2, <2>1 DEF OutboxRow
<1> HIDE DEF row
<1>4. /\ DOMAIN box = DOMAIN db.outbox /\ box = [i \in DOMAIN box |-> box[i]] /\ box[id] = row
      /\ \A i \in DOMAIN db.outbox : i # id => box[i] = db.outbox[i]
  OBVIOUS
<1> HIDE DEF box
<1>5. Kept /\ db'.outbox = box
  BY <1>1 DEF DbOK, DbShape, Kept
<1> QED
  BY <1>3, <1>4, <1>5 DEF Counted, n

\* The end of a delivery: what it did to the outbox, and that it counts the
\* attempt the outbox holds.
LEMMA DeliveryEnds ==
  ASSUME DbOK, HistOK, QueueOK, HookOK, StoreDelivered \/ StoreFailed
  PROVE  \E id \in DOMAIN db.outbox :
           /\ Kept /\ HistShape(hist') /\ hist'.accepted = hist.accepted
           /\ hist'.synced = hist.synced /\ hist'.pruned = hist.pruned
           /\ \/ StoreDelivered /\ Left(id) /\ id \in seen /\ hist'.gone = hist.gone
              \/ /\ StoreFailed /\ Drops(db.outbox[id].attempts) /\ Left(id)
                 /\ hist'.gone = hist.gone \cup {id}
              \/ StoreFailed /\ ~Drops(db.outbox[id].attempts) /\ Counted(id) /\ hist'.gone = hist.gone
           /\ \A n \in 1 .. Len(hook.due) : hook.due[n].id # id
<1> DEFINE o == ops[1]
<1>1. /\ Len(ops) \in Nat \ {0} /\ Head(ops) = o /\ o.op \in {"EventDelivered", "EventFailed"}
      /\ StoreDelivered => o.op = "EventDelivered"
      /\ StoreFailed => o.op = "EventFailed"
  <2>1. CASE StoreDelivered
    <3>1. Done("EventDelivered")
      BY <2>1 DEF StoreDelivered
    <3>2. ~StoreFailed
      BY <3>1 DEF StoreFailed, Done
    <3> QED
      BY <3>1, <3>2, HeadIs
  <2>2. CASE StoreFailed
    <3>1. Done("EventFailed")
      BY <2>2 DEF StoreFailed
    <3>2. ~StoreDelivered
      BY <3>1 DEF StoreDelivered, Done
    <3> QED
      BY <3>1, <3>2, HeadIs
  <2> QED
    BY <2>1, <2>2
<1>2. AskedOK(o, hook, db.outbox, seen)
  <2>1. 1 \in 1 .. Len(ops) /\ ops[1].op \in HookNames
    BY <1>1 DEF HookNames
  <2> QED
    BY <2>1 DEF HookOK, AsksOnce
<1>3. /\ o.id \in DOMAIN db.outbox /\ \A n \in 1 .. Len(hook.due) : hook.due[n].id # o.id
  BY <1>1, <1>2 DEF AskedOK
<1>4. CASE StoreDelivered
  <2>1. /\ db' = [db EXCEPT !.outbox = Without(@, o.id)] /\ hist' = hist
    BY <1>1, <1>4 DEF StoreDelivered, delivered
  <2>2. o.id \in seen
    BY <1>1, <1>2, <1>4 DEF AskedOK
  <2>3. Kept /\ Left(o.id)
    BY <2>1, WithoutIs
  <2> QED
    BY <1>3, <1>4, <2>1, <2>2, <2>3 DEF HistOK
<1>5. CASE StoreFailed
  <2>1. /\ db' = failed(db, o.id, db.outbox[o.id].attempts)
        /\ hist' = [hist EXCEPT !.gone = IF Drops(db.outbox[o.id].attempts) THEN @ \cup {o.id} ELSE @]
    BY <1>1, <1>2, <1>5 DEF StoreFailed, AskedOK
  <2>2. CASE Drops(db.outbox[o.id].attempts)
    <3>1. db' = [db EXCEPT !.outbox = Without(@, o.id)]
      BY <2>1, <2>2 DEF failed
    <3>2. Kept /\ Left(o.id)
      BY <3>1, WithoutIs
    <3>3. /\ HistShape(hist') /\ hist'.accepted = hist.accepted /\ hist'.gone = hist.gone \cup {o.id}
          /\ hist'.synced = hist.synced /\ hist'.pruned = hist.pruned
      <4> DEFINE g == hist.gone \cup {o.id}
      <4>1. hist' = [hist EXCEPT !.gone = g]
        BY <2>1, <2>2
      <4> HIDE DEF g
      <4>2. /\ HistShape(hist') /\ hist'.accepted = hist.accepted /\ hist'.gone = g
            /\ hist'.synced = hist.synced /\ hist'.pruned = hist.pruned
        BY <4>1 DEF HistOK, HistShape
      <4> QED
        BY <4>2 DEF g
    <3> QED
      BY <1>3, <1>5, <2>2, <3>2, <3>3
  <2>3. CASE ~Drops(db.outbox[o.id].attempts)
    <3>1. Kept /\ Counted(o.id)
      BY <1>3, <2>1, <2>3, CountedIs
    <3>2. /\ HistShape(hist') /\ hist'.accepted = hist.accepted /\ hist'.gone = hist.gone
          /\ hist'.synced = hist.synced /\ hist'.pruned = hist.pruned
      BY <2>1, <2>3 DEF HistOK, HistShape
    <3> QED
      BY <1>3, <1>5, <2>3, <3>1, <3>2
  <2> QED
    BY <2>2, <2>3
<1> QED
  BY <1>4, <1>5

\* budget::prune: the windows that ended go, and nothing else.
Pruned ==
  /\ DbShape(db') /\ db'.rows = db.rows /\ db'.nextId = db.nextId /\ db'.outbox = db.outbox
  /\ DOMAIN db'.spend \subseteq DOMAIN db.spend
  /\ db'.spend = [k \in DOMAIN db'.spend |-> db'.spend[k]]
  /\ \A k \in DOMAIN db'.spend : db'.spend[k] = db.spend[k]
  /\ HistShape(hist') /\ hist'.accepted = hist.accepted /\ hist'.gone = hist.gone
  /\ hist'.synced = hist.synced
  /\ hist'.pruned = hist.pruned \cup (DOMAIN db.spend \ DOMAIN db'.spend)

LEMMA PruneStep == ASSUME DbOK, HistOK, StorePrune PROVE Pruned
<1> DEFINE spend == [k \in {d \in DOMAIN db.spend : d[2] >= Head(ops).now} |-> db.spend[k]]
           gone == hist.pruned \cup (DOMAIN db.spend \ DOMAIN db'.spend)
<1>1. db' = [db EXCEPT !.spend = spend] /\ hist' = [hist EXCEPT !.pruned = gone]
  BY DEF StorePrune, prune, HistOK, HistShape
<1>2. /\ DOMAIN spend \subseteq DOMAIN db.spend /\ spend = [k \in DOMAIN spend |-> spend[k]]
      /\ \A k \in DOMAIN spend : spend[k] = db.spend[k]
  OBVIOUS
<1> HIDE DEF spend, gone
<1>3. /\ DbShape(db') /\ db'.rows = db.rows /\ db'.nextId = db.nextId /\ db'.outbox = db.outbox
      /\ db'.spend = spend
  BY <1>1 DEF DbOK, DbShape
<1>4. /\ HistShape(hist') /\ hist'.accepted = hist.accepted /\ hist'.gone = hist.gone
      /\ hist'.synced = hist.synced /\ hist'.pruned = gone
  BY <1>1 DEF HistOK, HistShape
<1> QED
  BY <1>2, <1>3, <1>4 DEF Pruned, gone

\* A crash forgets which rows were synced, and may lose the answer of a report.
LEMMA CrashHist ==
  ASSUME HistOK, Crash
  PROVE  \E x : hist' = [hist EXCEPT !.synced = {}, !.lost = x]
<1>1. CASE hist' = [hist EXCEPT !.synced = {}, !.lost = @ + 1]
  BY <1>1, Zenon
<1>2. CASE hist' = [hist EXCEPT !.synced = {}]
  <2>1. hist' = [hist EXCEPT !.synced = {}, !.lost = hist.lost]
    BY <1>2 DEF HistOK, HistShape
  <2> QED
    BY <2>1, Zenon
<1> QED
  BY <1>1, <1>2 DEF Crash


\* What no other step touches: a crash only forgets which rows were synced.
Untouched ==
  /\ Kept /\ db'.outbox = db.outbox
  /\ HistShape(hist') /\ hist'.accepted = hist.accepted /\ hist'.gone = hist.gone
  /\ hist'.pruned = hist.pruned
  /\ hist'.synced \in {hist.synced, {}}

LEMMA OtherSteps ==
  ASSUME DbOK, HistOK, [Next]_vars, ~StoreWrite, ~StoreSync, ~StorePrune, ~StoreDelivered,
         ~StoreFailed, ~Tick
  PROVE  Untouched
<1>1. ASSUME db' = db, hist' = hist PROVE Untouched
  BY <1>1 DEF Untouched, Kept, DbOK, HistOK
<1>2. ASSUME db' = db, HistShape(hist'), hist'.accepted = hist.accepted, hist'.gone = hist.gone,
             hist'.pruned = hist.pruned, hist'.synced \in {hist.synced, {}}
      PROVE  Untouched
  BY <1>2 DEF Untouched, Kept, DbOK
<1>3. ASSUME NEW r \in Requests, BodyOver(r) \/ BodyDropped(r) PROVE Untouched
  <2>1. CASE resp[r].finished
    BY <1>1, <1>3, <2>1 DEF BodyOver, BodyDropped, Finish
  <2>2. CASE ~resp[r].finished
    <3>1. /\ db' = db
          /\ hist' = [hist EXCEPT !.settled[r] = Append(@, finish(resp[r].tracker)), !.made = @ + 1]
      BY <1>3, <2>2 DEF BodyOver, BodyDropped, Finish
    <3>2. \E x, y : hist' = [hist EXCEPT !.settled = x, !.made = y]
      BY <3>1 DEF HistOK, HistShape
    <3>3. /\ HistShape(hist') /\ hist'.accepted = hist.accepted /\ hist'.gone = hist.gone
          /\ hist'.pruned = hist.pruned /\ hist'.synced = hist.synced
      BY <3>2 DEF HistOK, HistShape
    <3> QED
      BY <1>2, <3>1, <3>3
  <2> QED
    BY <2>1, <2>2
<1>4. ASSUME NEW r \in Requests, Refuse(r) PROVE Untouched
  <2>1. db' = db /\ hist' = [hist EXCEPT !.made = @ + 1]
    BY <1>4 DEF Refuse
  <2>2. /\ HistShape(hist') /\ hist'.accepted = hist.accepted /\ hist'.gone = hist.gone
        /\ hist'.pruned = hist.pruned /\ hist'.synced = hist.synced
    BY <2>1 DEF HistOK, HistShape
  <2> QED
    BY <1>2, <2>1, <2>2
<1>5. CASE ReportBreaks
  <2>1. db' = db /\ \E x : hist' = [hist EXCEPT !.lost = x]
    BY <1>5 DEF ReportBreaks
  <2>2. /\ HistShape(hist') /\ hist'.accepted = hist.accepted /\ hist'.gone = hist.gone
        /\ hist'.pruned = hist.pruned /\ hist'.synced = hist.synced
    BY <2>1 DEF HistOK, HistShape
  <2> QED
    BY <1>2, <2>1, <2>2
<1>6. CASE Crash
  <2>1. db' = db /\ \E x : hist' = [hist EXCEPT !.synced = {}, !.lost = x]
    BY <1>6, CrashHist DEF Crash
  <2>2. /\ HistShape(hist') /\ hist'.accepted = hist.accepted /\ hist'.gone = hist.gone
        /\ hist'.pruned = hist.pruned /\ hist'.synced = {}
    BY <2>1 DEF HistOK, HistShape
  <2> QED
    BY <1>2, <1>6, <2>1, <2>2
<1>7. CASE StoreDeclare \/ Minute
  <2>1. hist' = hist /\ Kept /\ db'.outbox = db.outbox
    BY <1>7, PolicyStep DEF StoreDeclare, Minute
  <2> QED
    BY <2>1 DEF Untouched, HistOK
<1>8. ASSUME NEW r \in Requests, Frame(r) PROVE Untouched
  BY <1>1, <1>8 DEF Frame
<1>9. CASE \/ DrainStep \/ DeclareStep \/ DeclareBreaks \/ ConfigChanges \/ SyncCalled
           \/ SyncQueued \/ Sweep \/ WindowEnds \/ DeliveryStep
  BY <1>1, <1>9 DEF DrainStep, Take, Connect, Report, Answered, DeclareStep, DeclareWakes, Declare,
     DeclareBreaks, ConfigChanges, SyncCalled, SyncQueued, Sweep, WindowEnds, DeliveryStep, ReadDue, Post
<1>10. CASE StoreDue \/ StorageError \/ Export \/ Restart \/ UNCHANGED vars
  BY <1>1, <1>10 DEF StoreDue, StorageError, Export, Restart, vars
<1> QED
  BY <1>3, <1>4, <1>5, <1>6, <1>7, <1>8, <1>9, <1>10 DEF Next, StorageStep

\* The outbox after the events of a transaction.
LEMMA GrownOK == ASSUME DbOK, HistOK, NEW E, Grown(E), IsSeq(db'.rows) PROVE DbOK' /\ HistOK'
<1>1. /\ Len(E) \in Nat /\ db.nextId \in Nat \ {0} /\ db'.nextId = db.nextId + Len(E)
      /\ db'.nextId - 1 <= MaxEvents
  BY SeqLength DEF Grown, DbOK
<1>2. DOMAIN db'.outbox \subseteq 1 .. db'.nextId - 1
  BY <1>1 DEF Grown, DbOK
<1>3. ASSUME NEW id \in DOMAIN db'.outbox PROVE OutboxRow(db'.outbox[id])
  <2>1. CASE id \in DOMAIN db.outbox
    BY <2>1 DEF Grown, DbOK
  <2>2. CASE id \in db.nextId .. db.nextId + Len(E) - 1
    <3>1. db'.outbox[id] = [event |-> E[id - db.nextId + 1], attempts |-> 0, wait |-> 0]
      BY <2>2 DEF Grown
    <3> DEFINE x == E[id - db.nextId + 1]
    <3> HIDE DEF x
    <3> QED
      BY <3>1 DEF OutboxRow, x
  <2> QED
    BY <2>1, <2>2 DEF Grown
<1>4. /\ DbShape(db') /\ db'.outbox = [id \in DOMAIN db'.outbox |-> db'.outbox[id]]
      /\ hist'.accepted = hist.accepted \o E /\ HistShape(hist') /\ IsSeq(E)
  BY DEF Grown
<1>5. IsSeq(hist'.accepted) /\ Len(hist'.accepted) = Len(hist.accepted) + Len(E)
  BY <1>4, SeqConcat DEF HistOK
<1>6. Len(hist'.accepted) = db'.nextId - 1
  BY <1>1, <1>5 DEF HistOK
<1>7. DbOK'
  <2>1. db'.nextId \in Nat \ {0}
    BY <1>1
  <2> QED
    BY <1>1, <1>2, <1>3, <1>4, <2>1 DEF DbOK
<1> QED
  BY <1>4, <1>5, <1>6, <1>7 DEF HistOK

\* Ids, rows and events stay in step.
LEMMA DbStep ==
  ASSUME DbOK, SpendOK, HistOK, QueueOK, LedgerOK, HookOK, [Next]_vars
  PROVE  DbOK' /\ SpendOK' /\ HistOK'
<1>1. CASE StoreWrite
  <2>1. PICK E : Grown(E) /\ WroteRows(E) /\ db'.spend = db.spend
    BY <1>1, StoredWrite
  <2>2. IsSeq(db'.rows)
    BY <2>1 DEF WroteRows
  <2> QED
    BY <2>1, <2>2, GrownOK DEF SpendOK
<1>2. CASE StoreSync
  <2>1. PICK E, row : \E s \in Subjects, w \in Nat :
          /\ Grown(E) /\ db'.rows = db.rows /\ row \in SpendRows
          /\ db'.spend = Put(db.spend, <<s, w>>, row)
    BY <1>2, StoredSync
  <2>2. PICK s \in Subjects, w \in Nat :
          /\ Grown(E) /\ db'.rows = db.rows /\ row \in SpendRows
          /\ db'.spend = Put(db.spend, <<s, w>>, row)
    BY <2>1
  <2>3. IsSeq(db'.rows)
    BY <2>2 DEF DbOK
  <2>4. SpendOK'
    <3> DEFINE key == <<s, w>>
    <3>1. key \in Subjects \X Nat
      OBVIOUS
    <3>2. /\ db'.spend = [k \in DOMAIN db.spend \cup {key} |-> IF k = key THEN row ELSE db.spend[k]]
      BY <2>2 DEF Put
    <3> HIDE DEF key
    <3>3. /\ DOMAIN db'.spend = DOMAIN db.spend \cup {key}
          /\ db'.spend = [k \in DOMAIN db'.spend |-> db'.spend[k]]
          /\ \A k \in DOMAIN db'.spend : db'.spend[k] = IF k = key THEN row ELSE db.spend[k]
      BY <3>2
    <3>4. \A k \in DOMAIN db'.spend : db'.spend[k] \in [spent : Nat, limit : Nat, alerted : Nat]
      BY <2>2, <3>3 DEF SpendOK, SpendRows
    <3> QED
      BY <3>1, <3>3, <3>4 DEF SpendOK
  <2> QED
    BY <2>2, <2>3, <2>4, GrownOK
<1>3. CASE StorePrune
  <2>1. Pruned
    BY <1>3, PruneStep
  <2>2. SpendOK'
    BY <2>1 DEF Pruned, SpendOK
  <2> QED
    BY <2>1, <2>2 DEF Pruned, DbOK, HistOK
<1>4. CASE StoreDelivered \/ StoreFailed
  <2>1. PICK id \in DOMAIN db.outbox :
          /\ Kept /\ HistShape(hist') /\ hist'.accepted = hist.accepted
          /\ Left(id) \/ Counted(id)
    BY <1>4, DeliveryEnds
  <2>2. /\ DOMAIN db'.outbox \subseteq DOMAIN db.outbox
        /\ db'.outbox = [i \in DOMAIN db'.outbox |-> db'.outbox[i]]
        /\ \A i \in DOMAIN db'.outbox : OutboxRow(db'.outbox[i])
    BY <2>1 DEF Left, Counted, DbOK
  <2> QED
    BY <2>1, <2>2 DEF Kept, DbOK, SpendOK, HistOK
<1>5. CASE Tick
  <2>1. hist' = hist
    BY <1>5 DEF Tick
  <2>2. /\ Kept /\ DOMAIN db'.outbox = DOMAIN db.outbox
        /\ db'.outbox = [id \in DOMAIN db'.outbox |-> db'.outbox[id]]
        /\ \A id \in DOMAIN db.outbox : OutboxRow(db'.outbox[id])
    BY <1>5, TickStep
  <2> QED
    BY <2>1, <2>2 DEF Kept, DbOK, SpendOK, HistOK
<1>6. CASE ~StoreWrite /\ ~StoreSync /\ ~StorePrune /\ ~StoreDelivered /\ ~StoreFailed /\ ~Tick
  <2>1. Untouched
    BY <1>6, OtherSteps
  <2> QED
    BY <2>1 DEF Untouched, Kept, DbOK, SpendOK, HistOK
<1> QED
  BY <1>1, <1>2, <1>3, <1>4, <1>5, <1>6

----------------------------------------------------------------------------
(* The delivery task. *)

\* The task's operations stay where they are in the queue, or move up one.
QueueMoved(k) ==
  \A i \in 1 .. Len(ops') : ops'[i].op \in HookNames =>
    i + k \in 1 .. Len(ops) /\ ops'[i] = ops[i + k]

\* No event leaves the outbox, no attempt is counted.
OutboxHeld ==
  \A id \in DOMAIN db.outbox :
    id \in DOMAIN db'.outbox /\ db'.outbox[id].attempts = db.outbox[id].attempts

LEMMA HookFrame ==
  ASSUME HookOK, Len(ops') \in Nat, NEW k \in {0, 1}, QueueMoved(k), hook' = hook, seen' = seen,
         OutboxHeld
  PROVE  HookOK'
<1>1. RoundOK'
  BY DEF HookOK, RoundOK, OutboxHeld
<1>2. ASSUME NEW o, AskedOK(o, hook, db.outbox, seen) PROVE AskedOK(o, hook', db'.outbox, seen')
  BY <1>2 DEF AskedOK, OutboxHeld
<1>3. ASSUME NEW i \in 1 .. Len(ops'), ops'[i].op \in HookNames
      PROVE  /\ AskedOK(ops'[i], hook', db'.outbox, seen')
             /\ \A j \in 1 .. Len(ops') : ops'[j].op \in HookNames => j = i
  <2>1. i + k \in 1 .. Len(ops) /\ ops'[i] = ops[i + k]
    BY <1>3 DEF QueueMoved
  <2>2. AskedOK(ops'[i], hook, db.outbox, seen)
    BY <1>3, <2>1 DEF HookOK, AsksOnce
  <2>3. AskedOK(ops'[i], hook', db'.outbox, seen')
    BY <1>2, <2>2
  <2>4. ASSUME NEW j \in 1 .. Len(ops'), ops'[j].op \in HookNames PROVE j = i
    <3>1. j + k \in 1 .. Len(ops) /\ ops'[j] = ops[j + k]
      BY <2>4 DEF QueueMoved
    <3>2. j + k = i + k
      BY <1>3, <2>1, <2>4, <3>1 DEF HookOK, AsksOnce
    <3> QED
      BY <3>2
  <2> QED
    BY <2>3, <2>4
<1> QED
  BY <1>1, <1>3 DEF HookOK, AsksOnce

LEMMA OutboxHolds ==
  ASSUME DbOK, SpendOK, HistOK, QueueOK, LedgerOK, [Next]_vars, ~StoreDelivered, ~StoreFailed
  PROVE  OutboxHeld
<1>1. CASE StoreWrite \/ StoreSync
  <2>1. \E E : Grown(E)
    BY <1>1, StoredWrite, StoredSync
  <2> QED
    BY <2>1 DEF Grown, OutboxHeld
<1>2. CASE StorePrune
  BY <1>2, PruneStep DEF Pruned, OutboxHeld
<1>3. CASE Tick
  BY <1>3, TickStep DEF OutboxHeld
<1>4. CASE ~StoreWrite /\ ~StoreSync /\ ~StorePrune /\ ~Tick
  <2>1. Untouched
    BY <1>4, OtherSteps
  <2> QED
    BY <2>1 DEF Untouched, OutboxHeld
<1> QED
  BY <1>1, <1>2, <1>3, <1>4

\* Operations queued by others, done or left by whoever asked.
LEMMA MovedByAppend ==
  ASSUME QueueOK, NEW o, Queue(o), o.op \notin HookNames PROVE QueueMoved(0)
<1>1. IsSeq(ops) /\ ops' = Append(ops, o) /\ Len(ops) \in Nat
  BY SeqLength DEF Queue, QueueOK
<1>2. /\ Len(ops') = Len(ops) + 1 /\ ops'[Len(ops) + 1] = o
      /\ \A i \in 1 .. Len(ops) : ops'[i] = ops[i]
  BY <1>1, SeqAppend
<1>3. ASSUME NEW i \in 1 .. Len(ops'), ops'[i].op \in HookNames
      PROVE  i + 0 \in 1 .. Len(ops) /\ ops'[i] = ops[i + 0]
  <2>1. i # Len(ops) + 1
    BY <1>2, <1>3
  <2>2. i \in 1 .. Len(ops) /\ i + 0 = i
    BY <1>1, <1>2, <2>1
  <2> QED
    BY <1>2, <2>2
<1> QED
  BY <1>3 DEF QueueMoved

LEMMA MovedByTail == ASSUME QueueOK, ops # <<>>, ops' = Tail(ops) PROVE QueueMoved(1)
<1>1. /\ Len(ops') = Len(ops) - 1 /\ Len(ops) \in Nat \ {0}
      /\ \A i \in 1 .. Len(ops) - 1 : ops'[i] = ops[i + 1]
  BY SeqTail DEF QueueOK
<1> QED
  BY <1>1 DEF QueueMoved

LEMMA MovedByForsaking ==
  ASSUME QueueOK, NEW name \in {"Write", "Declare"}, ops' = Forsaken(name) PROVE QueueMoved(0)
<1>1. /\ Len(ops') = Len(ops) /\ Len(ops) \in Nat
      /\ \A i \in 1 .. Len(ops) : ops'[i].op = ops[i].op /\ (ops[i].op # name => ops'[i] = ops[i])
  BY ForsakenIs
<1>2. name \notin HookNames
  BY DEF HookNames
<1>3. ASSUME NEW i \in 1 .. Len(ops'), ops'[i].op \in HookNames
      PROVE  i + 0 \in 1 .. Len(ops) /\ ops'[i] = ops[i + 0]
  <2>1. i \in 1 .. Len(ops) /\ i + 0 = i
    BY <1>1
  <2>2. ops[i].op # name
    BY <1>1, <1>2, <1>3, <2>1
  <2> QED
    BY <1>1, <2>1, <2>2
<1> QED
  BY <1>3 DEF QueueMoved

\* The task has asked for nothing.
NotAsking == \A i \in 1 .. Len(ops) : ops[i].op \notin HookNames

LEMMA QuietHook == ASSUME HookOK, hook.pc \in {"asleep", "posting"} PROVE NotAsking
BY DEF HookOK, AsksOnce, AskedOK, HookNames, NotAsking

\* It asks.
LEMMA HookAsks ==
  ASSUME QueueOK, NotAsking, NEW o, o.op \in HookNames, Queue(o), AskedOK(o, hook', db'.outbox, seen')
  PROVE  AsksOnce'
<1>1. IsSeq(ops) /\ ops' = Append(ops, o) /\ Len(ops) \in Nat
  BY SeqLength DEF Queue, QueueOK
<1>2. /\ Len(ops') = Len(ops) + 1 /\ ops'[Len(ops) + 1] = o
      /\ \A i \in 1 .. Len(ops) : ops'[i] = ops[i]
  BY <1>1, SeqAppend
<1>3. ASSUME NEW i \in 1 .. Len(ops'), ops'[i].op \in HookNames PROVE i = Len(ops) + 1
  BY <1>1, <1>2, <1>3 DEF NotAsking
<1> QED
  BY <1>2, <1>3 DEF AsksOnce

\* Its operation was at the head of the queue and is done.
LEMMA HookAnswered ==
  ASSUME QueueOK, HookOK, ops # <<>>, ops' = Tail(ops), ops[1].op \in HookNames
  PROVE  AsksOnce'
<1>1. /\ Len(ops') = Len(ops) - 1 /\ Len(ops) \in Nat \ {0}
      /\ \A i \in 1 .. Len(ops) - 1 : ops'[i] = ops[i + 1]
  BY SeqTail DEF QueueOK
<1>2. ASSUME NEW i \in 1 .. Len(ops'), ops'[i].op \in HookNames PROVE FALSE
  <2>1. i + 1 \in 1 .. Len(ops) /\ ops[i + 1].op \in HookNames /\ 1 \in 1 .. Len(ops) /\ i + 1 # 1
    BY <1>1, <1>2
  <2> QED
    BY <2>1 DEF HookOK, AsksOnce
<1> QED
  BY <1>2 DEF AsksOnce

\* Where the round goes on.
LEMMA RoundGoesOn ==
  ASSUME HookOK, NEW box,
         \A n \in 1 .. Len(hook.due) : /\ hook.due[n].id \in DOMAIN box
                                       /\ box[hook.due[n].id].attempts = hook.due[n].attempts,
         db'.outbox = box, hook' = NextInRound
  PROVE  RoundOK'
<1>0. IsSeq(<<>>) /\ Len(<<>>) = 0
  BY DEF IsSeq
<1>1. CASE hook.due = <<>>
  <2>1. hook' = [pc |-> "asleep", due |-> <<>>]
    BY <1>1 DEF NextInRound, Idle
  <2>2. HookShape(hook') /\ hook'.pc = "asleep" /\ hook'.due = <<>>
    BY <2>1 DEF HookShape
  <2> QED
    BY <1>0, <2>2 DEF RoundOK
<1>2. CASE hook.due # <<>>
  <2>1. hook' = [hook EXCEPT !.pc = "posting"]
    BY <1>2 DEF NextInRound
  <2>2. HookShape(hook') /\ hook'.pc = "posting" /\ hook'.due = hook.due
    BY <2>1 DEF HookShape, HookOK, RoundOK
  <2> QED
    BY <1>2, <2>2 DEF RoundOK, HookOK
<1> QED
  BY <1>1, <1>2

\* events::due: ids in the outbox, each once, with their attempts.
LEMMA DueIs ==
  ASSUME DbOK
  PROVE  LET read == due(db, DUE_LIMIT) IN
           /\ IsSeq(read)
           /\ \A n \in 1 .. Len(read) : /\ read[n].id \in DOMAIN db.outbox
                                        /\ read[n].attempts = db.outbox[read[n].id].attempts
           /\ \A m, n \in 1 .. Len(read) : read[m].id = read[n].id => m = n
<1> DEFINE read == due(db, DUE_LIMIT)
           ready == {id \in DOMAIN db.outbox : db.outbox[id].wait = 0}
           order == Ascending(ready)
           N == Cardinality(ready)
           L == Min({DUE_LIMIT, N})
<1>1. ready \in SUBSET DOMAIN db.outbox /\ ready \in SUBSET (1 .. db.nextId - 1)
  BY DEF DbOK
<1>2. IsFiniteSet(ready) /\ ready \in SUBSET Int
  <2>1. db.nextId - 1 \in Int /\ 1 .. db.nextId - 1 \in SUBSET Int
    BY DEF DbOK
  <2>2. IsFiniteSet(1 .. db.nextId - 1)
    BY <2>1, FS_Interval
  <2> HIDE DEF ready
  <2>3. IsFiniteSet(ready)
    BY <1>1, <2>2, FS_Subset, Zenon
  <2> QED
    BY <1>1, <2>1, <2>3
<1>3. read = [n \in 1 .. L |-> [id |-> order[n], attempts |-> db.outbox[order[n]].attempts]]
  BY DEF due
<1> HIDE DEF ready, read
<1>4. /\ N \in Nat /\ IsSeq(order) /\ Len(order) = N
      /\ \A n \in 1 .. N : order[n] \in ready
      /\ \A m, n \in 1 .. N : m < n => order[m] < order[n]
  BY <1>2, AscendingIs, Zenon
<1> HIDE DEF order, N
<1>5. L \in Nat /\ L <= N
  <2>1. DUE_LIMIT \in Int /\ N \in Int
    BY <1>4, Bounds
  <2>2. L \in {DUE_LIMIT, N} /\ L <= N
    BY <2>1, MinOfTwo, Zenon
  <2> QED
    BY <1>4, <2>2, Bounds
<1> HIDE DEF L
<1>6. read \in [1 .. L -> {read[n] : n \in 1 .. L}]
  BY <1>3
<1>7. IsSeq(read) /\ Len(read) = L
  BY <1>5, <1>6, FunIsSeq
<1>8. \A n \in 1 .. L : /\ read[n].id = order[n] /\ read[n].attempts = db.outbox[order[n]].attempts
                        /\ order[n] \in DOMAIN db.outbox /\ order[n] \in Int
  <2> TAKE n \in 1 .. L
  <2>1. n \in 1 .. N
    BY <1>4, <1>5
  <2>2. order[n] \in ready
    BY <1>4, <2>1
  <2>3. read[n] = [id |-> order[n], attempts |-> db.outbox[order[n]].attempts]
    BY <1>3
  <2> QED
    BY <1>1, <1>2, <2>2, <2>3
<1>9. ASSUME NEW m \in 1 .. L, NEW n \in 1 .. L, read[m].id = read[n].id PROVE m = n
  <2>1. order[m] = order[n] /\ order[m] \in Int
    BY <1>8, <1>9
  <2>2. m \in 1 .. N /\ n \in 1 .. N /\ (m < n \/ n < m \/ m = n)
    BY <1>4, <1>5
  <2>3. ~(order[m] < order[n]) /\ ~(order[n] < order[m])
    BY <2>1
  <2> QED
    BY <1>4, <2>2, <2>3
<1>10. \A n \in 1 .. L : /\ read[n].id \in DOMAIN db.outbox
                         /\ read[n].attempts = db.outbox[read[n].id].attempts
  BY <1>8
<1> QED
  BY <1>7, <1>9, <1>10 DEF read

\* A round that is not under way.
LEMMA IdleRound ==
  ASSUME hook' = Idle PROVE RoundOK'
<1>1. hook' = [pc |-> "asleep", due |-> <<>>]
  BY DEF Idle
<1>2. HookShape(hook') /\ hook'.pc = "asleep" /\ hook'.due = <<>> /\ IsSeq(<<>>) /\ Len(<<>>) = 0
  BY <1>1 DEF HookShape, IsSeq
<1> QED
  BY <1>2 DEF RoundOK

\* The round's next event: received or not, its operation is the one asked for.
LEMMA PostStep == ASSUME DbOK, QueueOK, HookOK, Post PROVE HookOK' /\ db' = db
<1> DEFINE e == Head(hook.due)
           rest == Tail(hook.due)
           ok == [op |-> "EventDelivered", id |-> e.id]
           err == [op |-> "EventFailed", id |-> e.id, attempts |-> e.attempts]
<1>1. hook.pc = "posting" /\ IsSeq(hook.due) /\ hook.due # <<>> /\ db' = db /\ HookShape(hook)
  BY DEF Post, HookOK, RoundOK
<1>2. /\ IsSeq(rest) /\ Len(rest) = Len(hook.due) - 1 /\ Len(hook.due) \in Nat \ {0}
      /\ e = hook.due[1] /\ \A i \in 1 .. Len(hook.due) - 1 : rest[i] = hook.due[i + 1]
  BY <1>1, SeqTail
<1>3. NotAsking
  BY <1>1, QuietHook
<1>4. /\ e.id \in DOMAIN db.outbox /\ e.attempts = db.outbox[e.id].attempts
  BY <1>2 DEF HookOK, RoundOK
<1>5. \/ /\ seen' = seen \cup {e.id} /\ Queue(ok)
         /\ hook' = [hook EXCEPT !.pc = "clearing", !.due = Tail(@)]
      \/ /\ Queue(err) /\ hook' = [pc |-> "clearing", due |-> <<>>]
  BY DEF Post, Queue
<1> HIDE DEF e, rest
<1>6. CASE seen' = seen \cup {e.id} /\ Queue(ok) /\ hook' = [hook EXCEPT !.pc = "clearing", !.due = Tail(@)]
  <2>1. HookShape(hook') /\ hook'.pc = "clearing" /\ hook'.due = rest
    BY <1>1, <1>6 DEF HookShape, rest
  <2>2. ASSUME NEW n \in 1 .. Len(rest)
        PROVE  /\ n + 1 \in 1 .. Len(hook.due) /\ rest[n] = hook.due[n + 1]
               /\ rest[n].id \in DOMAIN db.outbox
               /\ rest[n].attempts = db.outbox[rest[n].id].attempts
               /\ rest[n].id # e.id
    <3>1. n + 1 \in 1 .. Len(hook.due) /\ 1 \in 1 .. Len(hook.due) /\ n + 1 # 1
          /\ rest[n] = hook.due[n + 1]
      BY <1>2
    <3> QED
      BY <1>2, <3>1 DEF HookOK, RoundOK
  <2>3. ASSUME NEW m \in 1 .. Len(rest), NEW n \in 1 .. Len(rest), rest[m].id = rest[n].id PROVE m = n
    <3>1. m + 1 = n + 1
      BY <2>2, <2>3 DEF HookOK, RoundOK
    <3> QED
      BY <3>1
  <2>4. RoundOK'
    BY <1>1, <1>2, <2>1, <2>2, <2>3 DEF RoundOK
  <2>5. ok.op \in HookNames /\ AskedOK(ok, hook', db'.outbox, seen')
    BY <1>1, <1>4, <1>6, <2>1, <2>2 DEF HookNames, AskedOK
  <2> HIDE DEF ok
  <2>6. AsksOnce'
    BY <1>3, <1>6, <2>5, HookAsks
  <2> QED
    BY <1>1, <2>4, <2>6 DEF HookOK
<1>7. CASE Queue(err) /\ hook' = [pc |-> "clearing", due |-> <<>>]
  <2>1. HookShape(hook') /\ hook'.pc = "clearing" /\ hook'.due = <<>> /\ IsSeq(<<>>) /\ Len(<<>>) = 0
    BY <1>7 DEF HookShape, IsSeq
  <2>2. RoundOK'
    BY <2>1 DEF RoundOK
  <2>3. err.op \in HookNames /\ AskedOK(err, hook', db'.outbox, seen')
    BY <1>1, <1>4, <2>1 DEF HookNames, AskedOK
  <2> HIDE DEF err
  <2>4. AsksOnce'
    BY <1>3, <1>7, <2>3, HookAsks
  <2> QED
    BY <1>1, <2>2, <2>4 DEF HookOK
<1> QED
  BY <1>5, <1>6, <1>7

LEMMA HookStep ==
  ASSUME DbOK, SpendOK, HistOK, QueueOK, QueueOK', LedgerOK, HookOK, [Next]_vars
  PROVE  HookOK'
<1>0. Len(ops') \in Nat
  BY SeqLength DEF QueueOK
<1>1. ASSUME NEW k \in {0, 1}, QueueMoved(k), hook' = hook, seen' = seen, ~StoreDelivered, ~StoreFailed
      PROVE  HookOK'
  BY <1>0, <1>1, OutboxHolds, HookFrame
<1>2. CASE ReadDue
  <2>1. /\ hook.pc = "asleep" /\ Queue([op |-> "DueEvents"]) /\ db' = db
        /\ hook' = [hook EXCEPT !.pc = "reading"]
    BY <1>2 DEF ReadDue
  <2>2. HookShape(hook') /\ hook'.pc = "reading" /\ hook'.due = <<>> /\ IsSeq(<<>>) /\ Len(<<>>) = 0
    BY <2>1 DEF HookOK, RoundOK, HookShape, IsSeq
  <2>3. RoundOK'
    BY <2>2 DEF RoundOK
  <2>4. NotAsking
    BY <2>1, QuietHook
  <2> DEFINE o == [op |-> "DueEvents"]
  <2>5. o.op \in HookNames /\ AskedOK(o, hook', db'.outbox, seen')
    BY <2>2 DEF HookNames, AskedOK
  <2> HIDE DEF o
  <2>6. AsksOnce'
    <3>1. Queue(o)
      BY <2>1 DEF o
    <3> QED
      BY <2>4, <2>5, <3>1, HookAsks
  <2> QED
    BY <2>3, <2>6 DEF HookOK
<1>3. CASE StoreDue
  <2> DEFINE read == due(db, DUE_LIMIT)
  <2>1. Done("DueEvents") /\ db' = db
        /\ hook' = IF read = <<>> THEN Idle ELSE [pc |-> "posting", due |-> read]
    BY <1>3 DEF StoreDue
  <2>2. ops # <<>> /\ ops' = Tail(ops) /\ ops[1].op \in HookNames
    BY <2>1, HeadIs DEF HookNames
  <2>3. /\ IsSeq(read)
        /\ \A n \in 1 .. Len(read) : /\ read[n].id \in DOMAIN db.outbox
                                     /\ read[n].attempts = db.outbox[read[n].id].attempts
        /\ \A m, n \in 1 .. Len(read) : read[m].id = read[n].id => m = n
    BY DueIs
  <2> HIDE DEF read
  <2>4. RoundOK'
    <3>1. CASE read = <<>>
      BY <2>1, <3>1, IdleRound
    <3>2. CASE read # <<>>
      <4>1. HookShape(hook') /\ hook'.pc = "posting" /\ hook'.due = read
        BY <2>1, <3>2 DEF HookShape
      <4> QED
        BY <2>1, <2>3, <3>2, <4>1 DEF RoundOK
    <3> QED
      BY <3>1, <3>2
  <2> QED
    BY <2>2, <2>4, HookAnswered DEF HookOK
<1>4. CASE StoreDelivered \/ StoreFailed
  <2>1. PICK id \in DOMAIN db.outbox :
          /\ Left(id) \/ Counted(id)
          /\ \A n \in 1 .. Len(hook.due) : hook.due[n].id # id
    BY <1>4, DeliveryEnds
  <2>2. ops # <<>> /\ ops' = Tail(ops) /\ ops[1].op \in HookNames /\ hook' = NextInRound
    BY <1>4, HeadIs DEF StoreDelivered, StoreFailed, HookNames
  <2>3. \A n \in 1 .. Len(hook.due) : /\ hook.due[n].id \in DOMAIN db'.outbox
                                      /\ db'.outbox[hook.due[n].id].attempts = hook.due[n].attempts
    BY <2>1 DEF HookOK, RoundOK, Left, Counted
  <2> DEFINE box == db'.outbox
  <2>4. RoundOK'
    <3>1. box = db'.outbox
      OBVIOUS
    <3> HIDE DEF box
    <3> QED
      BY <2>2, <2>3, <3>1, RoundGoesOn
  <2> QED
    BY <2>2, <2>4, HookAnswered DEF HookOK
<1>5. CASE StorageError
  <2>1. ops # <<>> /\ ops' = Tail(ops) /\ db' = db /\ seen' = seen /\ IsSeq(ops)
    BY <1>5 DEF StorageError, QueueOK
  <2>2. Head(ops) = ops[1]
    BY <2>1, SeqTail
  <2>3. hook' = CASE ops[1].op = "DueEvents" -> Idle
                  [] ops[1].op \in {"EventDelivered", "EventFailed"} -> NextInRound
                  [] OTHER -> hook
    BY <1>5, <2>2 DEF StorageError
  <2>4. CASE ops[1].op \notin HookNames
    <3>1. hook' = hook
      BY <2>3, <2>4 DEF HookNames
    <3>2. ~StoreDelivered /\ ~StoreFailed
      BY <2>2, <2>4 DEF StoreDelivered, StoreFailed, Done, HookNames
    <3> QED
      BY <1>1, <2>1, <3>1, <3>2, MovedByTail
  <2>5. CASE ops[1].op \in HookNames
    <3>1. CASE ops[1].op = "DueEvents"
      <4>1. hook' = Idle
        BY <2>3, <3>1
      <4> QED
        BY <2>1, <2>5, <4>1, IdleRound, HookAnswered DEF HookOK
    <3>2. CASE ops[1].op \in {"EventDelivered", "EventFailed"}
      <4>1. hook' = NextInRound
        BY <2>3, <3>2
      <4>2. \A n \in 1 .. Len(hook.due) : /\ hook.due[n].id \in DOMAIN db.outbox
                                          /\ db.outbox[hook.due[n].id].attempts = hook.due[n].attempts
        BY DEF HookOK, RoundOK
      <4>3. RoundOK'
        BY <2>1, <4>1, <4>2, RoundGoesOn
      <4> QED
        BY <2>1, <2>5, <4>3, HookAnswered DEF HookOK
    <3> QED
      BY <2>5, <3>1, <3>2 DEF HookNames
  <2> QED
    BY <2>4, <2>5
<1>6. CASE Crash
  <2>1. hook' = Idle /\ ops' = <<>> /\ Len(<<>>) = 0
    BY <1>6 DEF Crash
  <2>2. AsksOnce'
    BY <2>1 DEF AsksOnce
  <2> QED
    BY <2>1, <2>2, IdleRound DEF HookOK
<1>7. CASE StoreWrite \/ StoreSync \/ StorePrune \/ StoreDeclare
  <2>1. ops # <<>> /\ ops' = Tail(ops) /\ hook' = hook /\ seen' = seen
    BY <1>7 DEF StoreWrite, StoreSync, StorePrune, StoreDeclare, Done
  <2>2. ~StoreDelivered /\ ~StoreFailed
    BY <1>7 DEF StoreWrite, StoreSync, StorePrune, StoreDeclare, StoreDelivered, StoreFailed, Done
  <2> QED
    BY <1>1, <2>1, <2>2, MovedByTail
<1>8. CASE ReportBreaks \/ DeclareBreaks
  <2>1. /\ hook' = hook /\ seen' = seen /\ db' = db
        /\ \E name \in {"Write", "Declare"} : ops' = Forsaken(name)
    BY <1>8 DEF ReportBreaks, DeclareBreaks
  <2>2. QueueMoved(0)
    BY <2>1, MovedByForsaking
  <2>3. OutboxHeld
    BY <2>1 DEF OutboxHeld
  <2> QED
    BY <1>0, <2>1, <2>2, <2>3, HookFrame
<1>9. ASSUME ops' = ops, hook' = hook, seen' = seen, OutboxHeld PROVE HookOK'
  <2>1. QueueMoved(0)
    BY <1>0, <1>9 DEF QueueMoved
  <2> QED
    BY <1>0, <1>9, <2>1, HookFrame
<1>10. CASE Tick
  <2>1. OutboxHeld
    BY <1>10, TickStep DEF OutboxHeld
  <2> QED
    BY <1>9, <1>10, <2>1 DEF Tick
<1>11. CASE Minute
  <2>1. OutboxHeld
    BY <1>11, PolicyStep DEF OutboxHeld
  <2> QED
    BY <1>9, <1>11, <2>1 DEF Minute
<1>12. ASSUME db' = db, ops' = ops, hook' = hook, seen' = seen PROVE HookOK'
  BY <1>9, <1>12 DEF OutboxHeld
<1>13. ASSUME db' = db, hook' = hook, seen' = seen, NEW o, Queue(o), o.op \notin HookNames PROVE HookOK'
  BY <1>0, <1>13, MovedByAppend, HookFrame DEF OutboxHeld
<1>14. CASE Report
  <2> DEFINE o == [op |-> "Write", records |-> Head(pod.pending), live |-> TRUE]
  <2>1. db' = db /\ hook' = hook /\ seen' = seen /\ Queue(o) /\ o.op \notin HookNames
    BY <1>14 DEF Report, HookNames
  <2> HIDE DEF o
  <2> QED
    BY <1>13, <2>1
<1>15. CASE Declare
  <2> DEFINE o == [op |-> "Declare", policies |-> decl.policies, live |-> TRUE]
  <2>1. db' = db /\ hook' = hook /\ seen' = seen /\ (Queue(o) \/ UNCHANGED ops) /\ o.op \notin HookNames
    BY <1>15 DEF Declare, HookNames
  <2> HIDE DEF o
  <2> QED
    BY <1>12, <1>13, <2>1
<1>16. CASE SyncQueued
  <2>1. PICK c \in calls : Queue(c)
    BY <1>16 DEF SyncQueued
  <2>2. c.op \notin HookNames
    BY DEF QueueOK, SyncOK, HookNames
  <2> QED
    BY <1>13, <1>16, <2>1, <2>2 DEF SyncQueued
<1>17. CASE Sweep
  <2> DEFINE o == [op |-> "PruneSpend", now |-> world.window]
  <2>1. db' = db /\ hook' = hook /\ seen' = seen /\ Queue(o) /\ o.op \notin HookNames
    BY <1>17 DEF Sweep, HookNames
  <2> HIDE DEF o
  <2> QED
    BY <1>13, <2>1
<1>18. ASSUME NEW r \in Requests, Frame(r) \/ BodyOver(r) \/ BodyDropped(r) \/ Refuse(r)
       PROVE  HookOK'
  BY <1>12, <1>18 DEF Frame, BodyOver, BodyDropped, Refuse
<1>19. CASE \/ Take \/ Connect \/ Answered \/ DeclareWakes \/ ConfigChanges \/ SyncCalled \/ WindowEnds
            \/ Export \/ Restart \/ UNCHANGED vars
  BY <1>12, <1>19 DEF Take, Connect, Answered, DeclareWakes, ConfigChanges, SyncCalled, WindowEnds,
     Export, Restart, vars
<1> QED
  BY <1>2, <1>3, <1>4, <1>5, <1>6, <1>7, <1>8, <1>10, <1>11, <1>14, <1>15, <1>16, <1>17, <1>18, <1>19,
     PostStep
  DEF Next, DrainStep, DeclareStep, DeliveryStep, StorageStep

----------------------------------------------------------------------------
(* The events that were queued are those of what happened. *)

\* A threshold's event is remembered by its row until the sweep removes it.
Marked(s, w, p) ==
  \/ <<s, w>> \in hist.pruned
  \/ <<s, w>> \in DOMAIN db.spend /\ p <= db.spend[<<s, w>>].alerted

Explained(e) ==
  \/ \E i \in 1 .. Len(db.rows) : e = RefusalEvent(i)
  \/ \E s \in Subjects, w \in Nat, p \in Nat : e = ThresholdEvent(s, w, p) /\ Marked(s, w, p)

EachExplained == \A k \in 1 .. Len(hist.accepted) : Explained(hist.accepted[k])

NoneTwice ==
  \A j, k \in 1 .. Len(hist.accepted) : j # k /\ hist.accepted[j] = hist.accepted[k] =>
    \E s \in Subjects, w \in Nat, p \in Nat :
      hist.accepted[j] = ThresholdEvent(s, w, p) /\ <<s, w>> \in hist.pruned

RefusalsTell ==
  \A i \in 1 .. Len(db.rows) :
    (\A c \in ledger.configs : Kind[db.rows[i].req] \in c.refusals) =>
      \E k \in 1 .. Len(hist.accepted) : hist.accepted[k] = RefusalEvent(i)

\* The highest threshold a row notes was announced.
AlertedTells ==
  \A s \in Subjects, w \in Nat :
    <<s, w>> \in DOMAIN db.spend /\ db.spend[<<s, w>>].alerted > 0 =>
      \E k \in 1 .. Len(hist.accepted) :
        hist.accepted[k] = ThresholdEvent(s, w, db.spend[<<s, w>>].alerted)

\* A row synced since the start notes every threshold it has reached.
ReachedNoted ==
  \A key \in DOMAIN db.spend \cap hist.synced : \A t \in ledger.config.thresholds :
    db.spend[key].limit > 0 /\ db.spend[key].spent * 100 >= t * db.spend[key].limit =>
      t <= db.spend[key].alerted

\* A crash forgets which rows were synced.
DownForgets == ~ledger.up => hist.synced = {}

EventsOK == /\ EachExplained /\ NoneTwice /\ RefusalsTell /\ AlertedTells
            /\ ReachedNoted /\ DownForgets

\* What the process is told to do changes only when it is down.
LEMMA ProcessStep ==
  ASSUME LedgerOK, HistOK, [Next]_vars
  PROVE  \/ ledger' = ledger
         \/ ~ledger'.up /\ ledger'.config = ledger.config /\ hist'.synced = {}
         \/ ~ledger.up /\ ledger'.up
<1>1. CASE Crash
  <2>1. ledger' = [ledger EXCEPT !.up = FALSE] /\ \E x : hist' = [hist EXCEPT !.synced = {}, !.lost = x]
    BY <1>1, CrashHist DEF Crash
  <2> QED
    BY <2>1 DEF LedgerOK, LedgerShape, HistOK, HistShape
<1>2. CASE Restart
  <2>1. PICK c \in ledger.configs : ledger' = [ledger EXCEPT !.up = TRUE, !.config = c]
    BY <1>2 DEF Restart
  <2> QED
    BY <1>2, <2>1 DEF LedgerOK, LedgerShape, Restart
<1>4. ASSUME NEW r \in Requests, Frame(r) \/ BodyOver(r) \/ BodyDropped(r) \/ Refuse(r)
      PROVE  ledger' = ledger
  BY <1>4 DEF Frame, BodyOver, BodyDropped, Refuse
<1>5. ASSUME \/ DrainStep \/ ReportBreaks \/ DeclareStep \/ DeclareBreaks \/ ConfigChanges \/ SyncCalled
             \/ SyncQueued \/ Sweep \/ WindowEnds \/ DeliveryStep
      PROVE  ledger' = ledger
  BY <1>5 DEF DrainStep, Take, Connect, Report, Answered, ReportBreaks, DeclareStep,
     DeclareWakes, Declare, DeclareBreaks, ConfigChanges, SyncCalled, SyncQueued, Sweep, WindowEnds,
     DeliveryStep, ReadDue, Post
<1>6. ASSUME StorageStep \/ StorageError \/ Export \/ Tick \/ Minute \/ UNCHANGED vars
      PROVE  ledger' = ledger
  BY <1>6 DEF StorageStep, StoreWrite, StoreSync, StorePrune, StoreDeclare, StoreDue,
     StoreDelivered, StoreFailed, StorageError, Export, Tick, Minute, vars
<1> QED
  BY <1>1, <1>2, <1>4, <1>5, <1>6 DEF Next

\* A step that leaves rows, spend and events alone.
LEMMA EventsFrame ==
  ASSUME EventsOK, LedgerOK, HistOK, [Next]_vars, ledger'.configs = ledger.configs,
         db'.rows = db.rows, db'.spend = db.spend, hist'.accepted = hist.accepted,
         hist'.pruned = hist.pruned, hist'.synced \in {hist.synced, {}}
  PROVE  EventsOK'
<1>1. EachExplained' /\ NoneTwice' /\ RefusalsTell' /\ AlertedTells'
  <2>1. EachExplained'
    <3>1. ASSUME NEW e, Explained(e) PROVE Explained(e)'
      <4>1. CASE \E i \in 1 .. Len(db.rows) : e = RefusalEvent(i)
        BY <4>1 DEF Explained
      <4>2. CASE \E s \in Subjects, w \in Nat, p \in Nat : e = ThresholdEvent(s, w, p) /\ Marked(s, w, p)
        BY <4>2 DEF Explained, Marked
      <4> QED
        BY <3>1, <4>1, <4>2, Zenon DEF Explained
    <3> QED
      BY <3>1 DEF EventsOK, EachExplained
  <2>2. NoneTwice'
    BY DEF EventsOK, NoneTwice
  <2>3. RefusalsTell'
    BY DEF EventsOK, RefusalsTell
  <2>4. AlertedTells'
    BY DEF EventsOK, AlertedTells
  <2> QED
    BY <2>1, <2>2, <2>3, <2>4
<1>2. \/ ledger' = ledger
      \/ ~ledger'.up /\ ledger'.config = ledger.config /\ hist'.synced = {}
      \/ ~ledger.up /\ ledger'.up
  BY ProcessStep
<1>3. ReachedNoted'
  BY <1>2 DEF EventsOK, ReachedNoted, DownForgets
<1>4. DownForgets'
  BY <1>2 DEF EventsOK, DownForgets
<1> QED
  BY <1>1, <1>3, <1>4 DEF EventsOK

\* The sweep: what a removed row noted, the history still knows.
LEMMA EventsPruned ==
  ASSUME EventsOK, SpendOK, Pruned, ledger' = ledger PROVE EventsOK'
<1>1. \A s, w, p : Marked(s, w, p) => Marked(s, w, p)'
  BY DEF Pruned, Marked
<1>2. EachExplained'
  BY <1>1 DEF EventsOK, EachExplained, Explained, Pruned
<1>3. NoneTwice'
  BY DEF EventsOK, NoneTwice, Pruned
<1>4. RefusalsTell'
  BY DEF EventsOK, RefusalsTell, Pruned
<1>5. AlertedTells'
  BY DEF EventsOK, AlertedTells, Pruned
<1>6. ReachedNoted'
  BY DEF EventsOK, ReachedNoted, Pruned
<1>7. DownForgets'
  BY DEF EventsOK, DownForgets, Pruned
<1> QED
  BY <1>2, <1>3, <1>4, <1>5, <1>6, <1>7 DEF EventsOK

\* The history after the events of a transaction.
LEMMA AcceptedGrows ==
  ASSUME HistOK, NEW E, Grown(E)
  PROVE  /\ Len(hist.accepted) \in Nat /\ Len(E) \in Nat
         /\ Len(hist'.accepted) = Len(hist.accepted) + Len(E)
         /\ \A k \in 1 .. Len(hist.accepted) : hist'.accepted[k] = hist.accepted[k]
         /\ \A k \in 1 .. Len(E) : hist'.accepted[Len(hist.accepted) + k] = E[k]
         /\ \A k \in 1 .. Len(hist'.accepted) :
              k \in 1 .. Len(hist.accepted) \/ \E m \in 1 .. Len(E) : k = Len(hist.accepted) + m
<1>1. IsSeq(hist.accepted) /\ IsSeq(E) /\ hist'.accepted = hist.accepted \o E
  BY DEF HistOK, Grown
<1>2. /\ Len(hist.accepted) \in Nat /\ Len(E) \in Nat
      /\ Len(hist'.accepted) = Len(hist.accepted) + Len(E)
      /\ \A k \in 1 .. Len(hist.accepted) : hist'.accepted[k] = hist.accepted[k]
      /\ \A k \in 1 .. Len(E) : hist'.accepted[Len(hist.accepted) + k] = E[k]
  BY <1>1, SeqConcat, SeqLength
<1>3. ASSUME NEW k \in 1 .. Len(hist'.accepted), k \notin 1 .. Len(hist.accepted)
      PROVE  \E m \in 1 .. Len(E) : k = Len(hist.accepted) + m
  <2>1. /\ k - Len(hist.accepted) \in 1 .. Len(E)
        /\ k = Len(hist.accepted) + (k - Len(hist.accepted))
    BY <1>2, <1>3
  <2> QED
    BY <2>1
<1> QED
  BY <1>2, <1>3

\* Two places with the same event: both are old, both are new, or one of each.
LEMMA TwicePlaces ==
  ASSUME HistOK, NoneTwice, NEW E, Grown(E), hist'.pruned = hist.pruned,
         \A k, m \in 1 .. Len(E) : E[k] = E[m] => k = m,
         \A j \in 1 .. Len(hist.accepted), m \in 1 .. Len(E) : hist.accepted[j] = E[m] =>
           \E s \in Subjects, w \in Nat, p \in Nat :
             E[m] = ThresholdEvent(s, w, p) /\ <<s, w>> \in hist.pruned
  PROVE  NoneTwice'
<1> DEFINE a == hist.accepted
           b == hist'.accepted
           again(e) == \E s \in Subjects, w \in Nat, p \in Nat :
                         e = ThresholdEvent(s, w, p) /\ <<s, w>> \in hist.pruned
<1>1. /\ Len(a) \in Nat /\ Len(E) \in Nat
      /\ \A k \in 1 .. Len(a) : b[k] = a[k]
      /\ \A k \in 1 .. Len(E) : b[Len(a) + k] = E[k]
      /\ \A k \in 1 .. Len(b) : k \in 1 .. Len(a) \/ \E m \in 1 .. Len(E) : k = Len(a) + m
  BY AcceptedGrows
<1>2. /\ \A j, k \in 1 .. Len(a) : j # k /\ a[j] = a[k] => again(a[j])
      /\ \A j \in 1 .. Len(a), m \in 1 .. Len(E) : a[j] = E[m] => again(E[m])
  BY DEF NoneTwice
<1> SUFFICES \A j, k \in 1 .. Len(b) : j # k /\ b[j] = b[k] => again(b[j])
  BY DEF NoneTwice
<1> HIDE DEF a, b, again
<1> SUFFICES ASSUME NEW j \in 1 .. Len(b), NEW k \in 1 .. Len(b), j # k, b[j] = b[k]
             PROVE  again(b[j])
  OBVIOUS
<1>3. CASE j \in 1 .. Len(a) /\ k \in 1 .. Len(a)
  BY <1>1, <1>2, <1>3
<1>4. CASE j \in 1 .. Len(a) /\ k \notin 1 .. Len(a)
  <2>1. PICK m \in 1 .. Len(E) : k = Len(a) + m
    BY <1>1, <1>4
  <2>2. b[k] = E[m] /\ b[j] = a[j]
    BY <1>1, <1>4, <2>1
  <2>3. again(E[m])
    BY <1>2, <1>4, <2>2
  <2> QED
    BY <2>2, <2>3
<1>5. CASE j \notin 1 .. Len(a) /\ k \in 1 .. Len(a)
  <2>1. PICK m \in 1 .. Len(E) : j = Len(a) + m
    BY <1>1, <1>5
  <2>2. b[j] = E[m] /\ b[k] = a[k]
    BY <1>1, <1>5, <2>1
  <2>3. again(E[m])
    BY <1>2, <1>5, <2>2
  <2> QED
    BY <2>2, <2>3
<1>6. CASE j \notin 1 .. Len(a) /\ k \notin 1 .. Len(a)
  <2>1. PICK m \in 1 .. Len(E) : j = Len(a) + m
    BY <1>1, <1>6
  <2>2. PICK n \in 1 .. Len(E) : k = Len(a) + n
    BY <1>1, <1>6
  <2>3. E[m] = E[n]
    BY <1>1, <2>1, <2>2
  <2> QED
    BY <2>1, <2>2, <2>3
<1> QED
  BY <1>3, <1>4, <1>5, <1>6

\* What was announced stays announced.
LEMMA StillAnnounced ==
  ASSUME HistOK, NEW E, Grown(E), NEW e
  PROVE  /\ (\E k \in 1 .. Len(hist.accepted) : hist.accepted[k] = e) =>
              \E k \in 1 .. Len(hist'.accepted) : hist'.accepted[k] = e
         /\ (\E k \in 1 .. Len(E) : E[k] = e) =>
              \E k \in 1 .. Len(hist'.accepted) : hist'.accepted[k] = e
<1> DEFINE a == hist.accepted
           b == hist'.accepted
<1>1. /\ Len(a) \in Nat /\ Len(E) \in Nat /\ Len(b) = Len(a) + Len(E)
      /\ \A k \in 1 .. Len(a) : b[k] = a[k]
      /\ \A k \in 1 .. Len(E) : b[Len(a) + k] = E[k]
  BY AcceptedGrows
<1> HIDE DEF a, b
<1>2. ASSUME NEW k \in 1 .. Len(a), a[k] = e PROVE \E i \in 1 .. Len(b) : b[i] = e
  <2>1. k \in 1 .. Len(b)
    BY <1>1
  <2> QED
    BY <1>1, <1>2, <2>1
<1>3. ASSUME NEW k \in 1 .. Len(E), E[k] = e PROVE \E i \in 1 .. Len(b) : b[i] = e
  <2>1. Len(a) + k \in 1 .. Len(b)
    BY <1>1
  <2> QED
    BY <1>1, <1>3, <2>1
<1> QED
  BY <1>2, <1>3 DEF a, b

\* A batch of rows.
LEMMA EventsWritten ==
  ASSUME EventsOK, DbOK, HistOK, LedgerOK, ledger' = ledger, NEW E, Grown(E), WroteRows(E),
         db'.spend = db.spend, hist'.synced = hist.synced
  PROVE  EventsOK'
<1>0. /\ hist'.pruned = hist.pruned /\ Len(db.rows) \in Nat /\ Len(db'.rows) \in Nat
      /\ Len(db.rows) <= Len(db'.rows)
  BY SeqLength DEF Grown, WroteRows, DbOK
<1>1. \A e : Explained(e) => Explained(e)'
  BY <1>0 DEF Explained, Marked
<1>2. EachExplained'
  <2> SUFFICES ASSUME NEW k \in 1 .. Len(hist'.accepted) PROVE Explained(hist.accepted[k])'
    BY DEF EachExplained
  <2>1. CASE k \in 1 .. Len(hist.accepted)
    <3>1. hist'.accepted[k] = hist.accepted[k] /\ Explained(hist.accepted[k])
      BY <2>1, AcceptedGrows DEF EventsOK, EachExplained
    <3> QED
      BY <1>0, <3>1 DEF Explained, Marked
  <2>2. CASE k \notin 1 .. Len(hist.accepted)
    <3>9. \A i \in 1 .. Len(hist'.accepted) :
            i \in 1 .. Len(hist.accepted) \/ \E m \in 1 .. Len(E) : i = Len(hist.accepted) + m
      BY AcceptedGrows, Zenon
    <3>0. PICK m \in 1 .. Len(E) : k = Len(hist.accepted) + m
      BY <2>2, <3>9
    <3>1. hist'.accepted[k] = E[m]
      <4>1. \A i \in 1 .. Len(E) : hist'.accepted[Len(hist.accepted) + i] = E[i]
        BY AcceptedGrows, Zenon
      <4> QED
        BY <3>0, <4>1
    <3>2. PICK i \in Len(db.rows) + 1 .. Len(db'.rows) : E[m] = RefusalEvent(i)
      BY DEF WroteRows
    <3>3. i \in 1 .. Len(db'.rows)
      BY <1>0
    <3> QED
      BY <3>1, <3>2, <3>3 DEF Explained
  <2> QED
    BY <2>1, <2>2
<1>3. NoneTwice'
  <2>1. ASSUME NEW j \in 1 .. Len(hist.accepted), NEW m \in 1 .. Len(E), hist.accepted[j] = E[m]
        PROVE  FALSE
    <3>1. PICK i \in Len(db.rows) + 1 .. Len(db'.rows) : E[m] = RefusalEvent(i)
      BY DEF WroteRows
    <3>2. Explained(RefusalEvent(i))
      BY <2>1, <3>1 DEF EventsOK, EachExplained
    <3>3. ASSUME NEW n \in 1 .. Len(db.rows), RefusalEvent(i) = RefusalEvent(n) PROVE FALSE
      <4>1. i = n
        BY <3>3 DEF RefusalEvent
      <4> QED
        BY <1>0, <4>1
    <3>4. \A s, w, p : RefusalEvent(i) # ThresholdEvent(s, w, p)
      BY DEF RefusalEvent, ThresholdEvent
    <3> QED
      BY <3>2, <3>3, <3>4 DEF Explained
  <2>2. NoneTwice /\ \A k, m \in 1 .. Len(E) : E[k] = E[m] => k = m
    BY DEF EventsOK, WroteRows
  <2> QED
    BY <1>0, <2>1, <2>2, TwicePlaces
<1>4. RefusalsTell'
  <2> SUFFICES ASSUME NEW i \in 1 .. Len(db'.rows),
                      \A c \in ledger.configs : Kind[db'.rows[i].req] \in c.refusals
               PROVE  \E k \in 1 .. Len(hist'.accepted) : hist'.accepted[k] = RefusalEvent(i)
    BY DEF RefusalsTell
  <2>1. CASE i \in 1 .. Len(db.rows)
    <3>1. db'.rows[i] = db.rows[i]
      BY <2>1 DEF WroteRows
    <3>2. \E k \in 1 .. Len(hist.accepted) : hist.accepted[k] = RefusalEvent(i)
      BY <2>1, <3>1 DEF EventsOK, RefusalsTell
    <3> QED
      BY <3>2, StillAnnounced
  <2>2. CASE i \notin 1 .. Len(db.rows)
    <3>1. i \in Len(db.rows) + 1 .. Len(db'.rows)
      BY <1>0, <2>2
    <3>2. Kind[db'.rows[i].req] \in ledger.config.refusals
      BY DEF LedgerOK
    <3>3. \E k \in 1 .. Len(E) : E[k] = RefusalEvent(i)
      BY <3>1, <3>2 DEF WroteRows
    <3> QED
      BY <3>3, StillAnnounced
  <2> QED
    BY <2>1, <2>2
<1>5. AlertedTells'
  <2> SUFFICES ASSUME NEW s \in Subjects, NEW w \in Nat, <<s, w>> \in DOMAIN db.spend,
                      db.spend[<<s, w>>].alerted > 0
               PROVE  \E k \in 1 .. Len(hist'.accepted) :
                        hist'.accepted[k] = ThresholdEvent(s, w, db.spend[<<s, w>>].alerted)
    BY DEF AlertedTells
  <2>1. \E k \in 1 .. Len(hist.accepted) :
          hist.accepted[k] = ThresholdEvent(s, w, db.spend[<<s, w>>].alerted)
    BY DEF EventsOK, AlertedTells
  <2> QED
    BY <2>1, StillAnnounced
<1>6. ReachedNoted' /\ DownForgets'
  BY DEF EventsOK, ReachedNoted, DownForgets
<1> QED
  BY <1>2, <1>3, <1>4, <1>5, <1>6 DEF EventsOK

\* A sync.
LEMMA EventsSynced ==
  ASSUME EventsOK, DbOK, SpendOK, HistOK, LedgerOK, ledger.up, ledger' = ledger,
         NEW E, NEW row \in SpendRows, NEW s \in Subjects, NEW w \in Nat, Grown(E),
         db'.rows = db.rows, db'.spend = Put(db.spend, <<s, w>>, row),
         ThresholdsTold(E, s, w, SpendRow(db, s, w).alerted, row, ledger.config.thresholds),
         hist'.synced = hist.synced \cup {<<s, w>>}
  PROVE  EventsOK'
<1> DEFINE key == <<s, w>>
           before == SpendRow(db, s, w).alerted
<1>0. /\ hist'.pruned = hist.pruned /\ before \in Nat /\ row.alerted \in Nat
      /\ key \in DOMAIN db.spend => before = db.spend[key].alerted
      /\ key \notin DOMAIN db.spend => before = 0
  BY FoundRow DEF Grown, SpendRows, SpendRow
<1>1. /\ DOMAIN db'.spend = DOMAIN db.spend \cup {key}
      /\ db'.spend[key] = row
      /\ \A k \in DOMAIN db.spend : k # key => db'.spend[k] = db.spend[k]
  BY DEF Put
<1>2. /\ \A k \in 1 .. Len(E) :
           \E p \in Nat : E[k] = ThresholdEvent(s, w, p) /\ before < p /\ p <= row.alerted
      /\ \A k, m \in 1 .. Len(E) : E[k] = E[m] => k = m
      /\ row.alerted = before \/ \E k \in 1 .. Len(E) : E[k] = ThresholdEvent(s, w, row.alerted)
      /\ \A t \in ledger.config.thresholds :
           row.limit > 0 /\ row.spent * 100 >= t * row.limit => t <= row.alerted
  BY DEF ThresholdsTold
<1>3. before <= row.alerted
  <2>1. CASE row.alerted = before
    BY <1>0, <2>1
  <2>2. CASE row.alerted # before
    <3>1. PICK k \in 1 .. Len(E) : E[k] = ThresholdEvent(s, w, row.alerted)
      BY <1>2, <2>2
    <3>2. PICK p \in Nat : E[k] = ThresholdEvent(s, w, p) /\ before < p /\ p <= row.alerted
      BY <1>2
    <3> QED
      BY <1>0, <3>2
  <2> QED
    BY <2>1, <2>2
<1> HIDE DEF before
<1>4. ASSUME NEW s2, NEW w2, NEW p \in Nat, Marked(s2, w2, p) PROVE Marked(s2, w2, p)'
  <2>1. CASE <<s2, w2>> \in hist.pruned
    BY <1>0, <2>1 DEF Marked
  <2>2. CASE <<s2, w2>> \in DOMAIN db.spend /\ p <= db.spend[<<s2, w2>>].alerted
    <3>1. CASE <<s2, w2>> = key
      <4>1. p <= before
        BY <1>0, <2>2, <3>1
      <4>2. <<s2, w2>> \in DOMAIN db'.spend /\ p <= db'.spend[<<s2, w2>>].alerted
        BY <1>0, <1>1, <1>3, <3>1, <4>1
      <4> QED
        BY <4>2 DEF Marked
    <3>2. CASE <<s2, w2>> # key
      <4>1. <<s2, w2>> \in DOMAIN db'.spend /\ p <= db'.spend[<<s2, w2>>].alerted
        BY <1>1, <2>2, <3>2
      <4> QED
        BY <4>1 DEF Marked
    <3> QED
      BY <3>1, <3>2
  <2> QED
    BY <1>4, <2>1, <2>2 DEF Marked
<1>5. EachExplained'
  <2> SUFFICES ASSUME NEW k \in 1 .. Len(hist'.accepted) PROVE Explained(hist.accepted[k])'
    BY DEF EachExplained
  <2>1. CASE k \in 1 .. Len(hist.accepted)
    <3>1. hist'.accepted[k] = hist.accepted[k] /\ Explained(hist.accepted[k])
      BY <2>1, AcceptedGrows DEF EventsOK, EachExplained
    <3>2. CASE \E i \in 1 .. Len(db.rows) : hist.accepted[k] = RefusalEvent(i)
      BY <3>1, <3>2 DEF Explained
    <3>3. ASSUME NEW s2 \in Subjects, NEW w2 \in Nat, NEW p \in Nat,
                 hist.accepted[k] = ThresholdEvent(s2, w2, p), Marked(s2, w2, p)
          PROVE  Explained(hist.accepted[k])'
      <4>1. Marked(s2, w2, p)'
        BY <1>4, <3>3
      <4> QED
        BY <3>1, <3>3, <4>1 DEF Explained
    <3> QED
      BY <3>1, <3>2, <3>3 DEF Explained
  <2>2. CASE k \notin 1 .. Len(hist.accepted)
    <3>9. \A i \in 1 .. Len(hist'.accepted) :
            i \in 1 .. Len(hist.accepted) \/ \E m \in 1 .. Len(E) : i = Len(hist.accepted) + m
      BY AcceptedGrows, Zenon
    <3>0. PICK m \in 1 .. Len(E) : k = Len(hist.accepted) + m
      BY <2>2, <3>9
    <3>1. hist'.accepted[k] = E[m]
      <4>1. \A i \in 1 .. Len(E) : hist'.accepted[Len(hist.accepted) + i] = E[i]
        BY AcceptedGrows, Zenon
      <4> QED
        BY <3>0, <4>1
    <3>2. PICK p \in Nat : E[m] = ThresholdEvent(s, w, p) /\ p <= row.alerted
      BY <1>2
    <3>3. Marked(s, w, p)'
      BY <1>1, <3>2 DEF Marked
    <3> QED
      BY <3>1, <3>2, <3>3 DEF Explained
  <2> QED
    BY <2>1, <2>2
<1>6. NoneTwice'
  <2>1. ASSUME NEW j \in 1 .. Len(hist.accepted), NEW m \in 1 .. Len(E), hist.accepted[j] = E[m]
        PROVE  \E s2 \in Subjects, w2 \in Nat, p \in Nat :
                 E[m] = ThresholdEvent(s2, w2, p) /\ <<s2, w2>> \in hist.pruned
    <3>1. PICK p \in Nat : E[m] = ThresholdEvent(s, w, p) /\ before < p
      BY <1>2
    <3>2. Explained(ThresholdEvent(s, w, p))
      BY <2>1, <3>1 DEF EventsOK, EachExplained
    <3>3. \A i : ThresholdEvent(s, w, p) # RefusalEvent(i)
      BY DEF RefusalEvent, ThresholdEvent
    <3>4. \A s2, w2, p2 : ThresholdEvent(s, w, p) = ThresholdEvent(s2, w2, p2) =>
            s2 = s /\ w2 = w /\ p2 = p
      BY DEF ThresholdEvent
    <3>5. Marked(s, w, p)
      BY <3>2, <3>3, <3>4 DEF Explained
    <3>6. ~(key \in DOMAIN db.spend /\ p <= db.spend[key].alerted)
      BY <1>0, <3>1
    <3>7. key \in hist.pruned
      BY <3>5, <3>6 DEF Marked
    <3> QED
      BY <3>1, <3>7
  <2>2. NoneTwice
    BY DEF EventsOK
  <2> QED
    BY <1>0, <1>2, <2>1, <2>2, TwicePlaces
<1>7. RefusalsTell'
  <2> SUFFICES ASSUME NEW i \in 1 .. Len(db.rows),
                      \A c \in ledger.configs : Kind[db.rows[i].req] \in c.refusals
               PROVE  \E k \in 1 .. Len(hist'.accepted) : hist'.accepted[k] = RefusalEvent(i)
    BY DEF RefusalsTell
  <2>1. \E k \in 1 .. Len(hist.accepted) : hist.accepted[k] = RefusalEvent(i)
    BY DEF EventsOK, RefusalsTell
  <2> QED
    BY <2>1, StillAnnounced
<1>8. AlertedTells'
  <2> SUFFICES ASSUME NEW s2 \in Subjects, NEW w2 \in Nat, <<s2, w2>> \in DOMAIN db'.spend,
                      db'.spend[<<s2, w2>>].alerted > 0
               PROVE  \E k \in 1 .. Len(hist'.accepted) :
                        hist'.accepted[k] = ThresholdEvent(s2, w2, db'.spend[<<s2, w2>>].alerted)
    BY DEF AlertedTells
  <2>1. CASE <<s2, w2>> # key
    <3>1. <<s2, w2>> \in DOMAIN db.spend /\ db'.spend[<<s2, w2>>] = db.spend[<<s2, w2>>]
      BY <1>1, <2>1
    <3>2. \E k \in 1 .. Len(hist.accepted) :
            hist.accepted[k] = ThresholdEvent(s2, w2, db.spend[<<s2, w2>>].alerted)
      BY <3>1 DEF EventsOK, AlertedTells
    <3> QED
      BY <3>1, <3>2, StillAnnounced
  <2>2. CASE <<s2, w2>> = key
    <3>1. s2 = s /\ w2 = w /\ db'.spend[<<s2, w2>>] = row
      BY <1>1, <2>2
    <3>2. CASE row.alerted = before
      <4>1. key \in DOMAIN db.spend /\ db.spend[key].alerted = row.alerted /\ row.alerted > 0
        BY <1>0, <3>1, <3>2
      <4>2. \E k \in 1 .. Len(hist.accepted) : hist.accepted[k] = ThresholdEvent(s, w, row.alerted)
        BY <4>1 DEF EventsOK, AlertedTells
      <4> QED
        BY <3>1, <4>2, StillAnnounced
    <3>3. CASE row.alerted # before
      <4>1. \E k \in 1 .. Len(E) : E[k] = ThresholdEvent(s, w, row.alerted)
        BY <1>2, <3>3
      <4>2. \E k \in 1 .. Len(hist'.accepted) : hist'.accepted[k] = ThresholdEvent(s, w, row.alerted)
        BY <4>1, StillAnnounced, Zenon
      <4> QED
        BY <3>1, <4>2, Zenon
    <3> QED
      BY <3>2, <3>3
  <2> QED
    BY <2>1, <2>2
<1>9. ReachedNoted'
  <2> SUFFICES ASSUME NEW k \in DOMAIN db'.spend \cap hist'.synced, NEW t \in ledger.config.thresholds,
                      db'.spend[k].limit > 0, db'.spend[k].spent * 100 >= t * db'.spend[k].limit
               PROVE  t <= db'.spend[k].alerted
    BY DEF ReachedNoted
  <2>1. CASE k = key
    BY <1>1, <1>2, <2>1
  <2>2. CASE k # key
    <3>1. k \in DOMAIN db.spend \cap hist.synced /\ db'.spend[k] = db.spend[k]
      BY <1>1, <2>2
    <3> QED
      BY <3>1 DEF EventsOK, ReachedNoted
  <2> QED
    BY <2>1, <2>2
<1>10. DownForgets'
  BY DEF DownForgets
<1> QED
  BY <1>5, <1>6, <1>7, <1>8, <1>9, <1>10 DEF EventsOK

LEMMA EventsStep ==
  ASSUME EventsOK, DbOK, SpendOK, HistOK, QueueOK, LedgerOK, HookOK, [Next]_vars
  PROVE  EventsOK'
<1>0. ledger'.configs = ledger.configs
  BY LedgerStep
<1>1. CASE StoreWrite
  <2>1. PICK E : Grown(E) /\ WroteRows(E) /\ db'.spend = db.spend /\ hist'.synced = hist.synced
    BY <1>1, StoredWrite
  <2>2. ledger' = ledger
    BY <1>1 DEF StoreWrite
  <2> QED
    BY <2>1, <2>2, EventsWritten
<1>2. CASE StoreSync
  <2>1. PICK E, row : \E s \in Subjects, w \in Nat :
          /\ Grown(E) /\ db'.rows = db.rows /\ row \in SpendRows
          /\ db'.spend = Put(db.spend, <<s, w>>, row)
          /\ ThresholdsTold(E, s, w, SpendRow(db, s, w).alerted, row, ledger.config.thresholds)
          /\ hist'.synced = hist.synced \cup {<<s, w>>}
    BY <1>2, StoredSync
  <2>2. ledger.up /\ ledger' = ledger
    BY <1>2 DEF StoreSync, Done
  <2> QED
    BY <2>1, <2>2, EventsSynced
<1>3. CASE StorePrune
  <2>1. Pruned /\ ledger' = ledger
    BY <1>3, PruneStep DEF StorePrune
  <2> QED
    BY <2>1, EventsPruned
<1>4. CASE StoreDelivered \/ StoreFailed
  <2>1. /\ Kept /\ hist'.accepted = hist.accepted /\ hist'.synced = hist.synced
        /\ hist'.pruned = hist.pruned
    BY <1>4, DeliveryEnds
  <2> QED
    BY <1>0, <2>1, EventsFrame DEF Kept
<1>5. CASE Tick
  <2>1. Kept /\ hist' = hist
    BY <1>5, TickStep DEF Tick
  <2> QED
    BY <1>0, <2>1, EventsFrame DEF Kept
<1>6. CASE ~StoreWrite /\ ~StoreSync /\ ~StorePrune /\ ~StoreDelivered /\ ~StoreFailed /\ ~Tick
  <2>1. Untouched
    BY <1>6, OtherSteps
  <2> QED
    BY <1>0, <2>1, EventsFrame DEF Untouched, Kept
<1> QED
  BY <1>1, <1>2, <1>3, <1>4, <1>5, <1>6

----------------------------------------------------------------------------
(* The reader of the export. *)

ReaderOK == reader.after \in Nat /\ ExportExact

\* Rows are only ever added, a batch at a time.
LEMMA RowsKept ==
  ASSUME DbOK, SpendOK, HistOK, QueueOK, LedgerOK, HookOK, [Next]_vars, ~StoreWrite
  PROVE  db'.rows = db.rows
<1>1. CASE StoreSync
  BY <1>1, StoredSync
<1>2. CASE StorePrune
  BY <1>2, PruneStep DEF Pruned
<1>3. CASE StoreDelivered \/ StoreFailed
  <2>1. Kept
    BY <1>3, DeliveryEnds
  <2> QED
    BY <2>1 DEF Kept
<1>4. CASE Tick
  BY <1>4, TickStep DEF Kept
<1>5. CASE ~StoreSync /\ ~StorePrune /\ ~StoreDelivered /\ ~StoreFailed /\ ~Tick
  BY <1>5, OtherSteps DEF Untouched, Kept
<1> QED
  BY <1>1, <1>2, <1>3, <1>4, <1>5

LEMMA RowsGrow ==
  ASSUME DbOK, SpendOK, HistOK, QueueOK, LedgerOK, HookOK, [Next]_vars
  PROVE  Len(db.rows) \in Nat /\ Len(db'.rows) \in Nat /\ Len(db.rows) <= Len(db'.rows)
<1>0. Len(db.rows) \in Nat
  BY SeqLength DEF DbOK
<1>1. CASE StoreWrite
  <2>1. \E E : WroteRows(E)
    BY <1>1, StoredWrite
  <2> QED
    BY <1>0, <2>1 DEF WroteRows
<1>2. CASE ~StoreWrite
  <2>1. db'.rows = db.rows
    BY <1>2, RowsKept
  <2> QED
    BY <1>0, <2>1
<1> QED
  BY <1>1, <1>2

\* The next page goes on where the last one ended.
LEMMA ExportStep == ASSUME DbOK, ReaderOK, Export PROVE ReaderOK'
<1> DEFINE a == reader.after
           m == Min({a + PAGE, Len(db.rows)})
           page == SubSeq(db.rows, a + 1, m)
           more == [i \in DOMAIN page |-> a + i]
<1>1. /\ IsSeq(db.rows) /\ Len(db.rows) \in Nat /\ a \in Nat /\ a < Len(db.rows)
      /\ reader.got = [i \in 1 .. a |-> i] /\ db' = db
  BY SeqLength DEF Export, DbOK, ReaderOK, ExportExact
<1>2. m \in Nat /\ a <= m /\ m <= Len(db.rows)
  <2>1. a + PAGE \in Int /\ Len(db.rows) \in Int
    BY <1>1, Bounds
  <2>2. m \in {a + PAGE, Len(db.rows)} /\ m <= Len(db.rows)
    BY <2>1, MinOfTwo, Zenon
  <2> QED
    BY <1>1, <2>2, Bounds
<1>3. reader' = [after |-> a + Len(page), got |-> reader.got \o more]
  BY DEF Export, NextAfter, export
<1> HIDE DEF m
<1>4. IsSeq(page) /\ Len(page) = m - (a + 1) + 1
  <2>1. a + 1 \in Nat \ {0} /\ a + 1 <= m + 1
    BY <1>1, <1>2
  <2> HIDE DEF a
  <2> QED
    BY <1>1, <1>2, <2>1, SeqSub, Zenon
<1>5. Len(page) = m - a /\ DOMAIN page = 1 .. m - a /\ a + Len(page) = m
  BY <1>1, <1>2, <1>4, SeqLength
<1> HIDE DEF page
<1>6. more = [i \in 1 .. m - a |-> a + i]
  BY <1>5
<1>7. reader.got \in [1 .. a -> Int] /\ more \in [1 .. m - a -> Int] /\ m - a \in Nat
  BY <1>1, <1>2, <1>6
<1>8. reader.got \in Seq(Int) /\ more \in Seq(Int) /\ Len(reader.got) = a /\ Len(more) = m - a
  <2>1. ASSUME NEW k \in Nat, NEW f \in [1 .. k -> Int] PROVE f \in Seq(Int) /\ Len(f) = k
    OBVIOUS
  <2> QED
    BY <1>1, <1>7, <2>1, Zenon
<1>9. /\ reader.got \o more \in Seq(Int) /\ Len(reader.got \o more) = m
      /\ \A i \in 1 .. m : (reader.got \o more)[i] = i
  <2>1. reader.got \o more \in Seq(Int) /\ Len(reader.got \o more) = a + (m - a)
    BY <1>8
  <2>2. ASSUME NEW i \in 1 .. m PROVE (reader.got \o more)[i] = i
    <3>1. CASE i <= a
      BY <1>1, <1>2, <1>8, <3>1
    <3>2. CASE ~(i <= a)
      <4>1. i - a \in 1 .. m - a /\ a + (i - a) = i
        BY <1>1, <1>2, <3>2
      <4>2. (reader.got \o more)[i] = more[i - a]
        BY <1>1, <1>2, <1>8, <3>2
      <4>3. more[i - a] = a + (i - a)
        BY <1>6, <4>1
      <4> QED
        BY <4>1, <4>2, <4>3
    <3> QED
      BY <3>1, <3>2
  <2> QED
    BY <1>1, <1>2, <2>1, <2>2
<1> HIDE DEF more, a
<1>10. reader'.after = m /\ reader'.got = reader.got \o more
  BY <1>3, <1>5
<1>11. reader'.got = [i \in 1 .. m |-> i]
  <2> DEFINE g == reader.got \o more
  <2>1. g \in Seq(Int) /\ Len(g) = m /\ \A i \in 1 .. m : g[i] = i
    BY <1>9
  <2> HIDE DEF g
  <2>2. g = [i \in 1 .. m |-> g[i]]
    BY <2>1
  <2>3. g = [i \in 1 .. m |-> i]
    BY <2>1, <2>2
  <2> QED
    BY <1>10, <2>3 DEF g
<1> QED
  BY <1>1, <1>2, <1>10, <1>11 DEF ReaderOK, ExportExact

LEMMA ReaderStep ==
  ASSUME DbOK, SpendOK, HistOK, QueueOK, LedgerOK, HookOK, ReaderOK, [Next]_vars
  PROVE  ReaderOK'
<1>1. ASSUME reader' = reader PROVE ReaderOK'
  <2>1. /\ reader.after \in Nat /\ reader.after <= Len(db.rows)
        /\ reader.got = [i \in 1 .. reader.after |-> i]
    BY DEF ReaderOK, ExportExact
  <2>2. reader.after <= Len(db'.rows)
    BY <2>1, RowsGrow
  <2> QED
    BY <1>1, <2>1, <2>2 DEF ReaderOK, ExportExact
<1>2. ASSUME NEW r \in Requests, Frame(r) \/ BodyOver(r) \/ BodyDropped(r) \/ Refuse(r)
      PROVE  reader' = reader
  BY <1>2 DEF Frame, BodyOver, BodyDropped, Refuse
<1>3. ASSUME \/ DrainStep \/ ReportBreaks \/ DeclareStep \/ DeclareBreaks \/ ConfigChanges \/ SyncCalled
             \/ SyncQueued \/ Sweep \/ WindowEnds \/ DeliveryStep
      PROVE  reader' = reader
  BY <1>3 DEF DrainStep, Take, Connect, Report, Answered, ReportBreaks, DeclareStep,
     DeclareWakes, Declare, DeclareBreaks, ConfigChanges, SyncCalled, SyncQueued, Sweep, WindowEnds,
     DeliveryStep, ReadDue, Post
<1>4. ASSUME StorageStep \/ StorageError \/ Crash \/ Restart \/ Tick \/ Minute \/ UNCHANGED vars
      PROVE  reader' = reader
  BY <1>4 DEF StorageStep, StoreWrite, StoreSync, StorePrune, StoreDeclare, StoreDue,
     StoreDelivered, StoreFailed, StorageError, Crash, Restart, Tick, Minute, vars
<1> QED
  BY <1>1, <1>2, <1>3, <1>4, ExportStep DEF Next

----------------------------------------------------------------------------
(* How often a record is stored. *)

InBatch(b, r) == \E i \in 1 .. Len(b) : b[i].req = r
Once(b) == \A i, j \in 1 .. Len(b) : b[i].req = b[j].req => i = j

\* Rows of a request, and queued writes with a record of it.
RowsOf(rows, r) == {i \in 1 .. Len(rows) : rows[i].req = r}
Times(rows, r) == Cardinality(RowsOf(rows, r))
Writes(o, r) == o.op = "Write" /\ InBatch(o.records, r)
WritesOf(q, r) == {k \in 1 .. Len(q) : Writes(q[k], r)}
Asked(q, r) == Cardinality(WritesOf(q, r))

\* Places up to n can be counted ...
LEMMA PlacesCount ==
  ASSUME NEW n \in Nat, NEW A, A \subseteq 1 .. n
  PROVE  IsFiniteSet(A) /\ Cardinality(A) \in Nat
<1>1. IsFiniteSet(1 .. n)
  BY FS_Interval
<1>2. IsFiniteSet(A)
  BY <1>1, FS_Subset
<1> QED
  BY <1>2, FS_CardinalityType

\* ... one more is one more ...
LEMMA PlacesAdd ==
  ASSUME NEW n \in Nat, NEW A, A \subseteq 1 .. n, NEW j, j \notin A
  PROVE  Cardinality(A \cup {j}) = Cardinality(A) + 1
BY PlacesCount, FS_AddElement

\* ... and they move up when the first is taken off.
LEMMA PlacesTail ==
  ASSUME NEW n \in Nat \ {0}, NEW A, A \subseteq 1 .. n, NEW B, B = {i \in 1 .. n - 1 : i + 1 \in A}
  PROVE  Cardinality(A) = Cardinality(B) + (IF 1 \in A THEN 1 ELSE 0)
<1> DEFINE T == A \ {1}
           f == [i \in B |-> i + 1]
<1>1. T \subseteq 1 .. n /\ B \subseteq 1 .. n /\ 1 \notin T /\ IsFiniteSet(B)
  BY PlacesCount
<1>2. Cardinality(T) = Cardinality(B)
  <2>1. f \in [B -> T] /\ \A i, j \in B : f[i] = f[j] => i = j
    OBVIOUS
  <2>2. ASSUME NEW t \in T PROVE \E i \in B : f[i] = t
    <3>1. t - 1 \in B /\ f[t - 1] = t
      OBVIOUS
    <3> QED
      BY <3>1
  <2>3. f \in Bijection(B, T)
    BY <2>1, <2>2 DEF Bijection, Injection, Surjection, IsInjective
  <2>4. ExistsBijection(B, T)
    BY <2>3 DEF ExistsBijection
  <2> QED
    BY <1>1, <2>4, FS_Bijection
<1>3. Cardinality(A) \in Nat /\ Cardinality(B) \in Nat
  BY <1>1, PlacesCount
<1>4. CASE 1 \in A
  <2>1. A = T \cup {1}
    BY <1>4
  <2>2. Cardinality(T \cup {1}) = Cardinality(T) + 1
    BY <1>1, PlacesAdd
  <2> QED
    BY <1>2, <1>4, <2>1, <2>2
<1>5. CASE 1 \notin A
  BY <1>2, <1>3, <1>5
<1> QED
  BY <1>4, <1>5

\* The rows of a batch are added.
LEMMA TimesStored ==
  ASSUME NEW rows, IsSeq(rows), NEW b, IsSeq(b), Once(b), NEW r
  PROVE  /\ Times(rows, r) \in Nat /\ Times(rows \o b, r) \in Nat
         /\ Times(rows \o b, r) = Times(rows, r) + (IF InBatch(b, r) THEN 1 ELSE 0)
<1> DEFINE all == rows \o b
<1>1. /\ IsSeq(all) /\ Len(all) = Len(rows) + Len(b) /\ Len(rows) \in Nat /\ Len(b) \in Nat
      /\ \A i \in 1 .. Len(rows) : all[i] = rows[i]
      /\ \A i \in 1 .. Len(b) : all[Len(rows) + i] = b[i]
  BY SeqConcat, SeqLength
<1> HIDE DEF all
<1>2. RowsOf(rows, r) \subseteq 1 .. Len(rows) /\ RowsOf(all, r) \subseteq 1 .. Len(all)
  BY DEF RowsOf
<1>3. Times(rows, r) \in Nat /\ Times(all, r) \in Nat
  <2>1. Len(all) \in Nat
    BY <1>1
  <2> QED
    BY <1>1, <1>2, <2>1, PlacesCount DEF Times
<1>4. ASSUME NEW i \in RowsOf(all, r), i \notin 1 .. Len(rows)
      PROVE  i - Len(rows) \in 1 .. Len(b) /\ b[i - Len(rows)].req = r
  <2>1. i \in 1 .. Len(all) /\ all[i].req = r
    BY DEF RowsOf
  <2>2. i - Len(rows) \in 1 .. Len(b) /\ Len(rows) + (i - Len(rows)) = i
    BY <1>1, <1>4, <2>1
  <2> QED
    BY <1>1, <2>1, <2>2
<1>5. RowsOf(rows, r) \subseteq RowsOf(all, r) /\ RowsOf(all, r) \cap (1 .. Len(rows)) \subseteq RowsOf(rows, r)
  <2>1. 1 .. Len(rows) \subseteq 1 .. Len(all)
    BY <1>1
  <2> QED
    BY <1>1, <2>1 DEF RowsOf
<1>6. CASE InBatch(b, r)
  <2>1. PICK j \in 1 .. Len(b) : b[j].req = r
    BY <1>6 DEF InBatch
  <2>2. Len(rows) + j \in RowsOf(all, r) /\ Len(rows) + j \notin RowsOf(rows, r)
    <3>1. Len(rows) + j \in 1 .. Len(all) /\ Len(rows) + j \notin 1 .. Len(rows)
      BY <1>1
    <3> QED
      BY <1>1, <2>1, <3>1 DEF RowsOf
  <2>3. ASSUME NEW i \in RowsOf(all, r), i \notin 1 .. Len(rows) PROVE i = Len(rows) + j
    <3>1. i - Len(rows) = j
      BY <1>4, <2>1, <2>3 DEF Once
    <3>2. i \in 1 .. Len(all)
      BY <1>2
    <3> QED
      BY <1>1, <3>1, <3>2
  <2>4. RowsOf(all, r) = RowsOf(rows, r) \cup {Len(rows) + j}
    BY <1>5, <2>2, <2>3
  <2>5. Cardinality(RowsOf(rows, r) \cup {Len(rows) + j}) = Cardinality(RowsOf(rows, r)) + 1
    BY <1>1, <1>2, <2>2, PlacesAdd
  <2> QED
    BY <1>3, <1>6, <2>4, <2>5 DEF Times, all
<1>7. CASE ~InBatch(b, r)
  <2>1. RowsOf(all, r) = RowsOf(rows, r)
    BY <1>4, <1>5, <1>7 DEF InBatch
  <2> QED
    BY <1>3, <1>7, <2>1 DEF Times, all
<1> QED
  BY <1>6, <1>7

\* A write queued, done, or left by the pod that asked for it.
LEMMA AskedAppend ==
  ASSUME NEW q, IsSeq(q), NEW o, NEW r
  PROVE  /\ Asked(q, r) \in Nat
         /\ Asked(Append(q, o), r) = Asked(q, r) + (IF Writes(o, r) THEN 1 ELSE 0)
<1> DEFINE p == Append(q, o)
<1>1. /\ IsSeq(p) /\ Len(p) = Len(q) + 1 /\ Len(q) \in Nat
      /\ \A i \in 1 .. Len(q) : p[i] = q[i]
      /\ p[Len(q) + 1] = o
  BY SeqAppend, SeqLength
<1> HIDE DEF p
<1>2. WritesOf(q, r) \subseteq 1 .. Len(q) /\ Len(q) + 1 \notin WritesOf(q, r)
  BY <1>1 DEF WritesOf
<1>3. Asked(q, r) \in Nat
  BY <1>1, <1>2, PlacesCount DEF Asked
<1>4. \A k \in 1 .. Len(p) : k \in 1 .. Len(q) \/ k = Len(q) + 1
  BY <1>1
<1>5. 1 .. Len(q) \subseteq 1 .. Len(p) /\ Len(q) + 1 \in 1 .. Len(p)
  BY <1>1
<1>6. CASE Writes(o, r)
  <2>1. WritesOf(p, r) = WritesOf(q, r) \cup {Len(q) + 1}
    BY <1>1, <1>4, <1>5, <1>6 DEF WritesOf
  <2>2. Cardinality(WritesOf(q, r) \cup {Len(q) + 1}) = Cardinality(WritesOf(q, r)) + 1
    BY <1>1, <1>2, PlacesAdd
  <2> QED
    BY <1>3, <1>6, <2>1, <2>2 DEF Asked, p
<1>7. CASE ~Writes(o, r)
  <2>1. WritesOf(p, r) = WritesOf(q, r)
    BY <1>1, <1>4, <1>5, <1>7 DEF WritesOf
  <2> QED
    BY <1>3, <1>7, <2>1 DEF Asked, p
<1> QED
  BY <1>6, <1>7

LEMMA AskedTail ==
  ASSUME NEW q, IsSeq(q), q # <<>>, NEW r
  PROVE  /\ Asked(q, r) \in Nat /\ Asked(Tail(q), r) \in Nat
         /\ Asked(q, r) = Asked(Tail(q), r) + (IF Writes(q[1], r) THEN 1 ELSE 0)
<1> DEFINE p == Tail(q)
<1>1. /\ IsSeq(p) /\ Len(p) = Len(q) - 1 /\ Len(q) \in Nat \ {0}
      /\ \A i \in 1 .. Len(q) - 1 : p[i] = q[i + 1]
  BY SeqTail
<1> HIDE DEF p
<1>2. WritesOf(q, r) \subseteq 1 .. Len(q) /\ WritesOf(p, r) \subseteq 1 .. Len(p) /\ Len(p) \in Nat
  BY <1>1 DEF WritesOf
<1>3. Asked(q, r) \in Nat /\ Asked(p, r) \in Nat
  BY <1>1, <1>2, PlacesCount DEF Asked
<1>4. WritesOf(p, r) = {i \in 1 .. Len(q) - 1 : i + 1 \in WritesOf(q, r)}
  <2>1. \A i \in 1 .. Len(q) - 1 : i + 1 \in 1 .. Len(q)
    BY <1>1
  <2> QED
    BY <1>1, <2>1 DEF WritesOf
<1>5. 1 \in WritesOf(q, r) <=> Writes(q[1], r)
  BY <1>1 DEF WritesOf
<1>6. Cardinality(WritesOf(q, r)) = Cardinality(WritesOf(p, r)) + (IF 1 \in WritesOf(q, r) THEN 1 ELSE 0)
  BY <1>1, <1>2, <1>4, PlacesTail
<1> QED
  BY <1>3, <1>5, <1>6 DEF Asked, p

LEMMA AskedSame ==
  ASSUME NEW q, IsSeq(q), NEW p, Len(p) = Len(q), NEW r,
         \A k \in 1 .. Len(q) : Writes(p[k], r) <=> Writes(q[k], r)
  PROVE  Asked(q, r) \in Nat /\ Asked(p, r) = Asked(q, r)
<1>1. WritesOf(p, r) = WritesOf(q, r) /\ WritesOf(q, r) \subseteq 1 .. Len(q) /\ Len(q) \in Nat
  BY SeqLength DEF WritesOf
<1> QED
  BY <1>1, PlacesCount DEF Asked

\* A record in the pod, and one whose report may yet be answered with success.
Carried(p, r) == InBatch(p.ring, r) \/ \E a \in 1 .. Len(p.pending) : InBatch(p.pending[a], r)
Answering(p, r) == p.pc = "called" /\ p.answer # "err" /\ InBatch(p.pending[1], r)

\* A response has no record before it is finished.
RecordsKnown ==
  \A r \in Requests :
    /\ resp[r].pc = "open" => ~resp[r].finished
    /\ ~resp[r].finished => ~Carried(pod, r) /\ Times(db.rows, r) = 0 /\ Asked(ops, r) = 0

\* It has one record, in one place of the pod.
RecordsApart ==
  /\ Once(pod.ring)
  /\ \A a \in 1 .. Len(pod.pending) : Once(pod.pending[a])
  /\ \A r \in Requests : \A a \in 1 .. Len(pod.pending) : InBatch(pod.pending[a], r) =>
       /\ ~InBatch(pod.ring, r)
       /\ \A b \in 1 .. Len(pod.pending) : InBatch(pod.pending[b], r) => a = b

BatchesOnce == \A k \in 1 .. Len(ops) : ops[k].op = "Write" => Once(ops[k].records)

\* The pod waits for the answer to one write, of its oldest batch.
Live(o) == o.op = "Write" /\ o.live

CallOK ==
  /\ pod.answer \in {"none", "ok", "err"} /\ (pod.pc # "called" => pod.answer = "none")
  /\ \A k \in 1 .. Len(ops) : Live(ops[k]) =>
       /\ pod.pc = "called" /\ pod.answer = "none" /\ ops[k].records = pod.pending[1]
       /\ \A m \in 1 .. Len(ops) : Live(ops[m]) => m = k

\* A record is stored, or about to be, once for every lost answer; once more
\* when the pod has done with it or waits for its answer.
Spare(p, r) == IF Carried(p, r) /\ ~Answering(p, r) THEN 0 ELSE 1

CopiesExplained ==
  \A r \in Requests : Times(db.rows, r) + Asked(ops, r) <= hist.lost + Spare(pod, r)

RecordsOK ==
  /\ RecordsKnown /\ RecordsApart /\ BatchesOnce /\ CallOK /\ CopiesExplained /\ hist.lost \in Nat

\* Rows and queue can be counted.
LEMMA CountsAre ==
  ASSUME DbOK, QueueOK, NEW r
  PROVE  Times(db.rows, r) \in Nat /\ Asked(ops, r) \in Nat
<1>1. /\ IsSeq(db.rows) /\ Len(db.rows) \in Nat /\ IsSeq(ops) /\ Len(ops) \in Nat
  BY SeqLength DEF DbOK, QueueOK
<1>2. RowsOf(db.rows, r) \subseteq 1 .. Len(db.rows) /\ WritesOf(ops, r) \subseteq 1 .. Len(ops)
  BY DEF RowsOf, WritesOf
<1> QED
  BY <1>1, <1>2, PlacesCount DEF Times, Asked

\* The pod's records are where they were.
SamePlaces == pod'.ring = pod.ring /\ pod'.pending = pod.pending

LEMMA PlacesKept ==
  ASSUME SamePlaces
  PROVE  /\ RecordsApart => RecordsApart'
         /\ \A r : Carried(pod', r) = Carried(pod, r)
<1>1. pod'.ring = pod.ring /\ pod'.pending = pod.pending
  BY DEF SamePlaces
<1>2. RecordsApart => RecordsApart'
  BY <1>1 DEF RecordsApart, Once, InBatch
<1>3. ASSUME NEW r PROVE Carried(pod', r) = Carried(pod, r)
  BY <1>1, Zenon DEF Carried
<1> QED
  BY <1>2, <1>3

\* What a step has to say for itself: no response loses its mark, no more
\* copies than lost answers explain.
LEMMA CopiesKept ==
  ASSUME RecordsOK, hist'.lost \in Nat, hist.lost <= hist'.lost,
         \A r \in Requests : /\ (resp'[r].finished <=> resp[r].finished)
                             /\ resp'[r].pc = "open" => resp[r].pc = "open",
         \A r \in Requests : /\ Times(db'.rows, r) \in Nat /\ Asked(ops', r) \in Nat
                             /\ Times(db.rows, r) \in Nat /\ Asked(ops, r) \in Nat
                             /\ ~resp[r].finished => Times(db'.rows, r) + Asked(ops', r) = 0
                             /\ Carried(pod', r) => Carried(pod, r)
                             /\ Times(db'.rows, r) + Asked(ops', r) <= hist'.lost + Spare(pod', r)
  PROVE  RecordsKnown' /\ CopiesExplained'
<1>1. ASSUME NEW r \in Requests
      PROVE  /\ resp'[r].pc = "open" => ~resp'[r].finished
             /\ ~resp'[r].finished => ~Carried(pod', r) /\ Times(db'.rows, r) = 0 /\ Asked(ops', r) = 0
  <2>1. resp'[r].pc = "open" => ~resp'[r].finished
    BY DEF RecordsOK, RecordsKnown
  <2>2. ~resp'[r].finished => ~Carried(pod', r)
    BY DEF RecordsOK, RecordsKnown
  <2>3. ASSUME ~resp'[r].finished PROVE Times(db'.rows, r) = 0 /\ Asked(ops', r) = 0
    BY <2>3
  <2> QED
    BY <2>1, <2>2, <2>3
<1>2. RecordsKnown'
  BY <1>1, Zenon DEF RecordsKnown
<1>3. CopiesExplained'
  BY Zenon DEF CopiesExplained
<1> QED
  BY <1>2, <1>3

\* The responses are as they were, or read on.
RespSame ==
  \A r \in Requests : /\ (resp'[r].finished <=> resp[r].finished)
                      /\ resp'[r].pc = "open" => resp[r].pc = "open"

\* Steps of others: the pod and the rows are left alone, and the queue has the
\* same writes.
SameWrites ==
  /\ \A r \in Requests : Asked(ops', r) = Asked(ops, r)
  /\ \E x \in {0, 1} : \A k \in 1 .. Len(ops') : ops'[k].op = "Write" =>
       k + x \in 1 .. Len(ops) /\ ops'[k] = ops[k + x]

LEMMA BystandersKeep ==
  ASSUME DbOK, QueueOK, RecordsOK, RespSame, SamePlaces, pod'.pc = pod.pc, pod'.answer = pod.answer,
         db'.rows = db.rows, hist'.lost = hist.lost, SameWrites, Len(ops') \in Nat
  PROVE  RecordsOK'
<1>1. \A r \in Requests : Asked(ops', r) = Asked(ops, r) /\ Times(db'.rows, r) = Times(db.rows, r)
  BY Zenon DEF SameWrites
<1>2. \A r : Spare(pod', r) = Spare(pod, r)
  BY PlacesKept DEF Spare, Answering, SamePlaces
<1>3. RecordsKnown' /\ CopiesExplained'
  <2>1. ASSUME NEW r \in Requests
        PROVE  /\ Times(db'.rows, r) \in Nat /\ Asked(ops', r) \in Nat
               /\ Times(db.rows, r) \in Nat /\ Asked(ops, r) \in Nat
               /\ ~resp[r].finished => Times(db'.rows, r) + Asked(ops', r) = 0
               /\ Carried(pod', r) => Carried(pod, r)
               /\ Times(db'.rows, r) + Asked(ops', r) <= hist'.lost + Spare(pod', r)
    <3>1. Times(db.rows, r) \in Nat /\ Asked(ops, r) \in Nat
      BY CountsAre
    <3>2. Times(db.rows, r) + Asked(ops, r) <= hist.lost + Spare(pod, r)
      BY DEF RecordsOK, CopiesExplained
    <3>3. ~resp[r].finished => Times(db.rows, r) = 0 /\ Asked(ops, r) = 0
      BY DEF RecordsOK, RecordsKnown
    <3> QED
      BY <1>1, <1>2, <3>1, <3>2, <3>3, PlacesKept
  <2> QED
    BY <2>1, CopiesKept DEF RecordsOK, RespSame
<1>4. PICK x \in {0, 1} : \A k \in 1 .. Len(ops') : ops'[k].op = "Write" =>
                             k + x \in 1 .. Len(ops) /\ ops'[k] = ops[k + x]
  BY DEF SameWrites
<1>5. BatchesOnce'
  BY <1>4 DEF RecordsOK, BatchesOnce, Once
<1>6. CallOK'
  <2>1. ASSUME NEW k \in 1 .. Len(ops'), Live(ops'[k])
        PROVE  /\ pod'.pc = "called" /\ pod'.answer = "none" /\ ops'[k].records = pod'.pending[1]
               /\ \A m \in 1 .. Len(ops') : Live(ops'[m]) => m = k
    <3>1. k + x \in 1 .. Len(ops) /\ ops'[k] = ops[k + x] /\ Live(ops[k + x])
      BY <1>4, <2>1 DEF Live
    <3>2. ASSUME NEW m \in 1 .. Len(ops'), Live(ops'[m]) PROVE m = k
      <4>1. m + x \in 1 .. Len(ops) /\ Live(ops[m + x])
        BY <1>4, <3>2 DEF Live
      <4>2. m + x = k + x
        BY <3>1, <4>1 DEF RecordsOK, CallOK
      <4> QED
        BY <1>4, <4>2
    <3> QED
      BY <3>1, <3>2 DEF RecordsOK, CallOK, SamePlaces
  <2>2. pod'.answer \in {"none", "ok", "err"} /\ (pod'.pc # "called" => pod'.answer = "none")
    BY DEF RecordsOK, CallOK
  <2> QED
    BY <2>1, <2>2 DEF CallOK, Live
<1> QED
  BY <1>3, <1>5, <1>6, PlacesKept DEF RecordsOK

LEMMA SpareIs == \A p, r : Spare(p, r) \in {0, 1}
BY DEF Spare

\* A response is recorded: its record goes into the ring, or is dropped.
LEMMA PushKeeps ==
  ASSUME PodOK, DbOK, QueueOK, RecordsOK, NEW r \in Requests, NEW tokens, Push(r, tokens),
         ~resp[r].finished, resp'[r].finished, resp'[r].pc # "open",
         \A q \in Requests : q # r => resp'[q] = resp[q],
         ops' = ops, db' = db, hist'.lost = hist.lost
  PROVE  RecordsOK'
<1> DEFINE e == [req |-> r, tokens |-> tokens]
<1>0. /\ ~Carried(pod, r) /\ Times(db.rows, r) = 0 /\ Asked(ops, r) = 0
  BY DEF RecordsOK, RecordsKnown
<1>1. /\ pod'.pending = pod.pending /\ pod'.pc = pod.pc /\ pod'.answer = pod.answer
      /\ pod'.ring = pod.ring \/ pod'.ring = Append(pod.ring, e)
  <2>1. pod' = [pod EXCEPT !.dropped = @ + 1] \/ pod' = [pod EXCEPT !.ring = Append(@, e)]
    BY DEF Push
  <2> HIDE DEF e
  <2> QED
    BY <2>1 DEF PodOK, PodShape
<1>2. e.req = r
  OBVIOUS
<1> HIDE DEF e
<1>3. /\ Len(pod'.ring) \in Nat /\ Len(pod.ring) \in Nat /\ Len(pod'.ring) \in {Len(pod.ring), Len(pod.ring) + 1}
      /\ \A i \in 1 .. Len(pod.ring) : pod'.ring[i] = pod.ring[i]
      /\ \A i \in 1 .. Len(pod'.ring) : i \in 1 .. Len(pod.ring) \/ (i = Len(pod.ring) + 1 /\ pod'.ring[i].req = r)
  <2>1. IsSeq(pod.ring) /\ Len(pod.ring) \in Nat
    BY SeqLength DEF PodOK
  <2>2. CASE pod'.ring = pod.ring
    BY <2>1, <2>2
  <2>3. CASE pod'.ring = Append(pod.ring, e)
    <3>1. /\ Len(pod'.ring) = Len(pod.ring) + 1 /\ pod'.ring[Len(pod.ring) + 1] = e
          /\ \A i \in 1 .. Len(pod.ring) : pod'.ring[i] = pod.ring[i]
      BY <2>1, <2>3, SeqAppend
    <3> QED
      BY <1>2, <2>1, <3>1
  <2> QED
    BY <1>1, <2>2, <2>3
<1>4. ASSUME NEW i \in 1 .. Len(pod.ring) PROVE pod.ring[i].req # r
  BY <1>0 DEF Carried, InBatch
<1>5. ASSUME NEW q, q # r PROVE InBatch(pod'.ring, q) <=> InBatch(pod.ring, q)
  <2>1. 1 .. Len(pod.ring) \subseteq 1 .. Len(pod'.ring)
    BY <1>3
  <2> QED
    BY <1>3, <1>5, <2>1 DEF InBatch
<1>6. ASSUME NEW q, q # r PROVE Spare(pod', q) = Spare(pod, q) /\ (Carried(pod', q) <=> Carried(pod, q))
  BY <1>1, <1>5, <1>6 DEF Spare, Carried, Answering
<1>7. Once(pod'.ring)
  <2> SUFFICES ASSUME NEW i \in 1 .. Len(pod'.ring), NEW j \in 1 .. Len(pod'.ring),
                      pod'.ring[i].req = pod'.ring[j].req
               PROVE  i = j
    BY DEF Once
  <2>1. CASE i \in 1 .. Len(pod.ring) /\ j \in 1 .. Len(pod.ring)
    <3>1. pod.ring[i].req = pod.ring[j].req
      BY <1>3, <2>1
    <3> QED
      BY <2>1, <3>1 DEF RecordsOK, RecordsApart, Once
  <2>2. ASSUME NEW k \in 1 .. Len(pod.ring) PROVE pod'.ring[k].req # r
    BY <1>3, <1>4
  <2>3. CASE i \notin 1 .. Len(pod.ring) \/ j \notin 1 .. Len(pod.ring)
    <3>1. i \notin 1 .. Len(pod.ring) /\ j \notin 1 .. Len(pod.ring)
      BY <1>3, <2>2, <2>3
    <3> QED
      BY <1>3, <3>1
  <2> QED
    BY <2>1, <2>3
<1>8. RecordsApart'
  <2>1. ASSUME NEW q \in Requests, NEW a \in 1 .. Len(pod.pending), InBatch(pod.pending[a], q)
        PROVE  /\ ~InBatch(pod'.ring, q)
               /\ \A b \in 1 .. Len(pod.pending) : InBatch(pod.pending[b], q) => a = b
    <3>1. q # r
      BY <1>0, <2>1 DEF Carried
    <3> QED
      BY <1>5, <2>1, <3>1 DEF RecordsOK, RecordsApart
  <2>2. \A a \in 1 .. Len(pod.pending) : Once(pod.pending[a])
    BY DEF RecordsOK, RecordsApart
  <2> QED
    BY <1>1, <1>7, <2>1, <2>2 DEF RecordsApart, Once, InBatch
<1>9. RecordsKnown'
  <2>1. ASSUME NEW q \in Requests
        PROVE  /\ resp'[q].pc = "open" => ~resp'[q].finished
               /\ ~resp'[q].finished =>
                    ~Carried(pod', q) /\ Times(db'.rows, q) = 0 /\ Asked(ops', q) = 0
    <3>1. CASE q = r
      BY <3>1
    <3>2. CASE q # r
      BY <1>6, <3>2 DEF RecordsOK, RecordsKnown
    <3> QED
      BY <3>1, <3>2
  <2> QED
    BY <2>1, Zenon DEF RecordsKnown
<1>10. CopiesExplained'
  <2>1. ASSUME NEW q \in Requests
        PROVE  Times(db'.rows, q) + Asked(ops', q) <= hist'.lost + Spare(pod', q)
    <3>1. CASE q = r
      <4>1. Spare(pod', r) \in {0, 1} /\ hist.lost \in Nat
        BY SpareIs DEF RecordsOK
      <4> QED
        BY <1>0, <3>1, <4>1
    <3>2. CASE q # r
      BY <1>6, <3>2 DEF RecordsOK, CopiesExplained
    <3> QED
      BY <3>1, <3>2
  <2> QED
    BY <2>1, Zenon DEF CopiesExplained
<1>11. CallOK' /\ BatchesOnce'
  BY <1>1 DEF RecordsOK, CallOK, BatchesOnce, Live, Once
<1> QED
  BY <1>8, <1>9, <1>10, <1>11 DEF RecordsOK

\* A batch off the ring, the oldest ones discarded.
LEMMA TakeKeeps == ASSUME PodOK, PodOK', DbOK, QueueOK, RecordsOK, Take PROVE RecordsOK'
<1>0. /\ pod.pc = "waiting" /\ ops' = ops /\ db' = db /\ hist' = hist /\ resp' = resp
      /\ pod'.answer = "none" /\ pod'.pc \in {"waiting", "sending"}
      /\ Len(pod.ring) \in Nat /\ Len(pod.pending) \in Nat
  BY TakeOK, SeqLength DEF Take, RecordsOK, CallOK, PodOK
<1>1. PICK n \in 0 .. Len(pod.ring), x \in Nat : Took(n, x)
  BY TakeOK
<1>2. /\ Len(pod'.ring) = Len(pod.ring) - n
      /\ \A i \in 1 .. Len(pod.ring) - n : pod'.ring[i] = pod.ring[n + i]
  BY <1>1 DEF Took
<1>3. ASSUME NEW a \in 1 .. Len(pod'.pending)
      PROVE  \/ a + x \in 1 .. Len(pod.pending) /\ pod'.pending[a] = pod.pending[a + x]
             \/ /\ a + x = Len(pod.pending) + 1 /\ Len(pod'.pending[a]) = n
                /\ \A i \in 1 .. n : pod'.pending[a][i] = pod.ring[i]
  BY <1>1 DEF Took
<1> DEFINE Older(a) == a + x \in 1 .. Len(pod.pending) /\ pod'.pending[a] = pod.pending[a + x]
           Newest(a) == /\ a + x = Len(pod.pending) + 1 /\ Len(pod'.pending[a]) = n
                        /\ \A i \in 1 .. n : pod'.pending[a][i] = pod.ring[i]
<1>4. \A i \in 1 .. Len(pod.ring) - n : n + i \in 1 .. Len(pod.ring)
  BY <1>0
<1>5. 1 .. n \subseteq 1 .. Len(pod.ring)
  BY <1>0
<1>6. ASSUME NEW r, InBatch(pod'.ring, r) PROVE InBatch(pod.ring, r)
  BY <1>2, <1>4, <1>6 DEF InBatch
<1>7. ASSUME NEW r, NEW a, Newest(a), InBatch(pod'.pending[a], r)
      PROVE  InBatch(pod.ring, r) /\ ~InBatch(pod'.ring, r)
  <2>1. PICK i \in 1 .. n : pod.ring[i].req = r
    BY <1>7 DEF InBatch
  <2>2. ASSUME NEW j \in 1 .. Len(pod'.ring), pod'.ring[j].req = r PROVE FALSE
    <3>1. j \in 1 .. Len(pod.ring) - n /\ n + j \in 1 .. Len(pod.ring)
      BY <1>2, <1>4
    <3>2. pod.ring[n + j].req = r
      BY <1>2, <2>2, <3>1
    <3>3. i = n + j
      BY <1>5, <2>1, <3>1, <3>2 DEF RecordsOK, RecordsApart, Once
    <3> QED
      BY <3>1, <3>3
  <2> QED
    BY <1>5, <2>1, <2>2 DEF InBatch
<1>8. ASSUME NEW a, Newest(a) PROVE Once(pod'.pending[a])
  <2> SUFFICES ASSUME NEW i \in 1 .. n, NEW j \in 1 .. n, pod.ring[i].req = pod.ring[j].req PROVE i = j
    BY <1>8 DEF Once
  <2> QED
    BY <1>5 DEF RecordsOK, RecordsApart, Once
<1>9. Once(pod'.ring)
  <2> SUFFICES ASSUME NEW i \in 1 .. Len(pod'.ring), NEW j \in 1 .. Len(pod'.ring),
                      pod'.ring[i].req = pod'.ring[j].req
               PROVE  i = j
    BY DEF Once
  <2>1. pod.ring[n + i].req = pod.ring[n + j].req /\ n + i \in 1 .. Len(pod.ring) /\ n + j \in 1 .. Len(pod.ring)
    BY <1>2, <1>4
  <2>2. n + i = n + j
    BY <2>1 DEF RecordsOK, RecordsApart, Once
  <2> QED
    BY <2>2
<1>10. \A a \in 1 .. Len(pod'.pending) : Older(a) \/ Newest(a)
  BY <1>3
<1> HIDE DEF Newest
<1>11. RecordsApart'
  <2>1. ASSUME NEW a \in 1 .. Len(pod'.pending) PROVE Once(pod'.pending[a])
    BY <1>8, <1>10 DEF RecordsOK, RecordsApart
  <2>2. ASSUME NEW r \in Requests, NEW a \in 1 .. Len(pod'.pending), InBatch(pod'.pending[a], r)
        PROVE  ~InBatch(pod'.ring, r)
    <3>1. CASE Older(a)
      BY <1>6, <2>2, <3>1 DEF RecordsOK, RecordsApart
    <3>2. CASE Newest(a)
      BY <1>7, <2>2, <3>2
    <3> QED
      BY <1>10, <3>1, <3>2
  <2>3. ASSUME NEW r \in Requests, NEW a \in 1 .. Len(pod'.pending), InBatch(pod'.pending[a], r),
               NEW b \in 1 .. Len(pod'.pending), InBatch(pod'.pending[b], r)
        PROVE  a = b
    <3>1. CASE Older(a) /\ Older(b)
      <4>1. a + x = b + x
        BY <2>3, <3>1 DEF RecordsOK, RecordsApart
      <4> QED
        BY <4>1
    <3>2. CASE Newest(a) /\ Newest(b)
      BY <3>2 DEF Newest
    <3>3. ASSUME NEW c, NEW d, Older(c), Newest(d), InBatch(pod'.pending[c], r), InBatch(pod'.pending[d], r)
          PROVE  FALSE
      BY <1>7, <3>3 DEF RecordsOK, RecordsApart
    <3> QED
      BY <1>10, <2>3, <3>1, <3>2, <3>3
  <2> QED
    BY <1>9, <2>1, <2>2, <2>3 DEF RecordsApart
<1>12. ASSUME NEW r, Carried(pod', r) PROVE Carried(pod, r)
  <2>1. CASE InBatch(pod'.ring, r)
    BY <1>6, <2>1 DEF Carried
  <2>2. ASSUME NEW a \in 1 .. Len(pod'.pending), InBatch(pod'.pending[a], r) PROVE Carried(pod, r)
    BY <1>7, <1>10, <2>2 DEF Carried
  <2> QED
    BY <1>12, <2>1, <2>2 DEF Carried
<1>13. RecordsKnown' /\ CopiesExplained'
  <2>1. ASSUME NEW r \in Requests
        PROVE  /\ Times(db.rows, r) \in Nat /\ Asked(ops, r) \in Nat
               /\ ~resp[r].finished => Times(db.rows, r) + Asked(ops, r) = 0
               /\ Times(db.rows, r) + Asked(ops, r) <= hist.lost + Spare(pod', r)
    <3>1. Times(db.rows, r) \in Nat /\ Asked(ops, r) \in Nat
      BY CountsAre
    <3>2. Times(db.rows, r) + Asked(ops, r) <= hist.lost + Spare(pod, r) /\ hist.lost \in Nat
      BY DEF RecordsOK, CopiesExplained
    <3>3. ~resp[r].finished => Times(db.rows, r) = 0 /\ Asked(ops, r) = 0
      BY DEF RecordsOK, RecordsKnown
    <3>4. Spare(pod, r) \in {0, 1} /\ Spare(pod', r) \in {0, 1} /\ Spare(pod, r) <= Spare(pod', r)
      BY <1>0, <1>12 DEF Spare, Answering
    <3> QED
      BY <3>1, <3>2, <3>3, <3>4
  <2> QED
    BY <1>0, <1>12, <2>1, CopiesKept DEF RecordsOK
<1>14. CallOK' /\ BatchesOnce'
  BY <1>0 DEF RecordsOK, CallOK, BatchesOnce, Live, Once
<1> QED
  BY <1>0, <1>11, <1>13, <1>14 DEF RecordsOK

\* A step that leaves the pod's records where they are has to account for the
\* copies it makes.
LEMMA CopiesAccounted ==
  ASSUME DbOK, QueueOK, RecordsOK, SamePlaces, RespSame, hist'.lost \in Nat, hist.lost <= hist'.lost,
         BatchesOnce', CallOK',
         \A r \in Requests : /\ Times(db'.rows, r) \in Nat /\ Asked(ops', r) \in Nat
                             /\ ~resp[r].finished => Times(db'.rows, r) + Asked(ops', r) = 0
                             /\ Times(db'.rows, r) + Asked(ops', r) <= hist'.lost + Spare(pod', r)
  PROVE  RecordsOK'
<1>1. \A r \in Requests : /\ Times(db'.rows, r) \in Nat /\ Asked(ops', r) \in Nat
                          /\ Times(db.rows, r) \in Nat /\ Asked(ops, r) \in Nat
                          /\ ~resp[r].finished => Times(db'.rows, r) + Asked(ops', r) = 0
                          /\ Carried(pod', r) => Carried(pod, r)
                          /\ Times(db'.rows, r) + Asked(ops', r) <= hist'.lost + Spare(pod', r)
  <2>1. \A r \in Requests : Times(db.rows, r) \in Nat /\ Asked(ops, r) \in Nat
    BY CountsAre
  <2>2. \A r : Carried(pod', r) = Carried(pod, r)
    BY PlacesKept
  <2> QED
    BY <2>1, <2>2
<1>2. RecordsKnown' /\ CopiesExplained'
  BY <1>1, CopiesKept DEF RespSame
<1> QED
  BY <1>2, PlacesKept DEF RecordsOK

\* What is known of a record before the step.
LEMMA CopiesBefore ==
  ASSUME DbOK, QueueOK, RecordsOK, NEW r \in Requests
  PROVE  /\ Times(db.rows, r) \in Nat /\ Asked(ops, r) \in Nat /\ hist.lost \in Nat
         /\ ~resp[r].finished => Times(db.rows, r) = 0 /\ Asked(ops, r) = 0 /\ ~Carried(pod, r)
         /\ Times(db.rows, r) + Asked(ops, r) <= hist.lost + Spare(pod, r)
         /\ Spare(pod, r) \in {0, 1} /\ Spare(pod', r) \in {0, 1}
<1>1. Times(db.rows, r) \in Nat /\ Asked(ops, r) \in Nat
  BY CountsAre
<1>2. /\ ~resp[r].finished => Times(db.rows, r) = 0 /\ Asked(ops, r) = 0 /\ ~Carried(pod, r)
      /\ Times(db.rows, r) + Asked(ops, r) <= hist.lost + Spare(pod, r) /\ hist.lost \in Nat
  BY DEF RecordsOK, RecordsKnown, CopiesExplained
<1> QED
  BY <1>1, <1>2, SpareIs

\* While the pod waits for no answer, nobody is told of a write.
LEMMA NoneLive ==
  ASSUME CallOK, pod.pc # "called" \/ pod.answer # "none" PROVE \A k \in 1 .. Len(ops) : ~Live(ops[k])
BY DEF CallOK

\* The drain task connects, or fails to.
LEMMA ConnectKeeps == ASSUME PodOK, DbOK, QueueOK, RecordsOK, Connect PROVE RecordsOK'
<1>1. /\ SamePlaces /\ pod.pc = "sending" /\ pod'.pc \in {"sending", "waiting"}
      /\ pod.answer = "none" /\ pod'.answer = "none"
      /\ ops' = ops /\ db' = db /\ hist' = hist /\ resp' = resp
  <2>1. pod.pc = "sending" /\ ops' = ops /\ db' = db /\ hist' = hist /\ resp' = resp
    BY DEF Connect
  <2>2. pod.answer = "none"
    BY <2>1 DEF RecordsOK, CallOK
  <2>3. \/ pod' = [pod EXCEPT !.client = TRUE]
        \/ pod' = [pod EXCEPT !.client = FALSE, !.pc = "waiting", !.answer = "none"]
    BY DEF Connect, Failed
  <2> QED
    BY <2>1, <2>2, <2>3 DEF PodOK, PodShape, SamePlaces
<1>2. \A k \in 1 .. Len(ops) : ~Live(ops[k])
  BY <1>1, NoneLive DEF RecordsOK
<1>3. BatchesOnce' /\ CallOK'
  BY <1>1, <1>2 DEF RecordsOK, BatchesOnce, CallOK, Live, Once
<1>4. \A r : Spare(pod', r) = Spare(pod, r)
  BY <1>1, PlacesKept DEF Spare, Answering
<1>5. ASSUME NEW r \in Requests
      PROVE  /\ Times(db.rows, r) \in Nat /\ Asked(ops, r) \in Nat
             /\ ~resp[r].finished => Times(db.rows, r) + Asked(ops, r) = 0
             /\ Times(db.rows, r) + Asked(ops, r) <= hist.lost + Spare(pod', r)
  BY <1>4, CopiesBefore
<1>6. RespSame /\ hist.lost \in Nat
  BY <1>1 DEF RespSame, RecordsOK
<1> QED
  BY <1>1, <1>3, <1>5, <1>6, CopiesAccounted

\* It reports its oldest batch.
LEMMA ReportKeeps == ASSUME PodOK, DbOK, QueueOK, RecordsOK, Report PROVE RecordsOK'
<1> DEFINE w == [op |-> "Write", records |-> pod.pending[1], live |-> TRUE]
<1>1. /\ SamePlaces /\ pod.pc = "sending" /\ pod'.pc = "called"
      /\ pod.answer = "none" /\ pod'.answer = "none"
      /\ db' = db /\ hist' = hist /\ resp' = resp
      /\ 1 \in 1 .. Len(pod.pending)
  <2>1. pod.pc = "sending" /\ db' = db /\ hist' = hist /\ resp' = resp
    BY DEF Report
  <2>2. pod.answer = "none"
    BY <2>1 DEF RecordsOK, CallOK
  <2>3. pod' = [pod EXCEPT !.pc = "called"]
    BY DEF Report
  <2>4. SamePlaces /\ pod'.pc = "called" /\ pod'.answer = pod.answer
    BY <2>3 DEF PodOK, PodShape, SamePlaces
  <2>5. Len(pod.pending) \in Nat \ {0}
    BY <2>1, SeqTail DEF PodOK
  <2> QED
    BY <2>1, <2>2, <2>4, <2>5
<1>2. ops' = Append(ops, w) /\ IsSeq(ops) /\ Len(ops) \in Nat
  <2>1. Head(pod.pending) = pod.pending[1]
    BY <1>1, SeqTail DEF PodOK
  <2> QED
    BY <2>1, SeqLength DEF Report, Queue, QueueOK
<1>3. w.op = "Write" /\ w.records = pod.pending[1] /\ w.live
  OBVIOUS
<1> HIDE DEF w
<1>4. /\ Len(ops') = Len(ops) + 1 /\ ops'[Len(ops) + 1] = w
      /\ \A i \in 1 .. Len(ops) : ops'[i] = ops[i]
  BY <1>2, SeqAppend
<1>5. \A k \in 1 .. Len(ops') : k \in 1 .. Len(ops) \/ k = Len(ops) + 1
  BY <1>2, <1>4
<1>6. \A k \in 1 .. Len(ops) : ~Live(ops[k])
  BY <1>1, NoneLive DEF RecordsOK
<1>7. BatchesOnce'
  <2>1. Once(w.records)
    BY <1>1, <1>3 DEF RecordsOK, RecordsApart
  <2>2. ASSUME NEW k \in 1 .. Len(ops'), ops'[k].op = "Write" PROVE Once(ops'[k].records)
    BY <1>4, <1>5, <2>1, <2>2 DEF RecordsOK, BatchesOnce
  <2> QED
    BY <2>2 DEF BatchesOnce, Once
<1>8. CallOK'
  <2>1. ASSUME NEW k \in 1 .. Len(ops'), Live(ops'[k])
        PROVE  k = Len(ops) + 1 /\ ops'[k].records = pod'.pending[1]
    BY <1>1, <1>3, <1>4, <1>5, <1>6, <2>1 DEF SamePlaces
  <2> QED
    BY <1>1, <2>1 DEF CallOK, Live
<1>9. ASSUME NEW r \in Requests
      PROVE  /\ Times(db'.rows, r) \in Nat /\ Asked(ops', r) \in Nat
             /\ ~resp[r].finished => Times(db'.rows, r) + Asked(ops', r) = 0
             /\ Times(db'.rows, r) + Asked(ops', r) <= hist'.lost + Spare(pod', r)
  <2>1. Asked(ops', r) = Asked(ops, r) + (IF InBatch(pod.pending[1], r) THEN 1 ELSE 0)
    <3>1. Writes(w, r) <=> InBatch(pod.pending[1], r)
      BY <1>3 DEF Writes
    <3>2. Asked(Append(ops, w), r) = Asked(ops, r) + (IF Writes(w, r) THEN 1 ELSE 0)
      BY <1>2, AskedAppend
    <3> QED
      BY <1>2, <3>1, <3>2
  <2>2. CASE InBatch(pod.pending[1], r)
    <3>1. Carried(pod, r)
      BY <1>1, <2>2 DEF Carried
    <3>2. Spare(pod, r) = 0 /\ Spare(pod', r) = 1
      BY <1>1, <2>2, <3>1 DEF Spare, Answering, SamePlaces
    <3> QED
      BY <1>1, <2>1, <2>2, <3>1, <3>2, CopiesBefore
  <2>3. CASE ~InBatch(pod.pending[1], r)
    <3>1. Spare(pod', r) = Spare(pod, r)
      BY <1>1, <2>3, PlacesKept DEF Spare, Answering, SamePlaces
    <3> QED
      BY <1>1, <2>1, <2>3, <3>1, CopiesBefore
  <2> QED
    BY <2>2, <2>3
<1>10. RespSame /\ hist'.lost \in Nat /\ hist.lost <= hist'.lost
  BY <1>1 DEF RespSame, RecordsOK
<1> QED
  BY <1>1, <1>7, <1>8, <1>9, <1>10, CopiesAccounted

\* The answer arrives: the batch goes, or stays in front.
LEMMA AnsweredKeeps == ASSUME PodOK, DbOK, QueueOK, RecordsOK, Answered PROVE RecordsOK'
<1>1. /\ pod.pc = "called" /\ pod.answer # "none"
      /\ ops' = ops /\ db' = db /\ hist' = hist /\ resp' = resp
  BY DEF Answered
<1>2. \A k \in 1 .. Len(ops) : ~Live(ops[k])
  BY <1>1, NoneLive DEF RecordsOK
<1>3. RespSame /\ hist.lost \in Nat
  BY <1>1 DEF RespSame, RecordsOK
<1>4. CASE pod.answer = "ok"
  <2>1. /\ pod'.ring = pod.ring /\ pod'.pending = Tail(pod.pending) /\ pod'.pc = "waiting"
        /\ pod'.answer = "none"
    <3>1. pod' = [pod EXCEPT !.pending = Tail(@), !.pc = "waiting", !.answer = "none"]
      BY <1>4 DEF Answered
    <3> QED
      BY <3>1 DEF PodOK, PodShape
  <2>2. /\ Len(pod'.pending) = Len(pod.pending) - 1 /\ Len(pod.pending) \in Nat \ {0}
        /\ \A a \in 1 .. Len(pod.pending) - 1 : pod'.pending[a] = pod.pending[a + 1]
    BY <1>1, <2>1, SeqTail DEF PodOK
  <2>3. ASSUME NEW a \in 1 .. Len(pod'.pending)
        PROVE  /\ a + 1 \in 1 .. Len(pod.pending) /\ a + 1 # 1 /\ pod'.pending[a] = pod.pending[a + 1]
    BY <2>2
  <2>4. RecordsApart'
    <3>1. ASSUME NEW a \in 1 .. Len(pod'.pending) PROVE Once(pod'.pending[a])
      BY <2>3 DEF RecordsOK, RecordsApart
    <3>2. ASSUME NEW r \in Requests, NEW a \in 1 .. Len(pod'.pending), InBatch(pod'.pending[a], r)
          PROVE  ~InBatch(pod'.ring, r)
      BY <2>1, <2>3, <3>2 DEF RecordsOK, RecordsApart
    <3>3. ASSUME NEW r \in Requests, NEW a \in 1 .. Len(pod'.pending), InBatch(pod'.pending[a], r),
                 NEW b \in 1 .. Len(pod'.pending), InBatch(pod'.pending[b], r)
          PROVE  a = b
      <4>1. a + 1 = b + 1
        BY <2>3, <3>3 DEF RecordsOK, RecordsApart
      <4> QED
        BY <4>1
    <3>4. Once(pod'.ring)
      BY <2>1 DEF RecordsOK, RecordsApart
    <3> QED
      BY <3>1, <3>2, <3>3, <3>4 DEF RecordsApart
  <2>5. ASSUME NEW r, Carried(pod', r) PROVE Carried(pod, r)
    BY <2>1, <2>3, <2>5 DEF Carried
  <2>6. ASSUME NEW r \in Requests, Carried(pod', r) PROVE ~InBatch(pod.pending[1], r)
    <3>1. 1 \in 1 .. Len(pod.pending)
      BY <2>2
    <3>2. CASE InBatch(pod'.ring, r)
      BY <2>1, <3>1, <3>2 DEF RecordsOK, RecordsApart
    <3>3. ASSUME NEW a \in 1 .. Len(pod'.pending), InBatch(pod'.pending[a], r)
          PROVE  ~InBatch(pod.pending[1], r)
      BY <2>3, <3>1, <3>3 DEF RecordsOK, RecordsApart
    <3> QED
      BY <2>6, <3>2, <3>3 DEF Carried
  <2>7. \A r \in Requests : Spare(pod, r) <= Spare(pod', r)
    <3>1. ASSUME NEW r \in Requests PROVE Spare(pod, r) <= Spare(pod', r)
      <4>1. CASE Carried(pod', r)
        <5>1. Spare(pod, r) = 0
          BY <2>5, <2>6, <4>1 DEF Spare, Answering
        <5> QED
          BY <5>1, SpareIs
      <4>2. CASE ~Carried(pod', r)
        <5>1. Spare(pod', r) = 1
          BY <4>2 DEF Spare
        <5> QED
          BY <5>1, SpareIs
      <4> QED
        BY <4>1, <4>2
    <3> QED
      BY <3>1
  <2>8. ASSUME NEW r \in Requests
        PROVE  /\ Times(db.rows, r) \in Nat /\ Asked(ops, r) \in Nat
               /\ ~resp[r].finished => Times(db.rows, r) + Asked(ops, r) = 0
               /\ Carried(pod', r) => Carried(pod, r)
               /\ Times(db.rows, r) + Asked(ops, r) <= hist.lost + Spare(pod', r)
    BY <2>5, <2>7, CopiesBefore
  <2>9. RecordsKnown' /\ CopiesExplained'
    BY <1>1, <1>3, <2>8, CopiesKept DEF RespSame
  <2>10. BatchesOnce' /\ CallOK'
    BY <1>1, <1>2, <2>1 DEF RecordsOK, BatchesOnce, CallOK, Live, Once
  <2> QED
    BY <1>1, <1>3, <2>4, <2>9, <2>10 DEF RecordsOK
<1>5. CASE pod.answer # "ok"
  <2>1. pod.answer = "err"
    BY <1>1, <1>5 DEF RecordsOK, CallOK
  <2>2. SamePlaces /\ pod'.pc = "waiting" /\ pod'.answer = "none"
    <3>1. pod' = [pod EXCEPT !.client = FALSE, !.pc = "waiting", !.answer = "none"]
      BY <1>5 DEF Answered, Failed
    <3> QED
      BY <3>1 DEF PodOK, PodShape, SamePlaces
  <2>3. BatchesOnce' /\ CallOK'
    BY <1>1, <1>2, <2>2 DEF RecordsOK, BatchesOnce, CallOK, Live, Once
  <2>4. \A r : Spare(pod', r) = Spare(pod, r)
    BY <2>1, <2>2, PlacesKept DEF Spare, Answering
  <2>5. ASSUME NEW r \in Requests
        PROVE  /\ Times(db.rows, r) \in Nat /\ Asked(ops, r) \in Nat
               /\ ~resp[r].finished => Times(db.rows, r) + Asked(ops, r) = 0
               /\ Times(db.rows, r) + Asked(ops, r) <= hist.lost + Spare(pod', r)
    BY <2>4, CopiesBefore
  <2> QED
    BY <1>1, <1>3, <2>2, <2>3, <2>5, CopiesAccounted
<1> QED
  BY <1>4, <1>5

\* The connection breaks: the write stays queued, its answer is lost.
LEMMA BreakKeeps == ASSUME PodOK, DbOK, QueueOK, HistOK, RecordsOK, ReportBreaks PROVE RecordsOK'
<1>1. /\ pod.pc \in {"sending", "called"} /\ ops' = Forsaken("Write") /\ db' = db /\ resp' = resp
      /\ hist' = [hist EXCEPT !.lost = IF pod.pc = "called" THEN @ + 1 ELSE @]
      /\ pod' = [pod EXCEPT !.client = FALSE, !.pc = "waiting", !.answer = "none"]
  BY DEF ReportBreaks, Failed
<1>2. SamePlaces /\ pod'.pc = "waiting" /\ pod'.answer = "none"
  BY <1>1 DEF PodOK, PodShape, SamePlaces
<1>3. /\ hist'.lost = IF pod.pc = "called" THEN hist.lost + 1 ELSE hist.lost
      /\ hist.lost \in Nat
  BY <1>1 DEF HistOK, HistShape, RecordsOK
<1>4. /\ IsSeq(ops') /\ Len(ops') = Len(ops) /\ Len(ops) \in Nat /\ IsSeq(ops)
      /\ \A i \in 1 .. Len(ops) : ops'[i].op = ops[i].op
      /\ \A i \in 1 .. Len(ops) : ops'[i].op = "Write" =>
           ops'[i].records = ops[i].records /\ ops'[i].live = FALSE
  BY <1>1, ForsakenIs DEF QueueOK
<1>5. BatchesOnce'
  BY <1>4 DEF RecordsOK, BatchesOnce, Once
<1>6. CallOK'
  BY <1>2, <1>4 DEF CallOK, Live
<1>7. ASSUME NEW r \in Requests
      PROVE  /\ Times(db'.rows, r) \in Nat /\ Asked(ops', r) \in Nat
             /\ ~resp[r].finished => Times(db'.rows, r) + Asked(ops', r) = 0
             /\ Times(db'.rows, r) + Asked(ops', r) <= hist'.lost + Spare(pod', r)
  <2>1. \A k \in 1 .. Len(ops) : Writes(ops'[k], r) <=> Writes(ops[k], r)
    BY <1>4 DEF Writes
  <2>2. Asked(ops', r) = Asked(ops, r)
    BY <1>4, <2>1, AskedSame
  <2>3. pod.pc = "sending" => Spare(pod', r) = Spare(pod, r)
    BY <1>2, PlacesKept DEF Spare, Answering
  <2> QED
    BY <1>1, <1>3, <2>2, <2>3, CopiesBefore
<1>8. RespSame /\ hist'.lost \in Nat /\ hist.lost <= hist'.lost
  BY <1>1, <1>3 DEF RespSame
<1> QED
  BY <1>2, <1>5, <1>6, <1>7, <1>8, CopiesAccounted

\* The first operation goes: the writes behind it are as they were.
LEMMA WritesMoveUp ==
  ASSUME QueueOK, RecordsOK, ops # <<>>, ops' = Tail(ops)
  PROVE  /\ BatchesOnce' /\ IsSeq(ops) /\ Head(ops) = ops[1] /\ 1 \in 1 .. Len(ops)
         /\ Len(ops') \in Nat
         /\ \A k \in 1 .. Len(ops') : k + 1 \in 1 .. Len(ops) /\ k + 1 # 1 /\ ops'[k] = ops[k + 1]
<1>1. /\ IsSeq(ops) /\ Len(ops') = Len(ops) - 1 /\ Len(ops) \in Nat \ {0} /\ Head(ops) = ops[1]
      /\ \A i \in 1 .. Len(ops) - 1 : ops'[i] = ops[i + 1]
  BY SeqTail DEF QueueOK
<1>2. \A k \in 1 .. Len(ops') : k + 1 \in 1 .. Len(ops) /\ k + 1 # 1 /\ ops'[k] = ops[k + 1]
  BY <1>1
<1>3. BatchesOnce'
  BY <1>2 DEF RecordsOK, BatchesOnce, Once
<1> QED
  BY <1>1, <1>2, <1>3

\* A batch is stored: no longer queued, and in the rows.
LEMMA WriteKeeps == ASSUME PodOK, DbOK, QueueOK, HistOK, RecordsOK, StoreWrite PROVE RecordsOK'
<1>1. /\ ops # <<>> /\ ops' = Tail(ops) /\ Head(ops).op = "Write" /\ resp' = resp
      /\ pod' = IF Head(ops).live THEN [pod EXCEPT !.answer = "ok"] ELSE pod
  BY DEF StoreWrite, Done
<1>2. /\ BatchesOnce' /\ IsSeq(ops) /\ Head(ops) = ops[1] /\ 1 \in 1 .. Len(ops)
      /\ \A k \in 1 .. Len(ops') : k + 1 \in 1 .. Len(ops) /\ k + 1 # 1 /\ ops'[k] = ops[k + 1]
  BY <1>1, WritesMoveUp
<1>3. db'.rows = db.rows \o ops[1].records /\ IsSeq(db.rows) /\ IsSeq(ops[1].records) /\ Once(ops[1].records)
  <2>1. db'.rows = db.rows \o ops[1].records
    BY <1>2, StoredWrite
  <2>2. OpOK(ops[1]) /\ ops[1].op = "Write"
    BY <1>1, <1>2 DEF QueueOK
  <2> QED
    BY <1>2, <2>1, <2>2 DEF OpOK, DbOK, RecordsOK, BatchesOnce
<1>4. hist'.lost = hist.lost /\ hist.lost \in Nat
  <2>1. \E a : hist' = [hist EXCEPT !.accepted = a]
    BY DEF StoreWrite
  <2> QED
    BY <2>1 DEF HistOK, HistShape, RecordsOK
<1>5. /\ SamePlaces /\ pod'.pc = pod.pc
      /\ pod'.answer = IF ops[1].live THEN "ok" ELSE pod.answer
  BY <1>1, <1>2 DEF PodOK, PodShape, SamePlaces
<1>6. ops[1].live => pod.pc = "called" /\ pod.answer = "none" /\ \A k \in 1 .. Len(ops') : ~Live(ops'[k])
  <2>1. ASSUME ops[1].live PROVE Live(ops[1])
    BY <1>1, <1>2, <2>1 DEF Live
  <2> QED
    BY <1>2, <2>1 DEF RecordsOK, CallOK
<1>7. CallOK'
  <2>1. CASE ops[1].live
    BY <1>5, <1>6, <2>1 DEF CallOK, Live
  <2>2. CASE ~ops[1].live
    <3>1. ASSUME NEW k \in 1 .. Len(ops'), Live(ops'[k])
          PROVE  /\ pod'.pc = "called" /\ pod'.answer = "none" /\ ops'[k].records = pod'.pending[1]
                 /\ \A m \in 1 .. Len(ops') : Live(ops'[m]) => m = k
      <4>1. k + 1 \in 1 .. Len(ops) /\ Live(ops[k + 1]) /\ ops'[k] = ops[k + 1]
        BY <1>2, <3>1
      <4>2. ASSUME NEW m \in 1 .. Len(ops'), Live(ops'[m]) PROVE m = k
        <5>1. m + 1 = k + 1
          BY <1>2, <4>1, <4>2 DEF RecordsOK, CallOK
        <5> QED
          BY <5>1
      <4> QED
        BY <1>5, <2>2, <4>1, <4>2 DEF RecordsOK, CallOK, SamePlaces
    <3>2. pod'.answer \in {"none", "ok", "err"} /\ (pod'.pc # "called" => pod'.answer = "none")
      BY <1>5, <2>2 DEF RecordsOK, CallOK
    <3> QED
      BY <3>1, <3>2 DEF CallOK, Live
  <2> QED
    BY <2>1, <2>2
<1>8. \A r : Spare(pod', r) = Spare(pod, r)
  <2>1. (pod'.answer # "err") <=> (pod.answer # "err")
    BY <1>5, <1>6
  <2> QED
    BY <1>5, <2>1, PlacesKept DEF Spare, Answering, SamePlaces
<1>9. ASSUME NEW r \in Requests
      PROVE  /\ Times(db'.rows, r) \in Nat /\ Asked(ops', r) \in Nat
             /\ ~resp[r].finished => Times(db'.rows, r) + Asked(ops', r) = 0
             /\ Times(db'.rows, r) + Asked(ops', r) <= hist'.lost + Spare(pod', r)
  <2>1. /\ Asked(ops', r) \in Nat
        /\ Asked(ops, r) = Asked(ops', r) + (IF Writes(ops[1], r) THEN 1 ELSE 0)
    BY <1>1, <1>2, AskedTail
  <2>2. Writes(ops[1], r) <=> InBatch(ops[1].records, r)
    BY <1>1, <1>2 DEF Writes
  <2>3. /\ Times(db'.rows, r) \in Nat
        /\ Times(db'.rows, r) = Times(db.rows, r) + (IF InBatch(ops[1].records, r) THEN 1 ELSE 0)
    BY <1>3, TimesStored
  <2>4. Times(db'.rows, r) + Asked(ops', r) = Times(db.rows, r) + Asked(ops, r)
    BY <2>1, <2>2, <2>3, CopiesBefore
  <2> QED
    BY <1>4, <1>8, <2>1, <2>3, <2>4, CopiesBefore
<1>10. RespSame
  BY <1>1 DEF RespSame
<1> QED
  BY <1>2, <1>4, <1>5, <1>7, <1>9, <1>10, CopiesAccounted

\* Storage refuses the first operation; a pod that waits for it is told.
LEMMA RefusedKeeps ==
  ASSUME PodOK, DbOK, QueueOK, RecordsOK, StorageError, Head(ops).op = "Write" PROVE RecordsOK'
<1>1. /\ ops # <<>> /\ ops' = Tail(ops) /\ resp' = resp /\ db' = db /\ hist' = hist
      /\ pod' = IF Head(ops).live THEN [pod EXCEPT !.answer = "err"] ELSE pod
  BY DEF StorageError
<1>2. /\ BatchesOnce' /\ IsSeq(ops) /\ Head(ops) = ops[1] /\ 1 \in 1 .. Len(ops)
      /\ \A k \in 1 .. Len(ops') : k + 1 \in 1 .. Len(ops) /\ k + 1 # 1 /\ ops'[k] = ops[k + 1]
  BY <1>1, WritesMoveUp
<1>3. /\ SamePlaces /\ pod'.pc = pod.pc
      /\ pod'.answer = IF ops[1].live THEN "err" ELSE pod.answer
  BY <1>1, <1>2 DEF PodOK, PodShape, SamePlaces
<1>4. ops[1].live => /\ pod.pc = "called" /\ pod.answer = "none" /\ ops[1].records = pod.pending[1]
                     /\ \A k \in 1 .. Len(ops') : ~Live(ops'[k])
  <2>1. ASSUME ops[1].live PROVE Live(ops[1])
    BY <1>2, <2>1 DEF Live
  <2> QED
    BY <1>2, <2>1 DEF RecordsOK, CallOK
<1>5. CallOK'
  <2>1. CASE ops[1].live
    BY <1>3, <1>4, <2>1 DEF CallOK, Live
  <2>2. CASE ~ops[1].live
    <3>1. ASSUME NEW k \in 1 .. Len(ops'), Live(ops'[k])
          PROVE  /\ pod'.pc = "called" /\ pod'.answer = "none" /\ ops'[k].records = pod'.pending[1]
                 /\ \A m \in 1 .. Len(ops') : Live(ops'[m]) => m = k
      <4>1. k + 1 \in 1 .. Len(ops) /\ Live(ops[k + 1]) /\ ops'[k] = ops[k + 1]
        BY <1>2, <3>1
      <4>2. ASSUME NEW m \in 1 .. Len(ops'), Live(ops'[m]) PROVE m = k
        <5>1. m + 1 = k + 1
          BY <1>2, <4>1, <4>2 DEF RecordsOK, CallOK
        <5> QED
          BY <5>1
      <4> QED
        BY <1>3, <2>2, <4>1, <4>2 DEF RecordsOK, CallOK, SamePlaces
    <3>2. pod'.answer \in {"none", "ok", "err"} /\ (pod'.pc # "called" => pod'.answer = "none")
      BY <1>3, <2>2 DEF RecordsOK, CallOK
    <3> QED
      BY <3>1, <3>2 DEF CallOK, Live
  <2> QED
    BY <2>1, <2>2
<1>6. ASSUME NEW r \in Requests
      PROVE  /\ Times(db'.rows, r) \in Nat /\ Asked(ops', r) \in Nat
             /\ ~resp[r].finished => Times(db'.rows, r) + Asked(ops', r) = 0
             /\ Times(db'.rows, r) + Asked(ops', r) <= hist'.lost + Spare(pod', r)
  <2>1. /\ Asked(ops', r) \in Nat
        /\ Asked(ops, r) = Asked(ops', r) + (IF Writes(ops[1], r) THEN 1 ELSE 0)
    BY <1>1, <1>2, AskedTail
  <2>2. Writes(ops[1], r) <=> InBatch(ops[1].records, r)
    BY <1>2 DEF Writes
  <2>3. CASE Spare(pod', r) = Spare(pod, r)
    BY <1>1, <2>1, <2>3, CopiesBefore
  <2>4. CASE Spare(pod', r) # Spare(pod, r)
    <3>1. ops[1].live /\ InBatch(ops[1].records, r)
      BY <1>3, <1>4, <2>4, PlacesKept DEF Spare, Answering, SamePlaces
    <3>2. Asked(ops, r) = Asked(ops', r) + 1
      BY <2>1, <2>2, <3>1
    <3>3. db'.rows = db.rows /\ hist'.lost = hist.lost
      BY <1>1
    <3>4. /\ Times(db.rows, r) \in Nat /\ Asked(ops, r) \in Nat /\ hist.lost \in Nat
          /\ ~resp[r].finished => Times(db.rows, r) = 0 /\ Asked(ops, r) = 0
          /\ Times(db.rows, r) + Asked(ops, r) <= hist.lost + Spare(pod, r)
          /\ Spare(pod, r) \in {0, 1} /\ Spare(pod', r) \in {0, 1}
      BY CopiesBefore, Zenon
    <3> QED
      BY <2>1, <3>2, <3>3, <3>4
  <2> QED
    BY <2>3, <2>4
<1>7. RespSame /\ hist'.lost \in Nat /\ hist.lost <= hist'.lost
  BY <1>1 DEF RespSame, RecordsOK
<1> QED
  BY <1>2, <1>3, <1>5, <1>6, <1>7, CopiesAccounted

\* The ledger crashes: its queue is gone, and an answer on its way may be lost.
LEMMA CrashKeeps == ASSUME PodOK, DbOK, QueueOK, HistOK, RecordsOK, Crash PROVE RecordsOK'
<1>1. /\ ops' = <<>> /\ db' = db /\ resp' = resp
      /\ \/ /\ pod.pc = "called" /\ pod' = [pod EXCEPT !.answer = "err"]
            /\ hist' = [hist EXCEPT !.synced = {}, !.lost = @ + 1]
         \/ pod' = pod /\ hist' = [hist EXCEPT !.synced = {}]
  BY DEF Crash
<1>2. /\ SamePlaces /\ pod'.pc = pod.pc /\ hist.lost \in Nat
      /\ \/ pod.pc = "called" /\ pod'.answer = "err" /\ hist'.lost = hist.lost + 1
         \/ pod' = pod /\ hist'.lost = hist.lost
  BY <1>1 DEF PodOK, PodShape, SamePlaces, HistOK, HistShape, RecordsOK
<1>3. Len(ops') = 0
  BY <1>1
<1>4. BatchesOnce' /\ CallOK'
  <2>1. pod'.answer \in {"none", "ok", "err"} /\ (pod'.pc # "called" => pod'.answer = "none")
    BY <1>2 DEF RecordsOK, CallOK
  <2> QED
    BY <1>3, <2>1 DEF BatchesOnce, CallOK
<1>5. ASSUME NEW r \in Requests
      PROVE  /\ Times(db'.rows, r) \in Nat /\ Asked(ops', r) \in Nat
             /\ ~resp[r].finished => Times(db'.rows, r) + Asked(ops', r) = 0
             /\ Times(db'.rows, r) + Asked(ops', r) <= hist'.lost + Spare(pod', r)
  <2>1. Asked(ops', r) = 0
    <3>1. WritesOf(ops', r) = {}
      BY <1>3 DEF WritesOf
    <3> QED
      BY <3>1, FS_EmptySet DEF Asked
  <2>2. Spare(pod, r) \in {0, 1} /\ Spare(pod', r) \in {0, 1}
    BY SpareIs
  <2>3. pod' = pod => Spare(pod', r) = Spare(pod, r)
    OBVIOUS
  <2> QED
    BY <1>1, <1>2, <2>1, <2>2, <2>3, CopiesBefore
<1>6. RespSame /\ hist'.lost \in Nat /\ hist.lost <= hist'.lost
  BY <1>1, <1>2 DEF RespSame
<1> QED
  BY <1>2, <1>4, <1>5, <1>6, CopiesAccounted

\* The queue of a step that neither asks for a write nor does one.
LEMMA QueueAside ==
  ASSUME QueueOK,
         \/ ops' = ops
         \/ \E o : Queue(o) /\ o.op # "Write"
         \/ ops # <<>> /\ ops' = Tail(ops) /\ Head(ops).op # "Write"
         \/ ops' = Forsaken("Declare")
  PROVE  SameWrites /\ Len(ops') \in Nat
<1>0. IsSeq(ops) /\ Len(ops) \in Nat
  BY SeqLength DEF QueueOK
<1>1. CASE ops' = ops
  BY <1>0, <1>1 DEF SameWrites
<1>2. ASSUME NEW o, Queue(o), o.op # "Write" PROVE SameWrites /\ Len(ops') \in Nat
  <2>1. ops' = Append(ops, o)
    BY <1>2 DEF Queue
  <2>2. /\ Len(ops') = Len(ops) + 1 /\ ops'[Len(ops) + 1] = o
        /\ \A i \in 1 .. Len(ops) : ops'[i] = ops[i]
    BY <1>0, <2>1, SeqAppend
  <2>3. ASSUME NEW r \in Requests PROVE Asked(ops', r) = Asked(ops, r)
    <3>1. ~Writes(o, r)
      BY <1>2 DEF Writes
    <3> QED
      BY <1>0, <2>1, <3>1, AskedAppend
  <2>4. ASSUME NEW k \in 1 .. Len(ops'), ops'[k].op = "Write"
        PROVE  k + 0 \in 1 .. Len(ops) /\ ops'[k] = ops[k + 0]
    <3>1. k \in 1 .. Len(ops) /\ k + 0 = k
      BY <1>0, <1>2, <2>2, <2>4
    <3> QED
      BY <2>2, <3>1
  <2> QED
    BY <1>0, <2>2, <2>3, <2>4 DEF SameWrites
<1>3. CASE ops # <<>> /\ ops' = Tail(ops) /\ Head(ops).op # "Write"
  <2>1. /\ Len(ops') = Len(ops) - 1 /\ Len(ops) \in Nat \ {0} /\ Head(ops) = ops[1]
        /\ \A i \in 1 .. Len(ops) - 1 : ops'[i] = ops[i + 1]
    BY <1>0, <1>3, SeqTail
  <2>2. ASSUME NEW r \in Requests PROVE Asked(ops', r) = Asked(ops, r)
    <3>1. ~Writes(ops[1], r)
      BY <1>3, <2>1 DEF Writes
    <3> QED
      BY <1>0, <1>3, <3>1, AskedTail
  <2>3. \A k \in 1 .. Len(ops') : k + 1 \in 1 .. Len(ops) /\ ops'[k] = ops[k + 1]
    BY <2>1
  <2> QED
    BY <2>1, <2>2, <2>3 DEF SameWrites
<1>4. CASE ops' = Forsaken("Declare")
  <2>1. /\ Len(ops') = Len(ops)
        /\ \A i \in 1 .. Len(ops) : ops'[i].op = ops[i].op /\ (ops[i].op # "Declare" => ops'[i] = ops[i])
    BY <1>4, ForsakenIs
  <2>2. ASSUME NEW r \in Requests PROVE Asked(ops', r) = Asked(ops, r)
    <3>1. \A k \in 1 .. Len(ops) : Writes(ops'[k], r) <=> Writes(ops[k], r)
      BY <2>1 DEF Writes
    <3> QED
      BY <1>0, <2>1, <3>1, AskedSame
  <2>3. ASSUME NEW k \in 1 .. Len(ops'), ops'[k].op = "Write"
        PROVE  k + 0 \in 1 .. Len(ops) /\ ops'[k] = ops[k + 0]
    <3>1. k \in 1 .. Len(ops) /\ k + 0 = k
      BY <1>0, <2>1
    <3> QED
      BY <2>1, <2>3, <3>1
  <2> QED
    BY <1>0, <2>1, <2>2, <2>3 DEF SameWrites
<1> QED
  BY <1>1, <1>2, <1>3, <1>4

\* A frame is read, or a body ends that was already finished.
LEMMA RespMoves ==
  ASSUME RespOK, NEW r \in Requests
  PROVE  /\ Frame(r) => RespSame
         /\ BodyOver(r) \/ BodyDropped(r) \/ Refuse(r) =>
              /\ resp'[r].finished /\ resp'[r].pc # "open"
              /\ \A q \in Requests : q # r => resp'[q] = resp[q]
<1>0. DOMAIN resp = Requests
  BY DEF RespOK
<1>1. ASSUME Frame(r) PROVE RespSame
  <2>1. \E a, t : resp' = [resp EXCEPT ![r].at = a, ![r].tracker = t]
    <3>1. PICK n \in 1 .. Len(Body[r]) - resp[r].at :
            resp' = [resp EXCEPT ![r].at = @ + n,
                                 ![r].tracker = feed(@, SubSeq(Body[r], resp[r].at + 1, resp[r].at + n))]
      BY <1>1 DEF Frame
    <3> DEFINE t == feed(resp[r].tracker, SubSeq(Body[r], resp[r].at + 1, resp[r].at + n))
    <3>2. resp' = [resp EXCEPT ![r].at = resp[r].at + n, ![r].tracker = t]
      BY <3>1, <1>0
    <3> HIDE DEF t
    <3> QED
      BY <3>2
  <2>2. PICK a, t : resp' = [resp EXCEPT ![r].at = a, ![r].tracker = t]
    BY <2>1
  <2>3. ASSUME NEW q \in Requests PROVE (resp'[q].finished <=> resp[q].finished) /\ resp'[q].pc = resp[q].pc
    <3>1. CASE q # r
      BY <1>0, <2>2, <3>1
    <3>2. CASE q = r
      <4>1. resp'[r] = [resp[r] EXCEPT !.at = a, !.tracker = t]
        BY <1>0, <2>2
      <4>2. RespShape(resp[r])
        BY DEF RespOK
      <4> QED
        BY <3>2, <4>1, <4>2 DEF RespShape
    <3> QED
      BY <3>1, <3>2
  <2> QED
    BY <2>3 DEF RespSame
<1>2. ASSUME BodyOver(r) \/ BodyDropped(r) \/ Refuse(r)
      PROVE  /\ resp'[r].finished /\ resp'[r].pc # "open"
             /\ \A q \in Requests : q # r => resp'[q] = resp[q]
  <2>1. PICK pc \in {"over", "gone"} : resp' = [resp EXCEPT ![r].pc = pc, ![r].finished = TRUE]
    BY <1>2 DEF BodyOver, BodyDropped, Refuse
  <2>2. /\ resp'[r] = [resp[r] EXCEPT !.pc = pc, !.finished = TRUE]
        /\ \A q \in Requests : q # r => resp'[q] = resp[q]
    BY <1>0, <2>1
  <2>3. RespShape(resp[r])
    BY DEF RespOK
  <2> QED
    BY <2>2, <2>3 DEF RespShape
<1> QED
  BY <1>1, <1>2

\* A body ends, or a request is refused.
LEMMA EndKeeps ==
  ASSUME PodOK, RespOK, DbOK, QueueOK, HistOK, RecordsOK, NEW r \in Requests,
         BodyOver(r) \/ BodyDropped(r) \/ Refuse(r)
  PROVE  RecordsOK'
<1>1. /\ resp'[r].finished /\ resp'[r].pc # "open"
      /\ \A q \in Requests : q # r => resp'[q] = resp[q]
  BY RespMoves
<1>2. ops' = ops /\ db' = db
  BY DEF BodyOver, BodyDropped, Refuse
<1>3. ASSUME NEW tokens, Push(r, tokens), ~resp[r].finished, hist'.lost = hist.lost PROVE RecordsOK'
  BY <1>1, <1>2, <1>3, PushKeeps
<1>4. CASE Refuse(r)
  <2>1. Push(r, None) /\ resp[r].pc = "open" /\ hist' = [hist EXCEPT !.made = @ + 1]
    BY <1>4 DEF Refuse
  <2>2. hist'.lost = hist.lost
    BY <2>1 DEF HistOK, HistShape
  <2>3. ~resp[r].finished
    BY <2>1 DEF RecordsOK, RecordsKnown
  <2> QED
    BY <1>3, <2>1, <2>2, <2>3
<1>5. CASE (BodyOver(r) \/ BodyDropped(r)) /\ ~resp[r].finished
  <2>1. /\ Push(r, finish(resp[r].tracker))
        /\ hist' = [hist EXCEPT !.settled[r] = Append(@, finish(resp[r].tracker)), !.made = @ + 1]
    BY <1>5 DEF BodyOver, BodyDropped, Finish
  <2>2. \E x, y : hist' = [hist EXCEPT !.settled = x, !.made = y]
    BY <2>1 DEF HistOK, HistShape
  <2>3. hist'.lost = hist.lost
    BY <2>2 DEF HistOK, HistShape
  <2> QED
    BY <1>3, <1>5, <2>1, <2>3
<1>6. CASE (BodyOver(r) \/ BodyDropped(r)) /\ resp[r].finished
  <2>1. pod' = pod /\ hist' = hist
    BY <1>6 DEF BodyOver, BodyDropped, Finish
  <2>2. RespSame
    <3>1. ASSUME NEW q \in Requests
          PROVE  (resp'[q].finished <=> resp[q].finished) /\ (resp'[q].pc = "open" => resp[q].pc = "open")
      BY <1>1, <1>6
    <3> QED
      BY <3>1 DEF RespSame
  <2>3. SameWrites /\ Len(ops') \in Nat
    BY <1>2, QueueAside
  <2> QED
    BY <1>2, <2>1, <2>2, <2>3, BystandersKeep DEF SamePlaces
<1> QED
  BY <1>4, <1>5, <1>6

\* Every step that touches neither the pod nor its writes.
LEMMA AsideKeeps ==
  ASSUME PodOK, RespOK, DbOK, SpendOK, HistOK, QueueOK, LedgerOK, HookOK, RecordsOK, [Next]_vars,
         ~StoreWrite, RespSame, pod' = pod, hist'.lost = hist.lost,
         \/ ops' = ops
         \/ \E o : Queue(o) /\ o.op # "Write"
         \/ ops # <<>> /\ ops' = Tail(ops) /\ Head(ops).op # "Write"
         \/ ops' = Forsaken("Declare")
  PROVE  RecordsOK'
<1>1. SameWrites /\ Len(ops') \in Nat
  BY QueueAside
<1>2. db'.rows = db.rows
  BY RowsKept
<1> QED
  BY <1>1, <1>2, BystandersKeep DEF SamePlaces

\* The records of a pod, through every step.
LEMMA RecordsStep ==
  ASSUME PodOK, PodOK', RespOK, DbOK, SpendOK, HistOK, QueueOK, LedgerOK, HookOK, RecordsOK, [Next]_vars
  PROVE  RecordsOK'
<1>1. CASE StoreWrite
  BY <1>1, WriteKeeps
<1> SUFFICES ASSUME ~StoreWrite PROVE RecordsOK'
  BY <1>1
<1>2. ASSUME NEW r \in Requests, BodyOver(r) \/ BodyDropped(r) \/ Refuse(r) PROVE RecordsOK'
  BY <1>2, EndKeeps
<1>3. ASSUME resp' = resp PROVE RespSame
  BY <1>3 DEF RespSame
<1>4. ASSUME NEW r \in Requests, Frame(r) PROVE RecordsOK'
  <2>1. RespSame /\ pod' = pod /\ hist' = hist /\ ops' = ops
    BY <1>4, RespMoves DEF Frame
  <2> QED
    BY <2>1, AsideKeeps
<1>5. CASE DrainStep
  BY <1>5, TakeKeeps, ConnectKeeps, ReportKeeps, AnsweredKeeps DEF DrainStep
<1>6. CASE ReportBreaks \/ Crash
  BY <1>6, BreakKeeps, CrashKeeps
<1>7. CASE StorageError
  <2>1. /\ ops # <<>> /\ ops' = Tail(ops) /\ resp' = resp /\ hist' = hist
        /\ Head(ops).op # "Write" => pod' = pod
    BY <1>7 DEF StorageError
  <2>2. CASE Head(ops).op = "Write"
    BY <1>7, <2>2, RefusedKeeps
  <2>3. CASE Head(ops).op # "Write"
    BY <1>3, <2>1, <2>3, AsideKeeps
  <2> QED
    BY <2>2, <2>3
<1>8. CASE ConfigChanges \/ SyncCalled \/ WindowEnds \/ Export \/ Restart \/ Tick \/ Minute \/ DeclareWakes
  <2>1. resp' = resp /\ pod' = pod /\ hist' = hist /\ ops' = ops
    BY <1>8 DEF ConfigChanges, SyncCalled, WindowEnds, Export, Restart, Tick, Minute, DeclareWakes
  <2> QED
    BY <1>3, <2>1, AsideKeeps
<1>9. CASE UNCHANGED vars
  <2>1. resp' = resp /\ pod' = pod /\ hist' = hist /\ ops' = ops
    BY <1>9 DEF vars
  <2> QED
    BY <1>3, <2>1, AsideKeeps
<1>10. CASE Declare \/ DeclareBreaks
  <2>1. resp' = resp /\ pod' = pod /\ hist' = hist
    BY <1>10 DEF Declare, DeclareBreaks
  <2>2. \/ ops' = ops
        \/ \E o : Queue(o) /\ o.op # "Write"
        \/ ops' = Forsaken("Declare")
    BY <1>10 DEF Declare, DeclareBreaks
  <2> QED
    BY <1>3, <2>1, <2>2, AsideKeeps
<1>11. CASE SyncQueued \/ Sweep \/ DeliveryStep
  <2>1. resp' = resp /\ pod' = pod /\ hist' = hist
    BY <1>11 DEF SyncQueued, Sweep, DeliveryStep, ReadDue, Post
  <2>2. \E o : Queue(o) /\ o.op # "Write"
    <3>1. CASE SyncQueued
      BY <3>1 DEF SyncQueued, QueueOK, SyncOK
    <3>2. CASE Sweep \/ ReadDue
      BY <3>2 DEF Sweep, ReadDue
    <3>3. CASE Post
      BY <3>3 DEF Post, Queue
    <3> QED
      BY <1>11, <3>1, <3>2, <3>3 DEF DeliveryStep
  <2> QED
    BY <1>3, <2>1, <2>2, AsideKeeps
<1>12. CASE \/ StoreSync \/ StorePrune \/ StoreDeclare \/ StoreDue \/ StoreDelivered \/ StoreFailed
  <2>1. resp' = resp /\ pod' = pod /\ ops # <<>> /\ ops' = Tail(ops) /\ Head(ops).op # "Write"
    BY <1>12 DEF StoreSync, StorePrune, StoreDeclare, StoreDue, StoreDelivered, StoreFailed, Done
  <2>2. hist'.lost = hist.lost
    <3>1. CASE StoreSync
      <4>1. \E a, s : hist' = [hist EXCEPT !.accepted = a, !.synced = s]
        BY <3>1 DEF StoreSync, HistOK, HistShape
      <4> QED
        BY <4>1 DEF HistOK, HistShape
    <3>2. CASE StorePrune
      <4>1. \E p : hist' = [hist EXCEPT !.pruned = p]
        BY <3>2 DEF StorePrune, HistOK, HistShape
      <4> QED
        BY <4>1 DEF HistOK, HistShape
    <3>3. CASE StoreFailed
      <4>1. \E g : hist' = [hist EXCEPT !.gone = g]
        BY <3>3 DEF StoreFailed, HistOK, HistShape
      <4> QED
        BY <4>1 DEF HistOK, HistShape
    <3>4. CASE StoreDeclare \/ StoreDue \/ StoreDelivered
      BY <3>4 DEF StoreDeclare, StoreDue, StoreDelivered
    <3> QED
      BY <1>12, <3>1, <3>2, <3>3, <3>4
  <2> QED
    BY <1>3, <2>1, <2>2, AsideKeeps
<1> QED
  BY <1>2, <1>4, <1>5, <1>6, <1>7, <1>8, <1>9, <1>10, <1>11, <1>12 DEF Next, StorageStep, DeclareStep

LEMMA RecordsInit ==
  ASSUME \A r \in Requests : ~resp[r].finished, pod.ring = <<>>, pod.pending = <<>>, pod.pc = "waiting",
         pod.answer = "none", ops = <<>>, db.rows = <<>>, hist.lost = 0
  PROVE  RecordsOK
<1>1. Len(<<>>) = 0
  OBVIOUS
<1>2. ASSUME NEW r \in Requests
      PROVE  ~Carried(pod, r) /\ Times(db.rows, r) = 0 /\ Asked(ops, r) = 0 /\ Spare(pod, r) = 1
  <2>1. RowsOf(db.rows, r) = {} /\ WritesOf(ops, r) = {}
    BY <1>1 DEF RowsOf, WritesOf
  <2>2. ~Carried(pod, r)
    BY <1>1 DEF Carried, InBatch
  <2> QED
    BY <2>1, <2>2, FS_EmptySet DEF Times, Asked, Spare
<1>3. RecordsKnown
  BY <1>2 DEF RecordsKnown
<1>4. RecordsApart /\ BatchesOnce /\ CallOK
  BY <1>1 DEF RecordsApart, BatchesOnce, CallOK, Once
<1>5. CopiesExplained
  BY <1>2 DEF CopiesExplained
<1> QED
  BY <1>3, <1>4, <1>5 DEF RecordsOK

----------------------------------------------------------------------------
(* The inductive invariant. *)

LedgerInv ==
  /\ PodOK /\ RespOK /\ WorldOK /\ QueueOK /\ LedgerOK /\ DbOK /\ SpendOK /\ HistOK
  /\ HookOK /\ EventsOK /\ ReaderOK /\ RecordsOK

LEMMA LedgerInit == ASSUME Init PROVE LedgerInv
<1>0. PICK w \in Scenarios :
        /\ resp = [r \in Requests |->
             [pc |-> IF r \in w.requests THEN "open" ELSE "none", at |-> 0, finished |-> FALSE,
              tracker |-> NewTracker(Dialect[r], Streaming[r])]]
        /\ pod = [ring |-> <<>>, dropped |-> 0, pending |-> <<>>, discarded |-> 0,
                  client |-> FALSE, pc |-> "waiting", answer |-> "none"]
        /\ calls = {} /\ ops = <<>> /\ db = EmptyDb /\ hook = Idle
        /\ ledger \in [up : {TRUE}, config : w.configs, configs : {w.configs}]
        /\ reader = [after |-> 0, got |-> <<>>]
        /\ world = [window |-> 0, held |-> w.held, changes |-> w.changes, syncs |-> w.syncs,
                    crashes |-> w.crashes, faults |-> w.faults, reads |-> w.reads,
                    declares |-> w.declares, deltas |-> w.deltas, shapes |-> w.shapes,
                    builds |-> w.builds]
        /\ hist = NoHistory
  BY DEF Init
<1>1. IsSeq(<<>>) /\ Len(<<>>) = 0 /\ DOMAIN <<>> = {}
  BY DEF IsSeq
<1>2. PodOK
  <2>1. PodShape(pod) /\ pod.ring = <<>> /\ pod.pending = <<>> /\ pod.pc = "waiting"
    BY <1>0 DEF PodShape
  <2> QED
    BY <1>1, <2>1, Bounds DEF PodOK
<1>3. RespOK
  <2> DEFINE start(r) == [pc |-> IF r \in w.requests THEN "open" ELSE "none", at |-> 0,
                          finished |-> FALSE, tracker |-> NewTracker(Dialect[r], Streaming[r])]
  <2>1. resp = [r \in Requests |-> start(r)]
    BY <1>0
  <2>2. \A r \in Requests : RespShape(start(r)) /\ start(r).at = 0
    BY DEF RespShape
  <2> HIDE DEF start
  <2>3. resp = [r \in Requests |-> resp[r]]
    BY <2>1
  <2>4. \A r \in Requests : RespShape(resp[r]) /\ resp[r].at \in 0 .. Len(Body[r])
    BY <2>1, <2>2, Bounds
  <2> QED
    BY <2>3, <2>4 DEF RespOK
<1>4. WorldOK
  <2>1. WorldShape(world) /\ world.window = 0 /\ world.deltas = w.deltas /\ world.shapes = w.shapes
    BY <1>0 DEF WorldShape
  <2>2. w.deltas \subseteq Nat /\ w.shapes \subseteq Nat
    BY LedgerAssumption
  <2> QED
    BY <2>1, <2>2 DEF WorldOK
<1>5. QueueOK
  BY <1>0, <1>1, Bounds DEF QueueOK
<1>6. LedgerOK /\ ledger.up
  <2>1. /\ LedgerShape(ledger) /\ ledger.config \in ledger.configs /\ ledger.configs = w.configs
        /\ ledger.up
    BY <1>0 DEF LedgerShape
  <2>2. \A c \in w.configs : IsFiniteSet(c.thresholds) /\ c.thresholds \subseteq Nat \ {0}
    BY LedgerAssumption
  <2> QED
    BY <2>1, <2>2 DEF LedgerOK
<1>7. /\ DbShape(db) /\ db.rows = <<>> /\ db.spend = <<>> /\ db.outbox = <<>> /\ db.nextId = 1
  BY <1>0 DEF EmptyDb, DbShape
<1>8. DbOK
  <2>1. db.outbox = [id \in DOMAIN db.outbox |-> db.outbox[id]]
    BY <1>7
  <2> QED
    BY <1>1, <1>7, <2>1, Bounds DEF DbOK
<1>9. SpendOK
  <2>1. db.spend = [k \in DOMAIN db.spend |-> db.spend[k]]
    BY <1>7
  <2> QED
    BY <1>1, <1>7, <2>1 DEF SpendOK
<1>10. /\ HistShape(hist) /\ hist.accepted = <<>> /\ hist.synced = {}
  BY <1>0 DEF NoHistory, HistShape
<1>11. HistOK
  BY <1>1, <1>7, <1>10 DEF HistOK
<1>12. HookOK
  <2>1. hook = [pc |-> "asleep", due |-> <<>>]
    BY <1>0 DEF Idle
  <2>2. HookShape(hook) /\ hook.pc = "asleep" /\ hook.due = <<>>
    BY <2>1 DEF HookShape
  <2> QED
    BY <1>0, <1>1, <2>2 DEF HookOK, RoundOK, AsksOnce
<1>13. EventsOK
  BY <1>1, <1>6, <1>7, <1>10
  DEF EventsOK, EachExplained, NoneTwice, RefusalsTell, AlertedTells, ReachedNoted, DownForgets
<1>14. ReaderOK
  <2>1. reader.after = 0 /\ reader.got = <<>> /\ <<>> = [i \in 1 .. 0 |-> i]
    BY <1>0
  <2> QED
    BY <1>1, <1>7, <2>1 DEF ReaderOK, ExportExact
<1>15. RecordsOK
  <2>1. /\ pod.ring = <<>> /\ pod.pending = <<>> /\ pod.pc = "waiting" /\ pod.answer = "none"
        /\ hist.lost = 0 /\ ops = <<>>
    BY <1>0 DEF NoHistory
  <2>2. \A r \in Requests : ~resp[r].finished
    BY <1>0
  <2> QED
    BY <1>7, <2>1, <2>2, RecordsInit
<1> QED
  BY <1>2, <1>3, <1>4, <1>5, <1>6, <1>8, <1>9, <1>11, <1>12, <1>13, <1>14, <1>15 DEF LedgerInv

LEMMA LedgerNext == ASSUME LedgerInv, [Next]_vars PROVE LedgerInv'
<1>1. PodOK' /\ RespOK' /\ WorldOK' /\ QueueOK' /\ LedgerOK'
  BY PodStep, RespStep, WorldStep, QueueStep, LedgerStep DEF LedgerInv
<1>2. DbOK' /\ SpendOK' /\ HistOK'
  BY DbStep DEF LedgerInv
<1>3. HookOK'
  BY <1>1, HookStep DEF LedgerInv
<1>4. EventsOK'
  BY EventsStep DEF LedgerInv
<1>5. ReaderOK'
  BY ReaderStep DEF LedgerInv
<1>6. RecordsOK'
  BY <1>1, RecordsStep DEF LedgerInv
<1> QED
  BY <1>1, <1>2, <1>3, <1>4, <1>5, <1>6 DEF LedgerInv

\* The storage thread's transactions, the delivery task's rounds, crashes and
\* restarts keep the tables, the queue and the history consistent.
THEOREM LedgerConsistent == Spec => []LedgerInv
<1>1. Init => LedgerInv
  BY LedgerInit
<1>2. LedgerInv /\ [Next]_vars => LedgerInv'
  BY LedgerNext
<1> QED
  BY <1>1, <1>2, PTL DEF Spec

\* Nothing is announced that did not happen, nothing that did is announced
\* twice or left out, the export neither repeats nor skips a row, and a record
\* is stored again only after a lost answer (store.rs insert_batch, sync_spend
\* and export; budget.rs sync_alerting; ledger.rs report).
THEOREM ToldAsItHappened == Spec => []ToldExactly
<1> SUFFICES LedgerInv => ToldExactly
  BY LedgerConsistent, PTL
<1> SUFFICES ASSUME LedgerInv PROVE ToldExactly
  OBVIOUS
<1> USE DEF LedgerInv
<1>1. TypeOK
  BY DEF PodOK, RespOK, QueueOK, HookOK, RoundOK, HistOK, TypeOK
<1>0. /\ DOMAIN hist.accepted = 1 .. Len(hist.accepted) /\ DOMAIN db.rows = 1 .. Len(db.rows)
  BY SeqLength DEF HistOK, DbOK
<1>2. RefusalsAnnounced
  <2> DEFINE a == hist.accepted
  <2>1. ASSUME NEW i \in 1 .. Len(db.rows), NEW j \in 1 .. Len(a), NEW k \in 1 .. Len(a),
               a[j] = RefusalEvent(i), a[k] = RefusalEvent(i)
        PROVE  j = k
    <3>1. \A s, w, p : RefusalEvent(i) # ThresholdEvent(s, w, p)
      BY DEF RefusalEvent, ThresholdEvent
    <3> QED
      BY <2>1, <3>1 DEF EventsOK, NoneTwice
  <2>2. ASSUME NEW i \in 1 .. Len(db.rows), \A c \in ledger.configs : Kind[db.rows[i].req] \in c.refusals
        PROVE  \E k \in 1 .. Len(a) : a[k] = RefusalEvent(i)
    BY <2>2 DEF EventsOK, RefusalsTell
  <2>3. ASSUME NEW k \in 1 .. Len(a), a[k].type = "refusal"
        PROVE  a[k].row \in 1 .. Len(db.rows)
    <3>1. \A s, w, p : ThresholdEvent(s, w, p).type = "threshold"
      BY DEF ThresholdEvent
    <3>2. PICK i \in 1 .. Len(db.rows) : a[k] = RefusalEvent(i)
      BY <2>3, <3>1 DEF EventsOK, EachExplained, Explained
    <3> QED
      BY <3>2 DEF RefusalEvent
  <2> QED
    BY <1>0, <2>1, <2>2, <2>3 DEF RefusalsAnnounced
<1>3. ThresholdOnce
  <2> SUFFICES ASSUME NEW i \in 1 .. Len(hist.accepted), NEW j \in 1 .. Len(hist.accepted),
                      i # j, hist.accepted[i] = hist.accepted[j]
               PROVE  <<hist.accepted[i].subject, hist.accepted[i].window>> \in hist.pruned
    BY <1>0 DEF ThresholdOnce
  <2>1. PICK s \in Subjects, w \in Nat, p \in Nat :
          hist.accepted[i] = ThresholdEvent(s, w, p) /\ <<s, w>> \in hist.pruned
    BY DEF EventsOK, NoneTwice
  <2> QED
    BY <2>1 DEF ThresholdEvent
<1>4. ReachedIsAnnounced
  <2> SUFFICES ASSUME NEW k \in DOMAIN db.spend \cap hist.synced, NEW t \in ledger.config.thresholds,
                      db.spend[k].limit > 0, db.spend[k].spent * 100 >= t * db.spend[k].limit
               PROVE  \E i \in DOMAIN hist.accepted :
                        \E u \in t .. db.spend[k].alerted :
                          hist.accepted[i] = ThresholdEvent(k[1], k[2], u)
    BY DEF ReachedIsAnnounced
  <2>1. PICK s \in Subjects, w \in Nat : k = <<s, w>>
    BY DEF SpendOK
  <2>2. t \in Nat \ {0} /\ db.spend[k].alerted \in Nat
    BY DEF LedgerOK, SpendOK
  <2>3. t <= db.spend[k].alerted
    BY DEF EventsOK, ReachedNoted
  <2>4. PICK i \in 1 .. Len(hist.accepted) :
          hist.accepted[i] = ThresholdEvent(s, w, db.spend[k].alerted)
    BY <2>1, <2>2, <2>3 DEF EventsOK, AlertedTells
  <2>5. db.spend[k].alerted \in t .. db.spend[k].alerted /\ k[1] = s /\ k[2] = w
    BY <2>1, <2>2, <2>3
  <2> QED
    BY <1>0, <2>4, <2>5
<1>5. ExportExact
  BY DEF ReaderOK
<1>6. DuplicatesExplained
  <2> SUFFICES ASSUME NEW r \in Requests
               PROVE  Cardinality({i \in 1 .. Len(db.rows) : db.rows[i].req = r}) <= 1 + hist.lost
    BY <1>0 DEF DuplicatesExplained
  <2>1. Times(db.rows, r) <= 1 + hist.lost
    <3>1. /\ Times(db.rows, r) \in Nat /\ Asked(ops, r) \in Nat /\ hist.lost \in Nat
          /\ Times(db.rows, r) + Asked(ops, r) <= hist.lost + Spare(pod, r)
          /\ Spare(pod, r) \in {0, 1}
      BY CountsAre, SpareIs DEF RecordsOK, CopiesExplained
    <3> QED
      BY <3>1
  <2> QED
    BY <2>1 DEF Times, RowsOf
<1> QED
  BY <1>1, <1>2, <1>3, <1>4, <1>5, <1>6 DEF ToldExactly

----------------------------------------------------------------------------
(* The promise to the receiver of the webhook (EventPromise.tla). *)

\* Attempts that failed, as the promise counts them: those of the events in
\* the outbox.
Refusals == [i \in 1 .. MaxEvents |-> IF i \in DOMAIN db.outbox THEN db.outbox[i].attempts ELSE 0]

\* The same events with the same attempts: the promise sees nothing happen.
LEMMA RefusalsKept ==
  ASSUME DOMAIN db'.outbox = DOMAIN db.outbox,
         \A id \in DOMAIN db.outbox : db'.outbox[id].attempts = db.outbox[id].attempts
  PROVE  Refusals' = Refusals
BY DEF Refusals

\* A transaction that queued events accepts them.
LEMMA GrownAccepts ==
  ASSUME DbOK, NEW E, Grown(E), seen' = seen
  PROVE  [Promise!Next]_(Promise!vars)
<1>0. Len(E) \in Nat /\ db.nextId \in Nat \ {0} /\ MaxEvents \in Nat
  BY SeqLength, Bounds DEF Grown, DbOK
<1>1. Refusals' = Refusals
  <2>1. ASSUME NEW i \in 1 .. MaxEvents
        PROVE  (IF i \in DOMAIN db'.outbox THEN db'.outbox[i].attempts ELSE 0)
                 = (IF i \in DOMAIN db.outbox THEN db.outbox[i].attempts ELSE 0)
    <3>1. CASE i \in DOMAIN db.outbox
      BY <3>1 DEF Grown
    <3>2. CASE i \notin DOMAIN db.outbox /\ i \in db.nextId .. db.nextId + Len(E) - 1
      <4>1. db'.outbox[i] = [event |-> E[i - db.nextId + 1], attempts |-> 0, wait |-> 0]
        BY <3>2 DEF Grown
      <4>2. db'.outbox[i].attempts = 0
        BY <4>1
      <4> QED
        BY <3>2, <4>2
    <3>3. CASE i \notin DOMAIN db.outbox /\ i \notin db.nextId .. db.nextId + Len(E) - 1
      BY <3>3 DEF Grown
    <3> QED
      BY <3>1, <3>2, <3>3
  <2> QED
    BY <2>1 DEF Refusals
<1>2. /\ hist'.gone = hist.gone /\ db'.nextId = db.nextId + Len(E) /\ db'.nextId - 1 <= MaxEvents
      /\ DOMAIN db'.outbox = DOMAIN db.outbox \cup (db.nextId .. db.nextId + Len(E) - 1)
  BY DEF Grown
<1>3. CASE Len(E) = 0
  <2>1. DOMAIN db'.outbox = DOMAIN db.outbox /\ db'.nextId - 1 = db.nextId - 1
    BY <1>0, <1>2, <1>3
  <2> QED
    BY <1>1, <1>2, <2>1 DEF Promise!vars, Refusals
<1>4. CASE Len(E) # 0
  <2>1. /\ Len(E) \in 1 .. MaxEvents /\ db.nextId - 1 + Len(E) \in 1 .. MaxEvents
        /\ db'.nextId - 1 = db.nextId - 1 + Len(E)
        /\ DOMAIN db'.outbox = DOMAIN db.outbox \cup (db.nextId - 1 + 1 .. db.nextId - 1 + Len(E))
    BY <1>0, <1>2, <1>4
  <2>2. Promise!Accept(Len(E))
    BY <1>1, <1>2, <2>1 DEF Promise!Accept, Refusals
  <2> QED
    BY <2>1, <2>2 DEF Promise!Next
<1> QED
  BY <1>0, <1>3, <1>4

\* An event that leaves the outbox was received, or refused for the last time;
\* a refusal before that is counted.
LEMMA EndedCloses ==
  ASSUME DbOK, HistOK, QueueOK, HookOK, StoreDelivered \/ StoreFailed
  PROVE  Promise!Next
<1>0. MaxEvents \in Nat /\ MAX_ATTEMPTS \in Nat /\ seen' = seen
  BY Bounds, StoreAssumption DEF StoreDelivered, StoreFailed
<1>1. PICK id \in DOMAIN db.outbox :
        /\ Kept
        /\ \/ Left(id) /\ id \in seen /\ hist'.gone = hist.gone
           \/ Drops(db.outbox[id].attempts) /\ Left(id) /\ hist'.gone = hist.gone \cup {id}
           \/ ~Drops(db.outbox[id].attempts) /\ Counted(id) /\ hist'.gone = hist.gone
  BY DeliveryEnds
<1>2. /\ id \in 1 .. MaxEvents /\ db'.nextId - 1 = db.nextId - 1 /\ db.outbox[id].attempts \in Nat
      /\ Refusals[id] = db.outbox[id].attempts
  <2>1. id \in 1 .. MaxEvents
    BY <1>0 DEF DbOK
  <2> QED
    BY <1>1, <2>1 DEF DbOK, OutboxRow, Kept, Refusals
<1>3. CASE Left(id) /\ (\/ id \in seen /\ hist'.gone = hist.gone
                        \/ Drops(db.outbox[id].attempts) /\ hist'.gone = hist.gone \cup {id})
  <2>1. Refusals' = [Refusals EXCEPT ![id] = 0]
    BY <1>2, <1>3 DEF Left, Refusals
  <2>2. DOMAIN db'.outbox = DOMAIN db.outbox \ {id}
    BY <1>3 DEF Left
  <2>3. id \in seen \/ Refusals[id] + 1 >= MAX_ATTEMPTS
    BY <1>2, <1>3 DEF Drops
  <2>4. Promise!Close(id)
    BY <1>0, <1>1, <1>2, <1>3, <2>1, <2>2 DEF Promise!Close, Refusals, Drops
  <2> QED
    BY <1>2, <2>4 DEF Promise!Next
<1>4. CASE ~Drops(db.outbox[id].attempts) /\ Counted(id) /\ hist'.gone = hist.gone
  <2>1. Refusals' = [Refusals EXCEPT ![id] = @ + 1]
    BY <1>2, <1>4 DEF Counted, Refusals
  <2>2. Promise!Refuse(id)
    BY <1>0, <1>1, <1>2, <1>4, <2>1 DEF Promise!Refuse, Refusals, Drops, Counted
  <2> QED
    BY <1>2, <2>2 DEF Promise!Next
<1> QED
  BY <1>1, <1>3, <1>4

\* The receiver is only sent events that are in the outbox.
LEMMA PostReceives ==
  ASSUME DbOK, HookOK, Post
  PROVE  [Promise!Next]_(Promise!vars)
<1> DEFINE id == Head(hook.due).id
<1>1. /\ IsSeq(hook.due) /\ hook.due # <<>> /\ db' = db /\ hist' = hist
      /\ seen' \in {seen, seen \cup {id}}
  BY DEF Post, HookOK, RoundOK
<1>2. Len(hook.due) \in Nat \ {0} /\ Head(hook.due) = hook.due[1]
  BY <1>1, SeqTail
<1>3. id \in DOMAIN db.outbox
  BY <1>2 DEF HookOK, RoundOK
<1>4. id \in 1 .. MaxEvents
  BY <1>3, Bounds DEF DbOK
<1> HIDE DEF id
<1>5. CASE seen' = seen
  BY <1>1, <1>5 DEF Promise!vars
<1>6. CASE seen' = seen \cup {id}
  <2>1. Promise!Receive(id)
    BY <1>1, <1>3, <1>6 DEF Promise!Receive
  <2> QED
    BY <1>4, <2>1 DEF Promise!Next
<1> QED
  BY <1>1, <1>5, <1>6

\* What the webhook's receiver may rely on, whatever crashes: an accepted event
\* stays in the outbox until it was received or refused MAX_ATTEMPTS times, it
\* comes under its own id however often it is sent, and no id is used twice
\* (events.rs module comment; main.rs deliver_events).
THEOREM PromiseIsKept == Spec => PromiseKept
<1>1. Init => Promise!Init
  <2> SUFFICES ASSUME Init PROVE Promise!Init
    OBVIOUS
  <2>1. seen = {} /\ db.nextId = 1 /\ db.outbox = <<>> /\ hist.gone = {}
    BY DEF Init, EmptyDb, NoHistory
  <2> QED
    BY <2>1 DEF Promise!Init
<1>2. LedgerInv /\ [Next]_vars => [Promise!Next]_(Promise!vars)
  <2> SUFFICES ASSUME LedgerInv, [Next]_vars PROVE [Promise!Next]_(Promise!vars)
    OBVIOUS
  <2> USE DEF LedgerInv
  <2>1. CASE StoreWrite
    <3>1. PICK E : Grown(E)
      BY <2>1, StoredWrite
    <3>2. seen' = seen
      BY <2>1 DEF StoreWrite
    <3> QED
      BY <3>1, <3>2, GrownAccepts
  <2>2. CASE StoreSync
    <3>1. PICK E : Grown(E)
      BY <2>2, StoredSync
    <3>2. seen' = seen
      BY <2>2 DEF StoreSync
    <3> QED
      BY <3>1, <3>2, GrownAccepts
  <2>3. CASE StoreDelivered \/ StoreFailed
    BY <2>3, EndedCloses
  <2>4. CASE Post
    BY <2>4, PostReceives
  <2>5. CASE Tick
    <3>1. /\ Kept /\ DOMAIN db'.outbox = DOMAIN db.outbox /\ hist' = hist /\ seen' = seen
          /\ \A id \in DOMAIN db.outbox : db'.outbox[id].attempts = db.outbox[id].attempts
      BY <2>5, TickStep DEF Tick
    <3> QED
      BY <3>1, RefusalsKept DEF Promise!vars, Refusals, Kept
  <2>6. CASE StorePrune
    <3>1. Pruned /\ seen' = seen
      BY <2>6, PruneStep DEF StorePrune
    <3> QED
      BY <3>1 DEF Promise!vars, Pruned
  <2>7. CASE /\ ~StoreWrite /\ ~StoreSync /\ ~StorePrune /\ ~StoreDelivered /\ ~StoreFailed
             /\ ~Tick /\ ~Post
    <3>1. Untouched
      BY <2>7, OtherSteps
    <3>2. seen' = seen
      BY <2>7 DEF Next, Frame, BodyOver, BodyDropped, Refuse, DrainStep, Take, Connect, Report,
         Answered, ReportBreaks, DeclareStep, DeclareWakes, Declare, DeclareBreaks, ConfigChanges,
         SyncCalled, SyncQueued, Sweep, WindowEnds, DeliveryStep, ReadDue, StorageStep, StoreDeclare,
         StoreDue, StorageError, Export, Crash, Restart, Minute, vars
    <3> QED
      BY <3>1, <3>2 DEF Promise!vars, Untouched, Kept
  <2> QED
    BY <2>1, <2>2, <2>3, <2>4, <2>5, <2>6, <2>7
<1> QED
  BY <1>1, <1>2, LedgerConsistent, PTL DEF Spec, PromiseKept, Promise!Spec
=============================================================================
