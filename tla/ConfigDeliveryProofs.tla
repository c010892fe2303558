------------------------ MODULE ConfigDeliveryProofs ------------------------
(* What the Programmed condition and the data planes are promised, for any   *)
(* number of data planes, contents and events; and, of the loop that         *)
(* compiles what they are sent, that it loses no change of the store.  The   *)
(* last part is about which replica of the controller does all this: what    *)
(* the lease guarantees, for any number of replicas, any lease of more than  *)
(* two renewal intervals and any number of faults, crashes and SIGTERMs.     *)
EXTENDS ConfigDelivery, CompileLoop, LeaderElection, FiniteSetTheorems, SequenceTheorems, TLAPS

----------------------------------------------------------------------------
(* Types *)

\* An operation names what its change needs, and no more slices are past their
\* grace than there are.
OpsFit ==
  /\ \A o \in ops :
       /\ o.kind = "slice" => o.fp \in Fps
       /\ o.kind = "record" => o.node \in Nodes /\ o.fp \in Fps \ {0}
       /\ o.kind = "forget" => o.node \in Nodes
  /\ ctl.elapsed <= Len(ctl.superseded)

\* is_programmed_for answers yes or no.
LEMMA ProgrammedIs == ASSUME NEW k PROVE Programmed(k) \in BOOLEAN
BY Zenon DEF Programmed

\* What with_programmed_change begins with is an operation.
LEMMA StartIs ==
  ASSUME ops \subseteq Op, NEW kind \in {"slice", "record", "forget"}, NEW n \in Nodes \cup {None},
         NEW fp \in Fps \cup {None}, Start(kind, n, fp)
  PROVE  /\ ops' \subseteq Op
         /\ \A o \in ops' \ ops : /\ o.kind = kind /\ o.node = n /\ o.fp = fp
                                  /\ o.before = Programmed(ctl) /\ o.stage = "change"
         /\ \E o \in ops' : /\ o.kind = kind /\ o.node = n /\ o.fp = fp
                             /\ o.before = Programmed(ctl) /\ o.stage = "change"
         /\ ops \subseteq ops'
<1> DEFINE new == [kind |-> kind, node |-> n, fp |-> fp, before |-> Programmed(ctl), stage |-> "change"]
<1>1. new \in Op
  BY ProgrammedIs DEF Op
<1>2. ops' = ops \cup {new}
  BY DEF Start
<1>3. /\ new.kind = kind /\ new.node = n /\ new.fp = fp
      /\ new.before = Programmed(ctl) /\ new.stage = "change"
  OBVIOUS
<1> HIDE DEF new
<1> QED
  BY <1>1, <1>2, <1>3

\* The retain keeps exactly what is in its grace.
LEMMA PrunedIs ==
  ASSUME NEW k \in Controller, k.elapsed <= Len(k.superseded)
  PROVE  /\ Pruned(k) \in Controller /\ Pruned(k).elapsed = 0
         /\ Pruned(k) = [k EXCEPT !.superseded = Pruned(k).superseded, !.elapsed = 0]
         /\ Len(Pruned(k).superseded) = Len(k.superseded) - k.elapsed
         /\ \A i \in 1 .. Len(k.superseded) - k.elapsed :
              Pruned(k).superseded[i] = k.superseded[k.elapsed + i]
<1> DEFINE kept == SubSeq(k.superseded, k.elapsed + 1, Len(k.superseded))
<1>1. k.superseded \in Seq(Fps) /\ k.elapsed \in Nat /\ Len(k.superseded) \in Nat
  BY DEF Controller
<1>2. /\ kept \in Seq(Fps) /\ Len(kept) = Len(k.superseded) - k.elapsed
      /\ \A i \in 1 .. Len(k.superseded) - k.elapsed : kept[i] = k.superseded[k.elapsed + i]
  <2>1. /\ k.elapsed + 1 \in Int /\ Len(k.superseded) \in Int
        /\ \A i \in k.elapsed + 1 .. Len(k.superseded) : k.superseded[i] \in Fps
    BY <1>1
  <2>2. /\ kept \in Seq(Fps)
        /\ Len(kept) = IF k.elapsed + 1 <= Len(k.superseded)
                       THEN Len(k.superseded) - (k.elapsed + 1) + 1 ELSE 0
        /\ \A i \in 1 .. Len(k.superseded) - (k.elapsed + 1) + 1 :
             kept[i] = k.superseded[k.elapsed + 1 + i - 1]
    BY <2>1, SubSeqProperties
  <2> HIDE DEF kept
  <2>3. Len(kept) = Len(k.superseded) - k.elapsed
    BY <1>1, <2>2
  <2>4. ASSUME NEW i \in 1 .. Len(k.superseded) - k.elapsed
        PROVE  kept[i] = k.superseded[k.elapsed + i]
    <3>1. /\ i \in 1 .. Len(k.superseded) - (k.elapsed + 1) + 1
          /\ k.elapsed + 1 + i - 1 = k.elapsed + i
      BY <1>1
    <3>2. kept[i] = k.superseded[k.elapsed + 1 + i - 1]
      BY <2>2, <3>1, Zenon
    <3> QED
      BY <3>1, <3>2, Zenon
  <2> QED
    BY <2>2, <2>3, <2>4
<1>3. Pruned(k) = [k EXCEPT !.superseded = kept, !.elapsed = 0]
  BY DEF Pruned, kept
<1> HIDE DEF kept
<1>4. Pruned(k) \in Controller /\ Pruned(k).superseded = kept /\ Pruned(k).elapsed = 0
  <2>1. kept \in Seq(Fps)
    BY <1>2
  <2>2. [k EXCEPT !.superseded = kept, !.elapsed = 0] \in Controller
    BY <2>1 DEF Controller
  <2>3. Pruned(k).superseded = kept /\ Pruned(k).elapsed = 0
    BY <1>3 DEF Controller
  <2> QED
    BY <1>3, <2>2, <2>3
<1> QED
  BY <1>2, <1>3, <1>4

\* The answer depends on the slices, the acks and the compiled fingerprint.
LEMMA ProgrammedSame ==
  ASSUME NEW j, NEW k, j.compiled_fp = k.compiled_fp, j.slice = k.slice, j.applied = k.applied,
         j.superseded = k.superseded, j.elapsed = k.elapsed
  PROVE  Programmed(j) = Programmed(k)
BY DEF Programmed, CurrentOrInGrace

\* Pruning what is past its grace does not move the answer.
LEMMA ProgrammedPruned ==
  ASSUME NEW k \in Controller, k.elapsed <= Len(k.superseded)
  PROVE  Programmed(Pruned(k)) = Programmed(k)
<1> DEFINE j == Pruned(k)
<1>1. /\ j.compiled_fp = k.compiled_fp /\ j.slice = k.slice /\ j.applied = k.applied
      /\ j.elapsed = 0 /\ Len(j.superseded) = Len(k.superseded) - k.elapsed
      /\ \A i \in 1 .. Len(k.superseded) - k.elapsed : j.superseded[i] = k.superseded[k.elapsed + i]
  BY PrunedIs DEF Controller, Pruned
<1>2. k.elapsed \in Nat /\ Len(k.superseded) \in Nat
  BY DEF Controller
<1> HIDE DEF j
<1>3. ASSUME NEW fp PROVE CurrentOrInGrace(j, fp) = CurrentOrInGrace(k, fp)
  <2>1. ASSUME NEW i \in 0 + 1 .. Len(j.superseded), j.superseded[i] = fp
        PROVE  \E m \in k.elapsed + 1 .. Len(k.superseded) : k.superseded[m] = fp
    <3>1. k.elapsed + i \in k.elapsed + 1 .. Len(k.superseded) /\ k.superseded[k.elapsed + i] = fp
      BY <1>1, <1>2, <2>1, SMTT(30)
    <3> QED
      BY <3>1
  <2>2. ASSUME NEW m \in k.elapsed + 1 .. Len(k.superseded), k.superseded[m] = fp
        PROVE  \E i \in 0 + 1 .. Len(j.superseded) : j.superseded[i] = fp
    <3>1. m - k.elapsed \in 1 .. Len(k.superseded) - k.elapsed /\ k.elapsed + (m - k.elapsed) = m
      BY <1>2
    <3>2. m - k.elapsed \in 0 + 1 .. Len(j.superseded)
      BY <1>1, <1>2, <3>1
    <3>3. j.superseded[m - k.elapsed] = fp
      BY <1>1, <2>2, <3>1
    <3> QED
      BY <3>2, <3>3
  <2> QED
    BY <1>1, <2>1, <2>2 DEF CurrentOrInGrace
<1>4. Programmed(j) = Programmed(k)
  BY <1>1, <1>3, Zenon DEF Programmed
<1> QED
  BY <1>4 DEF j

\* A controller in which only the slices differ from k's.
OnlySlices(j, k) ==
  /\ j.dirty = k.dirty /\ j.pc = k.pc /\ j.content = k.content /\ j.due = k.due
  /\ j.applied = k.applied /\ j.compiled_fp = k.compiled_fp /\ j.version = k.version
  /\ j.watch = k.watch /\ j.seen = k.seen /\ j.event = k.event

\* set_compiled_slice stores the slice, keeps the one it replaces for its
\* grace, and so never takes Programmed away.
LEMMA SetSliceIs ==
  ASSUME NEW k \in Controller, k.elapsed <= Len(k.superseded), NEW fp \in Fps, None \notin Fps
  PROVE  /\ SetSlice(k, fp) \in Controller /\ SetSlice(k, fp).slice = fp
         /\ OnlySlices(SetSlice(k, fp), k)
         /\ SetSlice(k, fp).elapsed <= Len(SetSlice(k, fp).superseded)
         /\ SetSlice(k, fp).superseded = <<>> => k.superseded = <<>>
         /\ Programmed(k) => Programmed(SetSlice(k, fp))
<1> DEFINE j == SetSlice(k, fp)
<1>1. CASE k.slice \in {None, fp}
  <2>1. j = [k EXCEPT !.slice = fp]
    BY <1>1 DEF SetSlice
  <2>2. j \in Controller
    BY <2>1 DEF Controller
  <2>3. /\ j.slice = fp /\ OnlySlices(j, k)
        /\ j.superseded = k.superseded /\ j.elapsed = k.elapsed
    BY <2>1 DEF Controller, OnlySlices
  <2>4. ASSUME Programmed(k) PROVE Programmed(j)
    <3>1. k.slice = fp
      BY <1>1, <2>4 DEF Programmed
    <3> QED
      BY <2>3, <2>4, <3>1, ProgrammedSame DEF OnlySlices
  <2> QED
    BY <2>2, <2>3, <2>4
<1>2. CASE k.slice \notin {None, fp}
  <2> DEFINE p == Pruned(k)
             s == Append(p.superseded, k.slice)
  <2>1. /\ p \in Controller /\ p.elapsed = 0 /\ p.superseded \in Seq(Fps)
        /\ p.slice = k.slice /\ p.compiled_fp = k.compiled_fp /\ p.applied = k.applied
        /\ OnlySlices(p, k)
    BY PrunedIs DEF Controller, Pruned, OnlySlices
  <2>2. k.slice \in Fps
    BY <1>2 DEF Controller
  <2>3. j = [p EXCEPT !.slice = fp, !.superseded = s]
    BY <1>2 DEF SetSlice
  <2> HIDE DEF p
  <2>4. /\ s \in Seq(Fps) /\ Len(s) = Len(p.superseded) + 1 /\ s[Len(s)] = k.slice
        /\ \A i \in 1 .. Len(p.superseded) : s[i] = p.superseded[i]
        /\ s # <<>> /\ Len(p.superseded) \in Nat
    BY <2>1, <2>2, AppendProperties
  <2> HIDE DEF s
  <2>5. [p EXCEPT !.slice = fp, !.superseded = s] \in Controller
    <3>1. s \in Seq(Fps)
      BY <2>4
    <3> QED
      BY <2>1, <3>1 DEF Controller
  <2>6. /\ j.slice = fp /\ j.superseded = s /\ j.elapsed = 0
        /\ OnlySlices(j, p) /\ j.applied = p.applied /\ j.compiled_fp = p.compiled_fp
    BY <2>1, <2>3 DEF Controller, OnlySlices
  <2>7. ASSUME Programmed(k) PROVE Programmed(j)
    <3>1. Programmed(p)
      BY <2>7, ProgrammedPruned DEF p
    <3>2. ASSUME NEW f, CurrentOrInGrace(p, f) PROVE CurrentOrInGrace(j, f)
      <4>1. CASE p.slice = f
        <5>1. Len(s) \in 0 + 1 .. Len(s) /\ s[Len(s)] = f
          BY <2>1, <2>4, <4>1
        <5> QED
          BY <2>6, <5>1 DEF CurrentOrInGrace
      <4>2. ASSUME NEW i \in 0 + 1 .. Len(p.superseded), p.superseded[i] = f
            PROVE  CurrentOrInGrace(j, f)
        <5>1. i \in 0 + 1 .. Len(s) /\ s[i] = f
          BY <2>4, <4>2
        <5> QED
          BY <2>6, <5>1 DEF CurrentOrInGrace
      <4> QED
        BY <2>1, <3>2, <4>1, <4>2 DEF CurrentOrInGrace
    <3>3. fp # None
      OBVIOUS
    <3> QED
      BY <2>6, <3>1, <3>2, <3>3, Zenon DEF Programmed
  <2>8. OnlySlices(j, k)
    BY <2>1, <2>6 DEF OnlySlices
  <2>9. j.elapsed <= Len(j.superseded) /\ j.superseded # <<>>
    BY <2>4, <2>6
  <2> QED
    BY <2>3, <2>5, <2>6, <2>7, <2>8, <2>9
<1> QED
  BY <1>1, <1>2

\* The operations a step may begin.
LEMMA RecordIs ==
  ASSUME ops \subseteq Op, NEW n \in Nodes, NEW fp \in Fps \cup {0}, RecordApplied(n, fp)
  PROVE  /\ ops' \subseteq Op /\ ops \subseteq ops'
         /\ \A o \in ops' \ ops :
              /\ o.kind = "record" /\ o.node = n /\ o.fp = fp /\ fp \in Fps \ {0}
              /\ o.before = Programmed(ctl) /\ o.stage = "change"
<1>1. CASE ops' = ops
  BY <1>1
<1>2. CASE fp # 0 /\ Start("record", n, fp)
  BY <1>2, StartIs
<1> QED
  BY <1>1, <1>2 DEF RecordApplied

\* The environment's counters stay numbers.
LEMMA HappensIs ==
  ASSUME env \in [changes : Nat, drops : Nat, lost : Nat, restarts : Nat],
         NEW kind \in {"changes", "drops", "lost", "restarts"}, Happens(kind)
  PROVE  env' \in [changes : Nat, drops : Nat, lost : Nat, restarts : Nat]
BY DEF Happens

\* No fingerprint is the absence of one.
LEMMA NoneIs == None \notin Fps /\ None \notin Nat /\ None # 0
<1>1. None \notin Nat /\ Fps \subseteq Nat
  BY Zenon, DeliveryAssumption
<1>2. 0 \in Nat
  OBVIOUS
<1> QED
  BY <1>1, <1>2, Zenon

\* A controller that just started is one.
LEMMA BootIs ==
  ASSUME NEW c \in Fps
  PROVE  /\ Boot(c) \in Controller /\ Boot(c).elapsed = 0 /\ Boot(c).superseded = <<>>
         /\ Boot(c).compiled_fp = 0 /\ Boot(c).slice = None /\ Boot(c).version = 0
         /\ Boot(c).watch = NoConfig /\ Boot(c).event /\ Boot(c).pc = "idle"
         /\ \A n \in Nodes : Boot(c).applied[n] = None
<1>1. NoConfig \in Config
  BY DEF NoConfig, Config
<1>2. [n \in Nodes |-> None] \in [Nodes -> Fps \cup {None}] /\ [n \in Nodes |-> None] \in [Nodes -> Config \cup {None}]
  OBVIOUS
<1>3. <<>> \in Seq(Fps)
  OBVIOUS
<1>4. Boot(c) \in Controller
  BY <1>1, <1>2, <1>3 DEF Boot, Controller
<1> QED
  BY <1>4 DEF Boot

\* What an operation changes in the store.
LEMMA ChangedIs ==
  ASSUME TypeOK, OpsFit, NEW o \in ops
  PROVE  /\ Changed(ctl, o) \in Controller
         /\ o.kind = "slice" => Changed(ctl, o) = SetSlice(ctl, o.fp) /\ o.fp \in Fps
         /\ o.kind # "slice" =>
              /\ Changed(ctl, o) = [ctl EXCEPT !.applied = Changed(ctl, o).applied]
              /\ \A n \in Nodes \ {o.node} : Changed(ctl, o).applied[n] = ctl.applied[n]
         /\ o.kind = "record" => Changed(ctl, o).applied[o.node] = o.fp
         /\ o.kind = "forget" => Changed(ctl, o).applied[o.node] = None
<1> USE DEF TypeOK
<1>1. o \in Op /\ ctl \in Controller
  OBVIOUS
<1>2. CASE o.kind = "slice"
  <2>1. o.fp \in Fps
    BY <1>2 DEF OpsFit
  <2> QED
    BY <1>1, <1>2, <2>1, SetSliceIs, NoneIs DEF Changed, OpsFit
<1>3. ASSUME o.kind # "slice", NEW f \in Fps \cup {None}, o.node \in Nodes,
             Changed(ctl, o) = [ctl EXCEPT !.applied[o.node] = f]
      PROVE  /\ Changed(ctl, o) \in Controller
             /\ Changed(ctl, o) = [ctl EXCEPT !.applied = Changed(ctl, o).applied]
             /\ \A n \in Nodes \ {o.node} : Changed(ctl, o).applied[n] = ctl.applied[n]
             /\ Changed(ctl, o).applied[o.node] = f
  <2> DEFINE a == [ctl.applied EXCEPT ![o.node] = f]
  <2>1. /\ a \in [Nodes -> Fps \cup {None}] /\ a[o.node] = f
        /\ \A n \in Nodes \ {o.node} : a[n] = ctl.applied[n]
    BY <1>1, <1>3 DEF Controller
  <2>2. Changed(ctl, o) = [ctl EXCEPT !.applied = a]
    BY <1>3
  <2> HIDE DEF a
  <2>3. [ctl EXCEPT !.applied = a] \in Controller /\ [ctl EXCEPT !.applied = a].applied = a
    BY <1>1, <2>1 DEF Controller
  <2> QED
    BY <2>1, <2>2, <2>3
<1>4. CASE o.kind = "record"
  BY <1>3, <1>4 DEF OpsFit, Changed
<1>5. CASE o.kind = "forget"
  BY <1>3, <1>5 DEF OpsFit, Changed
<1> QED
  BY <1>1, <1>2, <1>4, <1>5 DEF Op

\* Every step keeps the types and what operations name.
LEMMA Types == TypeOK /\ OpsFit /\ [Next]_vars => TypeOK' /\ OpsFit'
<1> SUFFICES ASSUME TypeOK, OpsFit, [Next]_vars PROVE TypeOK' /\ OpsFit'
  OBVIOUS
<1> USE DEF TypeOK
<1>0. ctl \in Controller /\ ctl.elapsed \in Nat /\ ctl.superseded \in Seq(Fps) /\ Len(ctl.superseded) \in Nat
  BY DEF Controller
<1>1. CASE Compile
  <2>1. ctl' \in Controller /\ ctl'.elapsed = ctl.elapsed /\ ctl'.superseded = ctl.superseded
    BY <1>0, <1>1 DEF Compile, Controller
  <2>2. /\ ops' \subseteq Op /\ \A o \in ops' \ ops : o.kind = "slice" /\ o.fp \in Fps
    BY <1>1, StartIs DEF Compile
  <2> QED
    BY <1>1, <2>1, <2>2 DEF Compile, OpsFit
<1>2. CASE Publish
  <2>1. [version |-> ctl.version + 1, fp |-> ctl.content] \in Config /\ ctl.version + 1 \in Nat
    BY <1>0 DEF Config, Controller
  <2>2. ctl' \in Controller /\ ctl'.elapsed = ctl.elapsed /\ ctl'.superseded = ctl.superseded
    <3>1. CASE ctl.content = ctl.watch.fp /\ ctl.version > 0
      BY <1>0, <1>2, <3>1 DEF Publish, Controller
    <3>2. CASE ~(ctl.content = ctl.watch.fp /\ ctl.version > 0)
      <4> DEFINE w == [version |-> ctl.version + 1, fp |-> ctl.content]
                 v == ctl.version + 1
      <4>1. ctl' = [ctl EXCEPT !.pc = "idle", !.version = v, !.compiled_fp = ctl.content, !.watch = w]
        BY <1>2, <3>2 DEF Publish
      <4>2. w \in Config /\ v \in Nat
        BY <2>1
      <4> HIDE DEF w, v
      <4> QED
        BY <1>0, <4>1, <4>2 DEF Controller
    <3> QED
      BY <3>1, <3>2
  <2> QED
    BY <1>2, <2>2 DEF Publish, OpsFit
<1>3. CASE Reconcile
  <2>1. ctl' \in Controller /\ ctl'.elapsed = ctl.elapsed /\ ctl'.superseded = ctl.superseded
    BY <1>0, <1>3 DEF Reconcile, Controller
  <2>2. status' \in BOOLEAN
    BY <1>3, ProgrammedIs DEF Reconcile
  <2> QED
    BY <1>3, <2>1, <2>2 DEF Reconcile, OpsFit
<1>4. CASE GraceElapses
  <2> DEFINE e == ctl.elapsed + 1
             d == ctl.due + 1
  <2>1. ctl' = [ctl EXCEPT !.elapsed = e, !.due = d] /\ e <= Len(ctl.superseded) /\ e \in Nat /\ d \in Nat
    BY <1>0, <1>4 DEF GraceElapses, Controller
  <2> HIDE DEF e, d
  <2>2. ctl' \in Controller /\ ctl'.elapsed = e /\ ctl'.superseded = ctl.superseded
    BY <1>0, <2>1 DEF Controller
  <2> QED
    BY <1>4, <2>1, <2>2 DEF GraceElapses, OpsFit
<1>5. CASE ExpireGrace
  <2> DEFINE p == Pruned(ctl)
             d == ctl.due - 1
             b == ctl.event \/ (ctl.elapsed > 0 /\ ~Programmed([p EXCEPT !.due = @ - 1]))
  <2>1. p \in Controller /\ p.elapsed = 0 /\ p.superseded \in Seq(Fps)
    BY <1>0, PrunedIs DEF OpsFit, Controller
  <2>2. d \in Nat /\ p.due = ctl.due /\ p.event = ctl.event
    BY <1>0, <1>5 DEF ExpireGrace, Controller, Pruned
  <2>3. b \in BOOLEAN
    BY Zenon
  <2>4. ctl' = [p EXCEPT !.due = d, !.event = b]
    BY <1>5, <2>1, <2>2 DEF ExpireGrace, Controller
  <2> HIDE DEF p, d, b
  <2>5. ctl' \in Controller /\ ctl'.elapsed = 0 /\ ctl'.superseded \in Seq(Fps)
    BY <2>1, <2>2, <2>3, <2>4 DEF Controller
  <2> QED
    BY <1>5, <2>5 DEF ExpireGrace, OpsFit
<1>6. ASSUME NEW o \in ops, Change(o) PROVE TypeOK' /\ OpsFit'
  <2>1. ctl' \in Controller
    BY <1>6, ChangedIs DEF Change
  <2>2. ctl'.elapsed <= Len(ctl'.superseded)
    <3>1. CASE o.kind = "slice"
      BY <1>0, <1>6, <3>1, ChangedIs, SetSliceIs, NoneIs DEF Change, OpsFit
    <3>2. CASE o.kind # "slice"
      <4>1. ctl' = [ctl EXCEPT !.applied = ctl'.applied]
        BY <1>6, <3>2, ChangedIs DEF Change
      <4> QED
        BY <1>0, <4>1 DEF Controller, OpsFit
    <3> QED
      BY <3>1, <3>2
  <2> DEFINE u == [o EXCEPT !.stage = "after"]
  <2>3. u \in Op /\ u.kind = o.kind /\ u.fp = o.fp /\ u.node = o.node
    BY DEF Op
  <2>4. ops' = (ops \ {o}) \cup {u}
    BY <1>6 DEF Change
  <2> HIDE DEF u
  <2>5. OpsFit'
    BY <2>2, <2>3, <2>4 DEF OpsFit
  <2> QED
    BY <1>6, <2>1, <2>3, <2>4, <2>5 DEF Change
<1>7. ASSUME NEW o \in ops, After(o) PROVE TypeOK' /\ OpsFit'
  <2> DEFINE b == ctl.event \/ Programmed(ctl) # o.before
             q == IF o.kind = "slice" THEN "publish" ELSE ctl.pc
  <2>1. b \in BOOLEAN
    BY Zenon
  <2>2. q \in {"idle", "slicing", "publish"}
    BY <1>0 DEF Controller
  <2>3. ctl' = [ctl EXCEPT !.event = b, !.pc = q]
    BY <1>7 DEF After
  <2> HIDE DEF b, q
  <2>4. ctl' \in Controller /\ ctl'.elapsed = ctl.elapsed /\ ctl'.superseded = ctl.superseded
    BY <1>0, <2>1, <2>2, <2>3 DEF Controller
  <2> QED
    BY <1>7, <2>4 DEF After, OpsFit
<1>8. ASSUME NEW n \in Nodes, Connect(n) PROVE TypeOK' /\ OpsFit'
  <2>1. ctl' \in Controller /\ ctl'.elapsed = ctl.elapsed /\ ctl'.superseded = ctl.superseded
    <3> DEFINE a == [ctl.seen EXCEPT ![n] = None]
    <3>1. a \in [Nodes -> Config \cup {None}]
      BY <1>0 DEF Controller
    <3>2. ctl' = [ctl EXCEPT !.seen = a]
      BY <1>8 DEF Connect
    <3> HIDE DEF a
    <3> QED
      BY <1>0, <3>1, <3>2 DEF Controller
  <2>2. /\ ops' \subseteq Op
        /\ \A o \in ops' \ ops : o.kind = "record" /\ o.node = n /\ o.fp \in Fps \ {0}
    <3>1. run[n].fp \in Fps \cup {0}
      BY DEF Config
    <3> QED
      BY <1>8, <3>1, RecordIs DEF Connect
  <2>3. conn' \in [Nodes -> BOOLEAN]
    BY <1>8 DEF Connect
  <2>4. OpsFit'
    BY <2>1, <2>2 DEF OpsFit
  <2> QED
    BY <1>8, <2>1, <2>2, <2>3, <2>4 DEF Connect
<1>9. ASSUME NEW n \in Nodes, Send(n) PROVE TypeOK' /\ OpsFit'
  <2>1. ctl.watch \in Config
    BY <1>0 DEF Controller
  <2>2. ctl' \in Controller /\ ctl'.elapsed = ctl.elapsed /\ ctl'.superseded = ctl.superseded
    <3> DEFINE a == [ctl.seen EXCEPT ![n] = ctl.watch]
    <3>1. a \in [Nodes -> Config \cup {None}]
      BY <1>0, <2>1 DEF Controller
    <3>2. ctl' = [ctl EXCEPT !.seen = a]
      BY <1>9 DEF Send
    <3> HIDE DEF a
    <3> QED
      BY <1>0, <3>1, <3>2 DEF Controller
  <2> QED
    BY <1>9, <2>1, <2>2 DEF Send, OpsFit
<1>10. ASSUME NEW n \in Nodes, Receive(n) PROVE TypeOK' /\ OpsFit'
  <2>1. msg[n] \in Config /\ msg' \in [Nodes -> Config \cup {None}]
    BY <1>10 DEF Receive
  <2>2. run' \in [Nodes -> Config] /\ reports' \subseteq [node : Nodes, fp : Fps]
    <3>1. CASE msg[n].version > 0 /\ ApplyDecision(msg[n], run[n]) = "apply"
      <4>1. /\ run' = [run EXCEPT ![n] = msg[n]]
            /\ reports' = reports \cup {[node |-> m, fp |-> msg[n].fp] : m \in IF msg[n].fp # 0 THEN {n} ELSE {}}
        BY <1>10, <3>1 DEF Receive
      <4>2. msg[n].fp # 0 => msg[n].fp \in Fps
        BY <2>1 DEF Config
      <4> QED
        BY <2>1, <4>1, <4>2
    <3>2. CASE ~(msg[n].version > 0 /\ ApplyDecision(msg[n], run[n]) = "apply")
      BY <1>10, <3>2 DEF Receive
    <3> QED
      BY <3>1, <3>2
  <2> QED
    BY <1>10, <2>1, <2>2 DEF Receive, OpsFit
<1>11. ASSUME NEW n \in Nodes, SessionEnds(n) PROVE TypeOK' /\ OpsFit'
  <2>1. ops' \subseteq Op /\ \A o \in ops' \ ops : o.kind = "forget" /\ o.node = n
    BY <1>11, StartIs DEF SessionEnds
  <2>2. ghosts' \in [Nodes -> Nat]
    BY <1>11 DEF SessionEnds
  <2> QED
    BY <1>11, <2>1, <2>2 DEF SessionEnds, OpsFit
<1>12. ASSUME NEW r \in reports, ReportApplied(r) PROVE TypeOK' /\ OpsFit'
  <2>1. /\ ops' \subseteq Op
        /\ \A o \in ops' \ ops : o.kind = "record" /\ o.node = r.node /\ o.fp \in Fps \ {0}
    BY <1>12, RecordIs DEF ReportApplied
  <2> QED
    BY <1>12, <2>1 DEF ReportApplied, OpsFit
<1>13. ASSUME NEW c \in Fps, ClusterChanges(c) PROVE TypeOK' /\ OpsFit'
  <2>1. ctl' \in Controller /\ ctl'.elapsed = ctl.elapsed /\ ctl'.superseded = ctl.superseded
    BY <1>0, <1>13 DEF ClusterChanges, Controller
  <2>2. env' \in [changes : Nat, drops : Nat, lost : Nat, restarts : Nat]
    BY <1>13, HappensIs DEF ClusterChanges
  <2> QED
    BY <1>13, <2>1, <2>2 DEF ClusterChanges, OpsFit
<1>14. ASSUME NEW n \in Nodes, StreamBreaks(n) PROVE TypeOK' /\ OpsFit'
  <2>1. env' \in [changes : Nat, drops : Nat, lost : Nat, restarts : Nat]
    BY <1>14, HappensIs DEF StreamBreaks
  <2>2. conn' \in [Nodes -> BOOLEAN] /\ ghosts' \in [Nodes -> Nat]
    BY <1>14 DEF StreamBreaks
  <2>3. msg' \in [Nodes -> Config \cup {None}] /\ reports' \subseteq [node : Nodes, fp : Fps]
    BY <1>14 DEF StreamBreaks
  <2> QED
    BY <1>14, <2>1, <2>2, <2>3 DEF StreamBreaks, OpsFit
<1>15. ASSUME NEW r \in reports, ReportLost(r) PROVE TypeOK' /\ OpsFit'
  BY <1>15, HappensIs DEF ReportLost, OpsFit
<1>16. CASE ControllerRestarts
  <2>1. env' \in [changes : Nat, drops : Nat, lost : Nat, restarts : Nat]
    BY <1>16, HappensIs DEF ControllerRestarts
  <2>2. ctl' \in Controller /\ ctl'.elapsed = 0 /\ ctl'.superseded = <<>>
    BY <1>16, BootIs DEF ControllerRestarts
  <2> QED
    BY <1>16, <2>1, <2>2 DEF ControllerRestarts, OpsFit
<1>17. CASE UNCHANGED vars
  BY <1>17 DEF vars, OpsFit
<1> QED
  BY <1>1, <1>2, <1>3, <1>4, <1>5, <1>6, <1>7, <1>8, <1>9, <1>10, <1>11, <1>12, <1>13,
     <1>14, <1>15, <1>16, <1>17 DEF Next, System, Environment

\* TypeOK holds once operations are known to name what their change needs.
THEOREM TypeCorrect == Spec => [](TypeOK /\ OpsFit)
<1>1. Init => TypeOK /\ OpsFit
  <2> SUFFICES ASSUME Init PROVE TypeOK /\ OpsFit
    OBVIOUS
  <2>1. want \in Fps
    BY DeliveryAssumption DEF Init
  <2>2. ctl \in Controller /\ ctl.elapsed = 0 /\ ctl.superseded = <<>>
    BY <2>1, BootIs DEF Init
  <2>3. NoConfig \in Config
    BY DEF NoConfig, Config
  <2>4. OpsFit
    BY <2>2 DEF Init, OpsFit
  <2>5. status \in BOOLEAN
    BY Zenon DEF Init
  <2> QED
    BY <2>1, <2>2, <2>3, <2>4, <2>5 DEF Init, TypeOK
<1> QED
  BY <1>1, Types, PTL DEF Spec

----------------------------------------------------------------------------
(* Steps that disturb nothing *)

\* A data plane takes a configuration only if its content is another one.
LEMMA ReceivedIsOther ==
  ASSUME TypeOK, [Next]_vars, NEW n \in Nodes, run'[n] # run[n]
  PROVE  run'[n].fp # 0 => run'[n].fp # run[n].fp
<1> USE DEF TypeOK
<1>1. ASSUME NEW m \in Nodes, Receive(m) PROVE run'[n].fp # 0 => run'[n].fp # run[n].fp
  <2>1. run' = [run EXCEPT ![m] = msg[m]] /\ ApplyDecision(msg[m], run[m]) = "apply"
    BY <1>1 DEF Receive
  <2>2. m = n /\ run'[n] = msg[n]
    BY <2>1
  <2> QED
    BY <2>1, <2>2 DEF ApplyDecision
<1>2. CASE run' = run
  BY <1>2
<1> QED
  BY <1>1, <1>2 DEF Next, System, Environment, vars, Compile, Publish, Reconcile, GraceElapses,
     ExpireGrace, Change, After, Connect, Send, SessionEnds, ReportApplied, ClusterChanges,
     StreamBreaks, ReportLost, ControllerRestarts

\* No recompile takes Programmed away by itself, and no data plane goes from a
\* content to the same content again, whatever runs concurrently
\* (set_compiled_slice, apply_decision).
THEOREM NothingDisturbed == Spec => StepsDisturbNothing
<1>1. TypeOK /\ OpsFit /\ [Next]_vars => [RecompileKeepsProgrammed /\ NoReapply]_vars
  <2> SUFFICES ASSUME TypeOK, OpsFit, [Next]_vars
               PROVE  RecompileKeepsProgrammed /\ NoReapply
    OBVIOUS
  <2>1. NoReapply
    BY ReceivedIsOther DEF NoReapply
  <2>2. ASSUME NEW o \in ops, o.kind = "slice", Programmed(ctl), Change(o) PROVE Programmed(ctl)'
    <3>1. ctl' = SetSlice(ctl, o.fp) /\ o.fp \in Fps
      BY <2>2, ChangedIs DEF Change
    <3>2. Programmed(SetSlice(ctl, o.fp))
      BY <2>2, <3>1, SetSliceIs, NoneIs DEF TypeOK, OpsFit
    <3> QED
      BY <3>1, <3>2
  <2> QED
    BY <2>1, <2>2 DEF RecompileKeepsProgrammed
<1> QED
  BY <1>1, TypeCorrect, PTL DEF Spec, StepsDisturbNothing

----------------------------------------------------------------------------
(* Who is recorded is connected *)

\* Messages, reports and records belong to a data plane that is connected, and
\* who is recorded is connected or about to be forgotten.
RecordsFit ==
  /\ \A n \in Nodes : msg[n] # None => conn[n]
  /\ \A r \in reports : conn[r.node]
  /\ \A o \in ops : o.kind = "record" => conn[o.node]
  /\ \A n \in Recorded :
       \/ conn[n] \/ ghosts[n] > 0
       \/ \E o \in ops : o.kind = "forget" /\ o.node = n /\ o.stage = "change"

\* Every step keeps RecordsFit, as long as no operation is overtaken and no
\* report outlives its connection.
LEMMA RecordsKept ==
  ASSUME ~Preempt, ~LateReports, TypeOK, OpsFit, RecordsFit, [Next]_vars
  PROVE  RecordsFit'
<1> USE DEF TypeOK
<1>0. ctl \in Controller
  OBVIOUS
<1>1. ASSUME UNCHANGED <<reports, conn, ghosts, msg>>, ctl'.applied = ctl.applied,
             \A o \in ops' : o \in ops \/ o.kind = "slice",
             \A o \in ops : o.kind = "forget" /\ o.stage = "change" => o \in ops'
      PROVE  RecordsFit'
  BY <1>1 DEF RecordsFit, Recorded
<1>2. CASE Compile
  <2>1. \A o \in ops' : o \in ops \/ o.kind = "slice"
    BY <1>2, StartIs DEF Compile
  <2>2. ops \subseteq ops'
    BY <1>2, StartIs DEF Compile
  <2> QED
    BY <1>0, <1>1, <1>2, <2>1, <2>2 DEF Compile, Controller
<1>3. CASE Publish \/ Reconcile \/ GraceElapses
  BY <1>0, <1>1, <1>3 DEF Publish, Reconcile, GraceElapses, Controller
<1>4. CASE ExpireGrace
  <2>1. ctl'.applied = ctl.applied
    BY <1>0, <1>4, PrunedIs DEF ExpireGrace, Controller, OpsFit, Pruned
  <2> QED
    BY <1>1, <1>4, <2>1 DEF ExpireGrace
<1>5. ASSUME NEW o \in ops, Change(o) PROVE RecordsFit'
  <2> DEFINE u == [o EXCEPT !.stage = "after"]
  <2>1. u.kind = o.kind /\ u.node = o.node /\ o.stage = "change" /\ ops' = (ops \ {o}) \cup {u}
    BY <1>5 DEF Change, Op
  <2> HIDE DEF u
  <2>2. UNCHANGED <<reports, conn, ghosts, msg>>
    BY <1>5 DEF Change
  <2>3. \A p \in ops' : p.kind = "record" => conn[p.node]
    BY <2>1 DEF RecordsFit
  <2>4. ASSUME NEW n \in Nodes, ctl'.applied[n] # None
        PROVE  \/ conn[n] \/ ghosts[n] > 0
               \/ \E p \in ops' : p.kind = "forget" /\ p.node = n /\ p.stage = "change"
    <3>1. CASE o.kind = "slice"
      <4>1. ctl'.applied = ctl.applied
        BY <1>0, <1>5, <3>1, ChangedIs, SetSliceIs, NoneIs DEF Change, OpsFit, OnlySlices
      <4> QED
        BY <2>1, <2>4, <3>1, <4>1 DEF RecordsFit, Recorded
    <3>2. CASE o.kind = "record"
      <4>1. o.node = n \/ ctl'.applied[n] = ctl.applied[n]
        BY <1>5, <3>2, ChangedIs DEF Change
      <4> QED
        BY <2>1, <2>4, <3>2, <4>1 DEF RecordsFit, Recorded
    <3>3. CASE o.kind = "forget"
      <4>1. o.node # n /\ ctl'.applied[n] = ctl.applied[n]
        BY <1>5, <2>4, <3>3, ChangedIs DEF Change
      <4> QED
        BY <2>1, <2>4, <3>3, <4>1 DEF RecordsFit, Recorded
    <3> QED
      BY <3>1, <3>2, <3>3 DEF Op
  <2> QED
    BY <2>2, <2>3, <2>4 DEF RecordsFit, Recorded
<1>6. ASSUME NEW o \in ops, After(o) PROVE RecordsFit'
  BY <1>0, <1>1, <1>6 DEF After, Controller
<1>7. ASSUME NEW n \in Nodes, Connect(n) PROVE RecordsFit'
  <2>1. /\ UNCHANGED <<reports, ghosts, msg>> /\ ctl'.applied = ctl.applied
        /\ conn' = [conn EXCEPT ![n] = TRUE]
    BY <1>0, <1>7 DEF Connect, Controller
  <2>2. /\ ops \subseteq ops' /\ \A o \in ops' \ ops : o.kind = "record" /\ o.node = n
    <3>1. run[n].fp \in Fps \cup {0}
      BY DEF Config
    <3> QED
      BY <1>7, <3>1, RecordIs DEF Connect
  <2>3. \A m \in Nodes : conn[m] => conn'[m]
    BY <2>1
  <2>4. \A r \in reports' : conn'[r.node]
    BY <2>1, <2>3 DEF RecordsFit
  <2>5. \A o \in ops' : o.kind = "record" => conn'[o.node]
    BY <2>1, <2>2, <2>3 DEF RecordsFit, OpsFit
  <2>6. Recorded' = Recorded
    BY <2>1 DEF Recorded
  <2>7. \A m \in Nodes : msg'[m] # None => conn'[m]
    BY <2>1, <2>3 DEF RecordsFit
  <2>8. ASSUME NEW m \in Recorded'
        PROVE  \/ conn'[m] \/ ghosts'[m] > 0
               \/ \E o \in ops' : o.kind = "forget" /\ o.node = m /\ o.stage = "change"
    <3>1. m \in Nodes /\ m \in Recorded
      BY <2>6 DEF Recorded
    <3> QED
      BY <2>1, <2>2, <2>3, <3>1 DEF RecordsFit
  <2> QED
    BY <2>4, <2>5, <2>7, <2>8 DEF RecordsFit
<1>8. ASSUME NEW n \in Nodes, Send(n) \/ Receive(n) PROVE RecordsFit'
  <2>1. CASE Send(n)
    <3>1. UNCHANGED <<ops, conn, ghosts, reports>> /\ ctl'.applied = ctl.applied
      BY <1>0, <2>1 DEF Send, Controller
    <3>2. conn[n] /\ \A m \in Nodes \ {n} : msg'[m] = msg[m]
      BY <2>1 DEF Send
    <3> QED
      BY <3>1, <3>2 DEF RecordsFit, Recorded
  <2>2. CASE Receive(n)
    <3>1. /\ UNCHANGED <<ctl, ops, conn, ghosts>>
          /\ \A m \in Nodes : msg'[m] # None => msg[m] # None
      BY <2>2 DEF Receive
    <3>2. \A r \in reports' : r \in reports \/ r.node = n
      BY <2>2 DEF Receive
    <3>3. conn[n]
      BY <2>2 DEF Receive, RecordsFit
    <3> QED
      BY <3>1, <3>2, <3>3 DEF RecordsFit, Recorded
  <2> QED
    BY <1>8, <2>1, <2>2
<1>9. ASSUME NEW n \in Nodes, SessionEnds(n) PROVE RecordsFit'
  <2>1. UNCHANGED <<reports, conn, msg, ctl>> /\ \A m \in Nodes \ {n} : ghosts'[m] = ghosts[m]
    BY <1>9 DEF SessionEnds
  <2>2. /\ ops \subseteq ops' /\ \A o \in ops' \ ops : o.kind = "forget"
        /\ n \in Recorded =>
             \E o \in ops' : o.kind = "forget" /\ o.node = n /\ o.stage = "change"
    BY <1>9, StartIs DEF SessionEnds, Recorded
  <2>3. Recorded' = Recorded /\ \A m \in Recorded : m \in Nodes
    BY <2>1 DEF Recorded
  <2>4. ASSUME NEW m \in Recorded'
        PROVE  \/ conn'[m] \/ ghosts'[m] > 0
               \/ \E o \in ops' : o.kind = "forget" /\ o.node = m /\ o.stage = "change"
    <3>1. CASE m = n
      BY <2>2, <2>3, <2>4, <3>1
    <3>2. CASE m # n
      BY <2>1, <2>2, <2>3, <2>4, <3>2 DEF RecordsFit
    <3> QED
      BY <3>1, <3>2
  <2>5. \A o \in ops' : o.kind = "record" => o \in ops
    BY <2>2
  <2> QED
    BY <2>1, <2>4, <2>5 DEF RecordsFit
<1>10. ASSUME NEW r \in reports, ReportApplied(r) PROVE RecordsFit'
  <2>1. UNCHANGED <<conn, msg, ctl, ghosts>> /\ reports' \subseteq reports
    BY <1>10 DEF ReportApplied
  <2>2. /\ ops \subseteq ops' /\ \A o \in ops' \ ops : o.kind = "record" /\ o.node = r.node
    BY <1>10, RecordIs DEF ReportApplied
  <2>3. Recorded' = Recorded
    BY <2>1 DEF Recorded
  <2> QED
    BY <2>1, <2>2, <2>3 DEF RecordsFit
<1>11. ASSUME NEW c \in Fps, ClusterChanges(c) PROVE RecordsFit'
  BY <1>0, <1>1, <1>11 DEF ClusterChanges, Controller
<1>12. ASSUME NEW n \in Nodes, StreamBreaks(n) PROVE RecordsFit'
  <2>1. /\ UNCHANGED ctl /\ ops = {} /\ ops' = {} /\ conn' = [conn EXCEPT ![n] = FALSE]
        /\ reports' = {r \in reports : r.node # n} /\ msg' = [msg EXCEPT ![n] = None]
        /\ ghosts' = [ghosts EXCEPT ![n] = @ + 1]
    BY <1>12 DEF StreamBreaks, Free
  <2>2. Recorded' = Recorded
    BY <2>1 DEF Recorded
  <2>3. \A r \in reports' : conn'[r.node]
    BY <2>1 DEF RecordsFit
  <2>4. \A m \in Nodes : msg'[m] # None => conn'[m]
    BY <2>1 DEF RecordsFit
  <2>5. \A m \in Recorded' : conn'[m] \/ ghosts'[m] > 0
    BY <2>1, <2>2 DEF RecordsFit, Recorded
  <2> QED
    BY <2>1, <2>3, <2>4, <2>5 DEF RecordsFit
<1>13. ASSUME NEW r \in reports, ReportLost(r) PROVE RecordsFit'
  BY <1>13 DEF ReportLost, RecordsFit, Recorded
<1>14. CASE ControllerRestarts
  <2>1. /\ ops' = {} /\ reports' = {} /\ \A n \in Nodes : msg'[n] = None /\ ctl'.applied[n] = None
    BY <1>14, BootIs DEF ControllerRestarts
  <2> QED
    BY <2>1 DEF RecordsFit, Recorded
<1>15. CASE UNCHANGED vars
  BY <1>1, <1>15 DEF vars
<1> QED
  BY <1>2, <1>3, <1>4, <1>5, <1>6, <1>7, <1>8, <1>9, <1>10, <1>11, <1>12, <1>13, <1>14, <1>15
  DEF Next, System, Environment

\* A data plane that is gone holds no place among the recorded ones, as long
\* as a thread is not overtaken within record_applied or forget_data_plane and
\* a report is not handled after its connection is gone: a session's end
\* forgets whatever the session recorded (DataPlaneSession::drop).  Sessions
\* may overlap: LateSessions is not assumed.
THEOREM GoneIsForgotten ==
  ASSUME ~Preempt, ~LateReports
  PROVE  Spec => []RecordedIsConnected
<1>1. Init => RecordsFit
  <2> SUFFICES ASSUME Init PROVE RecordsFit
    OBVIOUS
  <2>1. \A n \in Nodes : ctl.applied[n] = None
    BY DEF Init, Boot
  <2> QED
    BY <2>1 DEF Init, RecordsFit, Recorded
<1>2. TypeOK /\ OpsFit /\ RecordsFit /\ [Next]_vars => RecordsFit'
  BY RecordsKept
<1>3. TypeOK /\ RecordsFit => RecordedIsConnected
  BY DEF TypeOK, RecordsFit, RecordedIsConnected, Recorded, Quiet
<1> QED
  BY <1>1, <1>2, <1>3, TypeCorrect, PTL DEF Spec

----------------------------------------------------------------------------
(* The written condition *)

\* Before the first compilation nothing was served.
FirstIsBlank ==
  ctl.compiled_fp = 0 =>
    /\ ctl.version = 0 /\ ctl.watch = NoConfig /\ ~status /\ reports = {}
    /\ \A n \in Nodes : run[n].fp = 0 /\ ctl.applied[n] = None /\ msg[n] \in {None, NoConfig}
    /\ \A o \in ops : o.kind # "record"

\* The condition is the store's answer, or an event, an operation or a grace
\* period is left that will make it so.
StatusFollows ==
  ~ctl.event =>
    /\ ops = {} =>
         /\ Programmed(ctl) => status
         /\ status /\ ctl.superseded = <<>> => Programmed(ctl)
    /\ \A o \in ops :
         /\ o.before => status
         /\ status /\ ctl.superseded = <<>> => o.before

\* No restart: a restarted controller stores its slices before the fingerprint
\* that makes them count, and that store publishes nothing.
StatusFits == env.restarts = 0 => FirstIsBlank /\ StatusFollows

\* What Programmed looks at, and what is published, is as it was.
Untouched(j, k) ==
  /\ j.compiled_fp = k.compiled_fp /\ j.slice = k.slice /\ j.applied = k.applied
  /\ j.superseded = k.superseded /\ j.elapsed = k.elapsed
  /\ j.version = k.version /\ j.watch = k.watch

\* The steps that leave it so.
LEMMA Bystanders ==
  ASSUME TypeOK,
         \/ Compile \/ Reconcile \/ \E o \in ops : After(o)
         \/ \E n \in Nodes : Connect(n) \/ Send(n) \/ Receive(n) \/ SessionEnds(n) \/ StreamBreaks(n)
         \/ \E r \in reports : ReportApplied(r) \/ ReportLost(r)
         \/ \E c \in Fps : ClusterChanges(c)
         \/ UNCHANGED vars
  PROVE  Untouched(ctl', ctl)
<1>0. ctl \in Controller
  BY DEF TypeOK
<1>1. ASSUME ctl' = ctl PROVE Untouched(ctl', ctl)
  BY <1>1 DEF Untouched
<1>2. CASE Compile
  BY <1>0, <1>2 DEF Compile, Controller, Untouched
<1>3. CASE Reconcile
  BY <1>0, <1>3 DEF Reconcile, Controller, Untouched
<1>4. ASSUME NEW o \in ops, After(o) PROVE Untouched(ctl', ctl)
  BY <1>0, <1>4 DEF After, Controller, Untouched
<1>5. ASSUME NEW n \in Nodes, Connect(n) PROVE Untouched(ctl', ctl)
  BY <1>0, <1>5 DEF Connect, Controller, Untouched
<1>6. ASSUME NEW n \in Nodes, Send(n) PROVE Untouched(ctl', ctl)
  BY <1>0, <1>6 DEF Send, Controller, Untouched
<1>7. ASSUME NEW c \in Fps, ClusterChanges(c) PROVE Untouched(ctl', ctl)
  BY <1>0, <1>7 DEF ClusterChanges, Controller, Untouched
<1> QED
  BY <1>1, <1>2, <1>3, <1>4, <1>5, <1>6, <1>7
  DEF Receive, SessionEnds, StreamBreaks, ReportApplied, ReportLost, vars

\* The steps that do not: the fields each of them leaves alone.
LEMMA Publishing ==
  ASSUME TypeOK, Publish
  PROVE  /\ ctl'.slice = ctl.slice /\ ctl'.applied = ctl.applied /\ ctl'.superseded = ctl.superseded
         /\ ctl'.elapsed = ctl.elapsed /\ ctl'.event = ctl.event /\ ctl'.pc = "idle"
         /\ ctl'.content = ctl.content
         /\ \/ /\ ctl.content = ctl.watch.fp /\ ctl.version > 0
               /\ ctl'.compiled_fp = ctl.compiled_fp /\ ctl'.version = ctl.version /\ ctl'.watch = ctl.watch
            \/ /\ ctl'.compiled_fp = ctl.content /\ ctl'.watch.fp = ctl.content
               /\ ctl'.version = ctl.version + 1
<1>0. ctl \in Controller
  BY DEF TypeOK
<1>1. CASE ctl.content = ctl.watch.fp /\ ctl.version > 0
  BY <1>0, <1>1 DEF Publish, Controller
<1>2. CASE ~(ctl.content = ctl.watch.fp /\ ctl.version > 0)
  <2> DEFINE w == [version |-> ctl.version + 1, fp |-> ctl.content]
             v == ctl.version + 1
  <2>1. ctl' = [ctl EXCEPT !.pc = "idle", !.version = v, !.compiled_fp = ctl.content, !.watch = w]
    BY <1>2 DEF Publish
  <2>2. w.fp = ctl.content
    OBVIOUS
  <2> HIDE DEF w
  <2>3. /\ ctl'.slice = ctl.slice /\ ctl'.applied = ctl.applied /\ ctl'.superseded = ctl.superseded
        /\ ctl'.elapsed = ctl.elapsed /\ ctl'.event = ctl.event /\ ctl'.pc = "idle"
        /\ ctl'.content = ctl.content /\ ctl'.compiled_fp = ctl.content /\ ctl'.watch = w
        /\ ctl'.version = v
    BY <1>0, <2>1 DEF Controller
  <2> QED
    BY <2>2, <2>3
<1> QED
  BY <1>1, <1>2

\* The grace moves only superseded, elapsed, due and event.
LEMMA Elapsing ==
  ASSUME TypeOK, OpsFit, GraceElapses \/ ExpireGrace
  PROVE  /\ ctl'.slice = ctl.slice /\ ctl'.applied = ctl.applied
         /\ ctl'.compiled_fp = ctl.compiled_fp /\ ctl'.version = ctl.version /\ ctl'.watch = ctl.watch
         /\ ctl'.pc = ctl.pc /\ ctl'.content = ctl.content
<1>0. ctl \in Controller
  BY DEF TypeOK
<1>1. CASE GraceElapses
  BY <1>0, <1>1 DEF GraceElapses, Controller
<1>2. CASE ExpireGrace
  BY <1>0, <1>2 DEF ExpireGrace, Controller, Pruned
<1> QED
  BY <1>1, <1>2

\* An operation's change moves its slice or its ack.
LEMMA Changing ==
  ASSUME TypeOK, OpsFit, NEW o \in ops, Change(o)
  PROVE  /\ ctl'.compiled_fp = ctl.compiled_fp /\ ctl'.version = ctl.version /\ ctl'.watch = ctl.watch
         /\ ctl'.pc = ctl.pc /\ ctl'.content = ctl.content /\ ctl'.event = ctl.event
         /\ ctl'.superseded = <<>> => ctl.superseded = <<>>
         /\ o.kind = "slice" => ctl'.slice = o.fp /\ ctl'.applied = ctl.applied
         /\ o.kind # "slice" => ctl'.slice = ctl.slice
         /\ \A n \in Nodes : ctl'.applied[n] =
              IF o.kind = "record" /\ n = o.node THEN o.fp
              ELSE IF o.kind = "forget" /\ n = o.node THEN None ELSE ctl.applied[n]
<1>0. ctl \in Controller /\ o \in Op
  BY DEF TypeOK
<1>1. CASE o.kind = "slice"
  <2>1. ctl' = SetSlice(ctl, o.fp) /\ o.fp \in Fps
    BY <1>1, ChangedIs DEF Change
  <2> QED
    BY <1>0, <1>1, <2>1, SetSliceIs, NoneIs DEF OpsFit, OnlySlices
<1>2. CASE o.kind # "slice"
  <2>1. ctl' = [ctl EXCEPT !.applied = ctl'.applied]
    BY <1>2, ChangedIs DEF Change
  <2>2. /\ ctl'.compiled_fp = ctl.compiled_fp /\ ctl'.version = ctl.version /\ ctl'.watch = ctl.watch
        /\ ctl'.pc = ctl.pc /\ ctl'.content = ctl.content /\ ctl'.event = ctl.event
        /\ ctl'.superseded = ctl.superseded /\ ctl'.slice = ctl.slice
    BY <1>0, <2>1 DEF Controller
  <2>3. o.kind \in {"record", "forget"}
    BY <1>0, <1>2 DEF Op
  <2> QED
    BY <1>2, <2>2, <2>3, ChangedIs DEF Change
<1> QED
  BY <1>1, <1>2

\* Nothing is served before something was compiled.
LEMMA BlankKept ==
  ASSUME 0 \notin Fps, TypeOK, OpsFit, FirstIsBlank, [Next]_vars, ~ControllerRestarts
  PROVE  FirstIsBlank'
<1> SUFFICES ASSUME ctl'.compiled_fp = 0 PROVE FirstIsBlank'
  BY DEF FirstIsBlank
<1> USE DEF TypeOK
<1>0. ctl \in Controller /\ ctl.content \in Fps
  BY DEF Controller
<1>1. ctl.compiled_fp = 0
  <2>1. CASE Publish
    BY <1>0, <2>1, Publishing
  <2>2. CASE GraceElapses \/ ExpireGrace
    BY <2>2, Elapsing
  <2>3. ASSUME NEW o \in ops, Change(o) PROVE ctl.compiled_fp = 0
    BY <2>3, Changing
  <2> QED
    BY <2>1, <2>2, <2>3, Bystanders DEF Next, System, Environment, Untouched
<1>2. /\ ctl.version = 0 /\ ctl.watch = NoConfig /\ ~status /\ reports = {}
      /\ \A n \in Nodes : run[n].fp = 0 /\ ctl.applied[n] = None /\ msg[n] \in {None, NoConfig}
      /\ \A o \in ops : o.kind # "record"
  BY <1>1 DEF FirstIsBlank
<1>3. ~Programmed(ctl)
  BY <1>1 DEF Programmed
<1>4. ctl'.version = 0 /\ ctl'.watch = NoConfig
  <2>1. CASE Publish
    BY <1>0, <1>2, <2>1, Publishing
  <2>2. CASE GraceElapses \/ ExpireGrace
    BY <1>2, <2>2, Elapsing
  <2>3. ASSUME NEW o \in ops, Change(o) PROVE ctl'.version = 0 /\ ctl'.watch = NoConfig
    BY <1>2, <2>3, Changing
  <2> QED
    BY <1>2, <2>1, <2>2, <2>3, Bystanders DEF Next, System, Environment, Untouched
<1>5. \A n \in Nodes : ctl'.applied[n] = None
  <2>1. CASE Publish
    BY <1>2, <2>1, Publishing
  <2>2. CASE GraceElapses \/ ExpireGrace
    BY <1>2, <2>2, Elapsing
  <2>3. ASSUME NEW o \in ops, Change(o) PROVE \A n \in Nodes : ctl'.applied[n] = None
    BY <1>2, <2>3, Changing
  <2> QED
    BY <1>2, <2>1, <2>2, <2>3, Bystanders DEF Next, System, Environment, Untouched
<1>6. /\ ~status' /\ reports' = {}
      /\ \A n \in Nodes : run'[n].fp = 0 /\ msg'[n] \in {None, NoConfig}
      /\ \A o \in ops' : o.kind # "record"
  <2> DEFINE Goal == /\ ~status' /\ reports' = {}
                     /\ \A n \in Nodes : run'[n].fp = 0 /\ msg'[n] \in {None, NoConfig}
                     /\ \A o \in ops' : o.kind # "record"
  <2>1. CASE Compile
    <3>1. \A o \in ops' \ ops : o.kind = "slice"
      BY <2>1, StartIs DEF Compile
    <3>2. UNCHANGED <<status, reports, run, msg>>
      BY <2>1 DEF Compile
    <3> QED
      BY <1>2, <3>1, <3>2
  <2>2. CASE Reconcile
    BY <1>2, <1>3, <2>2 DEF Reconcile
  <2>3. CASE Publish \/ GraceElapses \/ ExpireGrace \/ UNCHANGED vars
    BY <1>2, <2>3 DEF Publish, GraceElapses, ExpireGrace, vars
  <2>4. ASSUME NEW o \in ops, Change(o) \/ After(o) PROVE Goal
    <3>1. UNCHANGED <<status, reports, run, msg>>
      BY <2>4 DEF Change, After
    <3>2. [o EXCEPT !.stage = "after"].kind = o.kind
      BY DEF Op
    <3>3. \A u \in ops' : u.kind # "record"
      BY <1>2, <2>4, <3>2 DEF Change, After
    <3> QED
      BY <1>2, <3>1, <3>3
  <2>5. ASSUME NEW n \in Nodes, Connect(n) PROVE Goal
    BY <1>2, <2>5 DEF Connect, RecordApplied
  <2>6. ASSUME NEW n \in Nodes, Send(n) PROVE Goal
    BY <1>2, <2>6 DEF Send
  <2>7. ASSUME NEW n \in Nodes, Receive(n) PROVE Goal
    <3>1. ~(msg[n].version > 0)
      BY <1>2, <2>7 DEF Receive, NoConfig
    <3> QED
      BY <1>2, <2>7, <3>1 DEF Receive
  <2>8. ASSUME NEW n \in Nodes, SessionEnds(n) PROVE Goal
    <3>1. \A o \in ops' : o.kind # "record"
      BY <1>2, <2>8, StartIs DEF SessionEnds
    <3> QED
      BY <1>2, <2>8, <3>1 DEF SessionEnds
  <2>9. ASSUME NEW c \in Fps, ClusterChanges(c) PROVE Goal
    BY <1>2, <2>9 DEF ClusterChanges
  <2>10. ASSUME NEW n \in Nodes, StreamBreaks(n) PROVE Goal
    BY <1>2, <2>10 DEF StreamBreaks
  <2> QED
    BY <1>2, <2>1, <2>2, <2>3, <2>4, <2>5, <2>6, <2>7, <2>8, <2>9, <2>10
    DEF Next, System, Environment
<1> QED
  BY <1>4, <1>5, <1>6 DEF FirstIsBlank

\* The event, the condition and the answer move together: a step that moves
\* the answer leaves an event, an operation or a grace period behind.
LEMMA FollowsKept ==
  ASSUME ~Preempt, 0 \notin Fps, TypeOK, OpsFit, FirstIsBlank, StatusFollows, [Next]_vars,
         ~ControllerRestarts
  PROVE  StatusFollows'
<1> USE DEF TypeOK
<1>0. ctl \in Controller /\ ctl.content \in Fps /\ ctl.event \in BOOLEAN /\ status \in BOOLEAN
  BY DEF Controller
<1>1. ASSUME NEW kind \in {"slice", "record", "forget"}, NEW n \in Nodes \cup {None},
             NEW fp \in Fps \cup {None}, ops = {}, Start(kind, n, fp), status' = status,
             ctl'.event = ctl.event, ctl'.superseded = ctl.superseded
      PROVE  StatusFollows'
  <2>1. ops' # {} /\ \A o \in ops' : o.before = Programmed(ctl)
    BY <1>1, StartIs, SMTT(30)
  <2> QED
    BY <1>1, <2>1 DEF StatusFollows
<1>2. ASSUME ops' = ops, status' = status, ctl'.event = ctl.event,
             Untouched(ctl', ctl)
      PROVE  StatusFollows'
  <2>1. Programmed(ctl') = Programmed(ctl) /\ ctl'.superseded = ctl.superseded
    BY <1>2, ProgrammedSame DEF Untouched
  <2>2. Programmed(ctl)' = Programmed(ctl)
    BY <2>1
  <2> QED
    BY <1>2, <2>1, <2>2 DEF StatusFollows
<1>3. ASSUME NEW n \in Nodes, NEW fp \in Fps \cup {0}, RecordApplied(n, fp), Free, status' = status,
             ctl'.event = ctl.event, Untouched(ctl', ctl)
      PROVE  StatusFollows'
  <2>1. CASE ops' = ops
    BY <1>2, <1>3, <2>1
  <2>2. CASE fp # 0 /\ Start("record", n, fp)
    <3>1. ops = {} /\ fp \in Fps /\ ctl'.superseded = ctl.superseded
      BY <1>3, <2>2 DEF Free, Untouched
    <3> QED
      BY <1>1, <1>3, <2>2, <3>1
  <2> QED
    BY <1>3, <2>1, <2>2 DEF RecordApplied
<1>4. CASE Compile
  <2>1. ctl'.event = ctl.event /\ ctl'.superseded = ctl.superseded
    BY <1>0, <1>4 DEF Compile, Controller
  <2> QED
    BY <1>1, <1>4, <2>1 DEF Compile, Free
<1>5. CASE Publish
  <2>1. /\ ctl'.slice = ctl.slice /\ ctl'.applied = ctl.applied /\ ctl'.superseded = ctl.superseded
        /\ ctl'.elapsed = ctl.elapsed /\ ctl'.event = ctl.event
        /\ ctl'.compiled_fp = ctl.compiled_fp \/ ctl'.compiled_fp # 0
    BY <1>0, <1>5, Publishing
  <2>2. Programmed(ctl') = Programmed(ctl)
    <3>1. CASE ctl'.compiled_fp = ctl.compiled_fp
      BY <2>1, <3>1, ProgrammedSame
    <3>2. CASE ctl.compiled_fp = 0
      <4>1. \A n \in Nodes : ctl.applied[n] = None /\ ctl'.applied[n] = None
        BY <2>1, <3>2 DEF FirstIsBlank
      <4>2. ~Programmed(ctl') /\ ~Programmed(ctl)
        BY <4>1, Zenon DEF Programmed
      <4> QED
        BY <4>2, ProgrammedIs
    <3>3. CASE ctl.compiled_fp # 0 /\ ctl'.compiled_fp # 0
      <4>1. \A fp : CurrentOrInGrace(ctl', fp) = CurrentOrInGrace(ctl, fp)
        BY <2>1 DEF CurrentOrInGrace
      <4> QED
        BY <2>1, <3>3, <4>1 DEF Programmed
    <3> QED
      BY <2>1, <3>1, <3>2, <3>3
  <2>3. Programmed(ctl)' = Programmed(ctl) /\ ops' = ops /\ status' = status
    BY <1>5, <2>2 DEF Publish
  <2> QED
    BY <2>1, <2>3 DEF StatusFollows
<1>6. CASE Reconcile
  <2>1. ops = {} /\ ops' = {} /\ status' = Programmed(ctl)
    BY <1>6 DEF Reconcile, Free
  <2>2. Programmed(ctl') = Programmed(ctl)
    BY <1>6, Bystanders, ProgrammedSame DEF Untouched
  <2>3. Programmed(ctl)' = Programmed(ctl)
    BY <2>2
  <2> QED
    BY <2>1, <2>3 DEF StatusFollows
<1>7. CASE GraceElapses
  <2> DEFINE e == ctl.elapsed + 1
             d == ctl.due + 1
  <2>1. /\ ctl' = [ctl EXCEPT !.elapsed = e, !.due = d] /\ ctl.elapsed \in Nat
        /\ ctl.elapsed < Len(ctl.superseded) /\ Len(ctl.superseded) \in Nat
        /\ ops = {} /\ ops' = {} /\ status' = status
    BY <1>0, <1>7 DEF GraceElapses, Controller, Free
  <2> HIDE DEF d, e
  <2>2. /\ ctl'.slice = ctl.slice /\ ctl'.applied = ctl.applied /\ ctl'.superseded = ctl.superseded
        /\ ctl'.elapsed = e /\ ctl'.event = ctl.event /\ ctl'.compiled_fp = ctl.compiled_fp
    BY <1>0, <2>1 DEF Controller
  <2>3. ctl'.superseded # <<>>
    BY <2>1, <2>2
  <2>4. ASSUME NEW fp, CurrentOrInGrace(ctl', fp) PROVE CurrentOrInGrace(ctl, fp)
    <3>1. e + 1 .. Len(ctl.superseded) \subseteq ctl.elapsed + 1 .. Len(ctl.superseded)
      BY <2>1 DEF e
    <3> QED
      BY <2>2, <2>4, <3>1 DEF CurrentOrInGrace
  <2>5. Programmed(ctl') => Programmed(ctl)
    BY <2>2, <2>4 DEF Programmed
  <2>6. Programmed(ctl)' => Programmed(ctl)
    BY <2>5
  <2> QED
    BY <2>1, <2>2, <2>3, <2>6 DEF StatusFollows
<1>8. CASE ExpireGrace
  <2> DEFINE p == Pruned(ctl)
             kept == [p EXCEPT !.due = @ - 1]
  <2>1. /\ p \in Controller /\ p.elapsed = 0 /\ Len(p.superseded) = Len(ctl.superseded) - ctl.elapsed
        /\ p.event = ctl.event /\ Programmed(p) = Programmed(ctl)
        /\ \A i \in 1 .. Len(ctl.superseded) - ctl.elapsed : p.superseded[i] = ctl.superseded[ctl.elapsed + i]
    BY <1>0, PrunedIs, ProgrammedPruned DEF OpsFit, Controller, Pruned
  <2>2. ops = {} /\ ops' = {} /\ status' = status
    BY <1>8 DEF ExpireGrace, Free
  <2>3. ctl' = [kept EXCEPT !.event = @ \/ (ctl.elapsed > 0 /\ ~Programmed(kept))]
    BY <1>8 DEF ExpireGrace
  <2> HIDE DEF p
  <2>4. Programmed(kept) = Programmed(p) /\ kept.event = p.event
    BY <2>1, ProgrammedSame DEF Controller
  <2>5. Programmed(ctl') = Programmed(kept) /\ ctl'.superseded = p.superseded
    <3> DEFINE b == kept.event \/ (ctl.elapsed > 0 /\ ~Programmed(kept))
    <3>1. ctl' = [kept EXCEPT !.event = b]
      BY <2>3
    <3> HIDE DEF b
    <3>2. /\ ctl'.compiled_fp = kept.compiled_fp /\ ctl'.slice = kept.slice /\ ctl'.applied = kept.applied
          /\ ctl'.superseded = kept.superseded /\ ctl'.elapsed = kept.elapsed
          /\ kept.superseded = p.superseded
      BY <2>1, <3>1 DEF Controller
    <3> HIDE DEF kept
    <3> QED
      BY <3>2, ProgrammedSame
  <2>6. ctl'.event = (ctl.event \/ (ctl.elapsed > 0 /\ ~Programmed(kept)))
    BY <2>1, <2>3, <2>4 DEF Controller
  <2>7. Programmed(ctl') = Programmed(ctl) /\ Programmed(kept) = Programmed(ctl)
    BY <2>1, <2>4, <2>5
  <2>8. ASSUME ~ctl'.event, status, ctl'.superseded = <<>> PROVE Programmed(ctl)
    <3>1. CASE ctl.elapsed = 0
      <4>1. ctl.superseded = <<>>
        BY <1>0, <2>1, <2>5, <2>8, <3>1 DEF Controller
      <4> QED
        BY <2>2, <2>6, <2>8, <4>1, Zenon DEF StatusFollows
    <3>2. CASE ctl.elapsed > 0
      BY <2>6, <2>7, <2>8, <3>2, Zenon
    <3> QED
      BY <1>0, <3>1, <3>2 DEF Controller
  <2>9. ASSUME ~ctl'.event PROVE Programmed(ctl) => status
    BY <2>2, <2>6, <2>9, Zenon DEF StatusFollows
  <2>10. Programmed(ctl)' = Programmed(ctl)
    BY <2>7
  <2> QED
    BY <2>2, <2>8, <2>9, <2>10, Zenon DEF StatusFollows
<1>9. ASSUME NEW o \in ops, Change(o) PROVE StatusFollows'
  <2> DEFINE u == [o EXCEPT !.stage = "after"]
  <2>1. ops' = (ops \ {o}) \cup {u} /\ u.before = o.before /\ status' = status
    BY <1>9 DEF Change, Op
  <2> HIDE DEF u
  <2>2. ctl'.event = ctl.event /\ (ctl'.superseded = <<>> => ctl.superseded = <<>>)
    BY <1>9, Changing
  <2> QED
    BY <2>1, <2>2 DEF StatusFollows
<1>10. ASSUME NEW o \in ops, After(o) PROVE StatusFollows'
  <2>1. ops' \subseteq ops /\ status' = status
    BY <1>10 DEF After
  <2>2. Programmed(ctl') = Programmed(ctl) /\ ctl'.superseded = ctl.superseded
    BY <1>10, Bystanders, ProgrammedSame DEF Untouched
  <2>3. ctl'.event = (ctl.event \/ Programmed(ctl) # o.before)
    BY <1>0, <1>10 DEF After, Controller
  <2>4. Programmed(ctl)' = Programmed(ctl)
    BY <2>2
  <2>5. ASSUME ~ctl'.event PROVE ~ctl.event /\ Programmed(ctl) = o.before
    BY <2>3, <2>5, Zenon
  <2>6. ASSUME ~ctl'.event
        PROVE  /\ Programmed(ctl) => status
               /\ status /\ ctl.superseded = <<>> => Programmed(ctl)
    BY <2>5, <2>6 DEF StatusFollows
  <2> QED
    BY <2>1, <2>2, <2>4, <2>5, <2>6 DEF StatusFollows
<1>11. ASSUME NEW n \in Nodes, Connect(n) PROVE StatusFollows'
  <2>1. Untouched(ctl', ctl) /\ run[n].fp \in Fps \cup {0}
    BY <1>11, Bystanders DEF Config
  <2>2. ctl'.event = ctl.event
    BY <1>0, <1>11 DEF Connect, Controller
  <2> QED
    BY <1>3, <1>11, <2>1, <2>2 DEF Connect
<1>12. ASSUME NEW n \in Nodes, Send(n) PROVE StatusFollows'
  <2>1. Untouched(ctl', ctl)
    BY <1>12, Bystanders
  <2>2. ctl'.event = ctl.event
    BY <1>0, <1>12 DEF Send, Controller
  <2> QED
    BY <1>2, <1>12, <2>1, <2>2 DEF Send
<1>13. ASSUME NEW n \in Nodes, SessionEnds(n) PROVE StatusFollows'
  <2>1. CASE Start("forget", n, None)
    BY <1>1, <1>13, <2>1 DEF SessionEnds, Free
  <2>2. CASE ops' = ops
    BY <1>2, <1>13, <2>2 DEF SessionEnds, Untouched
  <2> QED
    BY <1>13, <2>1, <2>2 DEF SessionEnds
<1>14. ASSUME NEW r \in reports, ReportApplied(r) PROVE StatusFollows'
  BY <1>3, <1>14 DEF ReportApplied, Untouched
<1>15. ASSUME NEW c \in Fps, ClusterChanges(c) PROVE StatusFollows'
  <2>1. Untouched(ctl', ctl)
    BY <1>15, Bystanders
  <2>2. ctl'.event = ctl.event
    BY <1>0, <1>15 DEF ClusterChanges, Controller
  <2> QED
    BY <1>2, <1>15, <2>1, <2>2 DEF ClusterChanges
<1>16. CASE \/ \E n \in Nodes : Receive(n) \/ StreamBreaks(n)
            \/ \E r \in reports : ReportLost(r)
            \/ UNCHANGED vars
  BY <1>2, <1>16 DEF Receive, StreamBreaks, ReportLost, vars, Untouched
<1> QED
  BY <1>4, <1>5, <1>6, <1>7, <1>8, <1>9, <1>10, <1>11, <1>12, <1>13, <1>14, <1>15, <1>16
  DEF Next, System, Environment

\* StatusFits is kept: a restart only has to be counted.
LEMMA StatusKept ==
  ASSUME ~Preempt, 0 \notin Fps, TypeOK, OpsFit, StatusFits, [Next]_vars
  PROVE  StatusFits'
<1> SUFFICES ASSUME env'.restarts = 0 PROVE FirstIsBlank' /\ StatusFollows'
  BY DEF StatusFits
<1>1. env \in [changes : Nat, drops : Nat, lost : Nat, restarts : Nat]
  BY DEF TypeOK
<1>2. ~ControllerRestarts
  BY <1>1 DEF ControllerRestarts, Happens
<1>3. env.restarts = 0
  <2>1. CASE env' = env
    BY <2>1
  <2>2. ASSUME NEW kind \in {"changes", "drops", "lost"}, Happens(kind) PROVE env.restarts = 0
    BY <1>1, <2>2 DEF Happens
  <2> QED
    BY <1>2, <2>1, <2>2 DEF Next, System, Environment, vars, Compile, Publish, Reconcile, GraceElapses,
       ExpireGrace, Change, After, Connect, Send, Receive, SessionEnds, ReportApplied, ClusterChanges,
       StreamBreaks, ReportLost
<1> QED
  BY <1>2, <1>3, BlankKept, FollowsKept DEF StatusFits

----------------------------------------------------------------------------
(* Who is served counts *)

\* The loop's position tells which slice is stored and which is published.
LoopFits ==
  /\ \A o \in ops : o.kind = "slice" =>
       ctl.pc = "slicing" /\ o.fp = ctl.content /\ (o.stage = "after" => ctl.slice = ctl.content)
  /\ ctl.pc = "publish" => ctl.slice = ctl.content
  /\ ctl.pc = "idle" => ctl.slice \in {None, ctl.compiled_fp}
  /\ ctl.version > 0 => ctl.compiled_fp = ctl.watch.fp

\* What a data plane says it runs is what it runs, and only one that is gone
\* is forgotten.
SessionsFit ==
  /\ \A o, u \in ops : o = u
  /\ \A n \in Nodes : conn[n] => ghosts[n] = 0
  /\ \A r \in reports : conn[r.node] /\ r.fp = run[r.node].fp /\ r.fp # 0
  /\ \A o \in ops :
       /\ o.kind = "forget" => ~conn[o.node]
       /\ o.kind = "record" => conn[o.node] /\ o.fp = run[o.node].fp

\* What a connected data plane runs is recorded, or about to be.
RunIsRecorded ==
  env.lost = 0 => \A n \in Nodes : conn[n] /\ run[n].fp # 0 =>
    \/ ctl.applied[n] = run[n].fp
    \/ \E o \in ops : o.kind = "record" /\ o.node = n /\ o.stage = "change"
    \/ \E r \in reports : r.node = n

\* The compilation loop stores the slice it compiled, then publishes it.
LEMMA LoopKept ==
  ASSUME TypeOK, OpsFit, SessionsFit, LoopFits, [Next]_vars
  PROVE  LoopFits'
<1> USE DEF TypeOK
<1>0. /\ ctl \in Controller /\ ctl.content \in Fps /\ ctl.version \in Nat
      /\ ctl.pc \in {"idle", "slicing", "publish"}
  BY DEF Controller
<1>1. ASSUME \A o \in ops' : o \in ops \/ o.kind # "slice", ctl'.pc = ctl.pc, ctl'.content = ctl.content,
             ctl'.slice = ctl.slice, ctl'.compiled_fp = ctl.compiled_fp, ctl'.version = ctl.version,
             ctl'.watch = ctl.watch
      PROVE  LoopFits'
  BY <1>1 DEF LoopFits
<1>2. CASE Compile
  <2>1. Untouched(ctl', ctl) /\ ctl'.pc = "slicing" /\ ctl'.content = want
    BY <1>0, <1>2, Bystanders DEF Compile, Controller
  <2>2. \A o \in ops' \ ops : o.fp = want /\ o.stage = "change"
    BY <1>2, StartIs, SMTT(30) DEF Compile
  <2>3. \A o \in ops : o.kind # "slice"
    BY <1>2 DEF Compile, LoopFits
  <2> QED
    BY <2>1, <2>2, <2>3 DEF LoopFits, Untouched
<1>3. CASE Publish
  <2>1. \A o \in ops' : o.kind # "slice"
    BY <1>3 DEF Publish, LoopFits
  <2> QED
    BY <1>0, <1>3, <2>1, Publishing DEF LoopFits, Publish
<1>4. CASE GraceElapses \/ ExpireGrace
  BY <1>1, <1>4, Elapsing DEF GraceElapses, ExpireGrace
<1>5. ASSUME NEW o \in ops, Change(o) PROVE LoopFits'
  <2> DEFINE u == [o EXCEPT !.stage = "after"]
  <2>1. ops' = {u} /\ u.kind = o.kind /\ u.fp = o.fp /\ u.stage = "after"
    BY <1>5 DEF Change, Op, SessionsFit
  <2> HIDE DEF u
  <2>2. /\ ctl'.compiled_fp = ctl.compiled_fp /\ ctl'.version = ctl.version /\ ctl'.watch = ctl.watch
        /\ ctl'.pc = ctl.pc /\ ctl'.content = ctl.content
        /\ o.kind = "slice" => ctl'.slice = o.fp
        /\ o.kind # "slice" => ctl'.slice = ctl.slice
    BY <1>5, Changing
  <2>3. CASE o.kind = "slice"
    BY <2>1, <2>2, <2>3 DEF LoopFits
  <2>4. CASE o.kind # "slice"
    BY <2>1, <2>2, <2>4 DEF LoopFits
  <2> QED
    BY <2>3, <2>4
<1>6. ASSUME NEW o \in ops, After(o) PROVE LoopFits'
  <2>1. ops' = {} /\ o.stage = "after"
    BY <1>6 DEF After, SessionsFit
  <2>2. /\ Untouched(ctl', ctl) /\ ctl'.content = ctl.content
        /\ ctl'.pc = IF o.kind = "slice" THEN "publish" ELSE ctl.pc
    BY <1>0, <1>6, Bystanders DEF After, Controller
  <2> QED
    BY <2>1, <2>2 DEF LoopFits, Untouched
<1>7. ASSUME NEW n \in Nodes, Connect(n) PROVE LoopFits'
  <2>1. \A o \in ops' : o \in ops \/ o.kind # "slice"
    <3>1. run[n].fp \in Fps \cup {0}
      BY DEF Config
    <3> QED
      BY <1>7, <3>1, RecordIs DEF Connect
  <2>2. Untouched(ctl', ctl) /\ ctl'.pc = ctl.pc /\ ctl'.content = ctl.content
    BY <1>0, <1>7, Bystanders DEF Connect, Controller
  <2> QED
    BY <1>1, <2>1, <2>2 DEF Untouched
<1>8. ASSUME NEW n \in Nodes, Send(n) PROVE LoopFits'
  <2>1. Untouched(ctl', ctl) /\ ctl'.pc = ctl.pc /\ ctl'.content = ctl.content
    BY <1>0, <1>8, Bystanders DEF Send, Controller
  <2> QED
    BY <1>1, <1>8, <2>1 DEF Untouched, Send
<1>9. ASSUME NEW n \in Nodes, SessionEnds(n) PROVE LoopFits'
  <2>1. \A o \in ops' : o \in ops \/ o.kind # "slice"
    BY <1>9, StartIs DEF SessionEnds
  <2> QED
    BY <1>1, <1>9, <2>1 DEF SessionEnds
<1>10. ASSUME NEW r \in reports, ReportApplied(r) PROVE LoopFits'
  <2>1. \A o \in ops' : o \in ops \/ o.kind # "slice"
    BY <1>10, RecordIs DEF ReportApplied
  <2> QED
    BY <1>1, <1>10, <2>1 DEF ReportApplied
<1>11. CASE Reconcile
  <2>1. Untouched(ctl', ctl) /\ ctl'.pc = ctl.pc /\ ctl'.content = ctl.content
    BY <1>0, <1>11, Bystanders DEF Reconcile, Controller
  <2> QED
    BY <1>1, <1>11, <2>1 DEF Untouched, Reconcile
<1>12. ASSUME NEW c \in Fps, ClusterChanges(c) PROVE LoopFits'
  <2>1. Untouched(ctl', ctl) /\ ctl'.pc = ctl.pc /\ ctl'.content = ctl.content
    BY <1>0, <1>12, Bystanders DEF ClusterChanges, Controller
  <2> QED
    BY <1>1, <1>12, <2>1 DEF Untouched, ClusterChanges
<1>13. CASE \/ \E n \in Nodes : Receive(n) \/ StreamBreaks(n)
            \/ \E r \in reports : ReportLost(r)
            \/ UNCHANGED vars
  BY <1>1, <1>13 DEF Receive, StreamBreaks, ReportLost, vars
<1>14. CASE ControllerRestarts
  <2>1. ops' = {} /\ ctl'.pc = "idle" /\ ctl'.slice = None /\ ctl'.version = 0
    BY <1>14, BootIs DEF ControllerRestarts
  <2> QED
    BY <2>1 DEF LoopFits
<1> QED
  BY <1>2, <1>3, <1>4, <1>5, <1>6, <1>7, <1>8, <1>9, <1>10, <1>11, <1>12, <1>13, <1>14
  DEF Next, System, Environment

\* Sessions do not overlap, so what is recorded of a data plane is its own.
LEMMA SessionsKept ==
  ASSUME ~Preempt, ~LateSessions, ~LateReports, TypeOK, OpsFit, RecordsFit, SessionsFit, [Next]_vars
  PROVE  SessionsFit'
<1> USE DEF TypeOK
<1>1. ASSUME UNCHANGED <<conn, ghosts, run>>, reports' \subseteq reports, ops' \subseteq ops
      PROVE  SessionsFit'
  BY <1>1 DEF SessionsFit
<1>2. CASE Compile
  <2>1. ops = {} /\ UNCHANGED <<conn, ghosts, run, reports>> /\ \A o \in ops' : o.kind = "slice"
    BY <1>2, StartIs DEF Compile, Free
  <2>2. \A o, u \in ops' : o = u
    BY <1>2, <2>1 DEF Compile, Start
  <2> QED
    BY <2>1, <2>2 DEF SessionsFit
<1>3. CASE \/ Publish \/ Reconcile \/ GraceElapses \/ ExpireGrace \/ \E o \in ops : After(o)
           \/ \E n \in Nodes : Send(n) \/ \E r \in reports : ReportLost(r)
           \/ \E c \in Fps : ClusterChanges(c) \/ UNCHANGED vars
  BY <1>1, <1>3 DEF Publish, Reconcile, GraceElapses, ExpireGrace, After, Send, ReportLost, ClusterChanges, vars
<1>4. ASSUME NEW o \in ops, Change(o) PROVE SessionsFit'
  <2> DEFINE u == [o EXCEPT !.stage = "after"]
  <2>1. ops' = {u} /\ u.kind = o.kind /\ u.fp = o.fp /\ u.node = o.node
    BY <1>4 DEF Change, Op, SessionsFit
  <2> HIDE DEF u
  <2>2. UNCHANGED <<conn, ghosts, run, reports>>
    BY <1>4 DEF Change
  <2> QED
    BY <2>1, <2>2 DEF SessionsFit
<1>5. ASSUME NEW n \in Nodes, NEW fp \in Fps \cup {0}, ops = {}, RecordApplied(n, fp)
      PROVE  /\ \A o, u \in ops' : o = u
             /\ \A o \in ops' : o.kind = "record" /\ o.node = n /\ o.fp = fp
  <2>1. \A o, u \in ops' : o = u
    BY <1>5 DEF RecordApplied, Start
  <2> QED
    BY <1>5, <2>1, RecordIs
<1>6. ASSUME NEW n \in Nodes, Connect(n) PROVE SessionsFit'
  <2>1. ops = {} /\ ghosts[n] = 0 /\ conn' = [conn EXCEPT ![n] = TRUE] /\ UNCHANGED <<ghosts, run, reports>>
    BY <1>6 DEF Connect, Free
  <2>2. run[n].fp \in Fps \cup {0}
    BY DEF Config
  <2>3. /\ \A o, u \in ops' : o = u
        /\ \A o \in ops' : o.kind = "record" /\ o.node = n /\ o.fp = run[n].fp
    BY <1>5, <1>6, <2>1, <2>2 DEF Connect
  <2>4. conn'[n] /\ \A m \in Nodes : conn[m] => conn'[m]
    BY <2>1
  <2>5. \A m \in Nodes : conn'[m] => ghosts'[m] = 0
    BY <2>1 DEF SessionsFit
  <2>6. \A r \in reports' : conn'[r.node] /\ r.fp = run'[r.node].fp /\ r.fp # 0
    BY <2>1, <2>4 DEF SessionsFit
  <2> QED
    BY <2>1, <2>3, <2>4, <2>5, <2>6 DEF SessionsFit
<1>7. ASSUME NEW n \in Nodes, Receive(n) PROVE SessionsFit'
  <2>1. ops = {} /\ ops' = {} /\ UNCHANGED <<conn, ghosts>> /\ \A r \in reports : r.node # n
    BY <1>7 DEF Receive, Free
  <2>2. conn[n] /\ msg[n] \in Config
    BY <1>7 DEF Receive, RecordsFit
  <2>3. CASE msg[n].version > 0 /\ ApplyDecision(msg[n], run[n]) = "apply"
    <3>1. /\ run' = [run EXCEPT ![n] = msg[n]]
          /\ \A r \in reports' : r \in reports \/ (r.node = n /\ r.fp = msg[n].fp /\ r.fp # 0)
      BY <1>7, <2>3 DEF Receive
    <3>2. run'[n] = msg[n] /\ \A m \in Nodes \ {n} : run'[m] = run[m]
      BY <3>1
    <3>3. \A r \in reports' : conn[r.node] /\ r.fp = run'[r.node].fp /\ r.fp # 0
      BY <2>1, <2>2, <3>1, <3>2 DEF SessionsFit
    <3> QED
      BY <2>1, <3>3 DEF SessionsFit
  <2>4. CASE ~(msg[n].version > 0 /\ ApplyDecision(msg[n], run[n]) = "apply")
    BY <1>1, <1>7, <2>4 DEF Receive
  <2> QED
    BY <2>3, <2>4
<1>8. ASSUME NEW n \in Nodes, SessionEnds(n) PROVE SessionsFit'
  <2>1. ops = {} /\ ghosts[n] > 0 /\ ghosts' = [ghosts EXCEPT ![n] = @ - 1] /\ UNCHANGED <<conn, run, reports>>
    BY <1>8 DEF SessionEnds, Free
  <2>2. ~conn[n]
    BY <2>1 DEF SessionsFit
  <2>3. /\ \A o, u \in ops' : o = u
        /\ \A o \in ops' : o.kind = "forget" /\ o.node = n
    <3>1. CASE ops' = ops
      BY <2>1, <3>1
    <3>2. CASE Start("forget", n, None)
      <4>1. \A o, u \in ops' : o = u
        BY <2>1, <3>2 DEF Start
      <4> QED
        BY <2>1, <3>2, <4>1, StartIs
    <3> QED
      BY <1>8, <3>1, <3>2 DEF SessionEnds
  <2>4. \A m \in Nodes : conn'[m] => ghosts'[m] = 0
    BY <2>1, <2>2 DEF SessionsFit
  <2> QED
    BY <2>1, <2>2, <2>3, <2>4 DEF SessionsFit
<1>9. ASSUME NEW r \in reports, ReportApplied(r) PROVE SessionsFit'
  <2>1. ops = {} /\ UNCHANGED <<conn, ghosts, run>> /\ reports' \subseteq reports
    BY <1>9 DEF ReportApplied, Free
  <2>2. /\ \A o, u \in ops' : o = u
        /\ \A o \in ops' : o.kind = "record" /\ o.node = r.node /\ o.fp = r.fp
    BY <1>5, <1>9, <2>1 DEF ReportApplied
  <2> QED
    BY <2>1, <2>2 DEF SessionsFit
<1>10. ASSUME NEW n \in Nodes, StreamBreaks(n) PROVE SessionsFit'
  <2>1. /\ ops = {} /\ ops' = {} /\ conn' = [conn EXCEPT ![n] = FALSE] /\ run' = run
        /\ reports' = {r \in reports : r.node # n} /\ ghosts' = [ghosts EXCEPT ![n] = @ + 1]
    BY <1>10 DEF StreamBreaks, Free
  <2>2. \A m \in Nodes : conn'[m] => ghosts'[m] = 0
    BY <2>1 DEF SessionsFit
  <2>3. \A r \in reports' : conn'[r.node] /\ r.fp = run'[r.node].fp /\ r.fp # 0
    BY <2>1 DEF SessionsFit
  <2> QED
    BY <2>1, <2>2, <2>3 DEF SessionsFit
<1>11. CASE ControllerRestarts
  BY <1>11 DEF ControllerRestarts, SessionsFit
<1> QED
  BY <1>2, <1>3, <1>4, <1>6, <1>7, <1>8, <1>9, <1>10, <1>11 DEF Next, System, Environment

\* With room for every data plane, record_applied refuses no known content.
LEMMA RoomForAll ==
  ASSUME IsFiniteSet(Nodes), Cardinality(Nodes) <= NodeCap, NEW n \in Nodes
  PROVE  n \in Recorded \/ Cardinality(Recorded) < NodeCap
<1>1. Recorded \subseteq Nodes
  BY DEF Recorded
<1>2. CASE n \notin Recorded
  <2>1. Recorded # Nodes
    BY <1>2
  <2>2. /\ IsFiniteSet(Recorded) /\ Cardinality(Recorded) <= Cardinality(Nodes)
        /\ Cardinality(Recorded) # Cardinality(Nodes)
    BY <1>1, <2>1, FS_Subset
  <2>3. Cardinality(Recorded) \in Nat /\ Cardinality(Nodes) \in Nat
    BY <2>2, FS_CardinalityType
  <2>4. NodeCap \in Nat
    BY Zenon, DeliveryAssumption
  <2> QED
    BY <2>2, <2>3, <2>4
<1> QED
  BY <1>2

\* What a connected data plane runs is recorded on connecting and on every
\* report, and forgotten only when it is gone.
LEMMA RunKept ==
  ASSUME ~Preempt, ~LateSessions, ~LateReports, IsFiniteSet(Nodes), Cardinality(Nodes) <= NodeCap,
         TypeOK, OpsFit, RecordsFit, SessionsFit, RunIsRecorded, [Next]_vars
  PROVE  RunIsRecorded'
<1> USE DEF TypeOK
<1>0. /\ ctl \in Controller
      /\ env \in [changes : Nat, drops : Nat, lost : Nat, restarts : Nat]
  OBVIOUS
<1> SUFFICES ASSUME env'.lost = 0 PROVE RunIsRecorded'
  BY DEF RunIsRecorded
<1>1. (\A r \in reports : ~ReportLost(r)) /\ env.lost = 0
  <2>1. ASSUME NEW r \in reports, ReportLost(r) PROVE FALSE
    <3>1. env' = [env EXCEPT !["lost"] = @ + 1]
      BY <2>1 DEF ReportLost, Happens
    <3>2. env'.lost = env.lost + 1 /\ env.lost \in Nat
      BY <1>0, <3>1
    <3> QED
      BY <3>2
  <2>2. ASSUME env' = env PROVE env.lost = 0
    BY <2>2
  <2>3. ASSUME NEW kind \in {"changes", "drops", "restarts"}, Happens(kind) PROVE env.lost = 0
    BY <1>0, <2>3 DEF Happens
  <2> QED
    BY <2>1, <2>2, <2>3 DEF Next, System, Environment, vars, Compile, Publish, Reconcile, GraceElapses,
       ExpireGrace, Change, After, Connect, Send, Receive, SessionEnds, ReportApplied, ClusterChanges,
       StreamBreaks, ControllerRestarts
<1> DEFINE Pending(n) == \/ \E o \in ops : o.kind = "record" /\ o.node = n /\ o.stage = "change"
                         \/ \E r \in reports : r.node = n
           Next_(n) == \/ ctl'.applied[n] = run'[n].fp
                       \/ \E o \in ops' : o.kind = "record" /\ o.node = n /\ o.stage = "change"
                       \/ \E r \in reports' : r.node = n
<1>2. \A n \in Nodes : conn[n] /\ run[n].fp # 0 => ctl.applied[n] = run[n].fp \/ Pending(n)
  BY <1>1 DEF RunIsRecorded
<1>3. SUFFICES ASSUME NEW n \in Nodes, conn'[n], run'[n].fp # 0 PROVE Next_(n)
  BY DEF RunIsRecorded
<1>4. ASSUME conn[n], run'[n] = run[n], ctl'.applied[n] = ctl.applied[n],
             \A r \in reports : r.node = n => r \in reports',
             \A o \in ops : o.stage = "change" => o \in ops'
      PROVE  Next_(n)
  BY <1>2, <1>3, <1>4
<1>5. ASSUME NEW m \in Nodes, NEW fp, fp # 0, RecordApplied(m, fp)
      PROVE  Start("record", m, fp)
  BY <1>5, RoomForAll DEF RecordApplied
<1>6. CASE Compile
  <2>1. ops \subseteq ops' /\ ctl'.applied = ctl.applied
    BY <1>6, StartIs, Bystanders DEF Compile, Untouched
  <2> QED
    BY <1>3, <1>4, <1>6, <2>1 DEF Compile
<1>7. CASE Publish \/ GraceElapses \/ ExpireGrace
  <2>1. ctl'.applied = ctl.applied
    BY <1>7, Publishing, Elapsing
  <2> QED
    BY <1>3, <1>4, <1>7, <2>1 DEF Publish, GraceElapses, ExpireGrace
<1>8. CASE Reconcile \/ \E o \in ops : After(o)
  <2>1. ctl'.applied = ctl.applied
    BY <1>8, Bystanders DEF Untouched
  <2> QED
    BY <1>3, <1>4, <1>8, <2>1 DEF Reconcile, After
<1>9. ASSUME NEW o \in ops, Change(o) PROVE Next_(n)
  <2>1. UNCHANGED <<conn, run, reports>>
    BY <1>9 DEF Change
  <2>2. CASE o.kind = "record" /\ o.node = n
    <3>1. ctl'.applied[n] = o.fp /\ o.fp = run[n].fp
      BY <1>9, <2>2, Changing DEF SessionsFit
    <3> QED
      BY <2>1, <3>1
  <2>3. CASE ~(o.kind = "record" /\ o.node = n)
    <3>1. ~(o.kind = "forget" /\ o.node = n)
      BY <1>3, <2>1 DEF SessionsFit
    <3>2. ctl'.applied[n] = ctl.applied[n]
      BY <1>9, <2>3, <3>1, Changing
    <3>3. \A u \in ops : u = o
      BY DEF SessionsFit
    <3> QED
      BY <1>2, <1>3, <2>1, <2>3, <3>2, <3>3
  <2> QED
    BY <2>2, <2>3
<1>10. ASSUME NEW m \in Nodes, Connect(m) PROVE Next_(n)
  <2>1. UNCHANGED <<run, reports>> /\ ctl'.applied = ctl.applied
    BY <1>10, Bystanders DEF Connect, Untouched
  <2>2. CASE m = n
    <3>1. Start("record", n, run[n].fp) /\ run[n].fp \in Fps
      BY <1>3, <1>5, <1>10, <2>1, <2>2 DEF Connect, Config
    <3> QED
      BY <3>1, StartIs
  <2>3. CASE m # n
    <3>1. conn[n]
      BY <1>3, <1>10, <2>3 DEF Connect
    <3>2. ops \subseteq ops'
      <4>1. run[m].fp \in Fps \cup {0}
        BY DEF Config
      <4> QED
        BY <1>10, <4>1, RecordIs DEF Connect
    <3> QED
      BY <1>4, <2>1, <3>1, <3>2
  <2> QED
    BY <2>2, <2>3
<1>11. ASSUME NEW m \in Nodes, Send(m) PROVE Next_(n)
  <2>1. ctl'.applied = ctl.applied
    BY <1>11, Bystanders DEF Untouched
  <2> QED
    BY <1>3, <1>4, <1>11, <2>1 DEF Send
<1>12. ASSUME NEW m \in Nodes, Receive(m) PROVE Next_(n)
  <2>1. UNCHANGED <<ctl, ops, conn>> /\ reports \subseteq reports'
    BY <1>12 DEF Receive
  <2>2. CASE run'[n] = run[n]
    BY <1>3, <1>4, <2>1, <2>2
  <2>3. CASE run'[n] # run[n]
    <3>1. /\ run' = [run EXCEPT ![m] = msg[m]]
          /\ reports' = reports \cup {[node |-> k, fp |-> msg[m].fp] : k \in IF msg[m].fp # 0 THEN {m} ELSE {}}
      BY <1>12, <2>3 DEF Receive
    <3>2. m = n /\ run'[n] = msg[n]
      BY <2>3, <3>1
    <3>3. [node |-> n, fp |-> msg[n].fp] \in reports'
      BY <1>3, <3>1, <3>2
    <3> QED
      BY <3>3
  <2> QED
    BY <2>2, <2>3
<1>13. ASSUME NEW m \in Nodes, SessionEnds(m) PROVE Next_(n)
  <2>1. ops \subseteq ops' /\ UNCHANGED <<ctl, conn, run, reports>>
    BY <1>13, StartIs DEF SessionEnds
  <2> QED
    BY <1>3, <1>4, <2>1
<1>14. ASSUME NEW r \in reports, ReportApplied(r) PROVE Next_(n)
  <2>1. UNCHANGED <<ctl, conn, run>> /\ reports' = reports \ {r} /\ RecordApplied(r.node, r.fp)
    BY <1>14 DEF ReportApplied
  <2>2. r.node \in Nodes /\ r.fp \in Fps /\ r.fp # 0
    BY DEF SessionsFit
  <2>3. Start("record", r.node, r.fp)
    BY <1>5, <2>1, <2>2
  <2>4. ops \subseteq ops' /\ \E o \in ops' : o.kind = "record" /\ o.node = r.node /\ o.stage = "change"
    BY <2>2, <2>3, StartIs
  <2> QED
    BY <1>3, <1>4, <2>1, <2>4
<1>15. ASSUME NEW c \in Fps, ClusterChanges(c) PROVE Next_(n)
  <2>1. ctl'.applied = ctl.applied
    BY <1>15, Bystanders DEF Untouched
  <2> QED
    BY <1>3, <1>4, <1>15, <2>1 DEF ClusterChanges
<1>16. ASSUME NEW m \in Nodes, StreamBreaks(m) PROVE Next_(n)
  <2>1. m # n /\ conn[n] /\ UNCHANGED <<ctl, ops, run>> /\ reports' = {r \in reports : r.node # m}
    BY <1>3, <1>16 DEF StreamBreaks
  <2> QED
    BY <1>4, <2>1
<1>17. CASE ControllerRestarts
  BY <1>3, <1>17 DEF ControllerRestarts
<1>18. CASE UNCHANGED vars
  BY <1>3, <1>4, <1>18 DEF vars
<1> QED
  BY <1>1, <1>6, <1>7, <1>8, <1>9, <1>10, <1>11, <1>12, <1>13, <1>14, <1>15, <1>16, <1>17, <1>18
  DEF Next, System, Environment

\* Once everything has settled, the condition on the Gateway is what the store
\* answers, and a data plane that is served counts (with_programmed_change,
\* record_applied, set_compiled_slice, forget_data_plane).  No thread is
\* overtaken between its two looks, sessions of one data plane do not overlap,
\* no report outlives its connection, the data planes fit the table, and no
\* configuration has the fingerprint of the empty one: what the known races
\* and the cap break is what these hypotheses exclude.
THEOREM StatusIsHonest ==
  ASSUME ~Preempt, ~LateSessions, ~LateReports, 0 \notin Fps,
         IsFiniteSet(Nodes), Cardinality(Nodes) <= NodeCap
  PROVE  Spec => []StatusHonest
<1> DEFINE Inv == RecordsFit /\ StatusFits /\ LoopFits /\ SessionsFit /\ RunIsRecorded
<1>1. Init => Inv
  <2> SUFFICES ASSUME Init PROVE Inv
    OBVIOUS
  <2>1. want \in Fps
    BY DeliveryAssumption DEF Init
  <2>2. /\ ctl.version = 0 /\ ctl.watch = NoConfig /\ ctl.event /\ ctl.pc = "idle" /\ ctl.slice = None
        /\ \A n \in Nodes : ctl.applied[n] = None
    BY <2>1, BootIs DEF Init
  <2>3. RecordsFit
    BY <2>2 DEF Init, RecordsFit, Recorded
  <2>4. FirstIsBlank
    BY <2>2 DEF Init, FirstIsBlank, NoConfig
  <2>5. StatusFollows
    BY <2>2 DEF StatusFollows
  <2>6. LoopFits
    BY <2>2 DEF Init, LoopFits
  <2>7. SessionsFit /\ RunIsRecorded
    BY DEF Init, SessionsFit, RunIsRecorded
  <2> QED
    BY <2>3, <2>4, <2>5, <2>6, <2>7 DEF StatusFits
<1>2. TypeOK /\ OpsFit /\ Inv /\ [Next]_vars => Inv'
  BY RecordsKept, StatusKept, LoopKept, SessionsKept, RunKept
<1>3. TypeOK /\ Inv => StatusHonest
  <2> SUFFICES ASSUME TypeOK, Inv PROVE StatusHonest
    OBVIOUS
  <2>1. StatusIsCurrent
    <3> SUFFICES ASSUME Quiet, env.restarts = 0 PROVE status = Programmed(ctl)
      BY DEF StatusIsCurrent
    <3>1. (Programmed(ctl) => status) /\ (status => Programmed(ctl))
      BY DEF Quiet, StatusFits, StatusFollows
    <3>2. status \in BOOLEAN /\ Programmed(ctl) \in BOOLEAN
      BY ProgrammedIs DEF TypeOK
    <3> QED
      BY <3>1, <3>2
  <2>2. ServedIsProgrammed
    <3> SUFFICES ASSUME Quiet, env.lost = 0, NEW n \in Nodes, conn[n], run[n].fp = ctl.slice, run[n].fp # 0
                 PROVE  Programmed(ctl)
      BY DEF ServedIsProgrammed
    <3>1. ctl.applied[n] = ctl.slice
      BY DEF Quiet, RunIsRecorded
    <3>2. ctl.slice \in Fps \cup {0} /\ ctl.slice # None /\ ctl.slice # 0
      BY NoneIs DEF TypeOK, Config
    <3>3. ctl.compiled_fp = ctl.slice
      BY <3>2 DEF Quiet, LoopFits
    <3> QED
      BY <3>1, <3>2, <3>3 DEF Programmed, CurrentOrInGrace
  <2> QED
    BY <2>1, <2>2 DEF StatusHonest
<1> HIDE DEF Inv
<1> QED
  BY <1>1, <1>2, <1>3, TypeCorrect, PTL DEF Spec

----------------------------------------------------------------------------
(* The compilation loop (CompileLoop.tla), for any number of store entries,  *)
(* writers, writes and panics.                                               *)

\* LoopTypeOK is inductive: every step of a reconciler or of the loop keeps the
\* store, the flags and the loop's position within their domains.
THEOREM LoopTypeCorrect == LoopSpec => []LoopTypeOK
<1>1. LoopInit => LoopTypeOK
  <2> SUFFICES ASSUME LoopInit PROVE LoopTypeOK
    OBVIOUS
  <2>1. dirty \in BOOLEAN /\ permit \in BOOLEAN /\ lost \in BOOLEAN
    BY Zenon DEF LoopInit
  <2> QED
    BY <2>1 DEF LoopInit, LoopTypeOK, Entry
<1>2. LoopTypeOK /\ [LoopNext]_loopVars => LoopTypeOK'
  <2> SUFFICES ASSUME LoopTypeOK, [LoopNext]_loopVars PROVE LoopTypeOK'
    OBVIOUS
  <2> USE DEF LoopTypeOK, Entry
  <2>1. ASSUME NEW k \in Keys, NEW v \in Entry, Write(k, v) PROVE LoopTypeOK'
    BY <2>1 DEF Write
  <2>2. ASSUME NEW k \in Keys, MarkDirty(k) PROVE LoopTypeOK'
    BY <2>2 DEF MarkDirty
  <2>3. ASSUME NEW k \in Keys, NotifyOne(k) PROVE LoopTypeOK'
    BY <2>3 DEF NotifyOne
  <2>4. CASE Notified
    BY <2>4 DEF Notified
  <2>5. CASE TakeDirty
    BY <2>5 DEF TakeDirty
  <2>6. ASSUME NEW k \in Keys, ReadEntry(k) PROVE LoopTypeOK'
    BY <2>6 DEF ReadEntry
  <2>7. CASE PublishCompiled
    BY <2>7 DEF PublishCompiled
  <2>8. CASE Panic
    BY <2>8 DEF Panic
  <2>9. CASE UNCHANGED loopVars
    BY <2>9 DEF loopVars
  <2> QED
    BY <2>1, <2>2, <2>3, <2>4, <2>5, <2>6, <2>7, <2>8, <2>9 DEF LoopNext, Finish, Iterate
<1> QED
  BY <1>1, <1>2, PTL DEF LoopSpec

\* A write to k whose notification the loop has not answered yet.
AwaitsLoop(k) ==
  \/ writer[k] = "written"
  \/ dirty /\ (permit \/ loop = "awake" \/ \E j \in Keys : writer[j] = "marked")

\* An entry that was rewritten after the compilation under way read it is
\* pending again.  NoLostChange is not inductive without it: an entry written
\* back to its published value between the read and the publication differs
\* from the published one only after the publication.
StaleReadIsPending ==
  loop = "compiling" => \A k \in read : view[k] # store[k] => AwaitsLoop(k)

\* The entries a compilation has read and that were rewritten since are
\* compiled again: every step keeps StaleReadIsPending (compile_config
\* racing insert_and_notify).
LEMMA StaleReads == LoopTypeOK /\ StaleReadIsPending /\ [LoopNext]_loopVars => StaleReadIsPending'
<1> SUFFICES ASSUME LoopTypeOK, StaleReadIsPending, [LoopNext]_loopVars, loop' = "compiling",
                    NEW k \in read', view'[k] # store'[k]
             PROVE  AwaitsLoop(k)'
  BY DEF StaleReadIsPending
<1> USE DEF LoopTypeOK, StaleReadIsPending, AwaitsLoop
<1>1. ASSUME NEW j \in Keys, NEW v \in Entry, Write(j, v) PROVE AwaitsLoop(k)'
  BY <1>1 DEF Write
<1>2. ASSUME NEW j \in Keys, MarkDirty(j) PROVE AwaitsLoop(k)'
  BY <1>2 DEF MarkDirty
<1>3. ASSUME NEW j \in Keys, NotifyOne(j) PROVE AwaitsLoop(k)'
  BY <1>3 DEF NotifyOne
<1>4. CASE Notified
  BY <1>4 DEF Notified
<1>5. CASE TakeDirty
  BY <1>5 DEF TakeDirty
<1>6. ASSUME NEW j \in Keys, ReadEntry(j) PROVE AwaitsLoop(k)'
  BY <1>6 DEF ReadEntry
<1>7. CASE PublishCompiled \/ Panic
  BY <1>7 DEF PublishCompiled, Panic
<1>8. CASE UNCHANGED loopVars
  BY <1>8 DEF loopVars
<1> QED
  BY <1>1, <1>2, <1>3, <1>4, <1>5, <1>6, <1>7, <1>8 DEF LoopNext, Finish, Iterate

\* No store change is ever left that nothing will publish.  NoLostChange is
\* inductive over LoopTypeOK and StaleReadIsPending.  The argument follows a change of
\* one entry: its writer is at "written" until the flag is up; from then on
\* the flag stays up until the loop takes it, which starts a compilation with
\* no entry read; an entry read has the store's value until it is written
\* again, which starts the argument over.
THEOREM NothingLost == LoopSpec => []NoLostChange
<1>1. LoopInit => NoLostChange /\ StaleReadIsPending
  BY DEF LoopInit, NoLostChange, StaleReadIsPending
<1>2. LoopTypeOK /\ StaleReadIsPending /\ NoLostChange /\ [LoopNext]_loopVars => NoLostChange'
  <2> SUFFICES ASSUME LoopTypeOK, StaleReadIsPending, NoLostChange, [LoopNext]_loopVars, ~lost',
                      NEW k \in Keys, store'[k] # published'[k]
               PROVE  OnItsWay(k)'
    BY DEF NoLostChange
  <2> USE DEF LoopTypeOK, NoLostChange, OnItsWay
  <2>1. ASSUME NEW j \in Keys, NEW v \in Entry, Write(j, v) PROVE OnItsWay(k)'
    BY <2>1 DEF Write
  <2>2. ASSUME NEW j \in Keys, MarkDirty(j) PROVE OnItsWay(k)'
    BY <2>2 DEF MarkDirty
  <2>3. ASSUME NEW j \in Keys, NotifyOne(j) PROVE OnItsWay(k)'
    BY <2>3 DEF NotifyOne
  <2>4. CASE Notified
    BY <2>4 DEF Notified
  <2>5. CASE TakeDirty
    <3>1. CASE dirty
      BY <2>5, <3>1 DEF TakeDirty
    <3>2. CASE ~dirty
      BY <2>5, <3>2 DEF TakeDirty
    <3> QED
      BY <3>1, <3>2
  <2>6. ASSUME NEW j \in Keys, ReadEntry(j) PROVE OnItsWay(k)'
    BY <2>6 DEF ReadEntry
  <2>7. CASE PublishCompiled
    <3>1. published' = view
      BY <2>7 DEF PublishCompiled
    <3>2. AwaitsLoop(k)
      BY <2>7, <3>1 DEF PublishCompiled, StaleReadIsPending
    <3> QED
      BY <2>7, <3>2 DEF PublishCompiled, AwaitsLoop
  <2>8. CASE Panic
    BY <2>8 DEF Panic
  <2>9. CASE UNCHANGED loopVars
    BY <2>9 DEF loopVars
  <2> QED
    BY <2>1, <2>2, <2>3, <2>4, <2>5, <2>6, <2>7, <2>8, <2>9 DEF LoopNext, Finish, Iterate
<1> QED
  BY <1>1, <1>2, LoopTypeCorrect, StaleReads, PTL DEF LoopSpec

----------------------------------------------------------------------------
(* LeaderElection *)

\* What an attempt sets is within the ranges of a process.
LEMMA Ranges ==
  /\ 0 \in 0 .. MaxRenewalFailures - 1
  /\ {0, 1, LeaseDuration + 1} \subseteq 0 .. LeaseDuration + 1
  /\ \A f \in 0 .. MaxRenewalFailures - 1 :
       f + 1 < MaxRenewalFailures => f + 1 \in 0 .. MaxRenewalFailures - 1
BY ElectionAssumption

\* What an attempt leaves of a process is a process: it won ...
LEMMA WonIs ==
  ASSUME NEW s \in Process
  PROVE  /\ Won(s) \in Process
         /\ Won(s).role = "leader" /\ Won(s).failures = 0 /\ Won(s).wait = 1
         /\ Won(s).call = "none" /\ Won(s).release = s.release
BY Ranges DEF Won, Process, RenewalInterval

\* ... or missed: a standby stands by, a leader leads on or is down.
LEMMA MissedIs ==
  ASSUME NEW s \in Process, NEW pause \in {RenewalInterval, LeaseDuration + RenewalInterval}
  PROVE  /\ Missed(s, pause) \in Process
         /\ Missed(s, pause).call = "none"
         /\ Missed(s, pause).role \in {s.role, "down"}
         /\ s.role = "standby" =>
              /\ Missed(s, pause).role = "standby" /\ Missed(s, pause).wait = 1
              /\ Missed(s, pause).failures = s.failures /\ Missed(s, pause).release = s.release
         /\ s.role = "leader" /\ s.failures + 1 < MaxRenewalFailures =>
              /\ Missed(s, pause).role = "leader" /\ Missed(s, pause).wait = pause
              /\ Missed(s, pause).failures = s.failures + 1 /\ Missed(s, pause).release = s.release
<1> DEFINE m == Missed(s, pause)
<1>1. pause \in 0 .. LeaseDuration + 1 /\ 1 \in 0 .. LeaseDuration + 1
  BY Ranges DEF RenewalInterval
<1>2. s.failures + 1 < MaxRenewalFailures => s.failures + 1 \in 0 .. MaxRenewalFailures - 1
  BY Ranges DEF Process
<1>3. Down \in Process
  <2>1. 0 \in 0 .. MaxRenewalFailures - 1 /\ 0 \in 0 .. LeaseDuration + RenewalInterval
    BY Ranges DEF RenewalInterval
  <2> QED
    BY <2>1 DEF Down, Process
<1>4. CASE s.role = "standby"
  <2>1. m = [s EXCEPT !.wait = 1, !.call = "none"]
    BY <1>4 DEF Missed, RenewalInterval
  <2>2. m \in Process
    BY <1>1, <2>1 DEF Process, RenewalInterval
  <2>3. /\ m.call = "none" /\ m.wait = 1 /\ m.role = s.role
        /\ m.failures = s.failures /\ m.release = s.release
    BY <2>1 DEF Process
  <2> QED
    BY <1>4, <2>2, <2>3
<1>5. CASE s.role # "standby" /\ s.failures + 1 < MaxRenewalFailures
  <2> DEFINE f == s.failures + 1
  <2>1. m = [s EXCEPT !.failures = f, !.wait = pause, !.call = "none"]
    BY <1>5 DEF Missed
  <2>2. f \in 0 .. MaxRenewalFailures - 1
    BY <1>2, <1>5
  <2> HIDE DEF f
  <2>3. m \in Process
    BY <1>1, <2>1, <2>2 DEF Process, RenewalInterval
  <2>4. /\ m.call = "none" /\ m.wait = pause /\ m.role = s.role
        /\ m.failures = f /\ m.release = s.release
    BY <2>1 DEF Process
  <2> QED
    BY <1>5, <2>3, <2>4 DEF f
<1>6. CASE s.role # "standby" /\ ~(s.failures + 1 < MaxRenewalFailures)
  <2>1. CASE s.release
    <3>1. m = [s EXCEPT !.wait = pause, !.call = "none"]
      BY <1>6, <2>1 DEF Missed
    <3>2. m \in Process
      BY <1>1, <3>1 DEF Process, RenewalInterval
    <3>3. m.call = "none" /\ m.role = s.role
      BY <3>1 DEF Process
    <3> QED
      BY <1>6, <3>2, <3>3
  <2>2. CASE ~s.release
    <3>1. m = Down
      BY <1>6, <2>2 DEF Missed
    <3> QED
      BY <1>3, <1>6, <3>1 DEF Down
  <2> QED
    BY <2>1, <2>2
<1> QED
  BY <1>4, <1>5, <1>6

\* A call fits the lease its read found: nobody leads or writes over a lease
\* that is not there, and only a standby creates one.
CallsFitLease ==
  \A p \in Pods :
    /\ pod[p].role = "leader" \/ pod[p].call \in {"renew", "takeover"} => lease # Nobody
    /\ pod[p].call = "create" => pod[p].role = "standby"

\* No replica went and at most one call failed.
Undisturbed == spent.crashes = 0 /\ spent.terms = 0 /\ spent.faults <= 1

\* The first lease stays with the replica that created it: the others stand
\* by, at most with a create that will be refused, and its age and the
\* holder's wait together leave the lease time for the next renewal.
FirstLease ==
  /\ ~owned
  /\ \A p \in Pods : pod[p].role # "down" /\ ~pod[p].release /\ pod[p].failures <= spent.faults
  /\ lease = Nobody => \A p \in Pods : pod[p].role = "standby" /\ pod[p].call \in {"none", "create"}
  /\ lease # Nobody =>
       /\ lease.holder \in Pods /\ lease.duration = LeaseDuration
       /\ lease.age + pod[lease.holder].wait <= 1 + spent.faults
       /\ pod[lease.holder].call \in {"none", "renew"}
       /\ \A p \in Pods \ {lease.holder} :
            pod[p].role = "standby" /\ pod[p].call \in {"none", "create"}

\* While leaders go only by SIGTERM the holder of the lease leads: whoever
\* leaves releases the lease, or has lost it.
HolderLeads ==
  spent.crashes = 0 /\ spent.faults = 0 /\ lease # Nobody /\ lease.holder # Nobody
    => pod[lease.holder].role = "leader"

----------------------------------------------------------------------------
(* ElectionTypes, and calls that fit the lease *)

\* What a write leaves is a lease.
LEMMA HeldIs ==
  ASSUME NEW h \in Pods \cup {Nobody}, NEW d \in {1, LeaseDuration}
  PROVE  /\ Held(h, d) \in Lease /\ Held(h, d) # Nobody
         /\ Held(h, d).holder = h /\ Held(h, d).age = 0 /\ Held(h, d).duration = d
<1>1. 0 \in 0 .. LeaseDuration /\ d \in 1 .. LeaseDuration
  BY ElectionAssumption
<1>2. Held(h, d) \in Lease
  BY <1>1 DEF Held, Lease
<1> QED
  BY <1>2, NobodyIsNoLease DEF Held

\* A write carried out leaves a fresh lease of full length.
LEMMA WrittenIs ==
  ASSUME ElectionTypeOK, CallsFitLease, NEW p \in Pods, Written(p)
  PROVE  /\ lease' \in Lease /\ lease' # Nobody /\ lease'.age = 0 /\ lease'.duration = LeaseDuration
         /\ owned' \in BOOLEAN
         /\ pod[p].call # "none"
<1>1. CASE pod[p].call = "renew" /\ Renew
  <2>1. lease # Nobody
    BY <1>1 DEF CallsFitLease
  <2>2. lease.holder \in Pods \cup {Nobody}
    BY <2>1 DEF ElectionTypeOK, Lease
  <2> QED
    BY <1>1, <2>2, HeldIs DEF Renew
<1>2. CASE pod[p].call = "takeover" /\ Takeover(p)
  BY <1>2, HeldIs DEF Takeover
<1>3. CASE pod[p].call = "create" /\ lease = Nobody /\ Create(p)
  BY <1>3, HeldIs DEF Create
<1> QED
  BY <1>1, <1>2, <1>3 DEF Written

\* The read leaves a write to come or a refusal.
LEMMA GetIs ==
  ASSUME ElectionTypeOK, NEW p \in Pods, Get(p)
  PROVE  \/ lease = Nobody /\ pod' = [pod EXCEPT ![p] = [@ EXCEPT !.call = "create"]]
         \/ lease # Nobody /\ lease.holder = p /\ pod' = [pod EXCEPT ![p] = [@ EXCEPT !.call = "renew"]]
         \/ /\ lease # Nobody /\ lease.holder # p /\ lease_is_free(lease)
            /\ pod' = [pod EXCEPT ![p] = [@ EXCEPT !.call = "takeover"]]
         \/ /\ lease # Nobody /\ lease.holder # p /\ ~lease_is_free(lease)
            /\ pod' = [pod EXCEPT ![p] = Refused(pod[p])]
BY DEF Get

\* A process that starts or is gone is a process.
LEMMA StartedIs == Down \in Process /\ Started \in Process
<1>1. 0 \in 0 .. MaxRenewalFailures - 1 /\ 0 \in 0 .. LeaseDuration + RenewalInterval
  BY Ranges DEF RenewalInterval
<1> QED
  BY <1>1 DEF Started, Down, Process

\* The environment's counters stay within their bounds.
LEMMA UsesIs ==
  ASSUME spent \in [faults : 0 .. MaxFaults, crashes : 0 .. MaxCrashes, terms : 0 .. MaxTerms],
         \/ Uses("faults", MaxFaults) \/ Uses("crashes", MaxCrashes) \/ Uses("terms", MaxTerms)
  PROVE  spent' \in [faults : 0 .. MaxFaults, crashes : 0 .. MaxCrashes, terms : 0 .. MaxTerms]
BY ElectionAssumption DEF Uses

\* Every step keeps the types and the calls' fit.
LEMMA ElectionTypes == ElectionTypeOK /\ CallsFitLease /\ [ElectionNext]_electionVars => ElectionTypeOK' /\ CallsFitLease'
<1> SUFFICES ASSUME ElectionTypeOK, CallsFitLease, [ElectionNext]_electionVars PROVE ElectionTypeOK' /\ CallsFitLease'
  OBVIOUS
<1> USE DEF ElectionTypeOK
<1>1. ASSUME NEW p \in Pods, Get(p) PROVE ElectionTypeOK' /\ CallsFitLease'
  <2>1. UNCHANGED <<lease, owned, spent>> /\ pod[p] \in Process /\ pod[p].role # "down"
    BY <1>1 DEF Get, Due
  <2>2. ASSUME NEW c \in {"create", "renew", "takeover"}, (c = "create") = (lease = Nobody),
               pod' = [pod EXCEPT ![p] = [@ EXCEPT !.call = c]]
        PROVE  ElectionTypeOK' /\ CallsFitLease'
    <3>1. pod' \in [Pods -> Process]
      BY <2>1, <2>2 DEF Process
    <3>2. pod'[p].role = pod[p].role /\ pod'[p].call = c
      BY <2>1, <2>2 DEF Process
    <3>3. c = "create" => pod[p].role = "standby"
      BY <2>1, <2>2 DEF CallsFitLease, Process
    <3> QED
      BY <2>1, <2>2, <3>1, <3>2, <3>3 DEF CallsFitLease
  <2>3. ASSUME pod' = [pod EXCEPT ![p] = Refused(pod[p])]
        PROVE  ElectionTypeOK' /\ CallsFitLease'
    <3>1. /\ Refused(pod[p]) \in Process /\ Refused(pod[p]).call = "none"
          /\ Refused(pod[p]).role \in {pod[p].role, "down"}
      BY <2>1, MissedIs DEF Refused
    <3> QED
      BY <2>1, <2>3, <3>1 DEF CallsFitLease
  <2> QED
    BY <1>1, <2>2, <2>3, GetIs
<1>2. ASSUME NEW p \in Pods, Written(p), pod' \in {[pod EXCEPT ![p] = Won(@)], [pod EXCEPT ![p] = Errored(@)]},
             spent' \in [faults : 0 .. MaxFaults, crashes : 0 .. MaxCrashes, terms : 0 .. MaxTerms]
      PROVE  ElectionTypeOK' /\ CallsFitLease'
  <2>1. /\ Won(pod[p]) \in Process /\ Won(pod[p]).call = "none"
        /\ Errored(pod[p]) \in Process /\ Errored(pod[p]).call = "none"
    BY WonIs, MissedIs DEF Errored
  <2> QED
    BY <1>2, <2>1, WrittenIs DEF CallsFitLease
<1>3. ASSUME NEW p \in Pods, pod' = [pod EXCEPT ![p] = Errored(@)], UNCHANGED <<lease, owned>>,
             spent' \in [faults : 0 .. MaxFaults, crashes : 0 .. MaxCrashes, terms : 0 .. MaxTerms]
      PROVE  ElectionTypeOK' /\ CallsFitLease'
  <2>1. /\ Errored(pod[p]) \in Process /\ Errored(pod[p]).call = "none"
        /\ Errored(pod[p]).role \in {pod[p].role, "down"}
    BY MissedIs DEF Errored
  <2> QED
    BY <1>3, <2>1 DEF CallsFitLease
<1>4. ASSUME NEW p \in Pods, WriteLease(p) PROVE ElectionTypeOK' /\ CallsFitLease'
  BY <1>2, <1>3, <1>4 DEF WriteLease
<1>5. ASSUME NEW p \in Pods, CallFails(p) PROVE ElectionTypeOK' /\ CallsFitLease'
  BY <1>2, <1>3, <1>5, UsesIs DEF CallFails
<1>6. ASSUME NEW p \in Pods, Crash(p) PROVE ElectionTypeOK' /\ CallsFitLease'
  <2>1. pod' = [pod EXCEPT ![p] = Down] /\ UNCHANGED <<lease, owned>>
    BY <1>6 DEF Crash
  <2>2. spent' \in [faults : 0 .. MaxFaults, crashes : 0 .. MaxCrashes, terms : 0 .. MaxTerms]
    BY <1>6, UsesIs DEF Crash
  <2>3. Down \in Process /\ Down.call = "none" /\ Down.role = "down"
    BY StartedIs DEF Down
  <2> QED
    BY <2>1, <2>2, <2>3 DEF CallsFitLease
<1>7. ASSUME NEW p \in Pods, SigTerm(p) PROVE ElectionTypeOK' /\ CallsFitLease'
  <2>1. spent' \in [faults : 0 .. MaxFaults, crashes : 0 .. MaxCrashes, terms : 0 .. MaxTerms]
    BY <1>7, UsesIs DEF SigTerm
  <2>2. Down \in Process /\ Down.call = "none" /\ Down.role = "down"
    BY StartedIs DEF Down
  <2> DEFINE s == [pod[p] EXCEPT !.release = TRUE]
  <2>3. s \in Process /\ s.call = pod[p].call /\ s.role = pod[p].role
    BY DEF Process
  <2>4. pod' \in {[pod EXCEPT ![p] = s], [pod EXCEPT ![p] = Down]} /\ UNCHANGED <<lease, owned>>
    BY <1>7 DEF SigTerm
  <2> HIDE DEF s
  <2> QED
    BY <2>1, <2>2, <2>3, <2>4 DEF CallsFitLease
<1>8. ASSUME NEW p \in Pods, release_lease(p) PROVE ElectionTypeOK' /\ CallsFitLease'
  <2>1. Down \in Process /\ Down.call = "none" /\ Down.role = "down"
    BY StartedIs DEF Down
  <2>2. lease' \in Lease /\ lease' # Nobody
    BY <1>8, HeldIs DEF release_lease
  <2> QED
    BY <1>8, <2>1, <2>2 DEF CallsFitLease, release_lease
<1>9. ASSUME NEW p \in Pods, Restart(p) PROVE ElectionTypeOK' /\ CallsFitLease'
  <2>1. Started \in Process /\ Started.call = "none" /\ Started.role = "standby"
    BY StartedIs DEF Started, Down
  <2> QED
    BY <1>9, <2>1 DEF CallsFitLease, Restart
<1>10. CASE Tick
  <2>1. \A p \in Pods : /\ pod'[p] \in Process
                        /\ pod'[p].call = pod[p].call /\ pod'[p].role = pod[p].role
    <3> SUFFICES ASSUME NEW p \in Pods, pod[p].role # "down"
                 PROVE  /\ [pod[p] EXCEPT !.wait = pod[p].wait - 1] \in Process
                        /\ [pod[p] EXCEPT !.wait = pod[p].wait - 1].call = pod[p].call
                        /\ [pod[p] EXCEPT !.wait = pod[p].wait - 1].role = pod[p].role
      BY <1>10 DEF Tick
    <3>1. pod[p] \in Process /\ pod[p].wait # 0
      BY <1>10 DEF Tick, Due
    <3>2. pod[p].wait - 1 \in 0 .. LeaseDuration + RenewalInterval
      BY <3>1, ElectionAssumption DEF Process, RenewalInterval
    <3> QED
      BY <3>1, <3>2 DEF Process
  <2>2. pod' \in [Pods -> Process]
    BY <1>10, <2>1 DEF Tick
  <2>3. ASSUME lease # Nobody PROVE lease' \in Lease /\ lease' # Nobody
    <3> DEFINE a == IF lease.age < LeaseDuration THEN lease.age + 1 ELSE lease.age
    <3>1. lease \in Lease /\ lease' = [lease EXCEPT !.age = a]
      BY <1>10, <2>3 DEF Tick
    <3>2. a \in 0 .. LeaseDuration
      BY <3>1, ElectionAssumption DEF Lease
    <3> HIDE DEF a
    <3>3. lease' \in Lease
      BY <3>1, <3>2 DEF Lease
    <3> QED
      BY <3>3, NobodyIsNoLease
  <2>4. lease = Nobody => lease' = Nobody
    BY <1>10 DEF Tick
  <2>5. UNCHANGED <<owned, spent>>
    BY <1>10 DEF Tick
  <2>6. CallsFitLease'
    BY <2>1, <2>3, <2>4 DEF CallsFitLease
  <2> QED
    BY <2>2, <2>3, <2>4, <2>5, <2>6
<1>11. CASE UNCHANGED electionVars
  BY <1>11 DEF electionVars, CallsFitLease
<1> QED
  BY <1>1, <1>4, <1>5, <1>6, <1>7, <1>8, <1>9, <1>10, <1>11 DEF ElectionNext, Try

\* ElectionTypeOK is inductive once calls are known to fit the lease: a renewal reads
\* the holder of a lease that is there.
THEOREM ElectionTypeCorrect == ElectionSpec => [](ElectionTypeOK /\ CallsFitLease)
<1>1. ElectionInit => ElectionTypeOK /\ CallsFitLease
  <2> SUFFICES ASSUME ElectionInit PROVE ElectionTypeOK /\ CallsFitLease
    OBVIOUS
  <2>1. \A p \in Pods : pod[p].call = "none" /\ pod[p].role = "standby"
    BY DEF ElectionInit, Started, Down
  <2>2. spent \in [faults : 0 .. MaxFaults, crashes : 0 .. MaxCrashes, terms : 0 .. MaxTerms]
    BY ElectionAssumption DEF ElectionInit
  <2> QED
    BY <2>1, <2>2, StartedIs DEF ElectionInit, ElectionTypeOK, CallsFitLease
<1> QED
  BY <1>1, ElectionTypes, PTL DEF ElectionSpec

----------------------------------------------------------------------------
(* The first lease has one leader *)

\* The others cannot find the first lease free before its holder renews it.
LEMMA FirstLeaseTaken ==
  ASSUME ElectionTypeOK, Undisturbed, FirstLease, lease # Nobody
  PROVE  ~lease_is_free(lease)
<1>1. lease.age \in Nat /\ pod[lease.holder].wait \in Nat /\ spent.faults \in Nat
  BY ElectionAssumption DEF ElectionTypeOK, Lease, Process, FirstLease, RenewalInterval
<1>2. lease.age <= 2
  BY <1>1 DEF FirstLease, Undisturbed
<1>3. lease.age < lease.duration
  BY <1>1, <1>2, ElectionAssumption, TimingAssumption DEF FirstLease, RenewalInterval
<1> QED
  BY <1>1, <1>3, ElectionAssumption DEF lease_is_free, FirstLease

\* A replica other than the holder, or any while there is no lease, moves
\* among the standbys.
LEMMA StandbyMoves ==
  ASSUME ElectionTypeOK, FirstLease, NEW p \in Pods, lease = Nobody \/ lease.holder # p,
         UNCHANGED <<lease, owned>>, spent.faults \in Nat, spent'.faults \in {spent.faults, spent.faults + 1},
         NEW s \in Process, pod' = [pod EXCEPT ![p] = s],
         s.role = "standby", ~s.release, s.failures = pod[p].failures, s.call \in {"none", "create"}
  PROVE  FirstLease'
<1> USE DEF ElectionTypeOK
<1>1. \A q \in Pods : pod[q].failures \in Nat /\ pod[q].wait \in Nat
  BY ElectionAssumption DEF Process, RenewalInterval
<1>2. \A q \in Pods : pod'[q].role # "down" /\ ~pod'[q].release /\ pod'[q].failures <= spent'.faults
  BY <1>1 DEF FirstLease
<1>3. CASE lease = Nobody
  BY <1>2, <1>3 DEF FirstLease
<1>4. CASE lease # Nobody
  <2>1. lease.age \in Nat /\ pod'[lease.holder] = pod[lease.holder] /\ lease.holder \in Pods
    BY <1>4, ElectionAssumption DEF FirstLease, Lease
  <2>2. lease.age + pod'[lease.holder].wait <= 1 + spent'.faults
    BY <1>1, <1>4, <2>1 DEF FirstLease
  <2> QED
    BY <1>2, <1>4, <2>1, <2>2 DEF FirstLease
<1> QED
  BY <1>3, <1>4

\* The holder moves, or a standby becomes it.
LEMMA HolderMoves ==
  ASSUME ElectionTypeOK, FirstLease, NEW p \in Pods, lease = Nobody \/ lease.holder = p,
         ~owned', lease' # Nobody, lease'.holder = p, lease'.duration = LeaseDuration,
         spent.faults \in Nat, spent'.faults \in {spent.faults, spent.faults + 1},
         NEW s \in Process, pod' = [pod EXCEPT ![p] = s],
         s.role # "down", ~s.release, s.failures <= spent'.faults, s.call \in {"none", "renew"},
         lease'.age + s.wait <= 1 + spent'.faults
  PROVE  FirstLease'
<1> USE DEF ElectionTypeOK
<1>1. \A q \in Pods \ {p} :
        /\ pod'[q] = pod[q] /\ pod[q].role = "standby" /\ pod[q].call \in {"none", "create"}
        /\ ~pod[q].release /\ pod[q].failures <= spent.faults /\ pod[q].failures \in Nat
  BY ElectionAssumption DEF FirstLease, Process
<1>2. pod'[p] = s
  OBVIOUS
<1>3. \A q \in Pods : pod'[q].role # "down" /\ ~pod'[q].release /\ pod'[q].failures <= spent'.faults
  BY <1>1, <1>2
<1> QED
  BY <1>1, <1>2, <1>3 DEF FirstLease

\* A write finds the lease the read found: the holder renews it in its own
\* name, or a standby creates the first one.
LEMMA FirstWrite ==
  ASSUME ElectionTypeOK, CallsFitLease, FirstLease, NEW p \in Pods, Written(p)
  PROVE  /\ lease = Nobody \/ lease.holder = p
         /\ ~owned' /\ lease' # Nobody /\ lease'.holder = p
         /\ lease'.duration = LeaseDuration /\ lease'.age = 0
<1>1. CASE pod[p].call = "renew" /\ Renew
  <2>1. lease # Nobody /\ lease.holder = p
    BY <1>1 DEF CallsFitLease, FirstLease
  <2>2. lease' = Held(p, LeaseDuration) /\ ~owned'
    BY <1>1, <2>1 DEF Renew, FirstLease
  <2> QED
    BY <2>1, <2>2, HeldIs
<1>2. CASE pod[p].call = "takeover" /\ Takeover(p)
  BY <1>2 DEF FirstLease, CallsFitLease
<1>3. CASE pod[p].call = "create" /\ lease = Nobody /\ Create(p)
  BY <1>3, HeldIs DEF Create
<1> QED
  BY <1>1, <1>2, <1>3 DEF Written

\* What the first failed call leaves of a replica.
LEMMA FirstFault ==
  ASSUME ElectionTypeOK, FirstLease, spent.faults = 0, NEW p \in Pods
  PROVE  /\ Errored(pod[p]) \in Process
         /\ Errored(pod[p]).call = "none" /\ Errored(pod[p]).wait = 1
         /\ Errored(pod[p]).role = pod[p].role /\ ~Errored(pod[p]).release
         /\ Errored(pod[p]).failures <= 1
         /\ pod[p].role = "standby" => Errored(pod[p]).failures = pod[p].failures
<1>1. pod[p] \in Process /\ pod[p].failures = 0 /\ pod[p].role # "down" /\ ~pod[p].release
  BY ElectionAssumption DEF ElectionTypeOK, FirstLease, Process
<1>2. pod[p].failures + 1 < MaxRenewalFailures
  BY <1>1, ElectionAssumption, TimingAssumption
<1>3. pod[p].role \in {"standby", "leader"}
  BY <1>1 DEF Process
<1> QED
  BY <1>1, <1>2, <1>3, MissedIs DEF Errored, RenewalInterval

\* Every step that leaves the replicas undisturbed keeps FirstLease.
LEMMA FirstLeaseStays ==
  ASSUME ElectionTypeOK, CallsFitLease, Undisturbed => FirstLease, [ElectionNext]_electionVars, Undisturbed'
  PROVE  FirstLease'
<1> USE DEF ElectionTypeOK
<1>1. spent.faults \in Nat /\ spent.crashes \in Nat /\ spent.terms \in Nat
  BY ElectionAssumption
<1>2. ASSUME NEW p \in Pods, Get(p) PROVE FirstLease'
  <2>1. UNCHANGED <<lease, owned, spent>> /\ FirstLease /\ Undisturbed
    BY <1>2 DEF Get, Undisturbed
  <2>2. pod[p] \in Process /\ pod[p].role # "down" /\ ~pod[p].release /\ pod[p].failures <= spent.faults
    BY <2>1 DEF FirstLease
  <2>3. CASE lease = Nobody /\ pod' = [pod EXCEPT ![p] = [@ EXCEPT !.call = "create"]]
    <3> DEFINE s == [pod[p] EXCEPT !.call = "create"]
    <3>1. /\ s \in Process /\ s.role = pod[p].role /\ s.release = pod[p].release
          /\ s.failures = pod[p].failures /\ s.call = "create" /\ pod' = [pod EXCEPT ![p] = s]
      BY <2>2, <2>3 DEF Process
    <3>2. pod[p].role = "standby"
      BY <2>1, <2>3 DEF FirstLease
    <3> HIDE DEF s
    <3> QED
      BY <1>1, <2>1, <2>2, <2>3, <3>1, <3>2, StandbyMoves
  <2>4. CASE lease # Nobody /\ lease.holder = p /\ pod' = [pod EXCEPT ![p] = [@ EXCEPT !.call = "renew"]]
    <3> DEFINE s == [pod[p] EXCEPT !.call = "renew"]
    <3>1. /\ s \in Process /\ s.role = pod[p].role /\ s.release = pod[p].release
          /\ s.failures = pod[p].failures /\ s.wait = pod[p].wait
          /\ s.call = "renew" /\ pod' = [pod EXCEPT ![p] = s]
      BY <2>2, <2>4 DEF Process
    <3>2. /\ ~owned' /\ lease' # Nobody /\ lease'.holder = p /\ lease'.duration = LeaseDuration
          /\ lease'.age + s.wait <= 1 + spent'.faults
      BY <2>1, <2>4, <3>1 DEF FirstLease
    <3> HIDE DEF s
    <3> QED
      BY <1>1, <2>1, <2>2, <2>4, <3>1, <3>2, HolderMoves
  <2>5. CASE lease # Nobody /\ lease_is_free(lease)
    BY <2>1, <2>5, FirstLeaseTaken
  <2>6. CASE lease # Nobody /\ lease.holder # p /\ pod' = [pod EXCEPT ![p] = Refused(pod[p])]
    <3>1. pod[p].role = "standby"
      BY <2>1, <2>6 DEF FirstLease
    <3>2. /\ Refused(pod[p]) \in Process /\ Refused(pod[p]).role = "standby"
          /\ Refused(pod[p]).call = "none" /\ Refused(pod[p]).failures = pod[p].failures
          /\ Refused(pod[p]).release = pod[p].release
      BY <2>2, <3>1, MissedIs DEF Refused
    <3> QED
      BY <1>1, <2>1, <2>2, <2>6, <3>2, StandbyMoves
  <2> QED
    BY <1>2, <2>3, <2>4, <2>5, <2>6, GetIs
<1>3. ASSUME NEW p \in Pods, WriteLease(p) PROVE FirstLease'
  <2>1. UNCHANGED spent /\ FirstLease /\ Undisturbed
    BY <1>3 DEF WriteLease, Undisturbed
  <2>2. pod[p] \in Process /\ pod[p].role # "down" /\ ~pod[p].release
    BY <2>1 DEF FirstLease
  <2>3. CASE Written(p) /\ pod' = [pod EXCEPT ![p] = Won(@)]
    <3>1. /\ Won(pod[p]) \in Process /\ Won(pod[p]).role = "leader" /\ Won(pod[p]).failures = 0
          /\ Won(pod[p]).wait = 1 /\ Won(pod[p]).call = "none" /\ ~Won(pod[p]).release
      BY <2>2, WonIs
    <3>2. /\ lease = Nobody \/ lease.holder = p
          /\ ~owned' /\ lease' # Nobody /\ lease'.holder = p
          /\ lease'.duration = LeaseDuration /\ lease'.age = 0
      BY <2>1, <2>3, FirstWrite
    <3>3. Won(pod[p]).failures <= spent'.faults /\ lease'.age + Won(pod[p]).wait <= 1 + spent'.faults
      BY <1>1, <2>1, <3>1, <3>2
    <3> QED
      BY <1>1, <2>1, <2>3, <3>1, <3>2, <3>3, HolderMoves
  <2>4. CASE Conflict(p) /\ pod' = [pod EXCEPT ![p] = Errored(@)] /\ UNCHANGED <<lease, owned>>
    <3>1. lease # Nobody /\ lease.holder # p /\ pod[p].role = "standby"
      BY <2>1, <2>4 DEF Conflict, FirstLease
    <3>2. /\ Errored(pod[p]) \in Process /\ Errored(pod[p]).role = "standby"
          /\ Errored(pod[p]).call = "none" /\ Errored(pod[p]).failures = pod[p].failures
          /\ Errored(pod[p]).release = pod[p].release
      BY <2>2, <3>1, MissedIs DEF Errored
    <3> QED
      BY <1>1, <2>1, <2>2, <2>4, <3>1, <3>2, StandbyMoves
  <2> QED
    BY <1>3, <2>3, <2>4 DEF WriteLease
<1>4. ASSUME NEW p \in Pods, CallFails(p) PROVE FirstLease'
  <2>1. spent' = [spent EXCEPT !["faults"] = spent.faults + 1]
    BY <1>4 DEF CallFails, Uses
  <2>2. spent.faults = 0 /\ spent'.faults = 1 /\ FirstLease /\ Undisturbed
    <3>1. spent'.faults = spent.faults + 1 /\ spent'.crashes = spent.crashes /\ spent'.terms = spent.terms
      BY <2>1
    <3> QED
      BY <1>1, <3>1 DEF Undisturbed
  <2> DEFINE s == Errored(pod[p])
  <2>3. /\ s \in Process /\ s.call = "none" /\ s.wait = 1 /\ s.role = pod[p].role /\ ~s.release
        /\ s.failures <= 1 /\ (pod[p].role = "standby" => s.failures = pod[p].failures)
        /\ pod[p].role # "down"
    BY <2>2, FirstFault DEF FirstLease
  <2>4. pod' = [pod EXCEPT ![p] = s]
    BY <1>4 DEF CallFails
  <2>8. spent'.faults \in {spent.faults, spent.faults + 1} /\ s.failures <= spent'.faults
    BY <2>2, <2>3
  <2> HIDE DEF s
  <2>5. CASE Written(p)
    <3>1. /\ lease = Nobody \/ lease.holder = p
          /\ ~owned' /\ lease' # Nobody /\ lease'.holder = p
          /\ lease'.duration = LeaseDuration /\ lease'.age = 0
      BY <2>2, <2>5, FirstWrite
    <3>2. lease'.age + s.wait <= 1 + spent'.faults
      BY <2>2, <2>3, <3>1
    <3> QED
      BY <1>1, <2>2, <2>3, <2>4, <2>8, <3>1, <3>2, HolderMoves
  <2>6. CASE UNCHANGED <<lease, owned>> /\ (lease = Nobody \/ lease.holder # p)
    <3>1. pod[p].role = "standby"
      BY <2>2, <2>6 DEF FirstLease
    <3> QED
      BY <1>1, <2>2, <2>3, <2>4, <2>6, <2>8, <3>1, StandbyMoves
  <2>7. CASE UNCHANGED <<lease, owned>> /\ lease # Nobody /\ lease.holder = p
    <3>1. lease.age \in Nat /\ pod[p].wait \in Nat
      BY <2>7, ElectionAssumption DEF Lease, Process, RenewalInterval
    <3>2. lease.age <= 1
      BY <2>2, <2>7, <3>1 DEF FirstLease
    <3>3. lease'.age + s.wait <= 1 + spent'.faults
      BY <2>2, <2>3, <2>7, <3>1, <3>2
    <3>4. ~owned' /\ lease'.duration = LeaseDuration
      BY <2>2, <2>7 DEF FirstLease
    <3> QED
      BY <1>1, <2>2, <2>3, <2>4, <2>7, <2>8, <3>3, <3>4, HolderMoves
  <2> QED
    BY <1>4, <2>5, <2>6, <2>7 DEF CallFails
<1>5. ASSUME NEW p \in Pods, Crash(p) PROVE FALSE
  BY <1>1, <1>5 DEF Crash, Uses, Undisturbed
<1>6. ASSUME NEW p \in Pods, SigTerm(p) PROVE FALSE
  BY <1>1, <1>6 DEF SigTerm, Uses, Undisturbed
<1>7. ASSUME NEW p \in Pods, release_lease(p) \/ Restart(p) PROVE FALSE
  BY <1>7 DEF release_lease, Restart, Undisturbed, FirstLease
<1>8. CASE Tick
  <2>1. UNCHANGED <<spent, owned>> /\ FirstLease
    BY <1>8 DEF Tick, Undisturbed
  <2>2. \A p \in Pods :
          /\ pod[p] \in Process /\ pod[p].role # "down" /\ pod[p].wait # 0 /\ pod[p].call = "none"
          /\ pod'[p] = [pod[p] EXCEPT !.wait = pod[p].wait - 1]
    BY <1>8, <2>1 DEF Tick, Due, FirstLease
  <2>3. \A p \in Pods :
          /\ pod'[p].role = pod[p].role /\ pod'[p].call = "none" /\ pod'[p].release = pod[p].release
          /\ pod'[p].failures = pod[p].failures /\ pod'[p].wait = pod[p].wait - 1
    <3>1. ASSUME NEW r \in Process, NEW w
          PROVE  /\ [r EXCEPT !.wait = w].role = r.role /\ [r EXCEPT !.wait = w].call = r.call
                 /\ [r EXCEPT !.wait = w].release = r.release
                 /\ [r EXCEPT !.wait = w].failures = r.failures /\ [r EXCEPT !.wait = w].wait = w
      BY DEF Process
    <3> SUFFICES ASSUME NEW p \in Pods
                 PROVE  /\ pod'[p].role = pod[p].role /\ pod'[p].call = "none"
                        /\ pod'[p].release = pod[p].release /\ pod'[p].failures = pod[p].failures
                        /\ pod'[p].wait = pod[p].wait - 1
      OBVIOUS
    <3> DEFINE w == pod[p].wait - 1
    <3>2. pod[p] \in Process /\ pod[p].call = "none" /\ pod'[p] = [pod[p] EXCEPT !.wait = w]
      BY <2>2
    <3> HIDE DEF w
    <3>3. /\ pod'[p].role = pod[p].role /\ pod'[p].call = "none"
          /\ pod'[p].release = pod[p].release /\ pod'[p].failures = pod[p].failures
          /\ pod'[p].wait = w
      BY <3>1, <3>2
    <3> QED
      BY <3>3 DEF w
  <2>4. CASE lease = Nobody
    <3>1. lease' = Nobody
      BY <1>8, <2>4 DEF Tick
    <3> QED
      BY <2>1, <2>3, <2>4, <3>1 DEF FirstLease
  <2>5. CASE lease # Nobody
    <3>1. /\ lease \in Lease /\ lease' \in Lease /\ lease'.holder = lease.holder
          /\ lease'.duration = lease.duration /\ lease' # Nobody
          /\ lease'.age \in {lease.age, lease.age + 1}
      <4> DEFINE a == IF lease.age < LeaseDuration THEN lease.age + 1 ELSE lease.age
      <4>1. lease \in Lease /\ lease' = [lease EXCEPT !.age = a]
        BY <1>8, <2>5 DEF Tick
      <4>2. a \in 0 .. LeaseDuration /\ a \in {lease.age, lease.age + 1}
        BY <4>1, ElectionAssumption DEF Lease
      <4> HIDE DEF a
      <4> QED
        BY <4>1, <4>2, NobodyIsNoLease DEF Lease
    <3>2. lease.age \in Nat /\ lease.holder \in Pods /\ pod[lease.holder].wait \in Nat
      BY <2>1, <2>5, ElectionAssumption DEF Lease, FirstLease, Process, RenewalInterval
    <3>3. lease'.age + pod'[lease'.holder].wait <= 1 + spent'.faults
      <4>1. /\ lease.age + pod[lease.holder].wait <= 1 + spent.faults
            /\ pod'[lease.holder].wait = pod[lease.holder].wait - 1
        BY <2>1, <2>3, <2>5, <3>2 DEF FirstLease
      <4> QED
        BY <1>1, <2>1, <3>1, <3>2, <4>1
    <3> QED
      BY <2>1, <2>3, <2>5, <3>1, <3>2, <3>3 DEF FirstLease
  <2> QED
    BY <2>4, <2>5
<1>9. CASE UNCHANGED electionVars
  BY <1>9 DEF electionVars, Undisturbed, FirstLease
<1> QED
  BY <1>2, <1>3, <1>4, <1>5, <1>6, <1>7, <1>8, <1>9 DEF ElectionNext, Try

\* There is at most one leader from the first lease on, as long as no replica
\* goes and at most one call fails (try_acquire_or_renew: one create wins, and
\* the lease is renewed before any other replica may take it over).
THEOREM OneLeaderAtFirst == ElectionSpec => []LeasesSound
<1>1. ElectionInit => (Undisturbed => FirstLease)
  <2> SUFFICES ASSUME ElectionInit PROVE FirstLease
    OBVIOUS
  <2>1. \A p \in Pods : /\ pod[p].call = "none" /\ pod[p].role = "standby"
                        /\ ~pod[p].release /\ pod[p].failures = 0
    BY DEF ElectionInit, Started, Down
  <2>2. spent.faults = 0
    BY DEF ElectionInit
  <2> QED
    BY <2>1, <2>2 DEF ElectionInit, FirstLease
<1>2. ElectionTypeOK /\ CallsFitLease /\ (Undisturbed => FirstLease) /\ [ElectionNext]_electionVars
        => (Undisturbed => FirstLease)'
  BY FirstLeaseStays
<1>3. ElectionTypeOK /\ (Undisturbed => FirstLease) => LeasesSound
  <2> SUFFICES ASSUME FirstLease PROVE OneLeader
    BY DEF LeasesSound, OneFirstLeader, Undisturbed
  <2>1. CASE lease = Nobody
    <3>1. Leaders = {}
      BY <2>1 DEF FirstLease, Leaders
    <3> QED
      BY <3>1, FS_EmptySet DEF OneLeader
  <2>2. CASE lease # Nobody
    <3>1. Leaders \subseteq {lease.holder}
      BY <2>2 DEF FirstLease, Leaders
    <3>2. IsFiniteSet({lease.holder}) /\ Cardinality({lease.holder}) = 1
      BY FS_Singleton
    <3>3. IsFiniteSet(Leaders) /\ Cardinality(Leaders) <= Cardinality({lease.holder})
      BY <3>1, <3>2, FS_Subset
    <3> QED
      BY <3>2, <3>3 DEF OneLeader
  <2> QED
    BY <2>1, <2>2
<1> QED
  BY <1>1, <1>2, <1>3, ElectionTypeCorrect, PTL DEF ElectionSpec

----------------------------------------------------------------------------
(* Handover *)

\* Every step keeps HolderLeads: a leader's name enters the lease when it
\* leads, and it stops leading only after another name, or none, replaced it.
LEMMA HolderLeadsOn == ElectionTypeOK /\ CallsFitLease /\ HolderLeads /\ [ElectionNext]_electionVars => HolderLeads'
<1> SUFFICES ASSUME ElectionTypeOK, CallsFitLease, HolderLeads, [ElectionNext]_electionVars,
                    spent'.crashes = 0, spent'.faults = 0, lease' # Nobody, lease'.holder # Nobody
             PROVE  pod'[lease'.holder].role = "leader"
  BY DEF HolderLeads
<1> DEFINE Goal == pod'[lease'.holder].role = "leader"
<1> USE DEF ElectionTypeOK
<1>1. spent.faults \in Nat /\ spent.crashes \in Nat
  BY ElectionAssumption
<1>2. ASSUME NEW p \in Pods, Get(p) PROVE Goal
  <2>1. UNCHANGED <<lease, spent>> /\ pod[p] \in Process
    BY <1>2 DEF Get
  <2>2. pod[lease.holder].role = "leader"
    BY <2>1 DEF HolderLeads
  <2>3. \A c : [pod[p] EXCEPT !.call = c].role = pod[p].role
    BY <2>1 DEF Process
  <2>4. lease.holder \in Pods
    BY <2>1 DEF Lease
  <2>5. CASE lease.holder = p
    <3>1. pod' = [pod EXCEPT ![p] = [@ EXCEPT !.call = "renew"]]
      BY <1>2, <2>1, <2>5, GetIs
    <3> QED
      BY <2>1, <2>2, <2>3, <2>5, <3>1
  <2>6. CASE lease.holder # p
    <3>1. pod'[lease.holder] = pod[lease.holder]
      BY <1>2, <2>4, <2>6 DEF Get
    <3> QED
      BY <2>1, <2>2, <3>1
  <2> QED
    BY <2>5, <2>6
<1>3. ASSUME NEW p \in Pods, WriteLease(p) PROVE Goal
  <2>1. spent' = spent
    BY <1>3 DEF WriteLease
  <2>2. CASE Written(p) /\ pod' = [pod EXCEPT ![p] = Won(@)]
    <3>1. pod'[p].role = "leader" /\ \A q \in Pods \ {p} : pod'[q] = pod[q]
      BY <2>2, WonIs
    <3>2. lease'.holder = p \/ (lease # Nobody /\ lease'.holder = lease.holder)
      <4>1. CASE pod[p].call = "renew" /\ Renew
        <5>1. lease # Nobody /\ lease.holder \in Pods \cup {Nobody}
          BY <4>1 DEF CallsFitLease, Lease
        <5>2. lease'.holder = IF owned THEN Nobody ELSE lease.holder
          BY <4>1, <5>1, HeldIs DEF Renew
        <5> QED
          BY <5>1, <5>2
      <4>2. CASE pod[p].call = "takeover" /\ Takeover(p)
        BY <4>2, HeldIs DEF Takeover
      <4>3. CASE pod[p].call = "create" /\ lease = Nobody /\ Create(p)
        BY <4>3, HeldIs DEF Create
      <4> QED
        BY <2>2, <4>1, <4>2, <4>3 DEF Written
    <3>3. CASE lease # Nobody /\ lease'.holder = lease.holder /\ lease'.holder # p
      <4>1. lease.holder \in Pods /\ pod[lease.holder].role = "leader"
        BY <2>1, <3>3 DEF HolderLeads, Lease
      <4> QED
        BY <3>1, <3>3, <4>1
    <3> QED
      BY <3>1, <3>2, <3>3
  <2>3. CASE Conflict(p) /\ pod' = [pod EXCEPT ![p] = Errored(@)] /\ lease' = lease
    <3>1. pod[p].role = "standby" /\ lease.holder \in Pods /\ pod[lease.holder].role = "leader"
      BY <2>1, <2>3 DEF Conflict, CallsFitLease, HolderLeads, Lease
    <3> QED
      BY <2>3, <3>1
  <2> QED
    BY <1>3, <2>2, <2>3 DEF WriteLease
<1>4. ASSUME NEW p \in Pods, CallFails(p) \/ Crash(p) PROVE FALSE
  BY <1>1, <1>4 DEF CallFails, Crash, Uses
<1>5. ASSUME NEW p \in Pods, SigTerm(p) PROVE Goal
  <2>1. lease' = lease /\ spent.crashes = 0 /\ spent.faults = 0
    BY <1>5 DEF SigTerm, Uses
  <2>2. lease.holder \in Pods /\ pod[lease.holder].role = "leader" /\ pod[p] \in Process
    BY <2>1 DEF HolderLeads, Lease
  <2>3. [pod[p] EXCEPT !.release = TRUE].role = pod[p].role
    BY <2>2 DEF Process
  <2>4. CASE lease.holder = p
    <3>1. pod' = [pod EXCEPT ![p] = [@ EXCEPT !.release = TRUE]]
      BY <1>5, <2>1, <2>4 DEF SigTerm
    <3> QED
      BY <2>1, <2>2, <2>3, <2>4, <3>1
  <2>5. CASE lease.holder # p
    <3>1. pod'[lease.holder] = pod[lease.holder]
      BY <1>5, <2>2, <2>5 DEF SigTerm
    <3> QED
      BY <2>1, <2>2, <3>1
  <2> QED
    BY <2>4, <2>5
<1>6. ASSUME NEW p \in Pods, release_lease(p) PROVE FALSE
  BY <1>6, HeldIs DEF release_lease
<1>7. ASSUME NEW p \in Pods, Restart(p) PROVE Goal
  BY <1>7 DEF Restart, HolderLeads, Lease
<1>8. CASE Tick
  <2>1. lease # Nobody /\ lease.holder = lease'.holder /\ spent' = spent
    <3> DEFINE a == IF lease.age < LeaseDuration THEN lease.age + 1 ELSE lease.age
    <3>1. lease \in Lease /\ lease' = [lease EXCEPT !.age = a] /\ spent' = spent
      BY <1>8 DEF Tick
    <3> HIDE DEF a
    <3> QED
      BY <3>1, NobodyIsNoLease DEF Lease
  <2>2. lease.holder \in Pods /\ pod[lease.holder].role = "leader" /\ pod[lease.holder] \in Process
    BY <2>1 DEF HolderLeads, Lease
  <2>3. pod'[lease.holder] = [pod[lease.holder] EXCEPT !.wait = @ - 1]
    BY <1>8, <2>2 DEF Tick
  <2> QED
    BY <2>1, <2>2, <2>3 DEF Process
<1>9. CASE UNCHANGED electionVars
  BY <1>9 DEF electionVars, HolderLeads
<1> QED
  BY <1>2, <1>3, <1>4, <1>5, <1>6, <1>7, <1>8, <1>9 DEF ElectionNext, Try

\* While leaders go only by SIGTERM, a standby is refused only as long as some
\* replica leads: no released or abandoned lease keeps the Gateway without a
\* controller for its full duration (main.rs's release_lease).
THEOREM Handover == ElectionSpec => PromptHandover
<1>1. ElectionInit => HolderLeads
  BY DEF ElectionInit, HolderLeads
<1>2. ElectionTypeOK /\ HolderLeads /\ [ElectionNext]_electionVars => [HandedOver]_electionVars
  <2> SUFFICES ASSUME ElectionTypeOK, HolderLeads, ElectionNext, NEW p \in Pods,
                      spent'.crashes = 0, spent'.faults = 0, Due(p), pod[p].role = "standby",
                      pod'[p] = Refused(pod[p])
               PROVE  Leaders # {}
    BY DEF HandedOver
  <2> USE DEF ElectionTypeOK
  <2>1. /\ pod[p] \in Process /\ pod[p].wait = 0 /\ pod[p].call = "none"
        /\ pod'[p].wait = 1 /\ pod'[p].role = "standby"
    BY MissedIs DEF Due, Refused
  <2>2. spent.faults \in Nat /\ spent.crashes \in Nat
    BY ElectionAssumption
  <2>3. ASSUME NEW q \in Pods, Get(q) PROVE Leaders # {}
    <3>1. q = p
      BY <2>1, <2>3 DEF Get
    <3>2. ASSUME NEW c, pod' = [pod EXCEPT ![p] = [@ EXCEPT !.call = c]] PROVE FALSE
      <4>1. pod'[p].wait = pod[p].wait
        BY <2>1, <3>2 DEF Process
      <4> QED
        BY <2>1, <4>1
    <3>3. lease # Nobody /\ ~lease_is_free(lease)
      BY <2>3, <3>1, <3>2, GetIs
    <3>4. lease.holder \in Pods
      BY <3>3 DEF Lease, lease_is_free
    <3>5. pod[lease.holder].role = "leader"
      BY <2>3, <3>3, <3>4, ElectionAssumption DEF HolderLeads, Get
    <3> QED
      BY <3>4, <3>5 DEF Leaders
  <2>4. ASSUME NEW q \in Pods, WriteLease(q) PROVE FALSE
    BY <2>1, <2>4 DEF WriteLease, Written, Conflict
  <2>5. ASSUME NEW q \in Pods, CallFails(q) \/ Crash(q) PROVE FALSE
    BY <2>2, <2>5 DEF CallFails, Crash, Uses
  <2>6. ASSUME NEW q \in Pods, SigTerm(q) PROVE FALSE
    BY <2>1, <2>6 DEF SigTerm
  <2>7. ASSUME NEW q \in Pods, release_lease(q) PROVE FALSE
    BY <2>1, <2>7 DEF release_lease, Down
  <2>8. ASSUME NEW q \in Pods, Restart(q) PROVE FALSE
    BY <2>1, <2>8 DEF Restart
  <2>9. CASE Tick
    BY <2>9 DEF Tick
  <2> QED
    BY <2>3, <2>4, <2>5, <2>6, <2>7, <2>8, <2>9 DEF ElectionNext, Try
<1> QED
  BY <1>1, <1>2, HolderLeadsOn, ElectionTypeCorrect, PTL DEF ElectionSpec, PromptHandover
=============================================================================
