----------------------- MODULE KeyDistributionProofs -----------------------
(* Every data plane that has nothing left to read uses the newest key        *)
(* snapshot, for any number of keys, data planes, admin requests, aborted    *)
(* publishes, broken streams and ledger restarts.                            *)
EXTENDS KeyDistribution, TLAPS

\* The key table's listing is a set of entries (keys::snapshot).
LEMMA ListedType == ASSUME NEW r \in [Keys -> Row] PROVE Listed(r) \in SUBSET Entry
BY DEF Listed, Row, Entry

\* What a request's term makes of the clock is an expiry (expires_in_secs).
LEMMA ExpiryType == ASSUME NEW term \in Terms, now \in 0 .. MaxNow PROVE Expiry(term) \in Nat
BY KeysAssumption DEF Expiry

\* The parts of a snapshot are typed whichever way it is put together.
LEMMA SnapshotType ==
  ASSUME NEW v \in Nat, NEW e \in SUBSET Entry, NEW j \in Nat
  PROVE  [version |-> v, entries |-> e, jwks |-> j] \in Snapshot
BY DEF Snapshot

\* So is the empty KeySet a data plane starts with.
LEMMA NoKeysType == NoKeys \in Snapshot
BY DEF Snapshot, NoKeys

\* TypeOK is inductive: every step of a handler, a sweep, the storage thread or
\* a watcher keeps the table, the snapshots and the streams within their domains.
THEOREM TypeCorrect == Spec => []TypeOK
<1>1. Init => TypeOK
  <2> SUFFICES ASSUME Init PROVE TypeOK
    OBVIOUS
  <2>1. rows \in [Keys -> Row]
    BY KeysAssumption DEF Init, Row
  <2>2. watch \in Snapshot
    BY DEF Init, Snapshot, NoKeys
  <2>3. conn \in [Nodes -> [up : BOOLEAN, first : BOOLEAN, unseen : BOOLEAN]]
    BY DEF Init, Down
  <2> QED
    BY <2>1, <2>2, <2>3, NoKeysType, KeysAssumption DEF Init, TypeOK, Idle
<1>2. TypeOK /\ [Next]_vars => TypeOK'
  <2> SUFFICES ASSUME TypeOK, [Next]_vars PROVE TypeOK'
    OBVIOUS
  <2> USE DEF TypeOK
  <2>1. ASSUME NEW t \in Handlers, NEW k \in Keys, NEW g \in Grants, NEW term \in Terms,
               Issue(t, k, g, term)
        PROVE  TypeOK'
    BY <2>1, ExpiryType DEF Issue, Uses, At, Row, Tasks
  <2>2. ASSUME NEW t \in Handlers, NEW k \in Keys, NEW g \in Grants,
               NEW e \in {rows[k].expires} \cup {Expiry(term) : term \in Terms},
               Update(t, k, g, e)
        PROVE  TypeOK'
    <3>1. e \in Nat
      BY ExpiryType DEF Row
    <3>2. rows' \in [Keys -> Row]
      <4> DEFINE row == [rows[k] EXCEPT !.grant = g, !.expires = e]
      <4>1. row \in Row
        <5>1. rows[k] \in Row
          OBVIOUS
        <5> QED
          BY <3>1, <5>1 DEF Row
      <4> QED
        BY <2>2, <4>1 DEF Update
    <3>3. task' \in [Tasks -> [pc : {"idle", "publish", "attach", "send"}, snap : Snapshot]]
      BY <2>2 DEF Update, At, Tasks
    <3>4. env' \in [changes : Nat, aborts : Nat, restarts : Nat, drops : Nat]
      BY <2>2 DEF Update, Uses
    <3> QED
      BY <2>2, <3>2, <3>3, <3>4 DEF Update
  <2>3. ASSUME NEW t \in Handlers, NEW k \in Keys, Revoke(t, k) PROVE TypeOK'
    BY <2>3 DEF Revoke, Uses, At, Row, Tasks
  <2>4. ASSUME NEW t \in Tasks, NextKeySnapshot(t) PROVE TypeOK'
    <3> DEFINE snap == [version |-> version + 1, entries |-> Listed(rows), jwks |-> 0]
    <3>1. snap \in Snapshot
      BY ListedType DEF Snapshot
    <3> QED
      BY <2>4, <3>1 DEF NextKeySnapshot
  <2>5. ASSUME NEW t \in Tasks, Attach(t) PROVE TypeOK'
    BY <2>5 DEF Attach, Snapshot
  <2>6. ASSUME NEW t \in Tasks, SendReplace(t) PROVE TypeOK'
    BY <2>6, NoKeysType DEF SendReplace, Idle, Told
  <2>7. ASSUME NEW t \in Handlers, Abandon(t) PROVE TypeOK'
    BY <2>7, NoKeysType DEF Abandon, Idle, Uses, Tasks
  <2>8. CASE Expire
    BY <2>8 DEF Expire, At, Row, Tasks
  <2>9. CASE Refresh
    BY <2>9 DEF Refresh, At, Tasks
  <2>10. CASE LedgerRestarts
    <3>1. [version |-> version, entries |-> Listed(rows), jwks |-> 0] \in Snapshot
      BY ListedType, SnapshotType
    <3> QED
      BY <2>10, <3>1, NoKeysType, SMTT(30) DEF LedgerRestarts, Idle, Down, Uses
  <2>11. CASE Tick
    BY <2>11, KeysAssumption DEF Tick
  <2>12. CASE IssuerRotates
    BY <2>12 DEF IssuerRotates, Uses
  <2>13. ASSUME NEW n \in Nodes, Connect(n) PROVE TypeOK'
    BY <2>13 DEF Connect
  <2>14. ASSUME NEW n \in Nodes, Yield(n) PROVE TypeOK'
    BY <2>14 DEF Yield
  <2>15. ASSUME NEW n \in Nodes, Receive(n) PROVE TypeOK'
    <3>1. msg[n] \in Snapshot
      BY <2>15 DEF Receive
    <3>2. CASE Applies(n)
      <4>1. set' = [set EXCEPT ![n] = msg[n]] /\ conn' = [conn EXCEPT ![n].first = FALSE]
        BY <2>15, <3>2 DEF Receive
      <4> QED
        BY <2>15, <3>1, <4>1 DEF Receive
    <3>3. CASE ~Applies(n)
      BY <2>15, <3>3 DEF Receive
    <3> QED
      BY <3>2, <3>3
  <2>16. ASSUME NEW n \in Nodes, StreamBreaks(n) PROVE TypeOK'
    BY <2>16 DEF StreamBreaks, Down, Uses
  <2>17. CASE UNCHANGED vars
    BY <2>17 DEF vars
  <2> QED
    BY <2>1, <2>2, <2>3, <2>4, <2>5, <2>6, <2>7, <2>8, <2>9, <2>10, <2>11, <2>12,
       <2>13, <2>14, <2>15, <2>16, <2>17 DEF Next, Publishing, Watching
<1> QED
  BY <1>1, <1>2, PTL DEF Spec

----------------------------------------------------------------------------
(* The newest snapshot is used *)

\* Task t has a numbered snapshot that it has not sent.
Holds(t) == task[t].pc \in {"attach", "send"}

\* Snapshot s was sent since the ledger last started: its number is not above
\* the ledger's and no other snapshot since then has it.
Sent(s) ==
  /\ s.version <= version
  /\ s.version = watch.version => s = watch
  /\ \A t \in Tasks : Holds(t) => task[t].snap.version # s.version

\* Numbers are given out once between two starts of the ledger.
HeldApart ==
  \A t \in Tasks : Holds(t) =>
    /\ task[t].snap.version <= version
    /\ \A u \in Tasks \ {t} : Holds(u) => task[t].snap.version # task[u].snap.version

\* What a stream carries, and what a data plane took from it, was sent since
\* the ledger last started.  A snapshot of an earlier start is in use only
\* until the stream's first message is applied.
StreamsCarrySent ==
  /\ Sent(watch)
  /\ \A n \in Nodes :
       /\ msg[n] # None => conn[n].up /\ Sent(msg[n])
       /\ conn[n].up /\ ~conn[n].first => Sent(set[n])

\* The newest snapshot is unread, on its way or in use.
NewestOnItsWay ==
  watch.version = version =>
    \A n \in Nodes : conn[n].up =>
      \/ conn[n].unseen
      \/ msg[n] = watch
      \/ msg[n] = None /\ ~conn[n].first /\ set[n] = watch

Inv == HeldApart /\ StreamsCarrySent /\ NewestOnItsWay

\* A step that gives out no number, sends nothing and moves no message keeps
\* the invariant: changes of the table, Attach, an abandoned publish, the clock.
LEMMA Quiet ==
  ASSUME TypeOK, Inv, UNCHANGED <<version, watch, conn, msg, set>>,
         \A t \in Tasks : Holds(t)' => Holds(t) /\ task'[t].snap.version = task[t].snap.version
  PROVE  Inv'
<1>1. HeldApart'
  BY DEF Inv, HeldApart
<1>2. StreamsCarrySent'
  BY DEF Inv, StreamsCarrySent, Sent
<1>3. NewestOnItsWay'
  BY DEF Inv, NewestOnItsWay
<1> QED
  BY <1>1, <1>2, <1>3 DEF Inv

\* A snapshot just numbered has a number above every other one's.
LEMMA Numbering == ASSUME TypeOK, Inv, NEW t \in Tasks, NextKeySnapshot(t) PROVE Inv'
<1> USE DEF TypeOK
<1>1. version' = version + 1 /\ UNCHANGED <<watch, conn, msg, set>>
  BY DEF NextKeySnapshot
<1>2. Holds(t)' /\ task'[t].snap.version = version + 1
  BY DEF NextKeySnapshot, Holds
<1>3. \A u \in Tasks \ {t} : task'[u] = task[u] /\ Holds(u)' = Holds(u)
  BY DEF NextKeySnapshot, Holds
<1>4. HeldApart'
  BY <1>1, <1>2, <1>3 DEF Inv, HeldApart, Snapshot
<1>5. StreamsCarrySent'
  <2>1. ASSUME NEW s \in Snapshot, Sent(s)
        PROVE  /\ s.version <= version'
               /\ s.version = watch'.version => s = watch'
               /\ \A u \in Tasks : Holds(u)' => task'[u].snap.version # s.version
    BY <1>1, <1>2, <1>3, <2>1 DEF Sent, Snapshot
  <2> QED
    BY <1>1, <2>1 DEF Inv, StreamsCarrySent, Sent
<1>6. NewestOnItsWay'
  BY <1>1 DEF Inv, StreamsCarrySent, Sent, NewestOnItsWay, Snapshot
<1> QED
  BY <1>4, <1>5, <1>6 DEF Inv

\* The snapshot sent is the only one with its number, and every stream that is
\* up has yet to read it.
LEMMA Sending == ASSUME TypeOK, Inv, NEW t \in Tasks, SendReplace(t) PROVE Inv'
<1> USE DEF TypeOK
<1>1. watch' = task[t].snap /\ UNCHANGED <<version, msg, set>> /\ Holds(t)
  BY DEF SendReplace, Holds
<1>2. ~Holds(t)' /\ \A u \in Tasks \ {t} : task'[u] = task[u] /\ Holds(u)' = Holds(u)
  BY DEF SendReplace, Holds, Idle
<1>3. \A n \in Nodes : /\ conn'[n].up = conn[n].up /\ conn'[n].first = conn[n].first
                       /\ conn'[n].unseen = conn[n].up
  BY DEF SendReplace, Told
<1>4. HeldApart'
  BY <1>1, <1>2 DEF Inv, HeldApart
<1>5. StreamsCarrySent'
  <2>1. Sent(watch)'
    BY <1>1, <1>2 DEF Inv, HeldApart, Sent
  <2>2. ASSUME NEW s, Sent(s)
        PROVE  /\ s.version <= version'
               /\ s.version = watch'.version => s = watch'
               /\ \A u \in Tasks : Holds(u)' => task'[u].snap.version # s.version
    BY <1>1, <1>2, <2>2 DEF Sent
  <2>3. ASSUME NEW n \in Nodes
        PROVE  /\ (msg[n] # None => conn[n].up /\ Sent(msg[n]))'
               /\ (conn[n].up /\ ~conn[n].first => Sent(set[n]))'
    <3>1. /\ msg[n] # None => conn[n].up /\ Sent(msg[n])
          /\ conn[n].up /\ ~conn[n].first => Sent(set[n])
      BY DEF Inv, StreamsCarrySent
    <3>2. conn'[n].up = conn[n].up /\ conn'[n].first = conn[n].first
      BY <1>3
    <3> QED
      BY <1>1, <2>2, <3>1, <3>2 DEF Sent
  <2> QED
    BY <2>1, <2>3 DEF StreamsCarrySent
<1>6. NewestOnItsWay'
  BY <1>3 DEF NewestOnItsWay
<1> QED
  BY <1>4, <1>5, <1>6 DEF Inv

\* A message is applied, or the data plane already uses the snapshot with its
\* number or a later one of this start: Applies skips nothing that is needed.
LEMMA Receiving == ASSUME TypeOK, Inv, NEW n \in Nodes, Receive(n) PROVE Inv'
<1> USE DEF TypeOK
<1>1. /\ UNCHANGED <<version, watch, task>> /\ msg[n] # None /\ msg[n] \in Snapshot
      /\ conn[n].up /\ Sent(msg[n])
  BY DEF Receive, Inv, StreamsCarrySent
<1>2. msg'[n] = None /\ \A m \in Nodes \ {n} : msg'[m] = msg[m] /\ set'[m] = set[m] /\ conn'[m] = conn[m]
  BY DEF Receive
<1>3. /\ conn'[n].up /\ ~conn'[n].first /\ conn'[n].unseen = conn[n].unseen
      /\ \/ set'[n] = msg[n]
         \/ set'[n] = set[n] /\ Sent(set[n]) /\ msg[n].version <= set[n].version
  <2>1. CASE Applies(n)
    BY <1>1, <2>1 DEF Receive
  <2>2. CASE ~Applies(n)
    <3>1. set' = set /\ conn' = conn /\ ~conn[n].first
      BY <2>2 DEF Receive, Applies
    <3>2. Sent(set[n])
      BY <1>1, <3>1 DEF Inv, StreamsCarrySent
    <3> QED
      BY <1>1, <2>2, <3>1, <3>2 DEF Applies, Snapshot
  <2> QED
    BY <2>1, <2>2
<1>4. HeldApart'
  BY <1>1 DEF Inv, HeldApart, Holds
<1>5. StreamsCarrySent'
  <2>1. ASSUME NEW s, Sent(s)
        PROVE  /\ s.version <= version'
               /\ s.version = watch'.version => s = watch'
               /\ \A u \in Tasks : Holds(u)' => task'[u].snap.version # s.version
    BY <1>1, <2>1 DEF Sent, Holds
  <2>2. Sent(watch)'
    BY <1>1, <2>1 DEF Inv, StreamsCarrySent, Sent
  <2>3. ASSUME NEW m \in Nodes \ {n}
        PROVE  /\ (msg[m] # None => conn[m].up /\ Sent(msg[m]))'
               /\ (conn[m].up /\ ~conn[m].first => Sent(set[m]))'
    BY <1>2, <2>1 DEF Inv, StreamsCarrySent, Sent
  <2>4. Sent(set[n])'
    BY <1>1, <1>3, <2>1 DEF Sent
  <2> QED
    BY <1>2, <2>2, <2>3, <2>4 DEF StreamsCarrySent
<1>6. NewestOnItsWay'
  <2> SUFFICES ASSUME watch.version = version, ~conn[n].unseen PROVE set'[n] = watch
    BY <1>1, <1>2, <1>3 DEF Inv, NewestOnItsWay
  <2>1. msg[n] = watch
    BY <1>1 DEF Inv, NewestOnItsWay
  <2>2. CASE set'[n] = set[n] /\ Sent(set[n]) /\ msg[n].version <= set[n].version
    <3>1. set[n].version \in Nat /\ watch.version \in Nat
      BY DEF Snapshot
    <3>2. set[n].version = watch.version
      <4>1. watch.version <= set[n].version /\ set[n].version <= watch.version
        BY <2>1, <2>2 DEF Sent
      <4>2. \A a, b \in Nat : a <= b /\ b <= a => a = b
        OBVIOUS
      <4> QED
        BY <3>1, <4>1, <4>2, Zenon
    <3> QED
      BY <2>2, <3>2 DEF Sent
  <2> QED
    BY <1>3, <2>1, <2>2
<1> QED
  BY <1>4, <1>5, <1>6 DEF Inv

\* A stream that opens, breaks or takes the watched snapshot along.
LEMMA Streaming ==
  ASSUME TypeOK, Inv, NEW n \in Nodes, Connect(n) \/ Yield(n) \/ StreamBreaks(n)
  PROVE  Inv'
<1> USE DEF TypeOK
<1>1. UNCHANGED <<version, watch, task, set>>
  BY DEF Connect, Yield, StreamBreaks
<1>2. \A m \in Nodes \ {n} : msg'[m] = msg[m] /\ conn'[m] = conn[m]
  BY DEF Connect, Yield, StreamBreaks
<1>3. /\ msg'[n] # None => conn'[n].up /\ (msg'[n] = watch \/ msg'[n] = msg[n])
      /\ conn'[n].up /\ ~conn'[n].first => conn[n].up /\ ~conn[n].first
      /\ conn'[n].up => conn'[n].unseen \/ msg'[n] = watch
  BY DEF Connect, Yield, StreamBreaks, Down, Inv, StreamsCarrySent
<1>4. HeldApart'
  BY <1>1 DEF Inv, HeldApart, Holds
<1>5. StreamsCarrySent'
  <2>1. ASSUME NEW s, Sent(s)
        PROVE  /\ s.version <= version'
               /\ s.version = watch'.version => s = watch'
               /\ \A u \in Tasks : Holds(u)' => task'[u].snap.version # s.version
    BY <1>1, <2>1 DEF Sent, Holds
  <2>2. Sent(watch)'
    BY <1>1, <2>1 DEF Inv, StreamsCarrySent, Sent
  <2>3. ASSUME NEW m \in Nodes \ {n}
        PROVE  /\ (msg[m] # None => conn[m].up /\ Sent(msg[m]))'
               /\ (conn[m].up /\ ~conn[m].first => Sent(set[m]))'
    <3>1. /\ msg[m] # None => conn[m].up /\ Sent(msg[m])
          /\ conn[m].up /\ ~conn[m].first => Sent(set[m])
      BY DEF Inv, StreamsCarrySent
    <3>2. msg'[m] = msg[m] /\ conn'[m] = conn[m] /\ set'[m] = set[m]
      BY <1>1, <1>2
    <3>3. ASSUME msg'[m] # None PROVE conn'[m].up /\ Sent(msg[m])'
      <4>1. Sent(msg[m])'
        <5>1. Sent(msg[m])
          BY <3>1, <3>2, <3>3
        <5> QED
          BY <1>1, <2>1, <3>2, <5>1 DEF Sent, Holds
      <4> QED
        BY <3>1, <3>2, <3>3, <4>1
    <3>4. ASSUME conn'[m].up, ~conn'[m].first PROVE Sent(set[m])'
      <4>1. Sent(set[m])
        BY <3>1, <3>2, <3>4
      <4> QED
        BY <1>1, <2>1, <3>2, <4>1 DEF Sent, Holds
    <3> QED
      BY <3>3, <3>4
  <2>4. /\ (msg[n] # None => conn[n].up /\ Sent(msg[n]))'
        /\ (conn[n].up /\ ~conn[n].first => Sent(set[n]))'
    <3>1. ASSUME msg'[n] # None PROVE conn'[n].up /\ Sent(msg[n])'
      <4>1. CASE msg'[n] = watch
        BY <1>1, <1>3, <2>2, <3>1, <4>1 DEF Sent
      <4>2. CASE msg'[n] = msg[n]
        <5>1. Sent(msg[n])
          BY <3>1, <4>2 DEF Inv, StreamsCarrySent
        <5> QED
          BY <1>3, <2>1, <3>1, <4>2, <5>1 DEF Sent
      <4> QED
        BY <1>3, <3>1, <4>1, <4>2
    <3>2. ASSUME conn'[n].up, ~conn'[n].first PROVE Sent(set[n])'
      <4>1. Sent(set[n])
        BY <1>3, <3>2 DEF Inv, StreamsCarrySent
      <4> QED
        BY <1>1, <2>1, <4>1 DEF Sent
    <3> QED
      BY <3>1, <3>2
  <2> QED
    BY <2>2, <2>3, <2>4 DEF StreamsCarrySent
<1>6. NewestOnItsWay'
  BY <1>1, <1>2, <1>3 DEF Inv, NewestOnItsWay
<1> QED
  BY <1>4, <1>5, <1>6 DEF Inv

\* Every step keeps Inv.
LEMMA Inductive == TypeOK /\ Inv /\ [Next]_vars => Inv'
<1> SUFFICES ASSUME TypeOK, Inv, [Next]_vars PROVE Inv'
  OBVIOUS
<1> USE DEF TypeOK
<1>1. ASSUME NEW t \in Handlers, NEW k \in Keys, NEW g \in Grants, NEW term \in Terms,
             Issue(t, k, g, term)
      PROVE  Inv'
  BY <1>1, Quiet DEF Issue, At, Holds, Tasks
<1>2. ASSUME NEW t \in Handlers, NEW k \in Keys, NEW g \in Grants, NEW e, Update(t, k, g, e)
      PROVE  Inv'
  BY <1>2, Quiet DEF Update, At, Holds, Tasks
<1>3. ASSUME NEW t \in Handlers, NEW k \in Keys, Revoke(t, k) PROVE Inv'
  BY <1>3, Quiet DEF Revoke, At, Holds, Tasks
<1>4. ASSUME NEW t \in Tasks, Attach(t) PROVE Inv'
  <2>1. \A u \in Tasks : Holds(u)' => Holds(u) /\ task'[u].snap.version = task[u].snap.version
    BY <1>4 DEF Attach, Holds, Snapshot
  <2> QED
    BY <1>4, <2>1, Quiet DEF Attach
<1>5. ASSUME NEW t \in Handlers, Abandon(t) PROVE Inv'
  BY <1>5, Quiet DEF Abandon, Holds, Idle, Tasks
<1>6. CASE Expire
  BY <1>6, Quiet DEF Expire, At, Holds, Tasks
<1>7. CASE Refresh
  BY <1>7, Quiet DEF Refresh, At, Holds, Tasks
<1>8. CASE LedgerRestarts
  BY <1>8 DEF LedgerRestarts, Idle, Down, Holds, Inv, HeldApart, StreamsCarrySent,
              NewestOnItsWay, Sent
<1>9. CASE Tick \/ IssuerRotates
  BY <1>9, Quiet DEF Tick, IssuerRotates, Holds
<1>10. CASE UNCHANGED vars
  BY <1>10, Quiet DEF vars, Holds
<1> QED
  BY <1>1, <1>2, <1>3, <1>4, <1>5, <1>6, <1>7, <1>8, <1>9, <1>10, Numbering, Sending,
     Receiving, Streaming DEF Next, Publishing, Watching

\* Whoever has nothing left to read uses the newest snapshot, whatever the
\* order in which concurrent publishes send theirs, and across restarts of the
\* ledger that start over under the same number (publish_keys, watch_keys).
\* NewestIsUsed alone is not inductive: it needs that a number is given out
\* once between two starts and that, after a stream's first message, a data
\* plane holds nothing of an earlier start, or the version filter could skip
\* the newest snapshot.
THEOREM NewestUsed == Spec => []SnapshotsSound
<1>1. Init => Inv
  <2> SUFFICES ASSUME Init PROVE Inv
    OBVIOUS
  <2>1. watch.version = 1
    BY DEF Init, NoKeys
  <2>2. \A t \in Tasks : ~Holds(t)
    BY DEF Init, Idle, Holds
  <2>3. \A n \in Nodes : ~conn[n].up /\ msg[n] = None
    BY DEF Init, Down
  <2> QED
    BY <2>1, <2>2, <2>3 DEF Init, Inv, HeldApart, StreamsCarrySent, NewestOnItsWay, Sent
<1>2. TypeOK /\ Inv => SnapshotsSound
  <2> SUFFICES ASSUME TypeOK, Inv, watch.version = version, NEW n \in Nodes, Settled(n)
               PROVE  set[n] = watch
    BY DEF SnapshotsSound, NewestIsUsed
  <2> QED
    BY NoneIsNoSnapshot DEF TypeOK, Inv, NewestOnItsWay, Settled
<1> QED
  BY <1>1, <1>2, Inductive, TypeCorrect, PTL DEF Spec
=============================================================================
