-------------------------- MODULE KeyDistribution --------------------------
(* API keys from the ledger's admin API to the data planes: the handlers,    *)
(* sweeps and storage thread of portus-ledger (main.rs, keys.rs, store.rs)   *)
(* and the watcher of the data plane (portus-dataplane-core/src/ai/ledger.rs *)
(* and ai/keys.rs).                                                          *)
(*                                                                           *)
(* Every change of the key table is followed by publish_keys: the storage    *)
(* thread numbers and builds a snapshot, the task that asked attaches the    *)
(* issuers' keys and replaces the watched value.  Tasks run concurrently, so *)
(* between those steps another task may take all of its own.                 *)
EXTENDS Integers, FiniteSets

CONSTANTS
  Keys,          \* key ids (and hashes)
  Grants,        \* what an allow list may say
  Terms,         \* expires_in_secs a request may ask for, 0: never
  Nodes,         \* data planes
  Handlers,      \* admin requests that may be under way at once
  Sweeps,        \* background tasks: a subset of {"expirer", "refresher"}
  None,
  MaxNow, MaxChanges, MaxAborts, MaxRestarts, MaxDrops   \* bounds

ASSUME KeysAssumption ==
  /\ Sweeps \subseteq {"expirer", "refresher"} /\ Handlers \cap Sweeps = {}
  /\ Terms \subseteq Nat /\ Grants # {}
  /\ {MaxNow, MaxChanges, MaxAborts, MaxRestarts, MaxDrops} \subseteq Nat

VARIABLES
  now,       \* the clock, in the unit of expiry
  rows,      \* rows[k]: the api_keys table
  version,   \* meta.key_version
  issuer,    \* what the OAuth issuers serve
  jwks,      \* Shared.jwks: what was last fetched
  watch,     \* Shared.keys: the snapshot data planes watch
  task,      \* task[t]: where a handler or a sweep is, and the snapshot it holds
  conn,      \* conn[n]: the data plane's stream and its first-message flag
  msg,       \* msg[n]: the snapshot on its way to n
  set,       \* set[n]: the KeySet the data plane uses
  env        \* how much of each bound is used

vars == <<now, rows, version, issuer, jwks, watch, task, conn, msg, set, env>>

Tasks == Handlers \cup Sweeps
Entry == [key : Keys, grant : Grants, expires : Nat]
Snapshot == [version : Nat, entries : SUBSET Entry, jwks : Nat]
NoKeys == [version |-> 0, entries |-> {}, jwks |-> 0]
Row == [state : {"absent", "live", "revoked"}, grant : Grants, expires : Nat]
Idle == [pc |-> "idle", snap |-> NoKeys]

ASSUME NoneIsNoSnapshot == None \notin Snapshot

TypeOK ==
  /\ now \in 0 .. MaxNow
  /\ rows \in [Keys -> Row]
  /\ version \in Nat /\ issuer \in Nat /\ jwks \in Nat
  /\ watch \in Snapshot
  /\ task \in [Tasks -> [pc : {"idle", "publish", "attach", "send"}, snap : Snapshot]]
  /\ conn \in [Nodes -> [up : BOOLEAN, first : BOOLEAN, unseen : BOOLEAN]]
  /\ msg \in [Nodes -> Snapshot \cup {None}]
  /\ set \in [Nodes -> Snapshot]
  /\ env \in [changes : Nat, aborts : Nat, restarts : Nat, drops : Nat]

\* keys::snapshot: live and not past their expiry.
Due(e) == e.expires # 0 /\ e.expires <= now

\* Mutant: revoked keys are listed, too.
ListedRevoked(r) == {[key |-> k, grant |-> r[k].grant, expires |-> r[k].expires] :
                k \in {i \in Keys : r[i].state # "absent" /\ ~Due(r[i])}}

Listed(r) == {[key |-> k, grant |-> r[k].grant, expires |-> r[k].expires] :
                k \in {i \in Keys : r[i].state = "live" /\ ~Due(r[i])}}

Down == [up |-> FALSE, first |-> FALSE, unseen |-> FALSE]

Init ==
  /\ now = 0
  /\ rows \in [Keys -> [state : {"absent"}, grant : {CHOOSE g \in Grants : TRUE}, expires : {0}]]
  /\ version = 1
  /\ issuer = 0 /\ jwks = 0
  /\ watch = [NoKeys EXCEPT !.version = 1]
  /\ task = [t \in Tasks |-> Idle]
  /\ conn = [n \in Nodes |-> Down]
  /\ msg = [n \in Nodes |-> None]
  /\ set = [n \in Nodes |-> NoKeys]
  /\ env = [changes |-> 0, aborts |-> 0, restarts |-> 0, drops |-> 0]

At(t, pc) == task' = [task EXCEPT ![t].pc = pc]
Uses(what, bound) == env[what] < bound /\ env' = [env EXCEPT ![what] = @ + 1]
Expiry(term) == IF term = 0 THEN 0 ELSE now + term

----------------------------------------------------------------------------
(* Changes, each one operation of the storage thread *)

Issue(t, k, g, term) ==
  /\ task[t].pc = "idle" /\ rows[k].state = "absent"
  /\ Uses("changes", MaxChanges)
  /\ rows' = [rows EXCEPT ![k] = [state |-> "live", grant |-> g, expires |-> Expiry(term)]]
  /\ At(t, "publish")
  /\ UNCHANGED <<now, version, issuer, jwks, watch, conn, msg, set>>

\* A patch changes the allow list, the expiry (of a key the sweep has not
\* revoked yet, too) or both.
Update(t, k, g, expires) ==
  /\ task[t].pc = "idle" /\ rows[k].state = "live"
  /\ Uses("changes", MaxChanges)
  /\ rows' = [rows EXCEPT ![k] = [@ EXCEPT !.grant = g, !.expires = expires]]
  /\ At(t, "publish")
  /\ UNCHANGED <<now, version, issuer, jwks, watch, conn, msg, set>>

\* A revoke that finds no live key answers 404 and publishes nothing.
Revoke(t, k) ==
  /\ task[t].pc = "idle" /\ rows[k].state = "live"
  /\ Uses("changes", MaxChanges)
  /\ rows' = [rows EXCEPT ![k].state = "revoked"]
  /\ At(t, "publish")
  /\ UNCHANGED <<now, version, issuer, jwks, watch, conn, msg, set>>

\* The expirer's tick.
Expire == LET due == {k \in Keys : rows[k].state = "live" /\ Due(rows[k])} IN
  /\ "expirer" \in Sweeps /\ task["expirer"].pc = "idle" /\ due # {}
  /\ rows' = [k \in Keys |-> IF k \in due THEN [rows[k] EXCEPT !.state = "revoked"] ELSE rows[k]]
  /\ At("expirer", "publish")
  /\ UNCHANGED <<now, version, issuer, jwks, watch, conn, msg, set, env>>

\* The refresher's tick.
Refresh ==
  /\ "refresher" \in Sweeps /\ task["refresher"].pc = "idle" /\ jwks # issuer
  /\ jwks' = issuer
  /\ At("refresher", "publish")
  /\ UNCHANGED <<now, rows, version, issuer, watch, conn, msg, set, env>>

----------------------------------------------------------------------------
(* publish_keys *)

\* Op::NextKeySnapshot, one operation of the storage thread.
NextKeySnapshot(t) ==
  /\ task[t].pc = "publish"
  /\ version' = version + 1
  /\ task' = [task EXCEPT ![t] = [pc |-> "attach", snap |-> [version |-> version + 1, entries |-> Listed(rows), jwks |-> 0]]]
  /\ UNCHANGED <<now, rows, issuer, jwks, watch, conn, msg, set, env>>

Attach(t) ==
  /\ task[t].pc = "attach"
  /\ task' = [task EXCEPT ![t] = [pc |-> "send", snap |-> [@.snap EXCEPT !.jwks = jwks]]]
  /\ UNCHANGED <<now, rows, version, issuer, jwks, watch, conn, msg, set, env>>

Told(c) == [c EXCEPT !.unseen = c.up]

\* send_replace
SendReplace(t) ==
  /\ task[t].pc = "send"
  /\ watch' = task[t].snap
  /\ conn' = [n \in Nodes |-> Told(conn[n])]
  /\ task' = [task EXCEPT ![t] = Idle]
  /\ UNCHANGED <<now, rows, version, issuer, jwks, msg, set, env>>

\* The admin client goes away, or storage fails, before publish_keys is
\* through its await: the change stays, the snapshot is not sent.
Abandon(t) ==
  /\ task[t].pc \in {"publish", "attach"} /\ Uses("aborts", MaxAborts)
  /\ task' = [task EXCEPT ![t] = Idle]
  /\ UNCHANGED <<now, rows, version, issuer, jwks, watch, conn, msg, set>>

\* The table and the version survive; everything else starts over from them.
LedgerRestarts ==
  /\ Uses("restarts", MaxRestarts)
  /\ task' = [t \in Tasks |-> Idle]
  /\ jwks' = 0
  /\ watch' = [version |-> version, entries |-> Listed(rows), jwks |-> 0]
  /\ conn' = [n \in Nodes |-> Down]
  /\ msg' = [n \in Nodes |-> None]
  /\ UNCHANGED <<now, rows, version, issuer, set>>

----------------------------------------------------------------------------
(* The data plane's watcher *)

\* A WatchStream yields the current value first, then every change.
Connect(n) ==
  /\ ~conn[n].up
  /\ conn' = [conn EXCEPT ![n] = [up |-> TRUE, first |-> TRUE, unseen |-> TRUE]]
  /\ UNCHANGED <<now, rows, version, issuer, jwks, watch, task, msg, set, env>>

Yield(n) ==
  /\ conn[n].up /\ conn[n].unseen /\ msg[n] = None
  /\ msg' = [msg EXCEPT ![n] = watch]
  /\ conn' = [conn EXCEPT ![n].unseen = FALSE]
  /\ UNCHANGED <<now, rows, version, issuer, jwks, watch, task, set, env>>

\* Mutant: a stream's first message has to move forward, too.
NewerOnly(n) == msg[n].version > set[n].version \/ set[n].entries = {}

\* Which snapshots the watcher applies.
Applies(n) == conn[n].first \/ msg[n].version > set[n].version \/ set[n].entries = {}

\* Mutant: the end of the stream is taken for a snapshot.
ReceiveEnd(n) ==
  /\ msg' = [msg EXCEPT ![n] = None]
  /\ set' = [set EXCEPT ![n] = msg[n]]
  /\ UNCHANGED <<now, rows, version, issuer, jwks, watch, task, conn, env>>

Receive(n) ==
  /\ msg[n] # None
  /\ IF Applies(n)
     THEN set' = [set EXCEPT ![n] = msg[n]] /\ conn' = [conn EXCEPT ![n].first = FALSE]
     ELSE UNCHANGED <<set, conn>>
  /\ msg' = [msg EXCEPT ![n] = None]
  /\ UNCHANGED <<now, rows, version, issuer, jwks, watch, task, env>>

StreamBreaks(n) ==
  /\ conn[n].up /\ Uses("drops", MaxDrops)
  /\ conn' = [conn EXCEPT ![n] = Down]
  /\ msg' = [msg EXCEPT ![n] = None]
  /\ UNCHANGED <<now, rows, version, issuer, jwks, watch, task, set>>

----------------------------------------------------------------------------
Tick ==
  /\ now < MaxNow
  /\ now' = now + 1
  /\ UNCHANGED <<rows, version, issuer, jwks, watch, task, conn, msg, set, env>>

IssuerRotates ==
  /\ "refresher" \in Sweeps /\ Uses("changes", MaxChanges)
  /\ issuer' = issuer + 1
  /\ UNCHANGED <<now, rows, version, jwks, watch, task, conn, msg, set>>

Publishing(t) == NextKeySnapshot(t) \/ Attach(t) \/ SendReplace(t)
Watching(n) == Connect(n) \/ Yield(n) \/ Receive(n)

Next ==
  \/ \E t \in Handlers, k \in Keys :
       \/ \E g \in Grants : \/ \E term \in Terms : Issue(t, k, g, term)
                            \/ \E e \in {rows[k].expires} \cup {Expiry(term) : term \in Terms} : Update(t, k, g, e)
       \/ Revoke(t, k)
  \/ \E t \in Tasks : Publishing(t)
  \/ \E t \in Handlers : Abandon(t)
  \/ Expire \/ Refresh \/ LedgerRestarts \/ Tick \/ IssuerRotates
  \/ \E n \in Nodes : Watching(n) \/ StreamBreaks(n)

\* Tasks that were started run on, and watchers reconnect after their backoff.
Fairness ==
  /\ \A t \in Tasks : WF_vars(Publishing(t))
  /\ \A n \in Nodes : WF_vars(Watching(n))
  /\ WF_vars(Expire) /\ WF_vars(Refresh)

Spec == Init /\ [][Next]_vars /\ Fairness

----------------------------------------------------------------------------
(* Properties *)

\* Nothing is on its way to data plane n.
Settled(n) == conn[n].up /\ ~conn[n].unseen /\ msg[n] = None

\* Whenever the newest snapshot is the one watched, every data plane that has
\* nothing left to read uses exactly it: neither the version filter nor a
\* restart under the same number leaves anyone behind.
NewestIsUsed ==
  watch.version = version => \A n \in Nodes : Settled(n) => set[n] = watch

\* The keys data plane n lets in: those of its snapshot not past their expiry.
Accepted(n) == {e.key : e \in {x \in set[n].entries : ~Due(x)}}

\* A revoked key is dropped by every data plane, for good.
RevocationReaches ==
  \A k \in Keys, n \in Nodes : rows[k].state = "revoked" ~> [](k \notin Accepted(n))

\* It is, through broken streams and restarts, as long as no publish is
\* abandoned and the snapshot with the highest number ends up as the watched one.
LastSnapshotReaches == <>[](watch.version = version /\ env.aborts = 0) => RevocationReaches

\* What data planes and the ledger hold is well formed, and whoever has nothing
\* left to read uses the newest snapshot (watch_keys, publish_keys).
SnapshotsSound == TypeOK /\ NewestIsUsed
=============================================================================
