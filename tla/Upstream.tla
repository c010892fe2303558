------------------------------ MODULE Upstream ------------------------------
(* The upstream client of the data plane (rama/client.rs): connections to    *)
(* backends, the idle HTTP/1 ones kept for reuse and the HTTP/2 set of each  *)
(* target.                                                                   *)
(*                                                                           *)
(* A shard is the idle connections of one target, and which of two was       *)
(* returned first is kept beside them (Idle's since).  A shard's operations  *)
(* run under its lock; idle_total is a counter beside the locks, and what    *)
(* evict_idle_older_than removed is subtracted from it after the last lock   *)
(* is released.  That a connection has ended is seen with a delay: "ending"  *)
(* is an ended connection that still looks open.  A connection is dropped    *)
(* with the last reference to it.                                            *)
EXTENDS Integers, FiniteSets

CONSTANTS
  Hosts,                     \* backend addresses
  Policies,                  \* BackendTLSPolicies and client identities, with none
  Conns,                     \* connections alive at a time
  MaxIdleTotal, MaxIdlePerTarget, H2PerTarget

ASSUME UpstreamAssumption ==
  /\ IsFiniteSet(Conns)
  /\ {MaxIdleTotal, MaxIdlePerTarget, H2PerTarget} \subseteq Nat \ {0}

VARIABLES
  conns,       \* conns[c]: a connection and what it was verified under
  idle,        \* Pool.shards: the idle connections
  expired,     \* those idle for IDLE_TIMEOUT
  older,       \* older: <<d, c>> when d was returned before c
  idle_total,
  h2,          \* h2[t]: the HTTP/2 set of a target
  evicting     \* entries the sweeper removed and has not subtracted yet

poolVars == <<idle, expired, older>>
upstreamVars == <<conns, poolVars, idle_total, h2, evicting>>

\* Mutant: the target names the address alone.
NoKey(policy) == "plain"

\* The key of upstream_request: what identifies a policy here is its CA; the
\* name the certificate must carry is not part of it.
tls_key(policy) == policy.ca

Keys == {tls_key(p) : p \in Policies}

\* UpstreamTarget
Targets == [addr : Hosts, tls_key : Keys, h2 : BOOLEAN]
Target(addr, policy, multiplexed) == [addr |-> addr, tls_key |-> tls_key(policy), h2 |-> multiplexed]

ConnStates == {"open", "ending", "closed"}
NoConn == [state |-> "closed", target |-> CHOOSE t \in Targets : TRUE, policy |-> CHOOSE p \in Policies : TRUE]

UpstreamTypeOK ==
  /\ conns \in [Conns -> [state : ConnStates, target : Targets, policy : Policies]]
  /\ idle \subseteq Conns /\ expired \subseteq idle /\ older \subseteq idle \X idle
  /\ idle_total \in Nat
  /\ h2 \in [Targets -> SUBSET Conns]
  /\ evicting \in Nat

UpstreamInit ==
  /\ conns = [c \in Conns |-> NoConn]
  /\ idle = {} /\ expired = {} /\ older = {}
  /\ idle_total = 0
  /\ h2 = [t \in Targets |-> {}]
  /\ evicting = 0

\* Conn::broken
broken(c) == conns[c].state = "closed"

\* The idle connections of a target, and those that can be handed out.
Shard(t) == {c \in idle : conns[c].target = t}
Usable(t) == {c \in Shard(t) : c \notin expired /\ ~broken(c)}

\* What lies before c among S.
Ahead(c, S) == {d \in S : <<d, c>> \in older}

\* The shards without some of their connections.
Without(gone) ==
  /\ idle' = idle \ gone
  /\ expired' = expired \ gone
  /\ older' = {e \in older : e[1] \notin gone /\ e[2] \notin gone}

----------------------------------------------------------------------------
(* Pool *)

\* What take may hand out: the first usable connection of the shard, or none.
Handed(t) == IF Usable(t) = {} THEN {{}} ELSE {{c} : c \in {d \in Usable(t) : Ahead(d, Usable(t)) = {}}}

\* It takes connections off the front of the shard until it has one.
TakenOff(t, conn) == IF conn = {} THEN Shard(t) ELSE conn \cup (UNION {Ahead(c, Shard(t)) : c \in conn})

\* Mutant: only the connection that is handed out is subtracted.
SubtractedOnce(t, conn) == Cardinality(conn)

Subtracted(t, conn) == Cardinality(TakenOff(t, conn))

\* Mutant: the connection stays where it is.
Borrow(t, conn) == UNCHANGED <<poolVars, idle_total, h2, evicting>>

take(t, conn) ==
  /\ Without(TakenOff(t, conn))
  /\ idle_total' = idle_total - Subtracted(t, conn)
  /\ UNCHANGED <<h2, evicting>>

\* evict_idle_older_than, the shards' part.
EvictExpired == Without(expired)

\* evict_oldest, once it has found the target of the oldest connection.
pop_front(t) ==
  /\ IF Shard(t) = {} THEN UNCHANGED <<poolVars, idle_total>>
     ELSE /\ \E c \in Shard(t) : Ahead(c, Shard(t)) = {} /\ Without({c})
          /\ idle_total' = idle_total - 1
  /\ UNCHANGED <<h2, evicting>>

\* put, once there is room: a full target drops the connection.
push(c) ==
  /\ IF Cardinality(Shard(conns[c].target)) >= MaxIdlePerTarget
     THEN UNCHANGED <<poolVars, idle_total>>
     ELSE /\ idle' = idle \cup {c}
          /\ older' = older \cup (idle \X {c})
          /\ idle_total' = idle_total + 1
          /\ UNCHANGED expired
  /\ UNCHANGED <<h2, evicting>>

\* The sweeper's two steps.
Sweep ==
  /\ evicting = 0
  /\ expired # {}
  /\ EvictExpired
  /\ evicting' = Cardinality(expired)
  /\ UNCHANGED <<idle_total, h2>>

SweepSubtract ==
  /\ evicting > 0
  /\ idle_total' = idle_total - evicting
  /\ evicting' = 0
  /\ UNCHANGED <<conns, poolVars, h2>>

\* The connection that has waited longest passes IDLE_TIMEOUT.
Expire ==
  /\ \E c \in idle \ expired : Ahead(c, idle) \subseteq expired /\ expired' = expired \cup {c}
  /\ UNCHANGED <<conns, idle, older, idle_total, h2, evicting>>

----------------------------------------------------------------------------
(* Connections *)

\* The backend or the network ends a connection; its driver sees it later.
End(c) ==
  /\ conns[c].state = "open"
  /\ conns' = [conns EXCEPT ![c].state = "ending"]
  /\ UNCHANGED <<poolVars, idle_total, h2, evicting>>

Notice(c) ==
  /\ conns[c].state = "ending"
  /\ conns' = [conns EXCEPT ![c].state = "closed"]
  /\ UNCHANGED <<poolVars, idle_total, h2, evicting>>

\* A new connection to t, verified under the policy of the request that dials.
Dialled(c, t, policy) == [conns EXCEPT ![c] = [state |-> "open", target |-> t, policy |-> policy]]

\* h2_add
h2_add(c, t) == IF Cardinality(h2[t]) < H2PerTarget THEN [h2 EXCEPT ![t] = @ \cup {c}] ELSE h2

\* h2_pick: any connection of a full set; a broken pick cleans the set.
h2_full(t) == Cardinality(h2[t]) >= H2PerTarget
h2_cleaned(t) == [h2 EXCEPT ![t] = {c \in @ : ~broken(c)}]
=============================================================================
