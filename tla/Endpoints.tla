----------------------------- MODULE Endpoints -----------------------------
(* The endpoint pools of the data plane (portus-dataplane-core's pool.rs),   *)
(* the active health checks that probe them (bootstrap.rs) and the passive   *)
(* ejection of endpoints that fail requests (outlier.rs).                    *)
(*                                                                           *)
(* A pool is an instance: a configuration push whose endpoints differ builds *)
(* a new one, while requests and timers under way keep the one they hold.    *)
(* What is known of an endpoint's failures is kept by address, across pools. *)
(* Time is counted down: an ejection has so many ticks left, or has been     *)
(* over for so many.  select's round robin is a choice among the ready       *)
(* endpoints, since other traffic moves its counter; Outliers::prune, which  *)
(* forgets endpoints once more than 4096 are known, never acts here.         *)
EXTENDS Integers, FiniteSets

CONSTANTS
  Addrs,
  MaxPools,                        \* bound on the pools built
  Consecutive5xx,                  \* 5xx responses in a row that eject
  BaseEjection, MaxEjection,       \* ticks of the first ejection, of the longest
  ConsecutiveSuccess, ConsecutiveFailure   \* health checks in a row that flip

ASSUME EndpointsAssumption ==
  /\ IsFiniteSet(Addrs)
  /\ {MaxPools, Consecutive5xx, BaseEjection, MaxEjection, ConsecutiveSuccess, ConsecutiveFailure}
       \subseteq Nat \ {0}
  /\ BaseEjection <= MaxEjection

VARIABLES
  pools,    \* pools[p]: endpoints, the healthy and the enabled ones, and the
            \* run of checks of each that disagree with its health
  built,    \* pools built so far; the last is the one in the snapshot
  record,   \* record[a]: EndpointRecord
  timers    \* ejections that will enable their endpoint again

endpointVars == <<pools, built, record, timers>>

PoolIds == 1 .. MaxPools
Pools == [addrs : SUBSET Addrs, healthy : SUBSET Addrs, enabled : SUBSET Addrs,
          run : [Addrs -> 0 .. ConsecutiveSuccess + ConsecutiveFailure]]

\* Ejections beyond this count last as long as the longest.
MaxCount == (MaxEjection + BaseEjection - 1) \div BaseEjection

\* left: ticks until ejected_until, negative once it is past.
Records == [fives : 0 .. Consecutive5xx, ejections : 0 .. MaxCount, left : -MaxEjection .. MaxEjection]

\* nth tells the timers of two ejections of one endpoint apart.
Timers == [pool : PoolIds, addr : Addrs, nth : 1 .. MaxCount, left : 0 .. MaxEjection]

EndpointsTypeOK ==
  /\ pools \in [PoolIds -> Pools]
  /\ built \in 0 .. MaxPools
  /\ record \in [Addrs -> Records]
  /\ timers \subseteq Timers

Pool(addrs) == [addrs |-> addrs, healthy |-> addrs, enabled |-> addrs, run |-> [a \in Addrs |-> 0]]
NoRecord == [fives |-> 0, ejections |-> 0, left |-> -MaxEjection]

ready(p) == pools[p].healthy \cap pools[p].enabled

----------------------------------------------------------------------------
(* Endpoint::observe *)

\* Mutant: the run goes on when the endpoint agrees with its checks again.
RunsOn(p, a, healthy) ==
  LET pool == pools[p]
      run == pool.run[a] + 1
      threshold == IF healthy THEN ConsecutiveSuccess ELSE ConsecutiveFailure
  IN IF (a \in pool.healthy) = healthy THEN pool
     ELSE [pool EXCEPT !.run[a] = run,
                       !.healthy = IF run < threshold THEN @ ELSE IF healthy THEN @ \cup {a} ELSE @ \ {a}]

\* One check of endpoint a of pool p: health flips after a run of checks that
\* disagree with it.
observe(p, a, healthy) ==
  LET pool == pools[p]
      run == pool.run[a] + 1
      threshold == IF healthy THEN ConsecutiveSuccess ELSE ConsecutiveFailure
  IN IF (a \in pool.healthy) = healthy
     THEN [pool EXCEPT !.run[a] = 0]
     ELSE IF run >= threshold
     THEN [pool EXCEPT !.run[a] = 0,
                       !.healthy = IF healthy THEN @ \cup {a} ELSE @ \ {a}]
     ELSE [pool EXCEPT !.run[a] = run]

\* run_health_check, one endpoint of it.
Probe(p, a, healthy) ==
  /\ a \in pools[p].addrs
  /\ pools' = [pools EXCEPT ![p] = observe(p, a, healthy)]
  /\ UNCHANGED <<built, record, timers>>

\* build_lb_map_from_proto: a pool whose endpoints are unchanged is kept.
BuildPool(addrs) ==
  IF pools[built].addrs = addrs
  THEN UNCHANGED endpointVars
  ELSE /\ built < MaxPools
       /\ built' = built + 1
       /\ pools' = [pools EXCEPT ![built + 1] = Pool(addrs)]
       /\ UNCHANGED <<record, timers>>

----------------------------------------------------------------------------
(* Outliers *)

\* A 5xx makes the run one longer; anything else ends it and, after a quiet
\* spell, forgets the ejections.
Recorded(a, status) ==
  IF status >= 500
  THEN [record[a] EXCEPT !.fives = IF @ < Consecutive5xx THEN @ + 1 ELSE @]
  ELSE IF record[a].left = -MaxEjection THEN NoRecord ELSE [record[a] EXCEPT !.fives = 0]

\* responded: under the record's lock.
Responded(a, status) ==
  /\ record' = [record EXCEPT ![a] = Recorded(a, status)]
  /\ UNCHANGED <<pools, built, timers>>

\* The answer ejects.
Ejects(a, status) == status >= 500 /\ record'[a].fives >= Consecutive5xx

\* Mutant: one ready endpoint will do.
AnyReady(p, a) == a \in pools[p].addrs /\ Cardinality(ready(p)) > 0

\* eject, first part: the pool holds the endpoint and would not be left empty.
MayEject(p, a) == a \in pools[p].addrs /\ Cardinality(ready(p)) > 1

\* Second part: under the record's lock.
AlreadyOut(a) == record[a].left > 0
Duration(n) == IF BaseEjection * n < MaxEjection THEN BaseEjection * n ELSE MaxEjection

NextEjection(a) == IF record[a].ejections < MaxCount THEN record[a].ejections + 1 ELSE MaxCount

MarkEjected(a) ==
  /\ record' = [record EXCEPT ![a] = [fives |-> 0, ejections |-> NextEjection(a),
                                      left |-> Duration(NextEjection(a))]]
  /\ UNCHANGED <<pools, built, timers>>

\* Mutant: nothing will enable the endpoint again.
DisableForGood(p, a, nth) ==
  /\ pools' = [pools EXCEPT ![p].enabled = @ \ {a}]
  /\ UNCHANGED <<built, record, timers>>

\* Third part: the endpoint leaves the rotation of the pool the request holds,
\* and a task will bring it back.
Disable(p, a, nth) ==
  /\ pools' = [pools EXCEPT ![p].enabled = @ \ {a}]
  /\ timers' = timers \cup {[pool |-> p, addr |-> a, nth |-> nth, left |-> Duration(nth)]}
  /\ UNCHANGED <<built, record>>

\* The ejection's own task wakes up.
Reenable(t) ==
  /\ t.left = 0
  /\ pools' = [pools EXCEPT ![t.pool].enabled = IF t.addr \in pools[t.pool].addrs THEN @ \cup {t.addr} ELSE @]
  /\ timers' = timers \ {t}
  /\ UNCHANGED <<built, record>>

\* A tick of the clock; a sleep may end late.
EndpointsTick ==
  /\ record' = [a \in Addrs |-> [record[a] EXCEPT !.left = IF @ > -MaxEjection THEN @ - 1 ELSE @]]
  /\ timers' = {[t EXCEPT !.left = IF @ > 0 THEN @ - 1 ELSE 0] : t \in timers}
  /\ UNCHANGED <<pools, built>>

EndpointsInit(addrs) ==
  /\ pools = [p \in PoolIds |-> Pool(IF p = 1 THEN addrs ELSE {})]
  /\ built = 1
  /\ record = [a \in Addrs |-> NoRecord]
  /\ timers = {}
=============================================================================
