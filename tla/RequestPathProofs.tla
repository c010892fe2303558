-------------------------- MODULE RequestPathProofs --------------------------
(* What a request on its way through the data plane is promised, for any     *)
(* number of requests, endpoints, connections and snapshots: it is sent as   *)
(* its one route lets it through, ejections leave an endpoint in rotation,   *)
(* and connections are borrowed once and counted.                            *)
EXTENDS RequestPath, OperatorProofs

----------------------------------------------------------------------------
(* One request *)

\* Where a request is: before plan_request has let it through, before it has
\* an endpoint, between attempts, in an attempt, giving its connection back.
Before == {"idle", "plan", "scan", "ask", "admit"}
Early == Before \cup {"identify", "budget", "rewrite", "dispatch", "fanout"}
Trying == {"pick", "lease", "dial"}
Leased == {"exchange", "count", "mark", "disable", "settle", "body"}
Giving == {"return", "subtract", "oldest", "push"}

\* plan_request's checks, up to the authorization service's.
Passed(k) ==
  /\ k.rt.found /\ ~k.rt.redirect /\ k.q.body # "over" /\ k.rt.ext_auth # "unpermitted"
  /\ k.rt.ip_rules => ~k.q.denied
  /\ k.rt.auth # "none" => k.q.cred = "good"
  /\ k.rt.needs_body /\ k.q.body # "none" => k.scanned

\* What a request has behind it where it is.
Checked(k) ==
  /\ k.pc \in Before => ~k.charged
  /\ k.pc \notin {"idle", "plan", "scan"} => Passed(k)
  /\ k.pc \notin {"idle", "plan", "scan", "ask"} /\ k.rt.ext_auth # "none" =>
       k.asked \in {"allow", "open"} /\ (k.asked = "open" => k.rt.ext_auth = "open")
  /\ k.pc \notin Before => k.rt.backend
  /\ k.pc \notin Before \cup {"identify"} /\ k.rt.key_required => k.q.key = "good"

\* How often it was sent, and may still be.
Spent(k) ==
  /\ k.pc \in Early => k.sent = 0
  /\ k.pc \in Trying \/ (k.pc \in Giving /\ k.next = "pick") =>
       k.sent + k.left <= k.rt.max_retries /\ (k.held \/ (k.left = 0 /\ k.sent = 0))
  /\ k.pc \in Leased => k.sent + k.left <= k.rt.max_retries + 1 /\ (k.held \/ (k.left = 0 /\ k.sent <= 1))
  /\ k.pc \in Giving => k.sent <= k.rt.max_retries + 1 /\ (k.held \/ k.sent <= 1)

\* What it holds.
Holds(k) ==
  /\ \A c, d \in k.conn : c = d
  /\ k.conn # {} => k.pc \in Leased \cup Giving
  /\ (k.pending > 0) <=> (k.pc = "subtract")
  /\ k.pc = "disable" => k.nth >= 1
  /\ ~k.connected => k.conn = {} /\ k.pc \in {"count", "mark", "disable", "settle"}

\* Nothing changes of where a request goes and under what.
Kept(k, n) == n.at = k.at /\ n.policy = k.policy /\ n.rt = k.rt

Sound(k) == k \in TaskStates /\ Checked(k) /\ Spent(k) /\ Holds(k)

\* The constants and the worlds are as they should be.
LEMMA Given ==
  /\ IsFiniteSet(Tasks) /\ IsFiniteSet(Addrs) /\ IsFiniteSet(Conns)
  /\ Hosts = Addrs /\ Addrs # {} /\ Policies # {} /\ Targets # {}
  /\ MaxPools \in Nat /\ MaxPools > 0 /\ MaxCount \in Nat /\ MaxCount > 0
  /\ MaxIdleTotal \in Nat /\ MaxIdleTotal > 0
  /\ MaxEjection \in Nat /\ BaseEjection \in Nat /\ Consecutive5xx \in Nat
  /\ ConsecutiveSuccess \in Nat /\ ConsecutiveFailure \in Nat
<1>1. /\ IsFiniteSet(Tasks) /\ IsFiniteSet(Addrs) /\ IsFiniteSet(Conns)
      /\ Hosts = Addrs /\ Addrs # {} /\ Policies # {}
  BY RequestPathAssumption, EndpointsAssumption, UpstreamAssumption
<1>2. /\ MaxPools \in Nat \ {0} /\ MaxIdleTotal \in Nat \ {0}
      /\ MaxEjection \in Nat \ {0} /\ BaseEjection \in Nat \ {0} /\ Consecutive5xx \in Nat
      /\ ConsecutiveSuccess \in Nat /\ ConsecutiveFailure \in Nat
  BY EndpointsAssumption, UpstreamAssumption
<1>3. MaxCount \in Nat /\ MaxCount > 0
  BY <1>2 DEF MaxCount
<1>4. Targets # {}
  <2>1. PICK a \in Addrs, p \in Policies : TRUE
    BY <1>1
  <2>2. [addr |-> a, tls_key |-> tls_key(p), h2 |-> TRUE] \in Targets
    BY <1>1, <2>1 DEF Targets, Keys
  <2> QED
    BY <2>2
<1> QED
  BY <1>1, <1>2, <1>3, <1>4

\* What a world is made of.
LEMMA World ==
  ASSUME NEW w \in Worlds
  PROVE  /\ w.snapshots \in Seq(Snapshots) /\ Len(w.snapshots) \in Nat /\ Len(w.snapshots) > 0
         /\ \A i \in DOMAIN w.snapshots :
              /\ w.snapshots[i].route \in Routes /\ w.snapshots[i].addrs \subseteq Addrs
              /\ w.snapshots[i].policy \in Policies
         /\ 1 \in DOMAIN w.snapshots
         /\ w.traffic \subseteq Facts /\ (CHOOSE q \in w.traffic : TRUE) \in Facts
         /\ w.clients \subseteq Tasks /\ w.answers \subseteq Statuses
<1>1. /\ w.snapshots \in Seq(Snapshots) /\ w.snapshots # <<>>
      /\ w.traffic \subseteq Facts /\ w.traffic # {}
      /\ w.clients \subseteq Tasks /\ w.answers \subseteq Statuses
  BY RequestPathAssumption
<1>2. Len(w.snapshots) \in Nat /\ Len(w.snapshots) > 0 /\ DOMAIN w.snapshots = 1 .. Len(w.snapshots)
  BY <1>1
<1>3. ASSUME NEW i \in DOMAIN w.snapshots
      PROVE  /\ w.snapshots[i].route \in Routes /\ w.snapshots[i].addrs \subseteq Addrs
             /\ w.snapshots[i].policy \in Policies
  <2>1. w.snapshots[i] \in Snapshots
    BY <1>1, <1>2
  <2> QED
    BY <2>1 DEF Snapshots
<1> QED
  BY <1>1, <1>2, <1>3

\* Nothing of the requests is left open by the types.
Fits ==
  /\ world \in Worlds /\ version \in DOMAIN world.snapshots
  /\ built \in PoolIds

\* A request that has just come, and a task without one.
LEMMA Newcomers ==
  ASSUME Fits, NEW q \in Facts
  PROVE  /\ Sound(NewTask(q)) /\ NewTask(q).pc = "plan" /\ NewTask(q).conn = {}
         /\ NewTask(q).pool = built /\ NewTask(q).pending = 0
         /\ Sound(Idling) /\ Idling.pc = "idle" /\ Idling.conn = {} /\ Idling.pool = 1 /\ Idling.pending = 0
<1> DEFINE a == CHOOSE a \in Addrs : TRUE
           t == CHOOSE t \in Targets : TRUE
           o == CHOOSE o \in world.traffic : TRUE
           rt == Snapshot.route
           rt1 == world.snapshots[1].route
           py == Snapshot.policy
           py1 == world.snapshots[1].policy
<1>1. a \in Addrs /\ t \in Targets
  BY Given
<1>2. o \in Facts /\ rt \in Routes /\ rt1 \in Routes /\ py \in Policies /\ py1 \in Policies
  BY World DEF Fits, Snapshot
<1>3. built \in PoolIds /\ 1 \in PoolIds /\ 0 \in 0 .. MaxCount /\ 0 \in Statuses
  BY Given DEF Fits, PoolIds, Statuses
<1> DEFINE N(x) == [pc |-> "plan", q |-> x, rt |-> rt, pool |-> built, policy |-> py,
                    scanned |-> FALSE, asked |-> "nobody", charged |-> FALSE, held |-> FALSE, left |-> 0, sent |-> 0,
                    tag |-> {}, at |-> a, conn |-> {}, status |-> 0, connected |-> TRUE,
                    nth |-> 0, next |-> "idle", pending |-> 0, key |-> t]
           I == [N(o) EXCEPT !.pc = "idle", !.rt = rt1, !.pool = 1, !.policy = py1]
<1>4. NewTask(q) = N(q) /\ Idling = I
  BY DEF NewTask, Idling, NoTag
<1> HIDE DEF a, t, o, rt, rt1, py, py1
<1>5. N(q) \in TaskStates /\ N(o) \in TaskStates
  BY <1>1, <1>2, <1>3 DEF TaskStates, Hops
<1>6. I \in TaskStates
  BY <1>2, <1>3, <1>5, ZenonT(60) DEF TaskStates, Hops
<1>7. Checked(N(q)) /\ Spent(N(q)) /\ Holds(N(q))
  BY DEF Checked, Spent, Holds, Before, Early, Trying, Giving, Leased
<1>8. Checked(I) /\ Spent(I) /\ Holds(I)
  BY DEF Checked, Spent, Holds, Before, Early, Trying, Giving, Leased
<1> QED
  BY <1>4, <1>5, <1>6, <1>7, <1>8 DEF Sound

\* Where a task goes on with everything else as it is.
Onward == {<<"plan", "scan">>, <<"identify", "budget">>, <<"budget", "dispatch">>, <<"budget", "rewrite">>,
           <<"rewrite", "dispatch">>, <<"dispatch", "fanout">>, <<"lease", "dial">>, <<"count", "mark">>,
           <<"count", "settle">>, <<"mark", "settle">>, <<"disable", "settle">>, <<"settle", "body">>,
           <<"return", "push">>, <<"oldest", "push">>}

\* A task that only goes on stays sound.
LEMMA GoesOn ==
  ASSUME NEW k, Sound(k), NEW pc, <<k.pc, pc>> \in Onward,
         k.pc = "identify" => ~(k.rt.key_required /\ k.q.key # "good"),
         pc = "body" => k.connected
  PROVE  LET n == [k EXCEPT !.pc = pc] IN
         Sound(n) /\ n.pc = pc /\ n.conn = k.conn /\ n.pool = k.pool /\ n.pending = k.pending /\ Kept(k, n)
<1> DEFINE n == [k EXCEPT !.pc = pc]
<1>1. k \in TaskStates /\ Checked(k) /\ Spent(k) /\ Holds(k)
  BY DEF Sound
<1>2. pc \in Hops
  BY DEF Onward, Hops
<1>3. n \in TaskStates /\ n.pc = pc
  BY <1>1, <1>2 DEF TaskStates
<1>4. /\ n.q = k.q /\ n.rt = k.rt /\ n.scanned = k.scanned /\ n.asked = k.asked /\ n.charged = k.charged
      /\ n.held = k.held /\ n.left = k.left /\ n.sent = k.sent /\ n.conn = k.conn /\ n.pending = k.pending
      /\ n.next = k.next /\ n.nth = k.nth /\ n.pool = k.pool /\ n.connected = k.connected
      /\ n.at = k.at /\ n.policy = k.policy
  BY <1>1 DEF TaskStates
<1> HIDE DEF n
<1>5. Checked(n)
  BY <1>1, <1>3, <1>4 DEF Checked, Passed, Before, Onward
<1>6. Spent(n)
  BY <1>1, <1>3, <1>4 DEF Spent, Early, Before, Trying, Leased, Giving, Onward
<1>7. Holds(n)
  BY <1>1, <1>3, <1>4 DEF Holds, Leased, Giving, Onward
<1> QED
  BY <1>3, <1>4, <1>5, <1>6, <1>7 DEF Sound, Kept, n

\* The first check that holds decides, and there is one when the last does.
LEMMA FirstDecides ==
  ASSUME NEW n \in Nat, NEW checks, n > 0, DOMAIN checks = 1 .. n, checks[n].when
  PROVE  \E m \in 1 .. n : /\ Decide(checks) = checks[m].then /\ checks[m].when
                           /\ \A i \in 1 .. n : i < m => ~checks[i].when
<1> DEFINE D == {i \in DOMAIN checks : checks[i].when}
           m == Min(D)
<1>1. D \in SUBSET Nat /\ n \in D
  OBVIOUS
<1>2. \E x \in D : \A y \in D : x <= y
  BY <1>1, LeastNat
<1>3. m \in D /\ \A y \in D : m <= y
  BY <1>2, Zenon DEF Min
<1>4. Decide(checks) = checks[m].then
  BY DEF Decide
<1> HIDE DEF m
<1> QED
  BY <1>1, <1>3, <1>4

\* plan_request lets a request go on only when every check before has passed.
LEMMA PlanPasses ==
  ASSUME NEW rt \in Routes, NEW q \in Facts, NEW scanned \in BOOLEAN,
         plan_request(rt, q, scanned).kind \in {"ask", "admit"}
  PROVE  /\ rt.found /\ ~rt.redirect /\ q.body # "over" /\ rt.ext_auth # "unpermitted"
         /\ rt.ip_rules => ~q.denied
         /\ rt.auth # "none" => q.cred = "good"
         /\ rt.needs_body /\ q.body # "none" => scanned
         /\ plan_request(rt, q, scanned).kind = "admit" => rt.ext_auth = "none"
<1> DEFINE w4 == ~scanned /\ rt.needs_body /\ q.body # "none"
           w9 == rt.ip_rules /\ q.denied
           checks == <<
  Check(q.acme, reply(200)),
  Check(q.misdirected, reply(421)),
  Check(q.metadata /\ rt.found /\ rt.oauth, reply(200)),
  Check(w4, Go("needs_body")),
  Check(~rt.found, reply(404)),
  Check(rt.redirect, reply(301)),
  Check(rt.cors /\ q.origin = "other" /\ q.preflight, reply(403)),
  Check(rt.cors /\ q.origin = "allowed" /\ q.preflight, reply(200)),
  Check(w9, reply(403)),
  Check(q.body = "over", reply(413)),
  Check(Unauthenticated(rt, q), reply(401)),
  Check(rt.ext_auth = "unpermitted", reply(500)),
  Check(rt.ext_auth # "none", Go("ask")),
  Check(TRUE, Go("admit")) >>
<1>1. plan_request(rt, q, scanned) = Decide(checks)
  BY DEF plan_request
<1>2. /\ checks[4].when = w4
      /\ checks[5].when = ~rt.found
      /\ checks[6].when = rt.redirect
      /\ checks[9].when = w9
      /\ checks[10].when = (q.body = "over")
      /\ checks[11].when = Unauthenticated(rt, q)
      /\ checks[12].when = (rt.ext_auth = "unpermitted")
      /\ checks[13].when = (rt.ext_auth # "none")
      /\ checks[14].when = TRUE
  BY DEF Check
<1>3. /\ DOMAIN checks = 1 .. 14
      /\ \A i \in 1 .. 12 : checks[i].then.kind \notin {"ask", "admit"}
      /\ checks[13].then.kind = "ask" /\ checks[14].then.kind = "admit"
  BY DEF Check, reply, Go
<1> HIDE DEF checks
<1>4. PICK m \in 1 .. 14 : /\ Decide(checks) = checks[m].then /\ checks[m].when
                           /\ \A i \in 1 .. 14 : i < m => ~checks[i].when
  <2>1. 14 \in Nat /\ 14 > 0 /\ checks[14].when
    BY <1>2
  <2> QED
    BY <2>1, <1>3, FirstDecides
<1>5. m \in {13, 14} /\ (plan_request(rt, q, scanned).kind = "admit" => m = 14)
  BY <1>1, <1>3, <1>4
<1>6. /\ ~checks[4].when /\ ~checks[5].when /\ ~checks[6].when /\ ~checks[9].when /\ ~checks[10].when
      /\ ~checks[11].when /\ ~checks[12].when /\ (m = 14 => ~checks[13].when)
  BY <1>4, <1>5
<1>7. /\ rt.found /\ ~rt.redirect /\ ~(q.body = "over") /\ ~(rt.ext_auth = "unpermitted")
      /\ ~w4 /\ ~w9 /\ ~Unauthenticated(rt, q) /\ (m = 14 => ~(rt.ext_auth # "none"))
  BY <1>2, <1>6, Zenon
<1> QED
  BY <1>5, <1>7 DEF Unauthenticated

\* ExtAuth::check lets a request go on when the service allows it, or when it
\* did not answer and the policy fails open.
LEMMA AskPasses ==
  ASSUME NEW rt \in Routes, NEW answer \in {"allow", "deny", "silent"}, check(rt, answer).kind # "respond"
  PROVE  /\ check(rt, answer).kind \in {"allow", "open"}
         /\ check(rt, answer).kind = "open" => rt.ext_auth = "open"
<1> DEFINE checks == << Check(answer = "allow", Go("allow")), Check(answer = "deny", reply(403)),
                        Check(rt.ext_auth = "open", Go("open")), Check(TRUE, reply(503)) >>
<1>1. check(rt, answer) = Decide(checks)
  BY DEF check
<1>2. checks[3].when = (rt.ext_auth = "open") /\ checks[4].when = TRUE
  BY DEF Check
<1>3. /\ DOMAIN checks = 1 .. 4
      /\ checks[1].then.kind = "allow" /\ checks[2].then.kind = "respond"
      /\ checks[3].then.kind = "open" /\ checks[4].then.kind = "respond"
  BY DEF Check, reply, Go
<1> HIDE DEF checks
<1>4. PICK m \in 1 .. 4 : Decide(checks) = checks[m].then /\ checks[m].when
  <2>1. 4 \in Nat /\ 4 > 0 /\ checks[4].when
    BY <1>2
  <2> QED
    BY <2>1, <1>3, FirstDecides
<1>5. m = 1 \/ m = 3
  BY <1>1, <1>3, <1>4
<1>6. m = 3 => checks[3].when
  BY <1>4
<1>7. m = 3 => rt.ext_auth = "open"
  BY <1>2, <1>6, Zenon
<1> QED
  BY <1>1, <1>3, <1>4, <1>5, <1>7

\* A request with its plan.
WithPlan(k, kind, rt, pool, policy) ==
  [k EXCEPT !.pc = kind, !.rt = rt, !.pool = pool, !.policy = policy]

\* What plan_request lets through is sound under the route it was planned on.
LEMMA PlanLets ==
  ASSUME NEW k, Sound(k), k.pc = "plan",
         NEW rt \in Routes, NEW pool \in PoolIds, NEW policy \in Policies,
         NEW kind \in {"ask", "admit"}, plan_request(rt, k.q, k.scanned).kind = kind
  PROVE  LET n == WithPlan(k, kind, rt, pool, policy)
         IN  Sound(n) /\ n.pc = kind /\ n.conn = k.conn /\ n.pool = pool
             /\ n.pending = k.pending
<1> DEFINE n == WithPlan(k, kind, rt, pool, policy)
<1>1. k \in TaskStates /\ Checked(k) /\ Spent(k) /\ Holds(k)
  BY DEF Sound
<1>2. /\ rt.found /\ ~rt.redirect /\ k.q.body # "over" /\ rt.ext_auth # "unpermitted"
      /\ rt.ip_rules => ~k.q.denied
      /\ rt.auth # "none" => k.q.cred = "good"
      /\ rt.needs_body /\ k.q.body # "none" => k.scanned
      /\ kind = "admit" => rt.ext_auth = "none"
  <2>1. k.q \in Facts /\ k.scanned \in BOOLEAN
    BY <1>1 DEF TaskStates
  <2> QED
    BY <2>1, PlanPasses
<1>3. n \in TaskStates
  BY <1>1, <1>2, ZenonT(60) DEF TaskStates, Hops, WithPlan
<1>4. /\ n.pc = kind /\ n.rt = rt /\ n.pool = pool /\ n.policy = policy
      /\ n.q = k.q /\ n.scanned = k.scanned /\ n.asked = k.asked /\ n.charged = k.charged
      /\ n.held = k.held /\ n.left = k.left /\ n.sent = k.sent /\ n.conn = k.conn
      /\ n.pending = k.pending /\ n.next = k.next /\ n.nth = k.nth /\ n.connected = k.connected
      /\ n.at = k.at
  BY <1>1 DEF TaskStates, WithPlan
<1>5. k.left \in Nat /\ k.sent \in Nat /\ k.rt \in Routes /\ k.q \in Facts /\ k.rt.max_retries \in Nat
  BY <1>1 DEF TaskStates, Routes
<1> HIDE DEF n
<1>6. Checked(n)
  BY <1>1, <1>4, <1>5, <1>2 DEF Checked, Passed, Before, Leased, Giving
<1>7. Spent(n)
  BY <1>1, <1>4, <1>5, <1>2 DEF Spent, Early, Before, Trying, Leased, Giving
<1>8. Holds(n)
  BY <1>1, <1>4, <1>5, <1>2 DEF Holds, Leased, Giving
<1> QED
  BY <1>3, <1>4, <1>6, <1>7, <1>8 DEF Sound, Kept, n

\* A request whose body is scanned is planned again.
LEMMA ScanLets ==
  ASSUME NEW k, Sound(k), k.pc = "scan"
  PROVE  LET n == [k EXCEPT !.pc = "plan", !.scanned = TRUE]
         IN  Sound(n) /\ n.pc = "plan" /\ n.conn = k.conn /\ n.pool = k.pool
             /\ n.pending = k.pending /\ Kept(k, n)
<1> DEFINE n == [k EXCEPT !.pc = "plan", !.scanned = TRUE]
<1>1. k \in TaskStates /\ Checked(k) /\ Spent(k) /\ Holds(k)
  BY DEF Sound
<1>3. n \in TaskStates
  BY <1>1 DEF TaskStates, Hops
<1>4. /\ n.pc = "plan" /\ n.scanned = TRUE
      /\ n.q = k.q /\ n.rt = k.rt /\ n.asked = k.asked /\ n.charged = k.charged /\ n.held = k.held
      /\ n.left = k.left /\ n.sent = k.sent /\ n.conn = k.conn /\ n.pending = k.pending
      /\ n.next = k.next /\ n.nth = k.nth /\ n.pool = k.pool /\ n.connected = k.connected
      /\ n.at = k.at /\ n.policy = k.policy
  BY <1>1 DEF TaskStates
<1>5. k.left \in Nat /\ k.sent \in Nat /\ k.rt \in Routes /\ k.q \in Facts /\ k.rt.max_retries \in Nat
  BY <1>1 DEF TaskStates, Routes
<1> HIDE DEF n
<1>6. Checked(n)
  BY <1>1, <1>4, <1>5 DEF Checked, Passed, Before, Leased, Giving
<1>7. Spent(n)
  BY <1>1, <1>4, <1>5 DEF Spent, Early, Before, Trying, Leased, Giving
<1>8. Holds(n)
  BY <1>1, <1>4, <1>5 DEF Holds, Leased, Giving
<1> QED
  BY <1>3, <1>4, <1>6, <1>7, <1>8 DEF Sound, Kept, n

\* The authorization service has answered, or the policy fails open.
LEMMA AskLets ==
  ASSUME NEW k, Sound(k), k.pc = "ask",
         NEW by \in {"allow", "open"}, by = "open" => k.rt.ext_auth = "open"
  PROVE  LET n == [k EXCEPT !.pc = "admit", !.asked = by]
         IN  Sound(n) /\ n.pc = "admit" /\ n.conn = k.conn /\ n.pool = k.pool
             /\ n.pending = k.pending /\ Kept(k, n)
<1> DEFINE n == [k EXCEPT !.pc = "admit", !.asked = by]
<1>1. k \in TaskStates /\ Checked(k) /\ Spent(k) /\ Holds(k)
  BY DEF Sound
<1>3. n \in TaskStates
  BY <1>1 DEF TaskStates, Hops
<1>4. /\ n.pc = "admit" /\ n.asked = by
      /\ n.q = k.q /\ n.rt = k.rt /\ n.scanned = k.scanned /\ n.charged = k.charged /\ n.held = k.held
      /\ n.left = k.left /\ n.sent = k.sent /\ n.conn = k.conn /\ n.pending = k.pending
      /\ n.next = k.next /\ n.nth = k.nth /\ n.pool = k.pool /\ n.connected = k.connected
      /\ n.at = k.at /\ n.policy = k.policy
  BY <1>1 DEF TaskStates
<1>5. k.left \in Nat /\ k.sent \in Nat /\ k.rt \in Routes /\ k.q \in Facts /\ k.rt.max_retries \in Nat
  BY <1>1 DEF TaskStates, Routes
<1> HIDE DEF n
<1>6. Checked(n)
  BY <1>1, <1>4, <1>5 DEF Checked, Passed, Before, Leased, Giving
<1>7. Spent(n)
  BY <1>1, <1>4, <1>5 DEF Spent, Early, Before, Trying, Leased, Giving
<1>8. Holds(n)
  BY <1>1, <1>4, <1>5 DEF Holds, Leased, Giving
<1> QED
  BY <1>3, <1>4, <1>6, <1>7, <1>8 DEF Sound, Kept, n

\* The limiters have admitted the request.
LEMMA AdmitLets ==
  ASSUME NEW k, Sound(k), k.pc = "admit", k.rt.backend
  PROVE  LET n == [k EXCEPT !.pc = "identify", !.charged = k.rt.rate_limited]
         IN  Sound(n) /\ n.pc = "identify" /\ n.conn = k.conn /\ n.pool = k.pool
             /\ n.pending = k.pending /\ Kept(k, n)
<1> DEFINE n == [k EXCEPT !.pc = "identify", !.charged = k.rt.rate_limited]
<1>1. k \in TaskStates /\ Checked(k) /\ Spent(k) /\ Holds(k)
  BY DEF Sound
<1>2. k.rt.rate_limited \in BOOLEAN
  BY <1>1 DEF TaskStates, Routes
<1>3. n \in TaskStates
  BY <1>1, <1>2 DEF TaskStates, Hops
<1>4. /\ n.pc = "identify" /\ n.charged = k.rt.rate_limited
      /\ n.q = k.q /\ n.rt = k.rt /\ n.scanned = k.scanned /\ n.asked = k.asked /\ n.held = k.held
      /\ n.left = k.left /\ n.sent = k.sent /\ n.conn = k.conn /\ n.pending = k.pending
      /\ n.next = k.next /\ n.nth = k.nth /\ n.pool = k.pool /\ n.connected = k.connected
      /\ n.at = k.at /\ n.policy = k.policy
  BY <1>1 DEF TaskStates
<1>5. k.left \in Nat /\ k.sent \in Nat /\ k.rt \in Routes /\ k.q \in Facts /\ k.rt.max_retries \in Nat
  BY <1>1 DEF TaskStates, Routes
<1> HIDE DEF n
<1>6. Checked(n)
  BY <1>1, <1>4, <1>5, <1>2 DEF Checked, Passed, Before, Leased, Giving
<1>7. Spent(n)
  BY <1>1, <1>4, <1>5, <1>2 DEF Spent, Early, Before, Trying, Leased, Giving
<1>8. Holds(n)
  BY <1>1, <1>4, <1>5, <1>2 DEF Holds, Leased, Giving
<1> QED
  BY <1>3, <1>4, <1>6, <1>7, <1>8 DEF Sound, Kept, n

\* A request about to look for an endpoint.
WithRetries(k, held, tag, left) ==
  [k EXCEPT !.pc = "pick", !.held = held, !.tag = tag, !.left = left]

\* It has the retries its route allows a body that is held.
LEMMA DispatchLets ==
  ASSUME NEW k, Sound(k), k.pc = "dispatch",
         NEW held \in BOOLEAN, NEW tag \in SUBSET Addrs,
         NEW left \in Nat, left <= k.rt.max_retries, ~held => left = 0
  PROVE  LET n == WithRetries(k, held, tag, left)
         IN  Sound(n) /\ n.pc = "pick" /\ n.conn = k.conn /\ n.pool = k.pool
             /\ n.pending = k.pending /\ Kept(k, n)
<1> DEFINE n == WithRetries(k, held, tag, left)
<1>1. k \in TaskStates /\ Checked(k) /\ Spent(k) /\ Holds(k)
  BY DEF Sound
<1>3. n \in TaskStates
  BY <1>1 DEF TaskStates, Hops, WithRetries
<1>4. /\ n.pc = "pick" /\ n.held = held /\ n.left = left
      /\ n.q = k.q /\ n.rt = k.rt /\ n.scanned = k.scanned /\ n.asked = k.asked
      /\ n.charged = k.charged /\ n.sent = k.sent /\ n.conn = k.conn /\ n.pending = k.pending
      /\ n.next = k.next /\ n.nth = k.nth /\ n.pool = k.pool /\ n.connected = k.connected
      /\ n.at = k.at /\ n.policy = k.policy
  BY <1>1 DEF TaskStates, WithRetries
<1>5. k.left \in Nat /\ k.sent \in Nat /\ k.rt \in Routes /\ k.q \in Facts /\ k.rt.max_retries \in Nat
  BY <1>1 DEF TaskStates, Routes
<1> HIDE DEF n
<1>6. Checked(n)
  BY <1>1, <1>4, <1>5 DEF Checked, Passed, Before, Leased, Giving
<1>7. Spent(n)
  BY <1>1, <1>4, <1>5 DEF Spent, Early, Before, Trying, Leased, Giving
<1>8. Holds(n)
  BY <1>1, <1>4, <1>5 DEF Holds, Leased, Giving
<1> QED
  BY <1>3, <1>4, <1>6, <1>7, <1>8 DEF Sound, Kept, n

\* The request has an endpoint.
LEMMA PickLets ==
  ASSUME NEW k, Sound(k), k.pc = "pick", NEW a \in Addrs
  PROVE  LET n == [k EXCEPT !.pc = "lease", !.at = a]
         IN  Sound(n) /\ n.pc = "lease" /\ n.conn = k.conn /\ n.pool = k.pool
             /\ n.pending = k.pending
<1> DEFINE n == [k EXCEPT !.pc = "lease", !.at = a]
<1>1. k \in TaskStates /\ Checked(k) /\ Spent(k) /\ Holds(k)
  BY DEF Sound
<1>3. n \in TaskStates
  BY <1>1 DEF TaskStates, Hops
<1>4. /\ n.pc = "lease" /\ n.at = a
      /\ n.q = k.q /\ n.rt = k.rt /\ n.scanned = k.scanned /\ n.asked = k.asked
      /\ n.charged = k.charged /\ n.held = k.held /\ n.left = k.left /\ n.sent = k.sent
      /\ n.conn = k.conn /\ n.pending = k.pending /\ n.next = k.next /\ n.nth = k.nth
      /\ n.pool = k.pool /\ n.connected = k.connected /\ n.policy = k.policy
  BY <1>1 DEF TaskStates
<1>5. k.left \in Nat /\ k.sent \in Nat /\ k.rt \in Routes /\ k.q \in Facts /\ k.rt.max_retries \in Nat
  BY <1>1 DEF TaskStates, Routes
<1> HIDE DEF n
<1>6. Checked(n)
  BY <1>1, <1>4, <1>5 DEF Checked, Passed, Before, Leased, Giving
<1>7. Spent(n)
  BY <1>1, <1>4, <1>5 DEF Spent, Early, Before, Trying, Leased, Giving
<1>8. Holds(n)
  BY <1>1, <1>4, <1>5 DEF Holds, Leased, Giving
<1> QED
  BY <1>3, <1>4, <1>6, <1>7, <1>8 DEF Sound, Kept, n

\* The request has a connection and is sent on it.
LEMMA AttemptLets ==
  ASSUME NEW k, Sound(k), k.pc \in {"lease", "dial"}, NEW c \in Conns
  PROVE  LET n == [k EXCEPT !.pc = "exchange", !.conn = {c}, !.sent = k.sent + 1]
         IN  Sound(n) /\ n.pc = "exchange" /\ n.conn = {c} /\ n.pool = k.pool
             /\ n.pending = k.pending /\ Kept(k, n)
<1> DEFINE n == [k EXCEPT !.pc = "exchange", !.conn = {c}, !.sent = k.sent + 1]
<1>1. k \in TaskStates /\ Checked(k) /\ Spent(k) /\ Holds(k)
  BY DEF Sound
<1>2. k.sent + 1 \in Nat
  BY <1>1 DEF TaskStates
<1>3. n \in TaskStates
  BY <1>1, <1>2 DEF TaskStates, Hops
<1>4. /\ n.pc = "exchange" /\ n.conn = {c} /\ n.sent = k.sent + 1
      /\ n.q = k.q /\ n.rt = k.rt /\ n.scanned = k.scanned /\ n.asked = k.asked
      /\ n.charged = k.charged /\ n.held = k.held /\ n.left = k.left /\ n.pending = k.pending
      /\ n.next = k.next /\ n.nth = k.nth /\ n.pool = k.pool /\ n.connected = k.connected
      /\ n.at = k.at /\ n.policy = k.policy
  BY <1>1 DEF TaskStates
<1>5. k.left \in Nat /\ k.sent \in Nat /\ k.rt \in Routes /\ k.q \in Facts /\ k.rt.max_retries \in Nat
  BY <1>1 DEF TaskStates, Routes
<1> HIDE DEF n
<1>6. Checked(n)
  BY <1>1, <1>4, <1>5, <1>2 DEF Checked, Passed, Before, Leased, Giving
<1>7. Spent(n)
  BY <1>1, <1>4, <1>5, <1>2 DEF Spent, Early, Before, Trying, Leased, Giving
<1>8. Holds(n)
  BY <1>1, <1>4, <1>5, <1>2 DEF Holds, Leased, Giving
<1> QED
  BY <1>3, <1>4, <1>6, <1>7, <1>8 DEF Sound, Kept, n

\* No connection came up.
LEMMA RefusedLets ==
  ASSUME NEW k, Sound(k), k.pc = "dial", NEW status \in Statuses
  PROVE  LET n == [k EXCEPT !.pc = "count", !.connected = FALSE, !.status = status]
         IN  Sound(n) /\ n.pc = "count" /\ n.conn = k.conn /\ n.pool = k.pool
             /\ n.pending = k.pending /\ Kept(k, n)
<1> DEFINE n == [k EXCEPT !.pc = "count", !.connected = FALSE, !.status = status]
<1>1. k \in TaskStates /\ Checked(k) /\ Spent(k) /\ Holds(k)
  BY DEF Sound
<1>3. n \in TaskStates
  BY <1>1 DEF TaskStates, Hops
<1>4. /\ n.pc = "count" /\ n.connected = FALSE
      /\ n.q = k.q /\ n.rt = k.rt /\ n.scanned = k.scanned /\ n.asked = k.asked
      /\ n.charged = k.charged /\ n.held = k.held /\ n.left = k.left /\ n.sent = k.sent
      /\ n.conn = k.conn /\ n.pending = k.pending /\ n.next = k.next /\ n.nth = k.nth
      /\ n.pool = k.pool /\ n.at = k.at /\ n.policy = k.policy
  BY <1>1 DEF TaskStates
<1>5. k.left \in Nat /\ k.sent \in Nat /\ k.rt \in Routes /\ k.q \in Facts /\ k.rt.max_retries \in Nat
  BY <1>1 DEF TaskStates, Routes
<1> HIDE DEF n
<1>6. Checked(n)
  BY <1>1, <1>4, <1>5 DEF Checked, Passed, Before, Leased, Giving
<1>7. Spent(n)
  BY <1>1, <1>4, <1>5 DEF Spent, Early, Before, Trying, Leased, Giving
<1>8. Holds(n)
  BY <1>1, <1>4, <1>5 DEF Holds, Leased, Giving
<1> QED
  BY <1>3, <1>4, <1>6, <1>7, <1>8 DEF Sound, Kept, n

\* A request with its answer.
WithAnswer(k, pc, status) ==
  [k EXCEPT !.pc = pc, !.status = status]

\* The backend has answered.
LEMMA AnswerLets ==
  ASSUME NEW k, Sound(k), k.pc = "exchange", NEW pc \in {"count", "settle"}, NEW status \in Statuses
  PROVE  LET n == WithAnswer(k, pc, status)
         IN  Sound(n) /\ n.pc = pc /\ n.conn = k.conn /\ n.pool = k.pool
             /\ n.pending = k.pending /\ Kept(k, n)
<1> DEFINE n == WithAnswer(k, pc, status)
<1>1. k \in TaskStates /\ Checked(k) /\ Spent(k) /\ Holds(k)
  BY DEF Sound
<1>3. n \in TaskStates
  BY <1>1 DEF TaskStates, Hops, WithAnswer
<1>4. /\ n.pc = pc
      /\ n.q = k.q /\ n.rt = k.rt /\ n.scanned = k.scanned /\ n.asked = k.asked
      /\ n.charged = k.charged /\ n.held = k.held /\ n.left = k.left /\ n.sent = k.sent
      /\ n.conn = k.conn /\ n.pending = k.pending /\ n.next = k.next /\ n.nth = k.nth
      /\ n.pool = k.pool /\ n.connected = k.connected /\ n.at = k.at /\ n.policy = k.policy
  BY <1>1 DEF TaskStates, WithAnswer
<1>5. k.left \in Nat /\ k.sent \in Nat /\ k.rt \in Routes /\ k.q \in Facts /\ k.rt.max_retries \in Nat
  BY <1>1 DEF TaskStates, Routes
<1> HIDE DEF n
<1>6. Checked(n)
  BY <1>1, <1>4, <1>5 DEF Checked, Passed, Before, Leased, Giving
<1>7. Spent(n)
  BY <1>1, <1>4, <1>5 DEF Spent, Early, Before, Trying, Leased, Giving
<1>8. Holds(n)
  BY <1>1, <1>4, <1>5 DEF Holds, Leased, Giving
<1> QED
  BY <1>3, <1>4, <1>6, <1>7, <1>8 DEF Sound, Kept, n

\* The endpoint is marked and will be disabled.
LEMMA MarkLets ==
  ASSUME NEW k, Sound(k), k.pc = "mark", NEW nth \in 1 .. MaxCount
  PROVE  LET n == [k EXCEPT !.pc = "disable", !.nth = nth]
         IN  Sound(n) /\ n.pc = "disable" /\ n.conn = k.conn /\ n.pool = k.pool
             /\ n.pending = k.pending /\ Kept(k, n)
<1> DEFINE n == [k EXCEPT !.pc = "disable", !.nth = nth]
<1>1. k \in TaskStates /\ Checked(k) /\ Spent(k) /\ Holds(k)
  BY DEF Sound
<1>2. nth \in 0 .. MaxCount /\ nth >= 1
  BY Given
<1>3. n \in TaskStates
  BY <1>1, <1>2 DEF TaskStates, Hops
<1>4. /\ n.pc = "disable" /\ n.nth = nth
      /\ n.q = k.q /\ n.rt = k.rt /\ n.scanned = k.scanned /\ n.asked = k.asked
      /\ n.charged = k.charged /\ n.held = k.held /\ n.left = k.left /\ n.sent = k.sent
      /\ n.conn = k.conn /\ n.pending = k.pending /\ n.next = k.next /\ n.pool = k.pool
      /\ n.connected = k.connected /\ n.at = k.at /\ n.policy = k.policy
  BY <1>1 DEF TaskStates
<1>5. k.left \in Nat /\ k.sent \in Nat /\ k.rt \in Routes /\ k.q \in Facts /\ k.rt.max_retries \in Nat
  BY <1>1 DEF TaskStates, Routes
<1> HIDE DEF n
<1>6. Checked(n)
  BY <1>1, <1>4, <1>5, <1>2 DEF Checked, Passed, Before, Leased, Giving
<1>7. Spent(n)
  BY <1>1, <1>4, <1>5, <1>2 DEF Spent, Early, Before, Trying, Leased, Giving
<1>8. Holds(n)
  BY <1>1, <1>4, <1>5, <1>2 DEF Holds, Leased, Giving
<1> QED
  BY <1>3, <1>4, <1>6, <1>7, <1>8 DEF Sound, Kept, n

\* A connection that did not come up is tried again, for one of the retries.
LEMMA RetryLets ==
  ASSUME NEW k, Sound(k), k.pc = "settle", k.left > 0, ~k.connected
  PROVE  LET n == [k EXCEPT !.pc = "pick", !.connected = TRUE, !.left = k.left - 1]
         IN  Sound(n) /\ n.pc = "pick" /\ n.conn = k.conn /\ n.pool = k.pool
             /\ n.pending = k.pending /\ Kept(k, n)
<1> DEFINE n == [k EXCEPT !.pc = "pick", !.connected = TRUE, !.left = k.left - 1]
<1>1. k \in TaskStates /\ Checked(k) /\ Spent(k) /\ Holds(k)
  BY DEF Sound
<1>2. k.left - 1 \in Nat
  BY <1>1 DEF TaskStates
<1>3. n \in TaskStates
  BY <1>1, <1>2 DEF TaskStates, Hops
<1>4. /\ n.pc = "pick" /\ n.connected = TRUE /\ n.left = k.left - 1
      /\ n.q = k.q /\ n.rt = k.rt /\ n.scanned = k.scanned /\ n.asked = k.asked
      /\ n.charged = k.charged /\ n.held = k.held /\ n.sent = k.sent /\ n.conn = k.conn
      /\ n.pending = k.pending /\ n.next = k.next /\ n.nth = k.nth /\ n.pool = k.pool /\ n.at = k.at
      /\ n.policy = k.policy
  BY <1>1 DEF TaskStates
<1>5. k.left \in Nat /\ k.sent \in Nat /\ k.rt \in Routes /\ k.q \in Facts /\ k.rt.max_retries \in Nat
  BY <1>1 DEF TaskStates, Routes
<1> HIDE DEF n
<1>6. Checked(n)
  BY <1>1, <1>4, <1>5, <1>2 DEF Checked, Passed, Before, Leased, Giving
<1>7. Spent(n)
  BY <1>1, <1>4, <1>5, <1>2 DEF Spent, Early, Before, Trying, Leased, Giving
<1>8. Holds(n)
  BY <1>1, <1>4, <1>5, <1>2 DEF Holds, Leased, Giving
<1> QED
  BY <1>3, <1>4, <1>6, <1>7, <1>8 DEF Sound, Kept, n

\* A response that is retried is dropped, and its connection with it.
LEMMA RetryDrops ==
  ASSUME NEW k, Sound(k), k.pc = "settle", k.left > 0, k.connected
  PROVE  LET n == [k EXCEPT !.pc = "pick", !.conn = {}, !.left = k.left - 1]
         IN  Sound(n) /\ n.pc = "pick" /\ n.conn = {} /\ n.pool = k.pool
             /\ n.pending = k.pending /\ Kept(k, n)
<1> DEFINE n == [k EXCEPT !.pc = "pick", !.conn = {}, !.left = k.left - 1]
<1>1. k \in TaskStates /\ Checked(k) /\ Spent(k) /\ Holds(k)
  BY DEF Sound
<1>2. k.left - 1 \in Nat
  BY <1>1 DEF TaskStates
<1>3. n \in TaskStates
  BY <1>1, <1>2 DEF TaskStates, Hops
<1>4. /\ n.pc = "pick" /\ n.conn = {} /\ n.left = k.left - 1
      /\ n.q = k.q /\ n.rt = k.rt /\ n.scanned = k.scanned /\ n.asked = k.asked
      /\ n.charged = k.charged /\ n.held = k.held /\ n.sent = k.sent /\ n.pending = k.pending
      /\ n.next = k.next /\ n.nth = k.nth /\ n.pool = k.pool /\ n.connected = k.connected
      /\ n.at = k.at /\ n.policy = k.policy
  BY <1>1 DEF TaskStates
<1>5. k.left \in Nat /\ k.sent \in Nat /\ k.rt \in Routes /\ k.q \in Facts /\ k.rt.max_retries \in Nat
  BY <1>1 DEF TaskStates, Routes
<1> HIDE DEF n
<1>6. Checked(n)
  BY <1>1, <1>4, <1>5, <1>2 DEF Checked, Passed, Before, Leased, Giving
<1>7. Spent(n)
  BY <1>1, <1>4, <1>5, <1>2 DEF Spent, Early, Before, Trying, Leased, Giving
<1>8. Holds(n)
  BY <1>1, <1>4, <1>5, <1>2 DEF Holds, Leased, Giving
<1> QED
  BY <1>3, <1>4, <1>6, <1>7, <1>8 DEF Sound, Kept, n

\* A request that goes on once its connection is given back.
WithReturn(k, next, left) ==
  [k EXCEPT !.pc = "return", !.next = next, !.left = left]

\* A task gives its connection back before it goes on.
LEMMA GivesBack ==
  ASSUME NEW k, Sound(k), k.pc \in Leased, k.connected, NEW next \in {"idle", "pick"},
         NEW left \in Nat, next = "pick" => k.pc = "settle" /\ left = k.left - 1
  PROVE  LET n == WithReturn(k, next, left)
         IN  Sound(n) /\ n.pc = "return" /\ n.conn = k.conn /\ n.pool = k.pool
             /\ n.pending = k.pending /\ Kept(k, n)
<1> DEFINE n == WithReturn(k, next, left)
<1>1. k \in TaskStates /\ Checked(k) /\ Spent(k) /\ Holds(k)
  BY DEF Sound
<1>3. n \in TaskStates
  BY <1>1 DEF TaskStates, Hops, WithReturn
<1>4. /\ n.pc = "return" /\ n.next = next /\ n.left = left
      /\ n.q = k.q /\ n.rt = k.rt /\ n.scanned = k.scanned /\ n.asked = k.asked
      /\ n.charged = k.charged /\ n.held = k.held /\ n.sent = k.sent /\ n.conn = k.conn
      /\ n.pending = k.pending /\ n.nth = k.nth /\ n.pool = k.pool /\ n.connected = k.connected
      /\ n.at = k.at /\ n.policy = k.policy
  BY <1>1 DEF TaskStates, WithReturn
<1>5. k.left \in Nat /\ k.sent \in Nat /\ k.rt \in Routes /\ k.q \in Facts /\ k.rt.max_retries \in Nat
  BY <1>1 DEF TaskStates, Routes
<1> HIDE DEF n
<1>6. Checked(n)
  BY <1>1, <1>4, <1>5 DEF Checked, Passed, Before, Leased, Giving
<1>7. Spent(n)
  BY <1>1, <1>4, <1>5 DEF Spent, Early, Before, Trying, Leased, Giving
<1>8. Holds(n)
  BY <1>1, <1>4, <1>5 DEF Holds, Leased, Giving
<1> QED
  BY <1>3, <1>4, <1>6, <1>7, <1>8 DEF Sound, Kept, n

\* A request that has removed idle connections, or has subtracted them.
WithPending(k, pc, pending) ==
  [k EXCEPT !.pc = pc, !.pending = pending]

\* What a task that gives a connection back does next.
LEMMA Gives ==
  ASSUME NEW k, Sound(k), NEW pc \in {"subtract", "push"},
         NEW pending \in Nat, IF pc = "subtract" THEN k.pc = "return" /\ pending > 0 ELSE k.pc = "subtract" /\ pending = 0
  PROVE  LET n == WithPending(k, pc, pending)
         IN  Sound(n) /\ n.pc = pc /\ n.conn = k.conn /\ n.pool = k.pool
             /\ n.pending = pending /\ Kept(k, n)
<1> DEFINE n == WithPending(k, pc, pending)
<1>1. k \in TaskStates /\ Checked(k) /\ Spent(k) /\ Holds(k)
  BY DEF Sound
<1>3. n \in TaskStates
  BY <1>1 DEF TaskStates, Hops, WithPending
<1>4. /\ n.pc = pc /\ n.pending = pending
      /\ n.q = k.q /\ n.rt = k.rt /\ n.scanned = k.scanned /\ n.asked = k.asked
      /\ n.charged = k.charged /\ n.held = k.held /\ n.left = k.left /\ n.sent = k.sent
      /\ n.conn = k.conn /\ n.next = k.next /\ n.nth = k.nth /\ n.pool = k.pool
      /\ n.connected = k.connected /\ n.at = k.at /\ n.policy = k.policy
  BY <1>1 DEF TaskStates, WithPending
<1>5. k.left \in Nat /\ k.sent \in Nat /\ k.rt \in Routes /\ k.q \in Facts /\ k.rt.max_retries \in Nat
  BY <1>1 DEF TaskStates, Routes
<1> HIDE DEF n
<1>6. Checked(n)
  BY <1>1, <1>4, <1>5 DEF Checked, Passed, Before, Leased, Giving
<1>7. Spent(n)
  BY <1>1, <1>4, <1>5 DEF Spent, Early, Before, Trying, Leased, Giving
<1>8. Holds(n)
  BY <1>1, <1>4, <1>5 DEF Holds, Leased, Giving
<1> QED
  BY <1>3, <1>4, <1>6, <1>7, <1>8 DEF Sound, Kept, n

\* It has found the target of the oldest idle connection.
LEMMA Finds ==
  ASSUME NEW k, Sound(k), k.pc = "return", NEW key \in Targets
  PROVE  LET n == [k EXCEPT !.pc = "oldest", !.key = key]
         IN  Sound(n) /\ n.pc = "oldest" /\ n.conn = k.conn /\ n.pool = k.pool
             /\ n.pending = k.pending /\ Kept(k, n)
<1> DEFINE n == [k EXCEPT !.pc = "oldest", !.key = key]
<1>1. k \in TaskStates /\ Checked(k) /\ Spent(k) /\ Holds(k)
  BY DEF Sound
<1>3. n \in TaskStates
  BY <1>1 DEF TaskStates, Hops
<1>4. /\ n.pc = "oldest"
      /\ n.q = k.q /\ n.rt = k.rt /\ n.scanned = k.scanned /\ n.asked = k.asked
      /\ n.charged = k.charged /\ n.held = k.held /\ n.left = k.left /\ n.sent = k.sent
      /\ n.conn = k.conn /\ n.pending = k.pending /\ n.next = k.next /\ n.nth = k.nth
      /\ n.pool = k.pool /\ n.connected = k.connected /\ n.at = k.at /\ n.policy = k.policy
  BY <1>1 DEF TaskStates
<1>5. k.left \in Nat /\ k.sent \in Nat /\ k.rt \in Routes /\ k.q \in Facts /\ k.rt.max_retries \in Nat
  BY <1>1 DEF TaskStates, Routes
<1> HIDE DEF n
<1>6. Checked(n)
  BY <1>1, <1>4, <1>5 DEF Checked, Passed, Before, Leased, Giving
<1>7. Spent(n)
  BY <1>1, <1>4, <1>5 DEF Spent, Early, Before, Trying, Leased, Giving
<1>8. Holds(n)
  BY <1>1, <1>4, <1>5 DEF Holds, Leased, Giving
<1> QED
  BY <1>3, <1>4, <1>6, <1>7, <1>8 DEF Sound, Kept, n

\* It has given its connection back and tries again.
LEMMA GoesToPick ==
  ASSUME NEW k, Sound(k), k.pc \in Giving, k.next = "pick"
  PROVE  LET n == [k EXCEPT !.pc = "pick", !.conn = {}, !.next = "idle", !.pending = 0]
         IN  Sound(n) /\ n.pc = "pick" /\ n.conn = {} /\ n.pool = k.pool
             /\ n.pending = 0 /\ Kept(k, n)
<1> DEFINE n == [k EXCEPT !.pc = "pick", !.conn = {}, !.next = "idle", !.pending = 0]
<1>1. k \in TaskStates /\ Checked(k) /\ Spent(k) /\ Holds(k)
  BY DEF Sound
<1>3. n \in TaskStates
  BY <1>1 DEF TaskStates, Hops
<1>4. /\ n.pc = "pick" /\ n.conn = {} /\ n.next = "idle" /\ n.pending = 0
      /\ n.q = k.q /\ n.rt = k.rt /\ n.scanned = k.scanned /\ n.asked = k.asked
      /\ n.charged = k.charged /\ n.held = k.held /\ n.left = k.left /\ n.sent = k.sent
      /\ n.nth = k.nth /\ n.pool = k.pool /\ n.connected = k.connected /\ n.at = k.at
      /\ n.policy = k.policy
  BY <1>1 DEF TaskStates
<1>5. k.left \in Nat /\ k.sent \in Nat /\ k.rt \in Routes /\ k.q \in Facts /\ k.rt.max_retries \in Nat
  BY <1>1 DEF TaskStates, Routes
<1> HIDE DEF n
<1>6. Checked(n)
  BY <1>1, <1>4, <1>5 DEF Checked, Passed, Before, Leased, Giving
<1>7. Spent(n)
  BY <1>1, <1>4, <1>5 DEF Spent, Early, Before, Trying, Leased, Giving
<1>8. Holds(n)
  BY <1>1, <1>4, <1>5 DEF Holds, Leased, Giving
<1> QED
  BY <1>3, <1>4, <1>6, <1>7, <1>8 DEF Sound, Kept, n

----------------------------------------------------------------------------
(* The requests' steps *)

\* The connections as far as they do not depend on idle_total.
ConnsTyped ==
  /\ conns \in [Conns -> [state : ConnStates, target : Targets, policy : Policies]]
  /\ idle \subseteq Conns /\ expired \subseteq idle /\ older \subseteq idle \X idle
  /\ h2 \in [Targets -> SUBSET Conns]
  /\ evicting \in Nat

Typed ==
  /\ Fits
  /\ raced \subseteq PoolIds
  /\ EndpointsTypeOK
  /\ ConnsTyped

\* Every request is sound and holds a pool that was built.
RequestsSound ==
  /\ task \in [Tasks -> TaskStates]
  /\ \A r \in Tasks : Sound(task[r]) /\ task[r].pool <= built

\* Task r becomes k.
Becomes(r, k) ==
  /\ task' = [task EXCEPT ![r] = k]
  /\ Sound(k) /\ k.pool <= built

\* A step of task r to a place where nothing else changes.
LEMMA GotoIs ==
  ASSUME RequestsSound, NEW r \in Tasks, NEW pc, Goto(r, pc), <<task[r].pc, pc>> \in Onward,
         task[r].pc = "identify" => ~(task[r].rt.key_required /\ task[r].q.key # "good"),
         pc = "body" => task[r].connected
  PROVE  \E k : /\ Becomes(r, k) /\ k.pc = pc /\ Kept(task[r], k)
                /\ k.conn = task[r].conn /\ k.pool = task[r].pool /\ k.pending = task[r].pending
<1> DEFINE k == [task[r] EXCEPT !.pc = pc]
<1>1. Sound(task[r]) /\ task[r].pool <= built
  BY DEF RequestsSound
<1>2. task' = [task EXCEPT ![r] = k]
  BY DEF Goto
<1>3. /\ Sound(k) /\ k.pc = pc /\ Kept(task[r], k)
      /\ k.conn = task[r].conn /\ k.pool = task[r].pool /\ k.pending = task[r].pending
  BY <1>1, GoesOn
<1> HIDE DEF k
<1> QED
  BY <1>1, <1>2, <1>3 DEF Becomes

\* A task whose request has ended.
LEMMA FinishIs ==
  ASSUME Typed, NEW r \in Tasks, Finish(r)
  PROVE  \E k : Becomes(r, k) /\ k.pc = "idle" /\ k = Idling
<1>1. PICK q : q \in Facts
  BY World DEF Typed, Fits
<1>2. Sound(Idling) /\ Idling.pc = "idle" /\ Idling.pool = 1
  BY <1>1, Newcomers DEF Typed
<1>3. task' = [task EXCEPT ![r] = Idling]
  BY DEF Finish
<1>4. 1 <= built
  BY Given DEF Typed, Fits, PoolIds
<1> QED
  BY <1>2, <1>3, <1>4 DEF Becomes

\* The steps of a request up to its dispatch.
LEMMA EarlySteps ==
  ASSUME Typed, RequestsSound, NEW r \in Tasks,
         \/ Receive(r) \/ PlanRequest(r) \/ Scan(r) \/ Ask(r) \/ Admit(r) \/ Identify(r) \/ ChargeBudget(r)
         \/ Rewrite(r) \/ Dispatch(r) \/ Fanout(r)
  PROVE  task[r].pc \in Early /\ \E k : Becomes(r, k) /\ k.pc \in Early \cup Trying
<1>0. /\ Sound(task[r]) /\ task[r].pool <= built /\ task[r] \in TaskStates
      /\ task[r].rt \in Routes /\ task[r].q \in Facts /\ task[r].rt.max_retries \in Nat
  BY DEF RequestsSound, Sound, TaskStates, Routes
<1>8. task[r].pc \in Early
  BY DEF Receive, PlanRequest, Scan, Ask, Admit, Identify, ChargeBudget, Rewrite, Dispatch, Fanout, Early, Before
<1> SUFFICES \E k : Becomes(r, k) /\ k.pc \in Early \cup Trying
  BY <1>8
<1>9. {"idle", "plan", "scan", "ask", "admit", "identify", "budget", "rewrite", "dispatch", "fanout", "pick"}
        \subseteq Early \cup Trying
  BY DEF Early, Trying, Before
<1>1. CASE Receive(r)
  <2>1. PICK q \in world.traffic : task' = [task EXCEPT ![r] = NewTask(q)]
    BY <1>1 DEF Receive
  <2>2. q \in Facts
    BY World DEF Typed, Fits
  <2>3. Sound(NewTask(q)) /\ NewTask(q).pc = "plan" /\ NewTask(q).pool = built
    BY <2>2, Newcomers DEF Typed
  <2>4. built <= built
    BY DEF Typed, Fits, PoolIds
  <2> QED
    BY <1>9, <2>1, <2>3, <2>4 DEF Becomes
<1>2. CASE PlanRequest(r)
  <2> DEFINE plan == plan_request(Snapshot.route, task[r].q, task[r].scanned)
  <2>1. CASE plan.kind = "respond" /\ Finish(r)
    BY <1>9, <2>1, FinishIs
  <2>2. CASE task[r].pc = "plan" /\ plan.kind = "needs_body" /\ Goto(r, "scan")
    <3>1. <<task[r].pc, "scan">> \in Onward
      BY <2>2 DEF Onward
    <3> QED
      BY <1>9, <2>2, <3>1, GotoIs
  <2>3. ASSUME task[r].pc = "plan", plan.kind \in {"ask", "admit"},
               task' = [task EXCEPT ![r] = [@ EXCEPT !.pc = plan.kind, !.rt = Snapshot.route,
                                                     !.pool = built, !.policy = Snapshot.policy]]
        PROVE  \E k : Becomes(r, k) /\ k.pc \in Early \cup Trying
    <3>1. Snapshot.route \in Routes /\ Snapshot.policy \in Policies /\ built \in PoolIds /\ built <= built
      BY World DEF Typed, Fits, Snapshot, PoolIds
    <3> DEFINE rt == Snapshot.route
               policy == Snapshot.policy
               kind == plan.kind
               k == WithPlan(task[r], kind, rt, built, policy)
    <3>3. task' = [task EXCEPT ![r] = k]
      BY <2>3 DEF WithPlan
    <3>4. plan_request(rt, task[r].q, task[r].scanned).kind = kind /\ kind \in {"ask", "admit"}
      BY <2>3
    <3> HIDE DEF rt, policy, kind, plan
    <3>5. rt \in Routes /\ policy \in Policies
      BY <3>1 DEF rt, policy
    <3>2. Sound(k) /\ k.pc = kind /\ k.pool = built
      BY <1>0, <2>3, <3>1, <3>4, <3>5, PlanLets
    <3> QED
      BY <1>9, <3>1, <3>2, <3>3, <3>4 DEF Becomes
  <2> QED
    BY <1>2, <2>1, <2>2, <2>3 DEF PlanRequest
<1>3. CASE Scan(r)
  <2>1. ASSUME task' = [task EXCEPT ![r].pc = "plan", ![r].scanned = TRUE]
        PROVE  \E k : Becomes(r, k) /\ k.pc \in Early \cup Trying
    <3> DEFINE k == [task[r] EXCEPT !.pc = "plan", !.scanned = TRUE]
    <3>1. Sound(k) /\ k.pc = "plan" /\ k.pool = task[r].pool
      BY <1>0, <1>3, ScanLets DEF Scan
    <3>2. task' = [task EXCEPT ![r] = k]
      BY <2>1
    <3> QED
      BY <1>9, <1>0, <3>1, <3>2 DEF Becomes
  <2> QED
    BY <1>9, <1>3, <2>1, FinishIs DEF Scan
<1>4. CASE Ask(r)
  <2>1. PICK answer \in {"allow", "deny", "silent"} :
          IF check(task[r].rt, answer).kind = "respond" THEN Finish(r)
          ELSE task' = [task EXCEPT ![r].pc = "admit", ![r].asked = check(task[r].rt, answer).kind]
    BY <1>4 DEF Ask
  <2>2. CASE check(task[r].rt, answer).kind = "respond"
    BY <1>9, <2>1, <2>2, FinishIs
  <2>3. CASE check(task[r].rt, answer).kind # "respond"
    <3> DEFINE by == check(task[r].rt, answer).kind
               k == [task[r] EXCEPT !.pc = "admit", !.asked = by]
    <3>1. by \in {"allow", "open"} /\ (by = "open" => task[r].rt.ext_auth = "open")
      BY <1>0, <2>3, AskPasses
    <3>2. Sound(k) /\ k.pc = "admit" /\ k.pool = task[r].pool
      BY <1>0, <1>4, <3>1, AskLets DEF Ask
    <3>3. task' = [task EXCEPT ![r] = k]
      BY <2>1, <2>3
    <3> QED
      BY <1>9, <1>0, <3>2, <3>3 DEF Becomes
  <2> QED
    BY <2>2, <2>3
<1>5. CASE Admit(r)
  <2>1. ASSUME task[r].rt.backend,
               task' = [task EXCEPT ![r].pc = "identify", ![r].charged = task[r].rt.rate_limited]
        PROVE  \E k : Becomes(r, k) /\ k.pc \in Early \cup Trying
    <3> DEFINE k == [task[r] EXCEPT !.pc = "identify", !.charged = task[r].rt.rate_limited]
    <3>1. Sound(k) /\ k.pc = "identify" /\ k.pool = task[r].pool
      BY <1>0, <1>5, <2>1, AdmitLets DEF Admit
    <3>2. task' = [task EXCEPT ![r] = k]
      BY <2>1
    <3> QED
      BY <1>9, <1>0, <3>1, <3>2 DEF Becomes
  <2> QED
    BY <1>9, <1>5, <2>1, FinishIs DEF Admit
<1>6. CASE Identify(r) \/ ChargeBudget(r) \/ Rewrite(r) \/ Fanout(r)
  <2>1. \/ Finish(r)
        \/ \E pc : /\ <<task[r].pc, pc>> \in Onward /\ Goto(r, pc)
                   /\ task[r].pc = "identify" => ~(task[r].rt.key_required /\ task[r].q.key # "good")
                   /\ pc \in {"budget", "dispatch", "rewrite"}
    BY <1>6 DEF Identify, ChargeBudget, Rewrite, Fanout, Onward
  <2>2. CASE Finish(r)
    BY <1>9, <2>2, FinishIs
  <2>3. CASE ~Finish(r)
    <3>1. PICK pc : /\ <<task[r].pc, pc>> \in Onward /\ Goto(r, pc)
                    /\ task[r].pc = "identify" => ~(task[r].rt.key_required /\ task[r].q.key # "good")
                    /\ pc \in {"budget", "dispatch", "rewrite"}
      BY <2>1, <2>3
    <3>2. \E k : Becomes(r, k) /\ k.pc = pc
      BY <1>9, <3>1, GotoIs
    <3> QED
      BY <1>9, <3>1, <3>2
  <2> QED
    BY <2>2, <2>3
<1>7. CASE Dispatch(r)
  <2> DEFINE rt == task[r].rt
             held == rt.max_retries > 0 /\ task[r].q.body \in {"none", "short"}
             left == IF held THEN rt.max_retries ELSE 0
  <2>1. CASE Goto(r, "fanout")
    <3>1. <<task[r].pc, "fanout">> \in Onward /\ task[r].pc # "identify"
      BY <1>7 DEF Dispatch, Onward
    <3> QED
      BY <1>9, <2>1, <3>1, GotoIs
  <2>2. CASE \E tag \in IF rt.session_affinity /\ task[r].q.session THEN {{a} : a \in Addrs} ELSE {NoTag} :
               task' = [task EXCEPT ![r].pc = "pick", ![r].held = held, ![r].tag = tag, ![r].left = left]
    <3> DEFINE tags == IF rt.session_affinity /\ task[r].q.session THEN {{a} : a \in Addrs} ELSE {NoTag}
    <3>0. \A tag \in tags : tag \in SUBSET Addrs
      BY DEF NoTag
    <3> HIDE DEF tags
    <3>1. PICK tag \in tags :
            task' = [task EXCEPT ![r].pc = "pick", ![r].held = held, ![r].tag = tag, ![r].left = left]
      BY <2>2 DEF tags
    <3>5. tag \in SUBSET Addrs /\ task[r].pc = "dispatch"
      BY <1>7, <3>0, <3>1 DEF Dispatch
    <3>2. held \in BOOLEAN /\ left \in Nat /\ left <= task[r].rt.max_retries /\ (~held => left = 0)
      BY <1>0
    <3> HIDE DEF held, left
    <3> DEFINE k == WithRetries(task[r], held, tag, left)
    <3>3. Sound(k) /\ k.pc = "pick" /\ k.pool = task[r].pool
      BY <1>0, <3>2, <3>5, DispatchLets
    <3>4. task' = [task EXCEPT ![r] = k]
      BY <3>1 DEF WithRetries
    <3> QED
      BY <1>9, <1>0, <3>3, <3>4 DEF Becomes
  <2> QED
    BY <1>9, <1>7, <2>1, <2>2, FinishIs DEF Dispatch
<1> QED
  BY <1>1, <1>2, <1>3, <1>4, <1>5, <1>6, <1>7

\* Task r becomes k and nothing is counted: it goes on with what it has, or
\* lets its connection go.
Quietly(r, k) ==
  /\ Becomes(r, k)
  /\ k.pending = task[r].pending
  /\ k.conn = {} \/ (k.conn = task[r].conn /\ Kept(task[r], k))
  /\ task[r].pc # "push" /\ k.pc # "push"
  /\ k.pc \in Giving => \A c \in k.conn : ~conns[c].target.h2

\* What holds of a request where nothing is leased or returned.
LEMMA NothingHeld ==
  ASSUME NEW k, Sound(k)
  PROVE  /\ k.pc \in Early \cup Trying => k.conn = {}
         /\ k.pc \notin {"subtract"} => k.pending = 0
         /\ k.pending \in Nat
<1>1. k \in TaskStates /\ Holds(k)
  BY DEF Sound
<1>2. k.pending \in Nat
  BY <1>1 DEF TaskStates
<1> QED
  BY <1>1, <1>2 DEF Holds, Early, Before, Trying, Leased, Giving

\* A step that ends a request lets go of what it has.
LEMMA FinishQuiet ==
  ASSUME Typed, RequestsSound, NEW r \in Tasks, Finish(r), task[r].pc \notin {"push", "subtract"}
  PROVE  \E k : Quietly(r, k) /\ k.pc = "idle"
<1>1. PICK k : Becomes(r, k) /\ k.pc = "idle" /\ k = Idling
  BY FinishIs
<1>2. Sound(k) /\ Sound(task[r])
  BY <1>1 DEF Becomes, RequestsSound
<1>3. k.conn = {} /\ k.pending = 0 /\ task[r].pending = 0
  BY <1>1, <1>2, NothingHeld DEF Early, Before
<1> QED
  BY <1>1, <1>3 DEF Quietly, Giving

\* The steps up to the dispatch are quiet.
LEMMA EarlyQuiet ==
  ASSUME Typed, RequestsSound, NEW r \in Tasks,
         \/ Receive(r) \/ PlanRequest(r) \/ Scan(r) \/ Ask(r) \/ Admit(r) \/ Identify(r) \/ ChargeBudget(r)
         \/ Rewrite(r) \/ Dispatch(r) \/ Fanout(r)
  PROVE  \E k : Quietly(r, k) /\ k.pc \notin {"mark", "disable"}
<1>1. PICK k : Becomes(r, k) /\ k.pc \in Early \cup Trying /\ task[r].pc \in Early
  BY EarlySteps
<1>2. Sound(k) /\ Sound(task[r])
  BY <1>1 DEF Becomes, RequestsSound
<1>3. /\ k.pc \notin {"mark", "disable", "subtract", "push"}
      /\ task[r].pc \notin {"subtract", "push"}
  BY <1>1 DEF Early, Before, Trying
<1>4. k.conn = {} /\ k.pending = 0 /\ task[r].pending = 0
  BY <1>1, <1>2, <1>3, NothingHeld
<1> QED
  BY <1>1, <1>3, <1>4 DEF Quietly

\* A dropped lease: the connection is gone, or on its way back to the pool.
LEMMA DropQuiet ==
  ASSUME Typed, RequestsSound, NEW r \in Tasks, NEW next, NEW how, NEW cost, Drop(r, next, how, cost),
         task[r].pc \in Leased,
         \/ next = "idle" /\ cost = 0
         \/ next = "pick" /\ cost = 1 /\ task[r].pc = "settle" /\ task[r].left > 0
  PROVE  \E k : Quietly(r, k) /\ k.pc \notin {"mark", "disable"}
<1>0. Sound(task[r]) /\ task[r].pool <= built /\ task[r] \in TaskStates /\ task[r].left \in Nat /\ Holds(task[r])
  BY DEF RequestsSound, Sound, TaskStates
<1>1. PICK c \in task[r].conn : task' = [task EXCEPT ![r] = Dropping(r, c, next, Left(c, how), cost)]
  BY DEF Drop
<1>2. task[r].connected /\ task[r].pc \notin {"push", "subtract"}
  BY <1>0, <1>1 DEF Holds, Leased
<1> DEFINE left == task[r].left - cost
           dead == conns[c].target.h2 \/ Left(c, how) = "closed" \/ task[r].status = 101
<1>3. left \in Nat /\ (next = "pick" => task[r].pc = "settle" /\ left = task[r].left - 1) /\ next \in {"idle", "pick"}
  BY <1>0
<1>4. CASE dead /\ next = "idle"
  <2>1. Finish(r)
    BY <1>1, <1>4 DEF Dropping, Finish
  <2> QED
    BY <1>2, <2>1, FinishQuiet
<1>5. CASE dead /\ next = "pick"
  <2> DEFINE k == [task[r] EXCEPT !.pc = "pick", !.conn = {}, !.left = task[r].left - 1]
  <2>1. task' = [task EXCEPT ![r] = k]
    BY <1>1, <1>5 DEF Dropping
  <2>2. Sound(k) /\ k.pc = "pick" /\ k.conn = {} /\ k.pool = task[r].pool /\ k.pending = task[r].pending
    BY <1>0, <1>2, <1>5, RetryDrops
  <2> HIDE DEF k
  <2> QED
    BY <1>0, <1>2, <2>1, <2>2 DEF Quietly, Becomes, Giving
<1>6. CASE ~dead
  <2> DEFINE k == WithReturn(task[r], next, left)
  <2>1. task' = [task EXCEPT ![r] = k]
    BY <1>1, <1>6 DEF Dropping, WithReturn
  <2> HIDE DEF left
  <2>2. /\ Sound(k) /\ k.pc = "return" /\ k.conn = task[r].conn /\ k.pool = task[r].pool
        /\ k.pending = task[r].pending /\ Kept(task[r], k)
    BY <1>0, <1>2, <1>3, GivesBack
  <2> HIDE DEF k
  <2>3. \A d \in k.conn : ~conns[d].target.h2
    BY <1>0, <1>6, <2>2 DEF Holds
  <2> QED
    BY <1>0, <1>2, <2>1, <2>2, <2>3 DEF Quietly, Becomes, Giving
<1> QED
  BY <1>3, <1>4, <1>5, <1>6

\* An endpoint that can be picked is one of the addresses.
LEMMA ReadyTyped ==
  ASSUME EndpointsTypeOK, NEW p \in PoolIds
  PROVE  /\ pools[p] \in Pools /\ pools[p].addrs \subseteq Addrs
         /\ ready(p) \subseteq Addrs /\ ready(p) \subseteq pools[p].enabled /\ IsFiniteSet(ready(p))
<1>1. pools[p] \in Pools
  BY DEF EndpointsTypeOK
<1>2. /\ pools[p].addrs \subseteq Addrs /\ ready(p) \subseteq Addrs
      /\ ready(p) \subseteq pools[p].enabled
  BY <1>1 DEF Pools, ready
<1> QED
  BY <1>1, <1>2, Given, FS_Subset

\* The steps of an attempt that neither lease nor eject are quiet.
LEMMA LaterQuiet ==
  ASSUME Typed, RequestsSound, NEW r \in Tasks,
         Pick(r) \/ Answer(r) \/ Fail(r) \/ DeadlinePasses(r) \/ Settle(r) \/ Deliver(r) \/ Cancel(r)
  PROVE  \E k : Quietly(r, k) /\ k.pc \notin {"mark", "disable"}
<1>0. /\ Sound(task[r]) /\ task[r].pool <= built /\ task[r] \in TaskStates
      /\ task[r].left \in Nat /\ task[r].pool \in PoolIds /\ task[r].at \in Addrs
  BY DEF RequestsSound, Sound, TaskStates
<1>1. CASE Pick(r)
  <2>1. CASE Finish(r)
    BY <1>1, <2>1, FinishQuiet DEF Pick
  <2>2. CASE ~Finish(r)
    <3>1. PICK a \in ready(task[r].pool) : task' = [task EXCEPT ![r].pc = "lease", ![r].at = a]
      BY <1>1, <2>2 DEF Pick
    <3>2. a \in Addrs
      BY <1>0, <3>1, ReadyTyped DEF Typed
    <3> DEFINE k == [task[r] EXCEPT !.pc = "lease", !.at = a]
    <3>3. task' = [task EXCEPT ![r] = k]
      BY <3>1
    <3>4. task[r].pc = "pick"
      BY <1>1 DEF Pick
    <3>5. Sound(k) /\ k.pc = "lease" /\ k.conn = task[r].conn /\ k.pool = task[r].pool /\ k.pending = task[r].pending
      BY <1>0, <3>2, <3>4, PickLets
    <3> HIDE DEF k
    <3>6. k.conn = {}
      BY <1>0, <3>4, <3>5, NothingHeld DEF Trying
    <3> QED
      BY <1>0, <3>3, <3>4, <3>5, <3>6 DEF Quietly, Becomes, Giving
  <2> QED
    BY <2>1, <2>2
<1>2. CASE Answer(r)
  <2>1. PICK status \in IF task[r].q.upgrade THEN {101} ELSE world.answers :
          task' = [task EXCEPT ![r].pc = IF Ejects(task[r].at, status) THEN "count" ELSE "settle",
                               ![r].status = status]
    BY <1>2 DEF Answer
  <2>2. status \in Statuses
    <3>1. 101 \in Statuses
      BY DEF Statuses
    <3>2. world.answers \subseteq Statuses
      BY World DEF Typed, Fits
    <3> QED
      BY <2>1, <3>1, <3>2
  <2> DEFINE pc == IF Ejects(task[r].at, status) THEN "count" ELSE "settle"
             k == WithAnswer(task[r], pc, status)
  <2>3. task' = [task EXCEPT ![r] = k] /\ pc \in {"count", "settle"}
    BY <2>1 DEF WithAnswer
  <2>4. task[r].pc = "exchange"
    BY <1>2 DEF Answer
  <2> HIDE DEF pc
  <2>5. /\ Sound(k) /\ k.pc = pc /\ k.conn = task[r].conn /\ k.pool = task[r].pool
        /\ k.pending = task[r].pending /\ Kept(task[r], k)
    BY <1>0, <2>2, <2>3, <2>4, AnswerLets
  <2> HIDE DEF k
  <2> QED
    BY <1>0, <2>3, <2>4, <2>5 DEF Quietly, Becomes, Giving
<1>3. CASE Fail(r)
  BY <1>3, FinishQuiet DEF Fail
<1>4. CASE DeadlinePasses(r) \/ Cancel(r)
  <2>1. \/ Finish(r) /\ task[r].pc \notin {"push", "subtract"}
        \/ task[r].pc = "exchange" /\ Drop(r, "idle", "cut", 0)
    BY <1>4 DEF DeadlinePasses, Cancel
  <2>2. "exchange" \in Leased
    BY DEF Leased
  <2> QED
    BY <2>1, <2>2, FinishQuiet, DropQuiet
<1>5. CASE Deliver(r)
  <2>1. PICK how : task[r].pc = "body" /\ Drop(r, "idle", how, 0)
    BY <1>5 DEF Deliver
  <2>2. "body" \in Leased
    BY DEF Leased
  <2> QED
    BY <2>1, <2>2, DropQuiet
<1>6. CASE Settle(r)
  <2>0. task[r].pc = "settle" /\ "settle" \in Leased
    BY <1>6 DEF Settle, Leased
  <2>1. CASE task[r].connected /\ should_retry_status(r)
    <3>1. PICK how : Drop(r, "pick", how, 1)
      BY <1>6, <2>1 DEF Settle
    <3>2. task[r].left > 0
      BY <2>1 DEF should_retry_status
    <3> QED
      BY <2>0, <3>1, <3>2, DropQuiet
  <2>2. CASE task[r].connected /\ ~should_retry_status(r)
    <3>1. Goto(r, "body") /\ <<task[r].pc, "body">> \in Onward /\ task[r].pc # "identify"
      BY <1>6, <2>0, <2>2 DEF Settle, Onward
    <3>2. PICK k : /\ Becomes(r, k) /\ k.pc = "body" /\ Kept(task[r], k)
                   /\ k.conn = task[r].conn /\ k.pool = task[r].pool /\ k.pending = task[r].pending
      BY <2>2, <3>1, GotoIs
    <3> QED
      BY <2>0, <3>2 DEF Quietly, Giving
  <2>3. CASE ~task[r].connected /\ should_retry_connect(r)
    <3> DEFINE k == [task[r] EXCEPT !.pc = "pick", !.connected = TRUE, !.left = task[r].left - 1]
    <3>1. task' = [task EXCEPT ![r] = k]
      BY <1>6, <2>3 DEF Settle
    <3>2. task[r].left > 0
      BY <2>3 DEF should_retry_connect
    <3>3. Sound(k) /\ k.pc = "pick" /\ k.conn = task[r].conn /\ k.pool = task[r].pool /\ k.pending = task[r].pending
      BY <1>0, <2>0, <2>3, <3>2, RetryLets
    <3> HIDE DEF k
    <3>4. k.conn = {}
      BY <3>3, NothingHeld DEF Trying
    <3> QED
      BY <1>0, <2>0, <3>1, <3>3, <3>4 DEF Quietly, Becomes, Giving
  <2>4. CASE ~task[r].connected /\ ~should_retry_connect(r)
    <3>1. Finish(r)
      BY <1>6, <2>4 DEF Settle
    <3> QED
      BY <2>0, <3>1, FinishQuiet
  <2> QED
    BY <2>1, <2>2, <2>3, <2>4
<1> QED
  BY <1>1, <1>2, <1>3, <1>4, <1>5, <1>6

\* The steps of an ejection are quiet, and stay with their endpoint.
LEMMA EjectionQuiet ==
  ASSUME Typed, RequestsSound, NEW r \in Tasks, CountReady(r) \/ MarkOut(r) \/ TakeOut(r)
  PROVE  \E k : /\ Quietly(r, k) /\ k.pool = task[r].pool /\ k.at = task[r].at
                /\ \/ k.pc = "settle"
                   \/ k.pc = "mark" /\ task[r].pc = "count" /\ MayEject(task[r].pool, task[r].at)
                   \/ k.pc = "disable" /\ task[r].pc = "mark"
<1>0. /\ Sound(task[r]) /\ task[r].pool <= built /\ task[r] \in TaskStates /\ task[r].at \in Addrs
  BY DEF RequestsSound, Sound, TaskStates
<1>1. ASSUME NEW pc \in {"mark", "settle"}, Goto(r, pc), <<task[r].pc, pc>> \in Onward,
             task[r].pc \in {"count", "mark", "disable"}
      PROVE  \E k : Quietly(r, k) /\ k.pool = task[r].pool /\ k.at = task[r].at /\ k.pc = pc
  <2>1. PICK k : /\ Becomes(r, k) /\ k.pc = pc /\ Kept(task[r], k)
                 /\ k.conn = task[r].conn /\ k.pool = task[r].pool /\ k.pending = task[r].pending
    BY <1>1, GotoIs
  <2> QED
    BY <1>1, <2>1 DEF Quietly, Kept, Giving
<1>2. CASE CountReady(r) /\ MayEject(task[r].pool, task[r].at)
  <2>1. Goto(r, "mark") /\ task[r].pc = "count" /\ <<task[r].pc, "mark">> \in Onward
    BY <1>2 DEF CountReady, Onward
  <2> QED
    BY <1>1, <1>2, <2>1
<1>3. CASE Goto(r, "settle")
  <2>1. task[r].pc \in {"count", "mark", "disable"} /\ <<task[r].pc, "settle">> \in Onward
    BY DEF CountReady, MarkOut, TakeOut, Onward
  <2> QED
    BY <1>1, <1>3, <2>1
<1>4. CASE MarkOut(r) /\ ~AlreadyOut(task[r].at)
  <2> DEFINE nth == NextEjection(task[r].at)
             k == [task[r] EXCEPT !.pc = "disable", !.nth = nth]
  <2>1. task[r].pc = "mark" /\ task' = [task EXCEPT ![r] = k]
    BY <1>4 DEF MarkOut
  <2>2. nth \in 1 .. MaxCount
    <3>1. record[task[r].at] \in Records
      BY <1>0 DEF Typed, EndpointsTypeOK
    <3>2. record[task[r].at].ejections \in 0 .. MaxCount
      BY <3>1 DEF Records
    <3> QED
      BY <3>2, Given DEF NextEjection
  <2> HIDE DEF nth
  <2>3. /\ Sound(k) /\ k.pc = "disable" /\ k.conn = task[r].conn /\ k.pool = task[r].pool
        /\ k.pending = task[r].pending /\ Kept(task[r], k)
    BY <1>0, <2>1, <2>2, MarkLets
  <2> HIDE DEF k
  <2> QED
    BY <1>0, <2>1, <2>3 DEF Quietly, Becomes, Kept, Giving
<1> QED
  BY <1>2, <1>3, <1>4 DEF CountReady, MarkOut, TakeOut

\* The target of a request is one of the targets.
LEMMA TargetTyped ==
  ASSUME RequestsSound, NEW r \in Tasks
  PROVE  /\ TargetOf(r) \in Targets /\ TargetOf(r).h2 = task[r].rt.h2
         /\ TargetOf(r).addr = task[r].at /\ TargetOf(r).tls_key = tls_key(task[r].policy)
<1>1. task[r] \in TaskStates
  BY DEF RequestsSound
<1>2. task[r].at \in Hosts /\ task[r].policy \in Policies /\ task[r].rt \in Routes
  BY <1>1, Given DEF TaskStates
<1>3. task[r].rt.h2 \in BOOLEAN
  BY <1>2 DEF Routes
<1> QED
  BY <1>2, <1>3 DEF TargetOf, Target, Targets, Keys

\* An attempt is one more exchange, on one connection.
LEMMA AttemptIs ==
  ASSUME RequestsSound, NEW r \in Tasks, task[r].pc \in {"lease", "dial"}, NEW c \in Conns, Attempt(r, c)
  PROVE  \E k : /\ Becomes(r, k) /\ k.pc = "exchange" /\ k.conn = {c}
                /\ k.pending = task[r].pending /\ Kept(task[r], k)
<1>1. Sound(task[r]) /\ task[r].pool <= built
  BY DEF RequestsSound
<1> DEFINE k == [task[r] EXCEPT !.pc = "exchange", !.conn = {c}, !.sent = task[r].sent + 1]
<1>2. task' = [task EXCEPT ![r] = k]
  BY DEF Attempt
<1>3. /\ Sound(k) /\ k.pc = "exchange" /\ k.conn = {c} /\ k.pool = task[r].pool
      /\ k.pending = task[r].pending /\ Kept(task[r], k)
  BY <1>1, AttemptLets
<1> HIDE DEF k
<1> QED
  BY <1>1, <1>2, <1>3 DEF Becomes

\* What a lease does: an HTTP/2 connection of the set, the set as it is or
\* cleaned and a dial, or what take hands out.
LeaseOutcome(r, k) ==
  LET t == TargetOf(r) IN
  \/ /\ t.h2 /\ \E c \in h2[t] : k.conn = {c}
     /\ UNCHANGED <<poolVars, idle_total, h2, evicting>>
  \/ /\ k.conn = {} /\ (h2' = h2 \/ h2' = h2_cleaned(t))
     /\ UNCHANGED <<poolVars, idle_total, evicting>>
  \/ /\ ~t.h2 /\ k.conn \in Handed(t) /\ take(t, k.conn)

\* A lease hands out one connection or goes on to dial.
LEMMA LeaseIs ==
  ASSUME Typed, RequestsSound, NEW r \in Tasks, Lease(r)
  PROVE  \E k : /\ Becomes(r, k) /\ k.pc \in {"dial", "exchange"} /\ task[r].pc = "lease"
                /\ k.pending = 0 /\ Kept(task[r], k) /\ LeaseOutcome(r, k)
<1> DEFINE t == TargetOf(r)
<1>0. task[r].pc = "lease" /\ Sound(task[r]) /\ t \in Targets
  BY TargetTyped DEF Lease, RequestsSound
<1>1. task[r].conn = {} /\ task[r].pending = 0
  BY <1>0, NothingHeld DEF Trying
<1>2. ASSUME Goto(r, "dial")
      PROVE  \E k : /\ Becomes(r, k) /\ k.pc = "dial" /\ k.pending = 0 /\ Kept(task[r], k) /\ k.conn = {}
  <2>1. <<task[r].pc, "dial">> \in Onward /\ task[r].pc # "identify"
    BY <1>0 DEF Onward
  <2>2. PICK k : /\ Becomes(r, k) /\ k.pc = "dial" /\ Kept(task[r], k)
                 /\ k.conn = task[r].conn /\ k.pool = task[r].pool /\ k.pending = task[r].pending
    BY <1>2, <2>1, GotoIs
  <2> QED
    BY <1>1, <2>2
<1>3. ASSUME NEW c \in Conns, Attempt(r, c)
      PROVE  \E k : /\ Becomes(r, k) /\ k.pc = "exchange" /\ k.pending = 0 /\ Kept(task[r], k) /\ k.conn = {c}
  BY <1>0, <1>1, <1>3, AttemptIs
<1>4. CASE t.h2 /\ ~h2_full(t)
  <2>1. Goto(r, "dial") /\ UNCHANGED <<poolVars, idle_total, h2, evicting>>
    BY <1>4 DEF Lease
  <2> QED
    BY <1>0, <1>2, <2>1 DEF LeaseOutcome
<1>5. CASE t.h2 /\ h2_full(t)
  <2>1. PICK c \in h2[t] : /\ IF broken(c) THEN Goto(r, "dial") /\ h2' = h2_cleaned(t)
                              ELSE Attempt(r, c) /\ UNCHANGED h2
                           /\ UNCHANGED <<poolVars, idle_total, evicting>>
    BY <1>5 DEF Lease
  <2>2. c \in Conns
    BY <1>0, <2>1 DEF Typed, ConnsTyped
  <2>3. CASE broken(c)
    BY <1>0, <1>2, <2>1, <2>3 DEF LeaseOutcome
  <2>4. CASE ~broken(c)
    BY <1>0, <1>3, <1>5, <2>1, <2>2, <2>4 DEF LeaseOutcome
  <2> QED
    BY <2>3, <2>4
<1>6. CASE ~t.h2
  <2>1. PICK conn \in Handed(t) : take(t, conn) /\ IF conn = {} THEN Goto(r, "dial") ELSE \E c \in conn : Attempt(r, c)
    BY <1>6 DEF Lease
  <2>2. CASE conn = {}
    BY <1>0, <1>2, <1>6, <2>1, <2>2 DEF LeaseOutcome
  <2>3. CASE conn # {}
    <3>1. PICK c \in conn : Attempt(r, c)
      BY <2>1, <2>3
    <3>2. conn = {c} /\ c \in Conns
      BY <2>1, <3>1 DEF Handed, Usable, Shard, Typed, ConnsTyped
    <3> QED
      BY <1>0, <1>3, <1>6, <2>1, <3>1, <3>2 DEF LeaseOutcome
  <2> QED
    BY <2>2, <2>3
<1> QED
  BY <1>4, <1>5, <1>6

\* A new connection is none of those alive.
LEMMA Fresh ==
  ASSUME NEW c \in NewConns
  PROVE  c \in Conns /\ c \notin Held
BY Zenon DEF NewConns

\* What a dial does: a new connection, or a quiet step.
DialOutcome(r, k) ==
  LET t == TargetOf(r) IN
  \/ /\ Quietly(r, k)
     /\ UNCHANGED upstreamVars
  \/ \E c \in NewConns :
       /\ k.conn = {c} /\ k.pc = "exchange" /\ k.pending = 0 /\ Kept(task[r], k)
       /\ conns' = Dialled(c, t, task[r].policy)
       /\ h2' = IF t.h2 THEN h2_add(c, t) ELSE h2
       /\ UNCHANGED <<poolVars, idle_total, evicting>>

\* A dial is an exchange on a connection of its own, or a failure.
LEMMA DialIs ==
  ASSUME Typed, RequestsSound, NEW r \in Tasks, Dial(r)
  PROVE  \E k : /\ Becomes(r, k) /\ k.pc \in {"count", "exchange"} /\ task[r].pc = "dial"
                /\ DialOutcome(r, k)
<1> DEFINE t == TargetOf(r)
<1>0. task[r].pc = "dial" /\ Sound(task[r]) /\ task[r].pool <= built
  BY DEF Dial, RequestsSound
<1>1. task[r].conn = {} /\ task[r].pending = 0
  BY <1>0, NothingHeld DEF Trying
<1>2. CASE \E c \in NewConns : /\ conns' = Dialled(c, t, task[r].policy)
                               /\ h2' = IF t.h2 THEN h2_add(c, t) ELSE h2
                               /\ Attempt(r, c)
                               /\ UNCHANGED <<poolVars, idle_total, evicting>>
  <2>1. PICK c \in NewConns : /\ conns' = Dialled(c, t, task[r].policy)
                              /\ h2' = IF t.h2 THEN h2_add(c, t) ELSE h2
                              /\ Attempt(r, c)
                              /\ UNCHANGED <<poolVars, idle_total, evicting>>
    BY <1>2
  <2>2. c \in Conns
    BY Fresh
  <2>3. PICK k : /\ Becomes(r, k) /\ k.pc = "exchange" /\ k.conn = {c}
                 /\ k.pending = task[r].pending /\ Kept(task[r], k)
    BY <1>0, <2>1, <2>2, AttemptIs
  <2> QED
    BY <1>0, <1>1, <2>1, <2>3, Zenon DEF DialOutcome
<1>3. CASE /\ task' = [task EXCEPT ![r].pc = "count", ![r].connected = FALSE, ![r].status = 502]
           /\ UNCHANGED upstreamVars
  <2>1. 502 \in Statuses
    BY DEF Statuses
  <2> DEFINE status == 502
             k == [task[r] EXCEPT !.pc = "count", !.connected = FALSE, !.status = status]
  <2>2. task' = [task EXCEPT ![r] = k]
    BY <1>3, ZenonT(60)
  <2>4. status \in Statuses
    BY <2>1
  <2> HIDE DEF status
  <2>3. Sound(k) /\ k.pc = "count" /\ k.conn = task[r].conn /\ k.pool = task[r].pool /\ k.pending = task[r].pending
    BY <1>0, <2>4, RefusedLets
  <2> HIDE DEF k
  <2> QED
    BY <1>0, <1>1, <1>3, <2>2, <2>3 DEF Becomes, Quietly, DialOutcome, Giving
<1> QED
  BY <1>2, <1>3 DEF Dial

\* A task that has given its connection back goes on without it.
LEMMA ReturnedIs ==
  ASSUME Typed, RequestsSound, NEW r \in Tasks, task[r].pc \in Giving,
         task' = [task EXCEPT ![r] = Returned(r)]
  PROVE  \E k : Becomes(r, k) /\ k.pc \in {"idle", "pick"} /\ k.conn = {} /\ k.pending = 0
<1>0. Sound(task[r]) /\ task[r].pool <= built /\ task[r].next \in {"idle", "pick"}
  BY DEF RequestsSound, TaskStates
<1>1. CASE task[r].next = "idle"
  <2>1. Finish(r)
    BY <1>1 DEF Finish, Returned
  <2>2. PICK k : Becomes(r, k) /\ k.pc = "idle"
    BY <2>1, FinishIs
  <2> QED
    BY <2>2, NothingHeld DEF Becomes, Early, Before
<1>2. CASE task[r].next = "pick"
  <2> DEFINE k == [task[r] EXCEPT !.pc = "pick", !.conn = {}, !.next = "idle", !.pending = 0]
  <2>1. task' = [task EXCEPT ![r] = k]
    BY <1>2 DEF Returned
  <2>2. Sound(k) /\ k.pc = "pick" /\ k.conn = {} /\ k.pool = task[r].pool /\ k.pending = 0
    BY <1>0, <1>2, GoesToPick
  <2> HIDE DEF k
  <2> QED
    BY <1>0, <2>1, <2>2 DEF Becomes
<1> QED
  BY <1>0, <1>1, <1>2

\* The places of a task while it gives its connection back, and what it does
\* to the idle ones: nothing is removed, the expired ones are, or the front one
\* of a target.
ReturnOutcome(r, k) ==
  \/ /\ k.conn = {} /\ k.pending = 0 /\ k.pc # "push"
     /\ UNCHANGED poolVars
  \/ /\ k.conn = task[r].conn /\ Kept(task[r], k) /\ k.pending = 0 /\ k.pc \in {"push", "oldest"}
     /\ k.pc = "push" => idle_total < MaxIdleTotal
     /\ UNCHANGED poolVars
  \/ /\ k.conn = task[r].conn /\ Kept(task[r], k) /\ k.pc = "subtract"
     /\ k.pending = Cardinality(expired)
     /\ EvictExpired

\* put looks for room.
LEMMA ReturnIs ==
  ASSUME Typed, RequestsSound, NEW r \in Tasks, Return(r)
  PROVE  \E k : /\ Becomes(r, k) /\ k.pc \notin {"mark", "disable"} /\ task[r].pc = "return"
                /\ ReturnOutcome(r, k)
<1>0. /\ task[r].pc = "return" /\ Sound(task[r]) /\ task[r].pool <= built /\ task[r].pending = 0
      /\ task[r].pc \in Giving
  BY NothingHeld DEF Return, RequestsSound, Giving
<1>1. CASE task' = [task EXCEPT ![r] = Returned(r)] /\ UNCHANGED poolVars
  <2>1. PICK k : Becomes(r, k) /\ k.pc \in {"idle", "pick"} /\ k.conn = {} /\ k.pending = 0
    BY <1>0, <1>1, ReturnedIs
  <2> QED
    BY <1>0, <1>1, <2>1 DEF ReturnOutcome
<1>2. CASE idle_total < MaxIdleTotal /\ Goto(r, "push") /\ UNCHANGED poolVars
  <2>1. <<task[r].pc, "push">> \in Onward /\ task[r].pc # "identify"
    BY <1>0 DEF Onward
  <2>2. PICK k : /\ Becomes(r, k) /\ k.pc = "push" /\ Kept(task[r], k)
                 /\ k.conn = task[r].conn /\ k.pool = task[r].pool /\ k.pending = task[r].pending
    BY <1>2, <2>1, GotoIs
  <2> QED
    BY <1>0, <1>2, <2>2 DEF ReturnOutcome
<1>3. CASE /\ expired # {} /\ EvictExpired
           /\ task' = [task EXCEPT ![r].pc = "subtract", ![r].pending = Cardinality(expired)]
  <2> DEFINE pending == Cardinality(expired)
             pc == "subtract"
             k == WithPending(task[r], pc, pending)
  <2>1. task' = [task EXCEPT ![r] = k]
    BY <1>3 DEF WithPending
  <2>2. pending \in Nat /\ pending > 0
    <3>1. IsFiniteSet(expired)
      BY Given, FS_Subset DEF Typed, ConnsTyped
    <3> QED
      BY <1>3, <3>1, FS_CardinalityType, FS_EmptySet
  <2> HIDE DEF pending
  <2>3. /\ Sound(k) /\ k.pc = "subtract" /\ k.conn = task[r].conn /\ k.pool = task[r].pool
        /\ k.pending = pending /\ Kept(task[r], k)
    BY <1>0, <2>2, Gives
  <2>4. k.pending = Cardinality(expired)
    BY <2>3 DEF pending
  <2> HIDE DEF k
  <2> QED
    BY <1>0, <1>3, <2>1, <2>3, <2>4 DEF ReturnOutcome, Becomes
<1>4. CASE /\ \E c \in idle : task' = [task EXCEPT ![r].pc = "oldest", ![r].key = conns[c].target]
           /\ UNCHANGED poolVars
  <2>1. PICK c \in idle : task' = [task EXCEPT ![r].pc = "oldest", ![r].key = conns[c].target]
    BY <1>4
  <2> DEFINE key == conns[c].target
             k == [task[r] EXCEPT !.pc = "oldest", !.key = key]
  <2>2. task' = [task EXCEPT ![r] = k]
    BY <2>1
  <2>3. key \in Targets
    BY <2>1 DEF Typed, ConnsTyped
  <2> HIDE DEF key
  <2>4. /\ Sound(k) /\ k.pc = "oldest" /\ k.conn = task[r].conn /\ k.pool = task[r].pool
        /\ k.pending = task[r].pending /\ Kept(task[r], k)
    BY <1>0, <2>3, Finds
  <2> HIDE DEF k
  <2> QED
    BY <1>0, <1>4, <2>2, <2>4 DEF ReturnOutcome, Becomes
<1> QED
  BY <1>1, <1>2, <1>3, <1>4 DEF Return

\* What the later steps of a return do to the task.
LEMMA GivingIs ==
  ASSUME Typed, RequestsSound, NEW r \in Tasks
  PROVE  /\ Subtract(r) => \E k : /\ Becomes(r, k) /\ k.pc = "push" /\ k.conn = task[r].conn
                                  /\ k.pending = 0 /\ Kept(task[r], k)
         /\ EvictOldest(r) => \E k : /\ Becomes(r, k) /\ k.pending = 0
                                     /\ \/ /\ Shard(task[r].key) = {}
                                           /\ k.pc \in {"idle", "pick"} /\ k.conn = {}
                                        \/ /\ Shard(task[r].key) # {}
                                           /\ k.pc = "push" /\ k.conn = task[r].conn /\ Kept(task[r], k)
         /\ Push(r) => \E k : Becomes(r, k) /\ k.pc \in {"idle", "pick"} /\ k.conn = {} /\ k.pending = 0
<1>0. Sound(task[r]) /\ task[r].pool <= built
  BY DEF RequestsSound
<1>1. ASSUME Subtract(r)
      PROVE  \E k : Becomes(r, k) /\ k.pc = "push" /\ k.conn = task[r].conn /\ k.pending = 0 /\ Kept(task[r], k)
  <2> DEFINE pc == "push"
             pending == 0
             k == WithPending(task[r], pc, pending)
  <2>1. task' = [task EXCEPT ![r] = k] /\ task[r].pc = "subtract" /\ pending \in Nat /\ pending = 0
    BY <1>1 DEF Subtract, WithPending
  <2> HIDE DEF pending
  <2>2. /\ Sound(k) /\ k.pc = "push" /\ k.conn = task[r].conn /\ k.pool = task[r].pool
        /\ k.pending = pending /\ Kept(task[r], k)
    BY <1>0, <2>1, Gives
  <2> HIDE DEF k
  <2> QED
    BY <1>0, <2>1, <2>2 DEF Becomes
<1>2. ASSUME EvictOldest(r)
      PROVE  \E k : /\ Becomes(r, k) /\ k.pending = 0
                    /\ \/ /\ Shard(task[r].key) = {}
                          /\ k.pc \in {"idle", "pick"} /\ k.conn = {}
                       \/ /\ Shard(task[r].key) # {}
                          /\ k.pc = "push" /\ k.conn = task[r].conn /\ Kept(task[r], k)
  <2>0. task[r].pc = "oldest" /\ task[r].pc \in Giving /\ task[r].pending = 0
    BY <1>0, <1>2, NothingHeld DEF EvictOldest, Giving
  <2>1. CASE Shard(task[r].key) = {}
    <3>1. task' = [task EXCEPT ![r] = Returned(r)]
      BY <1>2, <2>1 DEF EvictOldest
    <3> QED
      BY <2>0, <2>1, <3>1, ReturnedIs
  <2>2. CASE Shard(task[r].key) # {}
    <3>1. Goto(r, "push") /\ <<task[r].pc, "push">> \in Onward /\ task[r].pc # "identify"
      BY <1>2, <2>0, <2>2 DEF EvictOldest, Goto, Onward
    <3>2. PICK k : /\ Becomes(r, k) /\ k.pc = "push" /\ Kept(task[r], k)
                   /\ k.conn = task[r].conn /\ k.pool = task[r].pool /\ k.pending = task[r].pending
      BY <3>1, GotoIs
    <3> QED
      BY <2>0, <2>2, <3>2
  <2> QED
    BY <2>1, <2>2
<1>3. ASSUME Push(r)
      PROVE  \E k : Becomes(r, k) /\ k.pc \in {"idle", "pick"} /\ k.conn = {} /\ k.pending = 0
  <2>1. task[r].pc \in Giving /\ task' = [task EXCEPT ![r] = Returned(r)]
    BY <1>3 DEF Push, Giving
  <2> QED
    BY <2>1, ReturnedIs
<1> QED
  BY <1>1, <1>2, <1>3

----------------------------------------------------------------------------
(* The endpoints' steps *)

\* The pools that were built keep their endpoints and the rotation of each only
\* grows, but for endpoint a of pool p; a new pool starts with all of its own.
Rotates(p, a) ==
  /\ \A o \in 1 .. built : /\ pools'[o].addrs = pools[o].addrs
                           /\ \A b \in pools[o].enabled : b \in pools'[o].enabled \/ (o = p /\ b = a)
  /\ \A o \in (1 .. built') \ (1 .. built) : pools'[o].enabled = pools'[o].addrs

\* Nobody is taken out.
RotatesAll ==
  /\ \A o \in 1 .. built : pools'[o].addrs = pools[o].addrs /\ \A b \in pools[o].enabled : b \in pools'[o].enabled
  /\ \A o \in (1 .. built') \ (1 .. built) : pools'[o].enabled = pools'[o].addrs

\* How long an ejection lasts.
LEMMA DurationTyped ==
  ASSUME NEW n \in Nat
  PROVE  Duration(n) \in 0 .. MaxEjection
<1>1. BaseEjection \in Nat /\ MaxEjection \in Nat
  BY Given
<1> DEFINE d == BaseEjection * n
<1>2. d \in Nat
  BY <1>1
<1>3. Duration(n) = IF d < MaxEjection THEN d ELSE MaxEjection
  BY DEF Duration
<1> HIDE DEF d
<1> QED
  BY <1>1, <1>2, <1>3

\* A health check of one endpoint.
LEMMA ProbeKeeps ==
  ASSUME Typed, NEW p \in PoolIds, NEW a, NEW healthy \in BOOLEAN, Probe(p, a, healthy)
  PROVE  EndpointsTypeOK' /\ built' = built /\ RotatesAll
<1>1. pools \in [PoolIds -> Pools] /\ built \in PoolIds
  BY DEF Typed, EndpointsTypeOK, Fits
<1>2. pools[p] \in Pools /\ a \in Addrs
  BY <1>1 DEF Probe, Pools
<1>3. /\ pools[p].addrs \subseteq Addrs /\ pools[p].healthy \subseteq Addrs /\ pools[p].enabled \subseteq Addrs
      /\ pools[p].run \in [Addrs -> 0 .. ConsecutiveSuccess + ConsecutiveFailure]
  BY <1>2 DEF Pools
<1> DEFINE n == observe(p, a, healthy)
           threshold == IF healthy THEN ConsecutiveSuccess ELSE ConsecutiveFailure
           run == pools[p].run[a] + 1
           flipped == IF healthy THEN pools[p].healthy \cup {a} ELSE pools[p].healthy \ {a}
           back == [pools[p].run EXCEPT ![a] = 0]
           on == [pools[p].run EXCEPT ![a] = run]
<1>4. back \in [Addrs -> 0 .. ConsecutiveSuccess + ConsecutiveFailure] /\ flipped \subseteq Addrs
  BY <1>2, <1>3, Given
<1>5. run < threshold => on \in [Addrs -> 0 .. ConsecutiveSuccess + ConsecutiveFailure]
  BY <1>2, <1>3, Given
<1>6. \/ n = [pools[p] EXCEPT !.run = back]
      \/ n = [pools[p] EXCEPT !.run = back, !.healthy = flipped]
      \/ n = [pools[p] EXCEPT !.run = on] /\ run < threshold
  <2>1. run \in Int /\ threshold \in Int
    BY <1>2, <1>3, Given
  <2> QED
    BY <1>2, <2>1 DEF observe, Pools
<1> HIDE DEF back, on, flipped, run, threshold
<1>7. n \in Pools /\ n.addrs = pools[p].addrs /\ n.enabled = pools[p].enabled
  BY <1>2, <1>4, <1>5, <1>6 DEF Pools
<1> HIDE DEF n
<1>8. pools' = [pools EXCEPT ![p] = n] /\ UNCHANGED <<built, record, timers>>
  BY DEF Probe, n
<1>9. \A o \in PoolIds : pools'[o].addrs = pools[o].addrs /\ pools'[o].enabled = pools[o].enabled
  BY <1>1, <1>7, <1>8
<1>10. 1 .. built \subseteq PoolIds /\ (1 .. built') \ (1 .. built) = {}
  BY <1>1, <1>8, Given DEF PoolIds
<1>11. RotatesAll
  BY <1>9, <1>10 DEF RotatesAll
<1>12. EndpointsTypeOK'
  BY <1>1, <1>7, <1>8 DEF Typed, EndpointsTypeOK
<1> QED
  BY <1>8, <1>11, <1>12

\* A configuration push.
LEMMA BuildKeeps ==
  ASSUME Typed, NEW addrs \in SUBSET Addrs, BuildPool(addrs)
  PROVE  EndpointsTypeOK' /\ built' \in PoolIds /\ built <= built' /\ RotatesAll
<1>1. pools \in [PoolIds -> Pools] /\ built \in PoolIds /\ EndpointsTypeOK
  BY DEF Typed, EndpointsTypeOK, Fits
<1>0. built \in Nat /\ MaxPools \in Nat /\ built >= 1 /\ built <= MaxPools
  BY <1>1, Given DEF PoolIds
<1>2. CASE UNCHANGED endpointVars
  <2>1. pools' = pools /\ built' = built /\ record' = record /\ timers' = timers
    BY <1>2 DEF endpointVars
  <2>2. EndpointsTypeOK'
    BY <1>1, <2>1 DEF EndpointsTypeOK
  <2>3. RotatesAll
    BY <2>1 DEF RotatesAll
  <2> QED
    BY <1>0, <1>1, <2>1, <2>2, <2>3
<1>3. CASE ~UNCHANGED endpointVars
  <2> DEFINE n == Pool(addrs)
  <2>1. /\ built < MaxPools /\ built' = built + 1 /\ pools' = [pools EXCEPT ![built + 1] = n]
        /\ record' = record /\ timers' = timers
    BY <1>3 DEF BuildPool
  <2>2. n \in Pools /\ n.enabled = addrs /\ n.addrs = addrs
    <3>1. [a \in Addrs |-> 0] \in [Addrs -> 0 .. ConsecutiveSuccess + ConsecutiveFailure]
      BY Given
    <3> QED
      BY <3>1 DEF Pool, Pools
  <2> HIDE DEF n
  <2>3. built + 1 \in PoolIds /\ built' \in PoolIds /\ built <= built' /\ built' \in 0 .. MaxPools
    BY <1>0, <2>1 DEF PoolIds
  <2>4. EndpointsTypeOK'
    BY <1>1, <2>1, <2>2, <2>3 DEF EndpointsTypeOK
  <2>5. \A o \in 1 .. built : o \in PoolIds /\ o # built + 1
    BY <1>0 DEF PoolIds
  <2>6. \A o \in 1 .. built : pools'[o] = pools[o]
    BY <1>1, <2>1, <2>5
  <2>7. \A o \in (1 .. built') \ (1 .. built) : o = built + 1
    BY <1>0, <2>1
  <2>8. pools'[built + 1] = n
    BY <1>1, <2>1, <2>3
  <2>9. RotatesAll
    BY <2>2, <2>6, <2>7, <2>8 DEF RotatesAll
  <2> QED
    BY <2>3, <2>4, <2>9
<1> QED
  BY <1>2, <1>3

\* A response is recorded, an ejection is recorded, time passes.
LEMMA RecordKeeps ==
  ASSUME Typed,
         \/ \E a \in Addrs, status \in Nat : Responded(a, status)
         \/ \E a \in Addrs : MarkEjected(a)
         \/ EndpointsTick
  PROVE  EndpointsTypeOK' /\ built' = built /\ RotatesAll
<1>1. /\ pools \in [PoolIds -> Pools] /\ built \in PoolIds /\ built \in 0 .. MaxPools
      /\ record \in [Addrs -> Records] /\ timers \subseteq Timers
  BY DEF Typed, EndpointsTypeOK, Fits
<1>2. pools' = pools /\ built' = built
  BY DEF Responded, MarkEjected, EndpointsTick
<1>3. RotatesAll
  BY <1>2 DEF RotatesAll
<1>4. ASSUME NEW a \in Addrs
      PROVE  /\ record[a] \in Records /\ record[a].fives \in 0 .. Consecutive5xx
             /\ record[a].ejections \in 0 .. MaxCount /\ record[a].left \in -MaxEjection .. MaxEjection
  BY <1>1 DEF Records
<1>5. CASE \E a \in Addrs, status \in Nat : Responded(a, status)
  <2>1. PICK a \in Addrs, status \in Nat : Responded(a, status)
    BY <1>5
  <2> DEFINE five == IF record[a].fives < Consecutive5xx THEN record[a].fives + 1 ELSE record[a].fives
             n == Recorded(a, status)
  <2>2. five \in 0 .. Consecutive5xx /\ 0 \in 0 .. Consecutive5xx /\ 0 \in 0 .. MaxCount
        /\ -MaxEjection \in -MaxEjection .. MaxEjection
    BY <1>4, Given
  <2>3. n = [record[a] EXCEPT !.fives = five] \/ n = NoRecord \/ n = [record[a] EXCEPT !.fives = 0]
    BY <1>4 DEF Recorded, Records
  <2> HIDE DEF five
  <2>4. NoRecord \in Records
    BY <2>2 DEF NoRecord, Records
  <2>5. n \in Records
    BY <1>4, <2>2, <2>3, <2>4 DEF Records
  <2> HIDE DEF n
  <2>6. record' = [record EXCEPT ![a] = n] /\ timers' = timers
    BY <2>1 DEF Responded, n
  <2> QED
    BY <1>1, <1>2, <1>3, <2>5, <2>6 DEF EndpointsTypeOK
<1>6. CASE \E a \in Addrs : MarkEjected(a)
  <2>1. PICK a \in Addrs : MarkEjected(a)
    BY <1>6
  <2> DEFINE nth == NextEjection(a)
             n == [fives |-> 0, ejections |-> nth, left |-> Duration(nth)]
  <2>2. nth \in 0 .. MaxCount /\ nth \in Nat /\ 0 \in 0 .. Consecutive5xx
    BY <1>4, Given DEF NextEjection
  <2>3. record' = [record EXCEPT ![a] = n] /\ timers' = timers
    BY <2>1 DEF MarkEjected
  <2> HIDE DEF nth
  <2>4. Duration(nth) \in -MaxEjection .. MaxEjection
    BY <2>2, DurationTyped, Given
  <2>5. n \in Records
    BY <2>2, <2>4 DEF Records
  <2> HIDE DEF n
  <2> QED
    BY <1>1, <1>2, <1>3, <2>3, <2>5 DEF EndpointsTypeOK
<1>7. CASE EndpointsTick
  <2> DEFINE L(a) == IF record[a].left > -MaxEjection THEN record[a].left - 1 ELSE record[a].left
             T(t) == IF t.left > 0 THEN t.left - 1 ELSE 0
  <2>1. record' = [a \in Addrs |-> [record[a] EXCEPT !.left = L(a)]]
    BY <1>7 DEF EndpointsTick
  <2>2. timers' = {[t EXCEPT !.left = T(t)] : t \in timers}
    BY <1>7 DEF EndpointsTick
  <2>3. ASSUME NEW a \in Addrs PROVE [record[a] EXCEPT !.left = L(a)] \in Records
    <3>1. L(a) \in -MaxEjection .. MaxEjection
      BY <1>4, Given
    <3> HIDE DEF L
    <3> QED
      BY <1>4, <3>1 DEF Records
  <2>4. ASSUME NEW t \in timers PROVE [t EXCEPT !.left = T(t)] \in Timers
    <3>1. t \in Timers /\ t.left \in 0 .. MaxEjection
      BY <1>1 DEF Timers
    <3>2. T(t) \in 0 .. MaxEjection
      BY <3>1, Given
    <3> HIDE DEF T
    <3> QED
      BY <3>1, <3>2 DEF Timers
  <2> HIDE DEF L, T
  <2>5. record' \in [Addrs -> Records]
    BY <2>1, <2>3
  <2>6. timers' \subseteq Timers
    BY <2>2, <2>4
  <2> QED
    BY <1>1, <1>2, <1>3, <2>5, <2>6 DEF EndpointsTypeOK
<1> QED
  BY <1>5, <1>6, <1>7

\* An endpoint leaves the rotation of one pool.
LEMMA DisableKeeps ==
  ASSUME Typed, NEW p \in PoolIds, NEW a \in Addrs, NEW nth \in 1 .. MaxCount, Disable(p, a, nth)
  PROVE  EndpointsTypeOK' /\ built' = built /\ Rotates(p, a)
<1>1. /\ pools \in [PoolIds -> Pools] /\ built \in PoolIds /\ built \in 0 .. MaxPools
      /\ record \in [Addrs -> Records] /\ timers \subseteq Timers /\ pools[p] \in Pools
  BY DEF Typed, EndpointsTypeOK, Fits
<1> DEFINE n == [pools[p] EXCEPT !.enabled = pools[p].enabled \ {a}]
           d == Duration(nth)
           t == [pool |-> p, addr |-> a, nth |-> nth, left |-> d]
<1>2. pools' = [pools EXCEPT ![p] = n] /\ timers' = timers \cup {t} /\ built' = built /\ record' = record
  BY DEF Disable
<1>3. n \in Pools /\ n.addrs = pools[p].addrs /\ n.enabled = pools[p].enabled \ {a}
  BY <1>1 DEF Pools
<1>4. d \in 0 .. MaxEjection
  BY DurationTyped, Given
<1> HIDE DEF n, d
<1>5. t \in Timers
  BY <1>4 DEF Timers
<1> HIDE DEF t
<1>6. EndpointsTypeOK'
  BY <1>1, <1>2, <1>3, <1>5 DEF EndpointsTypeOK
<1>7. \A o \in PoolIds : pools'[o] = IF o = p THEN n ELSE pools[o]
  BY <1>1, <1>2
<1>8. 1 .. built \subseteq PoolIds /\ (1 .. built') \ (1 .. built) = {}
  BY <1>1, <1>2, Given DEF PoolIds
<1>9. Rotates(p, a)
  BY <1>3, <1>7, <1>8 DEF Rotates
<1> QED
  BY <1>2, <1>6, <1>9

\* An endpoint comes back.
LEMMA ReenableKeeps ==
  ASSUME Typed, NEW t \in timers, Reenable(t)
  PROVE  EndpointsTypeOK' /\ built' = built /\ RotatesAll
<1>1. /\ pools \in [PoolIds -> Pools] /\ built \in PoolIds /\ built \in 0 .. MaxPools
      /\ record \in [Addrs -> Records] /\ timers \subseteq Timers
  BY DEF Typed, EndpointsTypeOK, Fits
<1>2. t.pool \in PoolIds /\ t.addr \in Addrs /\ pools[t.pool] \in Pools
  BY <1>1 DEF Timers
<1> DEFINE p == t.pool
           en == IF t.addr \in pools[p].addrs THEN pools[p].enabled \cup {t.addr} ELSE pools[p].enabled
           n == [pools[p] EXCEPT !.enabled = en]
<1>3. pools' = [pools EXCEPT ![p] = n] /\ timers' = timers \ {t} /\ built' = built /\ record' = record
  BY DEF Reenable
<1>4. en \subseteq Addrs /\ pools[p].enabled \subseteq en
  BY <1>2 DEF Pools
<1> HIDE DEF en
<1>5. n \in Pools /\ n.addrs = pools[p].addrs /\ n.enabled = en
  BY <1>2, <1>4 DEF Pools
<1> HIDE DEF n, p
<1>6. p \in PoolIds
  BY <1>2 DEF p
<1>7. EndpointsTypeOK'
  BY <1>1, <1>3, <1>5, <1>6 DEF EndpointsTypeOK
<1>8. \A o \in PoolIds : pools'[o] = IF o = p THEN n ELSE pools[o]
  BY <1>1, <1>3, <1>6
<1>9. 1 .. built \subseteq PoolIds /\ (1 .. built') \ (1 .. built) = {}
  BY <1>1, <1>3, Given DEF PoolIds
<1>10. RotatesAll
  BY <1>4, <1>5, <1>8, <1>9 DEF RotatesAll
<1> QED
  BY <1>3, <1>7, <1>10

----------------------------------------------------------------------------
(* The connections' steps *)

ConnRecords == [state : ConnStates, target : Targets, policy : Policies]

\* Connections that are still held are what they were, but for their state.
ConnsKept ==
  /\ conns' \in [Conns -> ConnRecords]
  /\ \A c \in Conns : c \in Held' => conns'[c].target = conns[c].target /\ conns'[c].policy = conns[c].policy

\* Nothing of the pool changes.
Calm == ConnsKept /\ UNCHANGED <<poolVars, idle_total, h2, evicting>>

\* Where a connection is not held there is none.
LEMMA NoConnTyped ==
  NoConn \in ConnRecords
<1> DEFINE t == CHOOSE t \in Targets : TRUE
           p == CHOOSE p \in Policies : TRUE
<1>1. t \in Targets /\ p \in Policies
  BY Given
<1> HIDE DEF t, p
<1>2. [state |-> "closed", target |-> t, policy |-> p] \in ConnRecords
  BY <1>1 DEF ConnRecords, ConnStates
<1> QED
  BY <1>2 DEF NoConn, t, p

\* Keep keeps what is held.
LEMMA KeepKeeps ==
  ASSUME Typed, NEW after \in [Conns -> ConnRecords], Keep(after),
         \A c \in Conns : after[c].target = conns[c].target /\ after[c].policy = conns[c].policy
  PROVE  ConnsKept
<1>1. conns' = [c \in Conns |-> IF c \in Held' THEN after[c] ELSE NoConn]
  BY DEF Keep
<1>2. conns' \in [Conns -> ConnRecords]
  BY <1>1, NoConnTyped
<1> QED
  BY <1>1, <1>2 DEF ConnsKept

\* So does leaving them alone.
LEMMA UnchangedKeeps ==
  ASSUME Typed, conns' = conns \/ Keep(conns)
  PROVE  ConnsKept
<1>1. conns \in [Conns -> ConnRecords]
  BY DEF Typed, ConnsTyped, ConnRecords
<1>2. CASE conns' = conns
  BY <1>1, <1>2 DEF ConnsKept
<1>3. CASE Keep(conns)
  BY <1>1, <1>3, KeepKeeps
<1> QED
  BY <1>2, <1>3

\* A change of a connection's state leaves the rest of it.
LEMMA StateKeeps ==
  ASSUME Typed, NEW D \in SUBSET Conns, NEW s \in ConnStates,
         \/ Keep([c \in Conns |-> IF c \in D THEN [conns[c] EXCEPT !.state = s] ELSE conns[c]])
         \/ conns' = [c \in Conns |-> IF c \in D THEN [conns[c] EXCEPT !.state = s] ELSE conns[c]]
  PROVE  ConnsKept
<1> DEFINE after == [c \in Conns |-> IF c \in D THEN [conns[c] EXCEPT !.state = s] ELSE conns[c]]
<1>1. conns \in [Conns -> ConnRecords]
  BY DEF Typed, ConnsTyped, ConnRecords
<1>2. ASSUME NEW c \in Conns
      PROVE  after[c] \in ConnRecords /\ after[c].target = conns[c].target /\ after[c].policy = conns[c].policy
  <2>1. conns[c] \in ConnRecords
    BY <1>1
  <2>2. [conns[c] EXCEPT !.state = s] \in ConnRecords
    BY <2>1 DEF ConnRecords
  <2> QED
    BY <2>1, <2>2 DEF ConnRecords
<1>3. after \in [Conns -> ConnRecords]
  BY <1>2
<1>4. CASE Keep(after)
  <2> HIDE DEF after
  <2> QED
    BY <1>2, <1>3, <1>4, KeepKeeps
<1>5. CASE conns' = after
  BY <1>2, <1>3, <1>5 DEF ConnsKept
<1> QED
  BY <1>4, <1>5

\* A dropped lease leaves the pool alone.
LEMMA DropCalm ==
  ASSUME Typed, RequestsSound, NEW r \in Tasks, NEW next, NEW how, NEW cost, Drop(r, next, how, cost)
  PROVE  Calm
<1>1. PICK c \in task[r].conn : /\ UNCHANGED <<poolVars, idle_total, h2, evicting>>
                                /\ Keep([conns EXCEPT ![c].state = Left(c, how)])
  BY DEF Drop
<1>2. c \in Conns
  BY <1>1 DEF RequestsSound, TaskStates
<1>3. conns \in [Conns -> ConnRecords] /\ conns[c] \in ConnRecords
  BY <1>2 DEF Typed, ConnsTyped, ConnRecords
<1> DEFINE s == Left(c, how)
           D == {c}
<1>4. s \in ConnStates /\ D \in SUBSET Conns
  BY <1>2, <1>3 DEF Left, ConnStates, ConnRecords
<1> HIDE DEF s
<1>5. [conns EXCEPT ![c].state = s] = [d \in Conns |-> IF d \in D THEN [conns[d] EXCEPT !.state = s] ELSE conns[d]]
  BY <1>2, <1>3
<1>6. Keep([d \in Conns |-> IF d \in D THEN [conns[d] EXCEPT !.state = s] ELSE conns[d]])
  BY <1>1, <1>5, Zenon DEF s
<1>7. ConnsKept
  BY <1>4, <1>6, StateKeeps
<1> QED
  BY <1>1, <1>7 DEF Calm

\* The steps of a request outside the pool leave the pool alone.
LEMMA CalmSteps ==
  ASSUME Typed, RequestsSound, NEW r \in Tasks,
         \/ Receive(r) \/ PlanRequest(r) \/ Scan(r) \/ Ask(r) \/ Admit(r) \/ Identify(r) \/ ChargeBudget(r)
         \/ Rewrite(r) \/ Dispatch(r) \/ Fanout(r)
         \/ Pick(r) \/ Answer(r) \/ Fail(r) \/ DeadlinePasses(r) \/ Settle(r) \/ Deliver(r) \/ Cancel(r)
         \/ CountReady(r) \/ MarkOut(r) \/ TakeOut(r)
  PROVE  Calm
<1>1. CASE UNCHANGED upstreamVars
  BY <1>1, UnchangedKeeps DEF Calm, upstreamVars
<1>2. CASE Fail(r)
  <2> DEFINE D == task[r].conn
             s == "closed"
  <2>1. D \in SUBSET Conns /\ s \in ConnStates
    BY DEF RequestsSound, TaskStates, ConnStates
  <2>2. Keep([c \in Conns |-> IF c \in D THEN [conns[c] EXCEPT !.state = s] ELSE conns[c]])
    BY <1>2 DEF Fail
  <2>3. ConnsKept
    <3> HIDE DEF D, s
    <3> QED
      BY <2>1, <2>2, StateKeeps
  <2>4. UNCHANGED <<poolVars, idle_total, h2, evicting>>
    BY <1>2 DEF Fail
  <2> QED
    BY <2>3, <2>4 DEF Calm
<1>3. CASE \E next, how, cost : Drop(r, next, how, cost)
  BY <1>3, DropCalm
<1>4. CASE DeadlinePasses(r) \/ Cancel(r) \/ Deliver(r) \/ Settle(r)
  <2>1. UNCHANGED upstreamVars \/ \E next, how, cost : Drop(r, next, how, cost)
    BY <1>4 DEF DeadlinePasses, Cancel, Deliver, Settle
  <2> QED
    BY <1>1, <1>3, <2>1
<1> QED
  BY <1>1, <1>2, <1>4 DEF Receive, PlanRequest, Scan, Ask, Admit, Identify, ChargeBudget, Rewrite, Dispatch, Fanout,
                          Pick, Answer, CountReady, MarkOut, TakeOut

\* What the evictions under way will subtract, and the connections on their way
\* into the pool.
Outstanding == SumFunctionOnSet([r \in Tasks |-> task[r].pending], Tasks)
Pushing == Cardinality({r \in Tasks : task[r].pc = "push"})

One(b) == IF b THEN 1 ELSE 0

\* What one task's step adds to both.
LEMMA TaskCounts ==
  ASSUME RequestsSound, NEW r \in Tasks, NEW k, Becomes(r, k)
  PROVE  /\ Outstanding \in Nat /\ Outstanding' \in Nat /\ task[r].pending \in Nat /\ k.pending \in Nat
         /\ task[r].pending <= Outstanding
         /\ Outstanding' = (Outstanding - task[r].pending) + k.pending
         /\ Pushing \in Nat /\ Pushing' \in Nat /\ Cardinality(Tasks) \in Nat /\ Pushing' <= Cardinality(Tasks)
         /\ Pushing' = Pushing + One(k.pc = "push") - One(task[r].pc = "push")
<1>0. task \in [Tasks -> TaskStates] /\ IsFiniteSet(Tasks) /\ k \in TaskStates
  BY Given DEF RequestsSound, Becomes, Sound
<1>1. task' = [task EXCEPT ![r] = k]
  BY DEF Becomes
<1> DEFINE f == [u \in Tasks |-> task[u].pending]
           g == [u \in Tasks |-> task'[u].pending]
<1>2. \A u \in Tasks : f[u] \in Nat /\ g[u] \in Nat
  BY <1>0, <1>1 DEF TaskStates
<1>3. \A u \in Tasks \ {r} : f[u] = g[u]
  BY <1>0, <1>1
<1>4. f[r] = task[r].pending /\ g[r] = k.pending
  BY <1>0, <1>1
<1>5. Outstanding = SumFunctionOnSet(f, Tasks) /\ Outstanding' = SumFunctionOnSet(g, Tasks)
  BY DEF Outstanding
<1> HIDE DEF f, g
<1>6. /\ SumFunctionOnSet(f, Tasks) \in Nat /\ SumFunctionOnSet(g, Tasks) \in Nat
      /\ f[r] <= SumFunctionOnSet(f, Tasks)
      /\ SumFunctionOnSet(g, Tasks) = (SumFunctionOnSet(f, Tasks) - f[r]) + g[r]
  BY <1>0, <1>2, <1>3, SumChanges
<1>7. task[r].pending \in Nat /\ k.pending \in Nat
  BY <1>0 DEF TaskStates
<1> DEFINE Q == {u \in Tasks : task[u].pc = "push"}
           R == {u \in Tasks : task'[u].pc = "push"}
<1>8. Pushing = Cardinality(Q) /\ Pushing' = Cardinality(R)
  BY DEF Pushing
<1>9. R = IF k.pc = "push" THEN Q \cup {r} ELSE Q \ {r}
  BY <1>0, <1>1
<1>10. (r \in Q) <=> (task[r].pc = "push")
  OBVIOUS
<1>11. IsFiniteSet(Q) /\ IsFiniteSet(R) /\ Cardinality(Q) \in Nat /\ Cardinality(R) \in Nat
       /\ Cardinality(R) <= Cardinality(Tasks) /\ Cardinality(Tasks) \in Nat
  <2>1. Q \subseteq Tasks /\ R \subseteq Tasks
    OBVIOUS
  <2> HIDE DEF Q, R
  <2> QED
    BY <1>0, <2>1, FS_Subset, FS_CardinalityType
<1> HIDE DEF Q, R
<1>12. Cardinality(R) = Cardinality(Q) + One(k.pc = "push") - One(task[r].pc = "push")
  <2>1. CASE k.pc = "push"
    BY <1>9, <1>10, <1>11, <2>1, FS_AddElement DEF One
  <2>2. CASE k.pc # "push"
    BY <1>9, <1>10, <1>11, <2>2, FS_RemoveElement DEF One
  <2> QED
    BY <2>1, <2>2
<1> QED
  BY <1>4, <1>5, <1>6, <1>7, <1>8, <1>11, <1>12

\* Idle connections that are removed.
LEMMA WithoutIs ==
  ASSUME Typed, NEW gone \in SUBSET idle, Without(gone)
  PROVE  /\ idle' = idle \ gone /\ idle' \subseteq Conns /\ expired' \subseteq idle' /\ older' \subseteq idle' \X idle'
         /\ IsFiniteSet(idle) /\ Cardinality(idle) \in Nat /\ Cardinality(gone) \in Nat
         /\ Cardinality(idle') = Cardinality(idle) - Cardinality(gone)
         /\ Cardinality(gone) <= Cardinality(idle)
<1>1. idle \subseteq Conns /\ expired \subseteq idle /\ older \subseteq idle \X idle
  BY DEF Typed, ConnsTyped
<1>2. idle' = idle \ gone /\ expired' = expired \ gone /\ older' = {e \in older : e[1] \notin gone /\ e[2] \notin gone}
  BY DEF Without
<1>3. IsFiniteSet(idle)
  BY <1>1, Given, FS_Subset
<1>4. idle \cap gone = gone
  OBVIOUS
<1>5. /\ Cardinality(idle) \in Nat /\ Cardinality(gone) \in Nat /\ Cardinality(gone) <= Cardinality(idle)
      /\ Cardinality(idle \ gone) = Cardinality(idle) - Cardinality(gone)
  BY <1>3, <1>4, FS_Subset, FS_CardinalityType, FS_Difference, ZenonT(60)
<1>6. idle' \subseteq Conns /\ expired' \subseteq idle'
  BY <1>1, <1>2
<1>7. older' \subseteq idle' \X idle'
  BY <1>1, <1>2
<1> QED
  BY <1>2, <1>3, <1>5, <1>6, <1>7

\* What take removes is idle, and what it hands out is of its target.
LEMMA HandedIs ==
  ASSUME NEW t, NEW conn \in Handed(t)
  PROVE  /\ TakenOff(t, conn) \subseteq idle /\ conn \subseteq TakenOff(t, conn)
         /\ conn \subseteq Shard(t) /\ (conn = {} \/ \E c \in Shard(t) : conn = {c})
<1>1. conn = {} \/ \E c \in Shard(t) : conn = {c}
  BY DEF Handed, Usable
<1> QED
  BY <1>1 DEF TakenOff, Ahead, Shard

\* Who has a connection, and for what: a lease is of the request's own target,
\* what is idle or goes back is HTTP/1, the set of a target is of that target,
\* and a connection was verified under a policy of its key.
Borrowed ==
  /\ \A r \in Tasks : \A c \in task[r].conn : conns[c].target = TargetOf(r)
  /\ \A r \in Tasks : task[r].pc \in Giving => \A c \in task[r].conn : ~conns[c].target.h2
  /\ \A c \in idle : ~conns[c].target.h2
  /\ \A t \in Targets : \A c \in h2[t] : conns[c].target = t /\ t.h2
  /\ \A c \in Held : conns[c].target.tls_key = tls_key(conns[c].policy)
  /\ OneBorrower

\* What holding a connection means, before and after a step.
LEMMA HeldIs ==
  /\ \A c : c \in Held <=> (\E r \in Tasks : c \in task[r].conn) \/ c \in idle \/ \E t \in Targets : c \in h2[t]
  /\ \A c : c \in Held' <=> (\E r \in Tasks : c \in task'[r].conn) \/ c \in idle' \/ \E t \in Targets : c \in h2'[t]
<1>1. ASSUME NEW f, NEW g, NEW S, NEW A, NEW B, NEW c
      PROVE  c \in (UNION {f[r].conn : r \in A}) \cup S \cup (UNION {g[t] : t \in B})
               <=> (\E r \in A : c \in f[r].conn) \/ c \in S \/ \E t \in B : c \in g[t]
  <2>1. c \in UNION {f[r].conn : r \in A} <=> \E r \in A : c \in f[r].conn
    OBVIOUS
  <2>2. c \in UNION {g[t] : t \in B} <=> \E t \in B : c \in g[t]
    OBVIOUS
  <2> QED
    BY <2>1, <2>2
<1>2. Held' = (UNION {task'[r].conn : r \in Tasks}) \cup idle' \cup (UNION {h2'[t] : t \in Targets})
  BY DEF Held
<1> QED
  BY <1>1, <1>2, Zenon DEF Held

\* Leases that are in order after a step in which no connection is new.
LEMMA BorrowStep ==
  ASSUME Typed, Borrowed, ConnsKept,
         \A u \in Tasks : \A c \in task'[u].conn :
           /\ c \in Conns /\ c \in Held
           /\ conns[c].target = Target(task'[u].at, task'[u].policy, task'[u].rt.h2)
           /\ task'[u].pc \in Giving => ~conns[c].target.h2,
         \A c \in idle' : c \in Conns /\ c \in Held /\ ~conns[c].target.h2 /\ \A u \in Tasks : c \notin task'[u].conn,
         \A t \in Targets : h2'[t] \subseteq h2[t],
         \A u, v \in Tasks : \A c \in task'[u].conn : c \in task'[v].conn => conns[c].target.h2 \/ u = v
  PROVE  Borrowed'
<1>0. \A t \in Targets : h2[t] \subseteq Conns
  BY DEF Typed, ConnsTyped
<1>1. \A c : c \in Held' => c \in Held /\ c \in Conns
  BY <1>0, HeldIs
<1>2. \A c : c \in Held' => conns'[c].target = conns[c].target /\ conns'[c].policy = conns[c].policy
  BY <1>1 DEF ConnsKept
<1>3. \A u \in Tasks : \A c \in task'[u].conn : c \in Held'
  BY HeldIs
<1>4. \A c \in idle' : c \in Held'
  BY HeldIs
<1>5. \A t \in Targets : \A c \in h2'[t] : c \in Held'
  BY HeldIs
<1>6. (\A r \in Tasks : \A c \in task[r].conn : conns[c].target = TargetOf(r))'
  BY <1>2, <1>3 DEF TargetOf
<1>7. (\A r \in Tasks : task[r].pc \in Giving => \A c \in task[r].conn : ~conns[c].target.h2)'
  BY <1>2, <1>3
<1>8. (\A c \in idle : ~conns[c].target.h2)'
  BY <1>2, <1>4
<1>9. (\A t \in Targets : \A c \in h2[t] : conns[c].target = t /\ t.h2)'
  BY <1>2, <1>5 DEF Borrowed
<1>10. (\A c \in Held : conns[c].target.tls_key = tls_key(conns[c].policy))'
  <2>1. \A c \in Held : conns[c].target.tls_key = tls_key(conns[c].policy)
    BY DEF Borrowed
  <2> QED
    BY <1>1, <1>2, <2>1 DEF tls_key
<1>11. OneBorrower'
  <2> SUFFICES ASSUME NEW c \in Conns
               PROVE  \/ conns'[c].target.h2
                      \/ /\ \A r, s \in {u \in Tasks : c \in task'[u].conn} : r = s
                         /\ c \in idle' => {u \in Tasks : c \in task'[u].conn} = {}
    BY DEF OneBorrower, Leases
  <2> QED
    BY <1>2, <1>3, <1>4
<1> QED
  BY <1>6, <1>7, <1>8, <1>9, <1>10, <1>11 DEF Borrowed

\* A task that keeps what it has or lets it go leaves the leases in order.
LEMMA ShrinkStep ==
  ASSUME Typed, RequestsSound, Borrowed, ConnsKept, NEW r \in Tasks, NEW k, Becomes(r, k),
         k.conn = {} \/ (k.conn = task[r].conn /\ Kept(task[r], k)),
         k.pc \in Giving => \A c \in k.conn : ~conns[c].target.h2,
         idle' \subseteq idle, \A t \in Targets : h2'[t] \subseteq h2[t]
  PROVE  Borrowed'
<1>0. /\ task \in [Tasks -> TaskStates] /\ task' = [task EXCEPT ![r] = k] /\ idle \subseteq Conns
      /\ \A u \in Tasks : task[u].conn \subseteq Conns
  BY DEF RequestsSound, Becomes, Typed, ConnsTyped, TaskStates
<1>1. \A u \in Tasks : task'[u] = IF u = r THEN k ELSE task[u]
  BY <1>0
<1>2. \A u \in Tasks : task'[u].conn \subseteq task[u].conn
  BY <1>1
<1>3. ASSUME NEW u \in Tasks, NEW c \in task'[u].conn
      PROVE  /\ c \in Conns /\ c \in Held
             /\ conns[c].target = Target(task'[u].at, task'[u].policy, task'[u].rt.h2)
             /\ task'[u].pc \in Giving => ~conns[c].target.h2
  <2>1. c \in task[u].conn /\ c \in Conns
    BY <1>0, <1>2
  <2>2. c \in Held
    BY <2>1, HeldIs
  <2>3. conns[c].target = Target(task[u].at, task[u].policy, task[u].rt.h2)
    BY <2>1 DEF Borrowed, TargetOf
  <2>4. CASE u = r
    BY <1>1, <2>1, <2>2, <2>3, <2>4 DEF Kept
  <2>5. CASE u # r
    BY <1>1, <2>1, <2>2, <2>3, <2>5 DEF Borrowed
  <2> QED
    BY <2>4, <2>5
<1>4. ASSUME NEW c \in idle'
      PROVE  c \in Conns /\ c \in Held /\ ~conns[c].target.h2 /\ \A u \in Tasks : c \notin task'[u].conn
  <2>1. c \in idle /\ c \in Conns /\ c \in Held /\ ~conns[c].target.h2
    BY <1>0, HeldIs DEF Borrowed
  <2>2. {u \in Tasks : c \in task[u].conn} = {}
    BY <2>1 DEF Borrowed, OneBorrower, Leases
  <2> QED
    BY <1>2, <2>1, <2>2
<1>5. ASSUME NEW u \in Tasks, NEW v \in Tasks, NEW c \in task'[u].conn, c \in task'[v].conn
      PROVE  conns[c].target.h2 \/ u = v
  <2>1. c \in task[u].conn /\ c \in task[v].conn /\ c \in Conns
    BY <1>0, <1>2, <1>5
  <2> QED
    BY <2>1 DEF Borrowed, OneBorrower, Leases
<1> QED
  BY <1>3, <1>4, <1>5, BorrowStep

\* So do the steps that are no task's.
LEMMA IdleStep ==
  ASSUME Typed, RequestsSound, Borrowed, ConnsKept, task' = task,
         idle' \subseteq idle, \A t \in Targets : h2'[t] \subseteq h2[t]
  PROVE  Borrowed'
<1>0. idle \subseteq Conns /\ \A u \in Tasks : task[u].conn \subseteq Conns
  BY DEF RequestsSound, Typed, ConnsTyped, TaskStates
<1>1. ASSUME NEW u \in Tasks, NEW c \in task'[u].conn
      PROVE  /\ c \in Conns /\ c \in Held
             /\ conns[c].target = Target(task'[u].at, task'[u].policy, task'[u].rt.h2)
             /\ task'[u].pc \in Giving => ~conns[c].target.h2
  BY <1>0, HeldIs DEF Borrowed, TargetOf
<1>2. ASSUME NEW c \in idle'
      PROVE  c \in Conns /\ c \in Held /\ ~conns[c].target.h2 /\ \A u \in Tasks : c \notin task'[u].conn
  <2>1. c \in idle /\ c \in Conns /\ c \in Held /\ ~conns[c].target.h2
    BY <1>0, HeldIs DEF Borrowed
  <2>2. {u \in Tasks : c \in task[u].conn} = {}
    BY <2>1 DEF Borrowed, OneBorrower, Leases
  <2> QED
    BY <2>1, <2>2
<1>3. ASSUME NEW u \in Tasks, NEW v \in Tasks, NEW c \in task'[u].conn, c \in task'[v].conn
      PROVE  conns[c].target.h2 \/ u = v
  <2>1. c \in task[u].conn /\ c \in task[v].conn /\ c \in Conns
    BY <1>0, <1>3
  <2> QED
    BY <2>1 DEF Borrowed, OneBorrower, Leases
<1> QED
  BY <1>1, <1>2, <1>3, BorrowStep

\* Leases in order, and the idle connections counted and bounded.
PoolSound == Borrowed /\ IdleExact /\ IdleBounded

\* The counters, in the terms of a step.
LEMMA Counters ==
  ASSUME Typed, RequestsSound, PoolSound
  PROVE  /\ Cardinality(idle) \in Nat /\ evicting \in Nat /\ Outstanding \in Nat /\ Pushing \in Nat
         /\ MaxIdleTotal \in Nat /\ Cardinality(Tasks) \in Nat
         /\ idle_total = Cardinality(idle) + evicting + Outstanding
         /\ idle_total + Pushing <= MaxIdleTotal + Cardinality(Tasks) - 1
<1>1. IsFiniteSet(idle) /\ evicting \in Nat
  BY Given, FS_Subset DEF Typed, ConnsTyped
<1>2. IsFiniteSet(Tasks) /\ IsFiniteSet({r \in Tasks : task[r].pc = "push"})
  BY Given, FS_Subset
<1>3. Outstanding \in Nat
  <2> DEFINE f == [r \in Tasks |-> task[r].pending]
  <2>1. \A r \in Tasks : f[r] \in Nat
    BY DEF RequestsSound, TaskStates
  <2> HIDE DEF f
  <2>2. SumFunctionOnSet(f, Tasks) \in Nat
    BY <1>2, <2>1, SumNat
  <2> QED
    BY <2>2 DEF Outstanding, f
<1>4. Cardinality(idle) \in Nat /\ Cardinality(Tasks) \in Nat /\ Pushing \in Nat
  BY <1>1, <1>2, FS_CardinalityType DEF Pushing
<1> QED
  BY <1>1, <1>3, <1>4, Given DEF PoolSound, IdleExact, IdleBounded, Outstanding, Pushing

\* What there is to show of the counters after a step.
LEMMA CountersNext ==
  ASSUME idle_total' = Cardinality(idle') + evicting' + Outstanding',
         idle_total' + Pushing' <= MaxIdleTotal + Cardinality(Tasks) - 1
  PROVE  IdleExact' /\ IdleBounded'
BY DEF IdleExact, IdleBounded, Outstanding, Pushing

\* A quiet step.
LEMMA QuietPool ==
  ASSUME Typed, RequestsSound, PoolSound, NEW r \in Tasks, NEW k, Quietly(r, k), Calm
  PROVE  ConnsTyped' /\ PoolSound'
<1>1. idle' = idle /\ expired' = expired /\ older' = older /\ h2' = h2 /\ idle_total' = idle_total /\ evicting' = evicting
  BY DEF Calm, poolVars
<1>2. ConnsTyped'
  BY <1>1 DEF Typed, ConnsTyped, Calm, ConnsKept, ConnRecords
<1>3. Borrowed'
  BY <1>1, ShrinkStep DEF PoolSound, Calm, Quietly
<1>4. Outstanding' = Outstanding /\ Pushing' = Pushing
  <2>1. Becomes(r, k) /\ k.pending = task[r].pending /\ One(k.pc = "push") = 0 /\ One(task[r].pc = "push") = 0
    BY DEF Quietly, One
  <2> QED
    BY <2>1, TaskCounts
<1>5. IdleExact' /\ IdleBounded'
  BY <1>1, <1>4, Counters, CountersNext
<1> QED
  BY <1>2, <1>3, <1>5 DEF PoolSound

\* A lease.
LEMMA LeasePool ==
  ASSUME Typed, RequestsSound, PoolSound, NEW r \in Tasks, Lease(r)
  PROVE  ConnsTyped' /\ PoolSound'
<1> DEFINE t == TargetOf(r)
<1>1. PICK k : /\ Becomes(r, k) /\ k.pc \in {"dial", "exchange"} /\ task[r].pc = "lease"
               /\ k.pending = 0 /\ Kept(task[r], k) /\ LeaseOutcome(r, k)
  BY LeaseIs
<1>2. ConnsKept
  BY UnchangedKeeps DEF Lease
<1>3. t \in Targets /\ Sound(task[r]) /\ h2 \in [Targets -> SUBSET Conns] /\ idle \subseteq Conns
  BY TargetTyped DEF RequestsSound, Typed, ConnsTyped
<1>4. task[r].conn = {} /\ task[r].pending = 0
  BY <1>1, <1>3, NothingHeld DEF Trying
<1>5. Outstanding' = Outstanding /\ Pushing' = Pushing
  <2>1. One(k.pc = "push") = 0 /\ One(task[r].pc = "push") = 0
    BY <1>1 DEF One
  <2> QED
    BY <1>1, <1>4, <2>1, TaskCounts
<1>6. k.pc \notin Giving
  BY <1>1 DEF Giving
<1>7. /\ task \in [Tasks -> TaskStates] /\ \A u \in Tasks : task'[u] = IF u = r THEN k ELSE task[u]
      /\ \A u \in Tasks : task[u].conn \subseteq Conns
  BY <1>1 DEF Becomes, RequestsSound, TaskStates
\* One connection of target t is leased that was in the pool.
<1>8. ASSUME NEW c \in Conns, k.conn = {c}, c \in Held, conns[c].target = t,
             idle' \subseteq idle, \A o \in Targets : h2'[o] \subseteq h2[o], c \notin idle',
             t.h2 \/ c \in idle
      PROVE  Borrowed'
  <2>1. ASSUME NEW u \in Tasks, NEW d \in task'[u].conn
        PROVE  /\ d \in Conns /\ d \in Held
               /\ conns[d].target = Target(task'[u].at, task'[u].policy, task'[u].rt.h2)
               /\ task'[u].pc \in Giving => ~conns[d].target.h2
    <3>1. CASE u = r
      BY <1>1, <1>6, <1>7, <1>8, <3>1 DEF TargetOf, Kept
    <3>2. CASE u # r
      <4>1. task'[u] = task[u] /\ d \in task[u].conn /\ d \in Conns
        BY <1>7, <3>2
      <4> QED
        BY <4>1, HeldIs DEF PoolSound, Borrowed, TargetOf
    <3> QED
      BY <3>1, <3>2
  <2>2. ASSUME NEW d \in idle'
        PROVE  d \in Conns /\ d \in Held /\ ~conns[d].target.h2 /\ \A u \in Tasks : d \notin task'[u].conn
    <3>1. d \in idle /\ d \in Conns /\ d \in Held /\ ~conns[d].target.h2 /\ d # c
      BY <1>3, <1>8, HeldIs DEF PoolSound, Borrowed
    <3>2. {u \in Tasks : d \in task[u].conn} = {}
      BY <3>1 DEF PoolSound, Borrowed, OneBorrower, Leases
    <3> QED
      BY <1>7, <1>8, <3>1, <3>2
  <2>3. ASSUME NEW u \in Tasks, NEW v \in Tasks, NEW d \in task'[u].conn, d \in task'[v].conn
        PROVE  conns[d].target.h2 \/ u = v
    <3>1. CASE d = c
      <4>1. CASE t.h2
        BY <1>8, <3>1, <4>1
      <4>2. CASE ~t.h2
        <5>1. {w \in Tasks : c \in task[w].conn} = {}
          BY <1>8, <4>2 DEF PoolSound, Borrowed, OneBorrower, Leases
        <5> QED
          BY <1>7, <2>3, <3>1, <5>1
      <4> QED
        BY <4>1, <4>2
    <3>2. CASE d # c
      <4>1. u # r /\ v # r /\ d \in task[u].conn /\ d \in task[v].conn /\ d \in Conns
        BY <1>7, <1>8, <2>3, <3>2
      <4> QED
        BY <4>1 DEF PoolSound, Borrowed, OneBorrower, Leases
    <3> QED
      BY <3>1, <3>2
  <2> QED
    BY <1>2, <1>8, <2>1, <2>2, <2>3, BorrowStep DEF PoolSound
<1>9. CASE /\ t.h2 /\ \E c \in h2[t] : k.conn = {c}
           /\ UNCHANGED <<poolVars, idle_total, h2, evicting>>
  <2>1. idle' = idle /\ expired' = expired /\ older' = older /\ h2' = h2 /\ idle_total' = idle_total /\ evicting' = evicting
    BY <1>9 DEF poolVars
  <2>2. ConnsTyped'
    BY <1>2, <2>1 DEF Typed, ConnsTyped, ConnsKept, ConnRecords
  <2>3. PICK c \in h2[t] : k.conn = {c}
    BY <1>9
  <2>4. c \in Conns /\ conns[c].target = t /\ c \in Held /\ c \notin idle
    BY <1>3, <1>9, <2>3, HeldIs DEF PoolSound, Borrowed
  <2>5. Borrowed'
    BY <1>8, <1>9, <2>1, <2>3, <2>4
  <2>6. IdleExact' /\ IdleBounded'
    BY <1>5, <2>1, Counters, CountersNext
  <2> QED
    BY <2>2, <2>5, <2>6 DEF PoolSound
<1>10. CASE /\ k.conn = {} /\ (h2' = h2 \/ h2' = h2_cleaned(t))
            /\ UNCHANGED <<poolVars, idle_total, evicting>>
  <2>1. idle' = idle /\ expired' = expired /\ older' = older /\ idle_total' = idle_total /\ evicting' = evicting
    BY <1>10 DEF poolVars
  <2>2. h2' \in [Targets -> SUBSET Conns] /\ \A o \in Targets : h2'[o] \subseteq h2[o]
    BY <1>3, <1>10 DEF h2_cleaned
  <2>3. ConnsTyped'
    BY <1>2, <2>1, <2>2 DEF Typed, ConnsTyped, ConnsKept, ConnRecords
  <2>4. Borrowed'
    BY <1>1, <1>2, <1>6, <1>10, <2>1, <2>2, ShrinkStep DEF PoolSound
  <2>5. IdleExact' /\ IdleBounded'
    BY <1>5, <2>1, Counters, CountersNext
  <2> QED
    BY <2>3, <2>4, <2>5 DEF PoolSound
<1>11. CASE ~t.h2 /\ k.conn \in Handed(t) /\ take(t, k.conn)
  <2> DEFINE gone == TakenOff(t, k.conn)
  <2>1. gone \subseteq idle /\ k.conn \subseteq gone /\ k.conn \subseteq Shard(t)
        /\ (k.conn = {} \/ \E c \in Shard(t) : k.conn = {c})
    BY <1>11, HandedIs
  <2>2. Without(gone) /\ idle_total' = idle_total - Cardinality(gone) /\ h2' = h2 /\ evicting' = evicting
    BY <1>11 DEF take, Subtracted
  <2> HIDE DEF gone
  <2>3. /\ idle' = idle \ gone /\ idle' \subseteq Conns /\ expired' \subseteq idle' /\ older' \subseteq idle' \X idle'
        /\ Cardinality(idle) \in Nat /\ Cardinality(gone) \in Nat
        /\ Cardinality(idle') = Cardinality(idle) - Cardinality(gone)
        /\ Cardinality(gone) <= Cardinality(idle)
    BY <2>1, <2>2, WithoutIs
  <2>4. ConnsTyped'
    BY <1>2, <2>2, <2>3 DEF Typed, ConnsTyped, ConnsKept, ConnRecords
  <2>5. IdleExact' /\ IdleBounded'
    BY <1>5, <2>2, <2>3, Counters, CountersNext
  <2>6. Borrowed'
    <3>1. CASE k.conn = {}
      BY <1>1, <1>2, <1>6, <2>2, <2>3, <3>1, ShrinkStep DEF PoolSound
    <3>2. CASE k.conn # {}
      <4>1. PICK c \in Shard(t) : k.conn = {c}
        BY <2>1, <3>2
      <4>2. c \in Conns /\ c \in Held /\ conns[c].target = t /\ c \in idle /\ c \notin idle'
        BY <1>3, <2>1, <2>3, <4>1, HeldIs DEF Shard
      <4> QED
        BY <1>8, <2>2, <2>3, <4>1, <4>2
    <3> QED
      BY <3>1, <3>2
  <2> QED
    BY <2>4, <2>5, <2>6 DEF PoolSound
<1> QED
  BY <1>1, <1>9, <1>10, <1>11 DEF LeaseOutcome

\* A dial.
LEMMA DialPool ==
  ASSUME Typed, RequestsSound, PoolSound, NEW r \in Tasks, Dial(r)
  PROVE  ConnsTyped' /\ PoolSound'
<1> DEFINE t == TargetOf(r)
           policy == task[r].policy
<1>1. PICK k : Becomes(r, k) /\ k.pc \in {"count", "exchange"} /\ task[r].pc = "dial" /\ DialOutcome(r, k)
  BY DialIs
<1>2. CASE Quietly(r, k) /\ UNCHANGED upstreamVars
  <2>1. Calm
    BY <1>2, UnchangedKeeps DEF Calm, upstreamVars
  <2> QED
    BY <1>2, <2>1, QuietPool
<1>3. CASE ~(Quietly(r, k) /\ UNCHANGED upstreamVars)
  <2>1. PICK c \in NewConns : /\ k.conn = {c} /\ k.pc = "exchange" /\ k.pending = 0 /\ Kept(task[r], k)
                              /\ conns' = Dialled(c, t, policy)
                              /\ h2' = IF t.h2 THEN h2_add(c, t) ELSE h2
                              /\ UNCHANGED <<poolVars, idle_total, evicting>>
    BY <1>1, <1>3 DEF DialOutcome
  <2>2. c \in Conns /\ c \notin Held
    BY Fresh
  <2>3. /\ t \in Targets /\ t.tls_key = tls_key(policy) /\ Sound(task[r]) /\ policy \in Policies
        /\ h2 \in [Targets -> SUBSET Conns] /\ idle \subseteq Conns /\ conns \in [Conns -> ConnRecords]
    BY TargetTyped DEF RequestsSound, Typed, ConnsTyped, TaskStates, ConnRecords
  <2>4. task[r].conn = {} /\ task[r].pending = 0
    BY <1>1, <2>3, NothingHeld DEF Trying
  <2>5. Outstanding' = Outstanding /\ Pushing' = Pushing
    <3>1. One(k.pc = "push") = 0 /\ One(task[r].pc = "push") = 0
      BY <1>1 DEF One
    <3> QED
      BY <1>1, <2>1, <2>4, <3>1, TaskCounts
  <2>6. idle' = idle /\ expired' = expired /\ older' = older /\ idle_total' = idle_total /\ evicting' = evicting
    BY <2>1 DEF poolVars
  <2>7. IdleExact' /\ IdleBounded'
    BY <2>5, <2>6, Counters, CountersNext
  <2>8. /\ h2' \in [Targets -> SUBSET Conns]
        /\ \A o \in Targets : \A d \in h2'[o] : d \in h2[o] \/ (d = c /\ o = t /\ t.h2)
    BY <2>1, <2>2, <2>3 DEF h2_add
  <2> DEFINE n == [state |-> "open", target |-> t, policy |-> policy]
  <2> HIDE DEF t, policy
  <2>9. n \in ConnRecords /\ n.target = t /\ n.policy = policy
    BY <2>3 DEF ConnRecords, ConnStates
  <2>10. conns' = [conns EXCEPT ![c] = n]
    BY <2>1 DEF Dialled
  <2> HIDE DEF n
  <2>11. conns' \in [Conns -> ConnRecords] /\ conns'[c] = n /\ \A d \in Conns : d # c => conns'[d] = conns[d]
    BY <2>2, <2>3, <2>9, <2>10
  <2>12. ConnsTyped'
    BY <2>6, <2>8, <2>11 DEF Typed, ConnsTyped, ConnRecords
  <2>13. /\ task \in [Tasks -> TaskStates] /\ \A u \in Tasks : task'[u] = IF u = r THEN k ELSE task[u]
         /\ \A u \in Tasks : task[u].conn \subseteq Conns
    BY <1>1 DEF Becomes, RequestsSound, TaskStates
  <2>14. \A u \in Tasks : c \notin task[u].conn /\ c \notin idle /\ \A o \in Targets : c \notin h2[o]
    BY <2>2, HeldIs
  <2>15. Borrowed'
    <3>1. ASSUME NEW u \in Tasks, NEW d \in task'[u].conn
          PROVE  /\ conns'[d].target = Target(task'[u].at, task'[u].policy, task'[u].rt.h2)
                 /\ task'[u].pc \in Giving => ~conns'[d].target.h2
      <4>1. CASE u = r
        <5>1. d = c /\ conns'[d].target = t
          BY <2>1, <2>9, <2>11, <2>13, <4>1
        <5>2. Target(task'[u].at, task'[u].policy, task'[u].rt.h2) = t
          BY <2>1, <2>13, <4>1 DEF Kept, t, TargetOf
        <5>3. task'[u].pc \notin Giving
          BY <2>1, <2>13, <4>1 DEF Giving
        <5> QED
          BY <5>1, <5>2, <5>3
      <4>2. CASE u # r
        <5>1. task'[u] = task[u] /\ d \in task[u].conn /\ d \in Conns /\ d # c
          BY <2>13, <2>14, <4>2
        <5> QED
          BY <2>11, <5>1 DEF PoolSound, Borrowed, TargetOf
      <4> QED
        BY <4>1, <4>2
    <3>2. ASSUME NEW d \in idle' PROVE ~conns'[d].target.h2
      <4>1. d \in idle /\ d \in Conns /\ d # c
        BY <2>3, <2>6, <3>2, <2>2, HeldIs
      <4> QED
        BY <2>11, <4>1 DEF PoolSound, Borrowed
    <3>3. ASSUME NEW o \in Targets, NEW d \in h2'[o] PROVE conns'[d].target = o /\ o.h2
      <4>1. CASE d \in h2[o]
        <5>1. d \in Conns /\ d # c
          BY <2>2, <2>3, <4>1, HeldIs
        <5> QED
          BY <2>11, <4>1, <5>1 DEF PoolSound, Borrowed
      <4>2. CASE d = c /\ o = t /\ t.h2
        BY <2>9, <2>11, <4>2
      <4> QED
        BY <2>8, <4>1, <4>2
    <3>4. ASSUME NEW d \in Held' PROVE conns'[d].target.tls_key = tls_key(conns'[d].policy)
      <4>1. CASE d = c
        BY <2>3, <2>9, <2>11, <4>1
      <4>2. CASE d # c
        <5>1. d \in Held /\ d \in Conns
          <6>1. CASE \E u \in Tasks : d \in task'[u].conn
            <7>1. PICK u \in Tasks : d \in task'[u].conn
              BY <6>1
            <7>2. d \in task[u].conn
              BY <2>1, <2>13, <4>2, <7>1
            <7> QED
              BY <2>13, <7>2, HeldIs
          <6>2. CASE d \in idle'
            BY <2>3, <2>6, <6>2, HeldIs
          <6>3. CASE \E o \in Targets : d \in h2'[o]
            <7>1. PICK o \in Targets : d \in h2[o]
              BY <2>8, <4>2, <6>3
            <7> QED
              BY <2>3, <7>1, HeldIs
          <6> QED
            BY <3>4, <6>1, <6>2, <6>3, HeldIs
        <5> QED
          BY <2>11, <4>2, <5>1 DEF PoolSound, Borrowed, tls_key
      <4> QED
        BY <4>1, <4>2
    <3>5. OneBorrower'
      <4> SUFFICES ASSUME NEW d \in Conns
                   PROVE  \/ conns'[d].target.h2
                          \/ /\ \A u, v \in {w \in Tasks : d \in task'[w].conn} : u = v
                             /\ d \in idle' => {w \in Tasks : d \in task'[w].conn} = {}
        BY DEF OneBorrower, Leases
      <4>1. CASE d = c
        BY <2>6, <2>13, <2>14, <4>1, <2>2, HeldIs
      <4>2. CASE d # c
        <5>1. {w \in Tasks : d \in task'[w].conn} = {w \in Tasks : d \in task[w].conn}
          BY <2>1, <2>4, <2>13, <4>2
        <5>2. \/ conns[d].target.h2
              \/ /\ \A u, v \in {w \in Tasks : d \in task[w].conn} : u = v
                 /\ d \in idle => {w \in Tasks : d \in task[w].conn} = {}
          BY DEF PoolSound, Borrowed, OneBorrower, Leases
        <5> QED
          BY <2>6, <2>11, <4>2, <5>1, <5>2
      <4> QED
        BY <4>1, <4>2
    <3>6. (\A u \in Tasks : \A d \in task[u].conn : conns[d].target = TargetOf(u))'
      BY <3>1 DEF TargetOf
    <3>7. (\A u \in Tasks : task[u].pc \in Giving => \A d \in task[u].conn : ~conns[d].target.h2)'
      BY <3>1
    <3>8. (\A d \in Held : conns[d].target.tls_key = tls_key(conns[d].policy))'
      BY <3>4 DEF tls_key
    <3> QED
      BY <3>2, <3>3, <3>5, <3>6, <3>7, <3>8 DEF Borrowed
  <2> QED
    BY <2>7, <2>12, <2>15 DEF PoolSound
<1> QED
  BY <1>2, <1>3

\* A task looks for room in the pool.
LEMMA ReturnPool ==
  ASSUME Typed, RequestsSound, PoolSound, NEW r \in Tasks, Return(r)
  PROVE  ConnsTyped' /\ PoolSound'
<1>1. PICK k : /\ Becomes(r, k) /\ k.pc \notin {"mark", "disable"} /\ task[r].pc = "return"
               /\ ReturnOutcome(r, k)
  BY ReturnIs
<1>2. ConnsKept /\ idle_total' = idle_total /\ h2' = h2 /\ evicting' = evicting
  BY UnchangedKeeps DEF Return
<1>3. /\ Sound(task[r]) /\ task[r].pending = 0 /\ \A c \in task[r].conn : ~conns[c].target.h2
      /\ k.conn = {} \/ (k.conn = task[r].conn /\ Kept(task[r], k))
  BY <1>1, NothingHeld DEF RequestsSound, PoolSound, Borrowed, Giving, ReturnOutcome
<1>4. expired \subseteq idle
  BY DEF Typed, ConnsTyped
<1>5. /\ idle' \subseteq idle /\ idle' \subseteq Conns /\ expired' \subseteq idle' /\ older' \subseteq idle' \X idle'
      /\ Cardinality(idle') = Cardinality(idle) - k.pending
      /\ k.pending > 0 => k.pc # "push"
  <2>1. CASE UNCHANGED poolVars /\ k.pending = 0
    BY <1>1, <2>1, Counters DEF Typed, ConnsTyped, poolVars
  <2>2. CASE k.pending = Cardinality(expired) /\ EvictExpired /\ k.pc = "subtract"
    <3>1. expired \in SUBSET idle /\ Without(expired)
      BY <1>4, <2>2 DEF EvictExpired
    <3>2. /\ idle' = idle \ expired /\ idle' \subseteq Conns /\ expired' \subseteq idle' /\ older' \subseteq idle' \X idle'
          /\ Cardinality(idle') = Cardinality(idle) - Cardinality(expired)
      BY <3>1, WithoutIs
    <3> QED
      BY <2>2, <3>2
  <2> QED
    BY <1>1, <2>1, <2>2 DEF ReturnOutcome
<1>6. ConnsTyped'
  BY <1>2, <1>5 DEF Typed, ConnsTyped, ConnsKept, ConnRecords
<1>7. Borrowed'
  BY <1>1, <1>2, <1>3, <1>5, ShrinkStep DEF PoolSound
<1>8. IdleExact' /\ IdleBounded'
  <2>1. /\ Outstanding' = Outstanding + k.pending /\ k.pending \in Nat /\ One(task[r].pc = "push") = 0
        /\ Pushing' = Pushing + One(k.pc = "push") /\ Pushing' <= Cardinality(Tasks) /\ Pushing' \in Nat
    <3>1. One(task[r].pc = "push") = 0 /\ One(k.pc = "push") \in Nat
      BY <1>1 DEF One
    <3> QED
      BY <1>1, <1>3, <3>1, TaskCounts
  <2>2. CASE k.pc = "push"
    <3>1. idle_total < MaxIdleTotal /\ k.pending = 0
      BY <1>1, <2>2 DEF ReturnOutcome
    <3> QED
      BY <1>2, <1>5, <2>1, <3>1, Counters, CountersNext
  <2>3. CASE k.pc # "push"
    <3>1. Pushing' = Pushing
      BY <2>1, <2>3, Counters DEF One
    <3> QED
      BY <1>2, <1>5, <2>1, <3>1, Counters, CountersNext
  <2> QED
    BY <2>2, <2>3
<1> QED
  BY <1>6, <1>7, <1>8 DEF PoolSound

\* It subtracts the expired connections it has removed.
LEMMA SubtractPool ==
  ASSUME Typed, RequestsSound, PoolSound, NEW r \in Tasks, Subtract(r)
  PROVE  ConnsTyped' /\ PoolSound'
<1>1. PICK k : Becomes(r, k) /\ k.pc = "push" /\ k.conn = task[r].conn /\ k.pending = 0 /\ Kept(task[r], k)
  BY GivingIs
<1>2. /\ task[r].pc = "subtract" /\ idle_total' = idle_total - task[r].pending
      /\ conns' = conns /\ idle' = idle /\ expired' = expired /\ older' = older /\ h2' = h2 /\ evicting' = evicting
  BY DEF Subtract, poolVars
<1>3. Sound(task[r]) /\ task[r].pending > 0 /\ \A c \in task[r].conn : ~conns[c].target.h2
  BY <1>2 DEF RequestsSound, Sound, Holds, PoolSound, Borrowed, Giving
<1>4. ConnsKept
  BY <1>2, UnchangedKeeps
<1>5. ConnsTyped'
  BY <1>2 DEF Typed, ConnsTyped
<1>6. Borrowed'
  BY <1>1, <1>2, <1>3, <1>4, ShrinkStep DEF PoolSound
<1>7. IdleExact' /\ IdleBounded'
  <2>1. /\ Outstanding' = Outstanding - task[r].pending /\ task[r].pending \in Nat
        /\ Pushing' = Pushing + 1
    <3>1. One(k.pc = "push") = 1 /\ One(task[r].pc = "push") = 0
      BY <1>1, <1>2 DEF One
    <3> QED
      BY <1>1, <3>1, TaskCounts
  <2> QED
    BY <1>2, <1>3, <2>1, Counters, CountersNext
<1> QED
  BY <1>5, <1>6, <1>7 DEF PoolSound

\* It drops the oldest connection of a target.
LEMMA EvictPool ==
  ASSUME Typed, RequestsSound, PoolSound, NEW r \in Tasks, EvictOldest(r)
  PROVE  ConnsTyped' /\ PoolSound'
<1>1. PICK k : /\ Becomes(r, k) /\ k.pending = 0
               /\ \/ /\ Shard(task[r].key) = {}
                     /\ k.pc \in {"idle", "pick"} /\ k.conn = {}
                  \/ /\ Shard(task[r].key) # {}
                     /\ k.pc = "push" /\ k.conn = task[r].conn /\ Kept(task[r], k)
  BY GivingIs
<1>2. task[r].pc = "oldest" /\ ConnsKept /\ h2' = h2 /\ evicting' = evicting
  BY UnchangedKeeps DEF EvictOldest, pop_front
<1>3. Sound(task[r]) /\ task[r].pending = 0 /\ \A c \in task[r].conn : ~conns[c].target.h2
  BY <1>2, NothingHeld DEF RequestsSound, PoolSound, Borrowed, Giving
<1>4. Outstanding' = Outstanding /\ Pushing' = Pushing + One(k.pc = "push")
  <2>1. One(task[r].pc = "push") = 0
    BY <1>2 DEF One
  <2>2. One(k.pc = "push") \in Nat
    BY DEF One
  <2> QED
    BY <1>1, <1>3, <2>1, <2>2, TaskCounts
<1>5. CASE Shard(task[r].key) = {}
  <2>1. idle' = idle /\ expired' = expired /\ older' = older /\ idle_total' = idle_total
    BY <1>5 DEF EvictOldest, pop_front, poolVars
  <2>2. ConnsTyped'
    BY <1>2, <2>1 DEF Typed, ConnsTyped, ConnsKept, ConnRecords
  <2>3. Borrowed'
    BY <1>1, <1>2, <1>3, <1>5, <2>1, ShrinkStep DEF PoolSound
  <2>4. Pushing' = Pushing
    BY <1>1, <1>4, <1>5, Counters DEF One
  <2>5. IdleExact' /\ IdleBounded'
    BY <1>2, <1>4, <2>1, <2>4, Counters, CountersNext
  <2> QED
    BY <2>2, <2>3, <2>5 DEF PoolSound
<1>6. CASE Shard(task[r].key) # {}
  <2>1. PICK c \in Shard(task[r].key) : Without({c})
    BY <1>6 DEF EvictOldest, pop_front
  <2>2. idle_total' = idle_total - 1
    BY <1>6 DEF EvictOldest, pop_front
  <2> DEFINE gone == {c}
  <2>3. gone \in SUBSET idle /\ Without(gone) /\ Cardinality(gone) = 1
    BY <2>1, FS_Singleton DEF Shard
  <2> HIDE DEF gone
  <2>4. /\ idle' = idle \ gone /\ idle' \subseteq Conns /\ expired' \subseteq idle' /\ older' \subseteq idle' \X idle'
        /\ Cardinality(idle') = Cardinality(idle) - Cardinality(gone)
    BY <2>3, WithoutIs
  <2>5. ConnsTyped'
    BY <1>2, <2>4 DEF Typed, ConnsTyped, ConnsKept, ConnRecords
  <2>6. Borrowed'
    BY <1>1, <1>2, <1>3, <1>6, <2>4, ShrinkStep DEF PoolSound
  <2>7. Pushing' = Pushing + 1
    BY <1>1, <1>4, <1>6 DEF One
  <2>8. IdleExact' /\ IdleBounded'
    BY <1>2, <1>4, <2>2, <2>3, <2>4, <2>7, Counters, CountersNext
  <2> QED
    BY <2>5, <2>6, <2>8 DEF PoolSound
<1> QED
  BY <1>5, <1>6

\* It puts its connection into the pool, unless its target is full.
LEMMA PushPool ==
  ASSUME Typed, RequestsSound, PoolSound, NEW r \in Tasks, Push(r)
  PROVE  ConnsTyped' /\ PoolSound'
<1>1. PICK k : Becomes(r, k) /\ k.pc \in {"idle", "pick"} /\ k.conn = {} /\ k.pending = 0
  BY GivingIs
<1>2. task[r].pc = "push" /\ ConnsKept
  BY UnchangedKeeps DEF Push
<1>3. PICK c \in task[r].conn : push(c)
  BY DEF Push
<1>4. h2' = h2 /\ evicting' = evicting
  BY <1>3 DEF push
<1>5. /\ Sound(task[r]) /\ task[r].pending = 0 /\ c \in Conns /\ ~conns[c].target.h2 /\ task[r].conn \subseteq {c}
      /\ task \in [Tasks -> TaskStates]
  BY <1>2, <1>3, NothingHeld DEF RequestsSound, PoolSound, Borrowed, Giving, TaskStates, Sound, Holds
<1>6. Outstanding' = Outstanding /\ Pushing' = Pushing - 1
  <2>1. One(task[r].pc = "push") = 1 /\ One(k.pc = "push") = 0
    BY <1>1, <1>2 DEF One
  <2> QED
    BY <1>1, <1>5, <2>1, TaskCounts
<1>7. CASE idle' = idle /\ expired' = expired /\ older' = older /\ idle_total' = idle_total
  <2>1. ConnsTyped'
    BY <1>2, <1>4, <1>7 DEF Typed, ConnsTyped, ConnsKept, ConnRecords
  <2>2. k.pc \notin Giving
    BY <1>1 DEF Giving
  <2>3. Borrowed'
    BY <1>1, <1>2, <1>4, <1>7, <2>2, ShrinkStep DEF PoolSound
  <2>4. IdleExact' /\ IdleBounded'
    BY <1>4, <1>6, <1>7, Counters, CountersNext
  <2> QED
    BY <2>1, <2>3, <2>4 DEF PoolSound
<1>8. CASE /\ idle' = idle \cup {c} /\ older' = older \cup (idle \X {c})
           /\ idle_total' = idle_total + 1 /\ expired' = expired
  <2>1. {u \in Tasks : c \in task[u].conn} = {r} /\ c \notin idle
    BY <1>3, <1>5 DEF PoolSound, Borrowed, OneBorrower, Leases
  <2>2. Cardinality(idle') = Cardinality(idle) + 1
    <3>1. IsFiniteSet(idle)
      BY Given, FS_Subset DEF Typed, ConnsTyped
    <3> QED
      BY <1>8, <2>1, <3>1, FS_AddElement
  <2>3. idle' \subseteq Conns /\ expired' \subseteq idle' /\ older' \subseteq idle' \X idle'
    BY <1>5, <1>8 DEF Typed, ConnsTyped
  <2>4. ConnsTyped'
    BY <1>2, <1>4, <2>3 DEF Typed, ConnsTyped, ConnsKept, ConnRecords
  <2>5. IdleExact' /\ IdleBounded'
    BY <1>4, <1>6, <1>8, <2>2, Counters, CountersNext
  <2>6. /\ \A u \in Tasks : task'[u] = IF u = r THEN k ELSE task[u]
        /\ \A u \in Tasks : task[u].conn \subseteq Conns
    BY <1>1, <1>5 DEF Becomes, TaskStates
  <2>7. ASSUME NEW u \in Tasks, NEW d \in task'[u].conn
        PROVE  u # r /\ d \in task[u].conn /\ task'[u] = task[u] /\ d \in Conns /\ d # c
    BY <1>1, <2>1, <2>6
  <2>8. ASSUME NEW u \in Tasks, NEW d \in task'[u].conn
        PROVE  /\ d \in Conns /\ d \in Held
               /\ conns[d].target = Target(task'[u].at, task'[u].policy, task'[u].rt.h2)
               /\ task'[u].pc \in Giving => ~conns[d].target.h2
    BY <2>7, HeldIs DEF PoolSound, Borrowed, TargetOf
  <2>9. ASSUME NEW d \in idle'
        PROVE  d \in Conns /\ d \in Held /\ ~conns[d].target.h2 /\ \A u \in Tasks : d \notin task'[u].conn
    <3>1. CASE d = c
      BY <1>3, <1>5, <2>7, <3>1, HeldIs
    <3>2. CASE d # c
      <4>1. d \in idle /\ d \in Conns /\ d \in Held /\ ~conns[d].target.h2
        BY <1>8, <2>3, <3>2, HeldIs DEF PoolSound, Borrowed
      <4>2. {u \in Tasks : d \in task[u].conn} = {}
        BY <4>1 DEF PoolSound, Borrowed, OneBorrower, Leases
      <4> QED
        BY <2>7, <4>1, <4>2
    <3> QED
      BY <3>1, <3>2
  <2>10. ASSUME NEW u \in Tasks, NEW v \in Tasks, NEW d \in task'[u].conn, d \in task'[v].conn
         PROVE  conns[d].target.h2 \/ u = v
    BY <2>7, <2>10 DEF PoolSound, Borrowed, OneBorrower, Leases
  <2>11. Borrowed'
    BY <1>2, <1>4, <2>8, <2>9, <2>10, BorrowStep DEF PoolSound
  <2> QED
    BY <2>4, <2>5, <2>11 DEF PoolSound
<1> QED
  BY <1>3, <1>7, <1>8 DEF push, poolVars

\* The requests' counters when no task moves.
LEMMA CountsStay ==
  ASSUME task' = task
  PROVE  Outstanding' = Outstanding /\ Pushing' = Pushing
BY DEF Outstanding, Pushing

\* The upkeep of the pool.
LEMMA UpkeepPool ==
  ASSUME Typed, RequestsSound, PoolSound, Upkeep
  PROVE  ConnsTyped' /\ PoolSound'
<1>0. task' = task
  BY DEF Upkeep
<1>1. expired \subseteq idle /\ idle \subseteq Conns /\ conns \in [Conns -> ConnRecords]
  BY DEF Typed, ConnsTyped, ConnRecords
<1>2. CASE Expire
  <2>1. /\ conns' = conns /\ idle' = idle /\ older' = older /\ h2' = h2 /\ idle_total' = idle_total
        /\ evicting' = evicting /\ expired' \subseteq idle
    BY <1>1, <1>2 DEF Expire
  <2>2. ConnsKept
    BY <2>1, UnchangedKeeps
  <2>3. ConnsTyped'
    BY <2>1 DEF Typed, ConnsTyped
  <2>4. Borrowed'
    BY <1>0, <2>1, <2>2, IdleStep DEF PoolSound
  <2>5. IdleExact' /\ IdleBounded'
    BY <1>0, <2>1, CountsStay, Counters, CountersNext
  <2> QED
    BY <2>3, <2>4, <2>5 DEF PoolSound
<1>3. CASE SweepSubtract
  <2>1. /\ conns' = conns /\ idle' = idle /\ older' = older /\ h2' = h2 /\ expired' = expired
        /\ idle_total' = idle_total - evicting /\ evicting' = 0
    BY <1>3 DEF SweepSubtract, poolVars
  <2>2. ConnsKept
    BY <2>1, UnchangedKeeps
  <2>3. ConnsTyped'
    BY <2>1 DEF Typed, ConnsTyped
  <2>4. Borrowed'
    BY <1>0, <2>1, <2>2, IdleStep DEF PoolSound
  <2>5. IdleExact' /\ IdleBounded'
    BY <1>0, <2>1, CountsStay, Counters, CountersNext
  <2> QED
    BY <2>3, <2>4, <2>5 DEF PoolSound
<1>4. CASE Sweep /\ Keep(conns)
  <2>1. /\ expired \in SUBSET idle /\ Without(expired) /\ evicting = 0 /\ evicting' = Cardinality(expired)
        /\ idle_total' = idle_total /\ h2' = h2
    BY <1>1, <1>4 DEF Sweep, EvictExpired
  <2>2. ConnsKept
    BY <1>4, UnchangedKeeps
  <2>3. /\ idle' = idle \ expired /\ idle' \subseteq Conns /\ expired' \subseteq idle' /\ older' \subseteq idle' \X idle'
        /\ Cardinality(expired) \in Nat /\ Cardinality(idle') = Cardinality(idle) - Cardinality(expired)
    BY <2>1, WithoutIs
  <2>4. ConnsTyped'
    BY <2>1, <2>2, <2>3 DEF Typed, ConnsTyped, ConnsKept, ConnRecords
  <2>5. Borrowed'
    BY <1>0, <2>1, <2>2, <2>3, IdleStep DEF PoolSound
  <2>6. IdleExact' /\ IdleBounded'
    BY <1>0, <2>1, <2>3, CountsStay, Counters, CountersNext
  <2> QED
    BY <2>4, <2>5, <2>6 DEF PoolSound
<1>5. CASE (\E c \in idle \cup (UNION {h2[t] : t \in Targets}) : End(c)) \/ \E c \in Held : Notice(c)
  <2>1. PICK c \in Conns, s \in ConnStates :
          /\ conns' = [conns EXCEPT ![c].state = s]
          /\ UNCHANGED <<poolVars, idle_total, h2, evicting>>
    <3>1. \A c \in Held : c \in Conns
      <4>1. /\ \A u \in Tasks : task[u].conn \subseteq Conns
            /\ \A t \in Targets : h2[t] \subseteq Conns
        BY DEF RequestsSound, TaskStates, Typed, ConnsTyped
      <4> QED
        BY <1>1, <4>1, HeldIs
    <3>2. \A c \in idle \cup (UNION {h2[t] : t \in Targets}) : c \in Held
      BY DEF Held
    <3>3. "ending" \in ConnStates /\ "closed" \in ConnStates
      BY DEF ConnStates
    <3>4. PICK c \in Held : End(c) \/ Notice(c)
      BY <1>5, <3>2
    <3> QED
      BY <3>1, <3>3, <3>4 DEF End, Notice
  <2> DEFINE D == {c}
  <2>2. conns' = [d \in Conns |-> IF d \in D THEN [conns[d] EXCEPT !.state = s] ELSE conns[d]]
    BY <1>1, <2>1
  <2>3. D \in SUBSET Conns
    BY <2>1
  <2> HIDE DEF D
  <2>4. ConnsKept
    BY <2>2, <2>3, StateKeeps
  <2>5. idle' = idle /\ expired' = expired /\ older' = older /\ h2' = h2 /\ idle_total' = idle_total /\ evicting' = evicting
    BY <2>1 DEF poolVars
  <2>6. ConnsTyped'
    BY <2>4, <2>5 DEF Typed, ConnsTyped, ConnsKept, ConnRecords
  <2>7. Borrowed'
    BY <1>0, <2>4, <2>5, IdleStep DEF PoolSound
  <2>8. IdleExact' /\ IdleBounded'
    BY <1>0, <2>5, CountsStay, Counters, CountersNext
  <2> QED
    BY <2>6, <2>7, <2>8 DEF PoolSound
<1> QED
  BY <1>2, <1>3, <1>4, <1>5 DEF Upkeep

\* A step that touches neither the requests nor the pool.
LEMMA ElsewherePool ==
  ASSUME Typed, RequestsSound, PoolSound, task' = task, UNCHANGED upstreamVars
  PROVE  ConnsTyped' /\ PoolSound'
<1>1. /\ conns' = conns /\ idle' = idle /\ expired' = expired /\ older' = older /\ h2' = h2
      /\ idle_total' = idle_total /\ evicting' = evicting
  BY DEF upstreamVars, poolVars
<1>2. ConnsKept
  BY <1>1, UnchangedKeeps
<1>3. ConnsTyped'
  BY <1>1 DEF Typed, ConnsTyped
<1>4. Borrowed'
  BY <1>1, <1>2, IdleStep DEF PoolSound
<1>5. IdleExact' /\ IdleBounded'
  BY <1>1, CountsStay, Counters, CountersNext
<1> QED
  BY <1>3, <1>4, <1>5 DEF PoolSound

----------------------------------------------------------------------------
(* The ejections *)

\* A pool no two ejections of which overlap has at most one under way, and an
\* endpoint in rotation beside the one that is about to leave.
Stays == \A p \in 1 .. built : p \notin raced =>
  /\ pools[p].addrs # {} => pools[p].enabled # {}
  /\ \A r, s \in Ejecting(p) : r = s
  /\ \A r \in Ejecting(p) : \E b \in pools[p].enabled : b # task[r].at

\* A step of no ejection that takes no endpoint out.
LEMMA RotationStays ==
  ASSUME Typed, RequestsSound, Stays, RotatesAll, raced' = raced,
         \A u \in Tasks : task'[u].pc \in {"mark", "disable"} =>
           task[u].pc \in {"mark", "disable"} /\ task'[u].pool = task[u].pool /\ task'[u].at = task[u].at
  PROVE  Stays'
<1> SUFFICES ASSUME NEW p \in 1 .. built', p \notin raced
             PROVE  /\ pools'[p].addrs # {} => pools'[p].enabled # {}
                    /\ \A r, s \in Ejecting(p)' : r = s
                    /\ \A r \in Ejecting(p)' : \E b \in pools'[p].enabled : b # task'[r].at
  BY DEF Stays, Ejecting
<1>1. \A u \in Ejecting(p)' : u \in Ejecting(p) /\ task'[u].at = task[u].at /\ task[u].pool = p
  BY DEF Ejecting
<1>2. CASE p \in 1 .. built
  <2>1. /\ pools[p].addrs # {} => pools[p].enabled # {}
        /\ \A r, s \in Ejecting(p) : r = s
        /\ \A r \in Ejecting(p) : \E b \in pools[p].enabled : b # task[r].at
    BY <1>2 DEF Stays
  <2>2. pools'[p].addrs = pools[p].addrs /\ \A b \in pools[p].enabled : b \in pools'[p].enabled
    BY <1>2 DEF RotatesAll
  <2> QED
    BY <1>1, <2>1, <2>2
<1>3. CASE p \notin 1 .. built
  <2>1. pools'[p].enabled = pools'[p].addrs
    BY <1>3 DEF RotatesAll
  <2>2. Ejecting(p)' = {}
    <3>1. \A u \in Tasks : task[u].pool \in 1 .. built
      <4>1. \A u \in Tasks : task[u].pool \in PoolIds /\ task[u].pool <= built
        BY DEF RequestsSound, TaskStates
      <4> QED
        BY <4>1, Given DEF PoolIds, Typed, Fits
    <3> QED
      BY <1>1, <1>3, <3>1 DEF Ejecting
  <2> QED
    BY <2>1, <2>2
<1> QED
  BY <1>2, <1>3

\* The steps of an ejection.
LEMMA EjectionStays ==
  ASSUME Typed, RequestsSound, Stays, NEW r \in Tasks, CountReady(r) \/ MarkOut(r) \/ TakeOut(r)
  PROVE  EndpointsTypeOK' /\ built' = built /\ raced' \subseteq PoolIds /\ Stays'
<1>0. /\ task[r] \in TaskStates /\ task[r].pool \in PoolIds /\ task[r].at \in Addrs /\ Sound(task[r])
      /\ task \in [Tasks -> TaskStates] /\ EndpointsTypeOK /\ raced \subseteq PoolIds
  BY DEF RequestsSound, TaskStates, Typed
<1>1. PICK k : /\ Quietly(r, k) /\ k.pool = task[r].pool /\ k.at = task[r].at
               /\ \/ k.pc = "settle"
                  \/ k.pc = "mark" /\ task[r].pc = "count" /\ MayEject(task[r].pool, task[r].at)
                  \/ k.pc = "disable" /\ task[r].pc = "mark"
  BY EjectionQuiet
<1>2. \A u \in Tasks : task'[u] = IF u = r THEN k ELSE task[u]
  BY <1>0, <1>1 DEF Quietly, Becomes
<1>3. CASE CountReady(r)
  <2> DEFINE p == task[r].pool
  <2>1. pools' = pools /\ built' = built /\ record' = record /\ timers' = timers /\ task[r].pc = "count"
    BY <1>3 DEF CountReady, endpointVars
  <2>2. EndpointsTypeOK'
    BY <1>0, <2>1 DEF EndpointsTypeOK
  <2>3. RotatesAll
    BY <2>1 DEF RotatesAll
  <2>4. CASE ~MayEject(p, task[r].at)
    <3>1. k.pc = "settle" /\ raced' = raced
      BY <1>1, <1>3, <2>1, <2>4 DEF CountReady
    <3>2. Stays'
      BY <1>2, <2>3, <3>1, RotationStays
    <3> QED
      BY <1>0, <2>1, <2>2, <3>1, <3>2
  <2>5. CASE MayEject(p, task[r].at)
    <3>1. raced' = IF Ejecting(p) = {} THEN raced ELSE raced \cup {p}
      BY <1>3, <2>5 DEF CountReady
    <3>2. raced' \subseteq PoolIds /\ raced \subseteq raced'
      BY <1>0, <3>1
    <3>3. \E b \in pools[p].enabled : b # task[r].at
      <4>1. ready(p) \subseteq pools[p].enabled /\ IsFiniteSet(ready(p)) /\ Cardinality(ready(p)) > 1
        BY <1>0, <2>5, ReadyTyped DEF MayEject
      <4>2. ~(ready(p) \subseteq {task[r].at})
        <5> SUFFICES ASSUME ready(p) \subseteq {task[r].at} PROVE FALSE
          OBVIOUS
        <5>1. ready(p) = {} \/ ready(p) = {task[r].at}
          OBVIOUS
        <5>2. Cardinality(ready(p)) = 0 \/ Cardinality(ready(p)) = 1
          BY <5>1, FS_EmptySet, FS_Singleton
        <5> QED
          BY <4>1, <5>2
      <4> QED
        BY <4>1, <4>2
    <3>4. ASSUME NEW q \in 1 .. built, q \notin raced'
          PROVE  /\ pools[q].addrs # {} => pools[q].enabled # {}
                 /\ \A u, v \in Ejecting(q)' : u = v
                 /\ \A u \in Ejecting(q)' : \E b \in pools[q].enabled : b # task'[u].at
      <4>1. /\ pools[q].addrs # {} => pools[q].enabled # {}
            /\ \A u, v \in Ejecting(q) : u = v
            /\ \A u \in Ejecting(q) : \E b \in pools[q].enabled : b # task[u].at
        BY <3>2, <3>4 DEF Stays
      <4>2. CASE q # p
        <5>1. Ejecting(q)' = Ejecting(q) /\ \A u \in Ejecting(q) : task'[u] = task[u]
          BY <1>1, <1>2, <4>2 DEF Ejecting
        <5> QED
          BY <4>1, <5>1
      <4>3. CASE q = p
        <5>1. Ejecting(q) = {}
          BY <3>1, <3>4, <4>3
        <5>2. \A u \in Ejecting(q)' : u = r
          BY <1>2, <5>1 DEF Ejecting
        <5>3. task'[r].at = task[r].at
          BY <1>1, <1>2
        <5> QED
          BY <3>3, <4>1, <4>3, <5>2, <5>3
      <4> QED
        BY <4>2, <4>3
    <3>5. Stays'
      BY <2>1, <3>4 DEF Stays, Ejecting
    <3> QED
      BY <2>1, <2>2, <3>2, <3>5
  <2> QED
    BY <2>4, <2>5
<1>4. CASE MarkOut(r)
  <2>1. task[r].pc = "mark" /\ raced' = raced
    BY <1>4 DEF MarkOut
  <2>2. EndpointsTypeOK' /\ built' = built /\ RotatesAll
    <3>1. CASE UNCHANGED endpointVars
      <4>1. pools' = pools /\ built' = built /\ record' = record /\ timers' = timers
        BY <3>1 DEF endpointVars
      <4>2. EndpointsTypeOK'
        BY <1>0, <4>1 DEF EndpointsTypeOK
      <4>3. RotatesAll
        BY <4>1 DEF RotatesAll
      <4> QED
        BY <4>1, <4>2, <4>3
    <3>2. CASE MarkEjected(task[r].at)
      BY <1>0, <3>2, RecordKeeps
    <3> QED
      BY <1>4, <3>1, <3>2 DEF MarkOut
  <2>3. Stays'
    BY <1>1, <1>2, <2>1, <2>2, RotationStays
  <2> QED
    BY <1>0, <2>1, <2>2, <2>3
<1>5. CASE TakeOut(r)
  <2> DEFINE p == task[r].pool
             a == task[r].at
  <2>1. task[r].pc = "disable" /\ raced' = raced /\ Disable(p, a, task[r].nth) /\ k.pc = "settle"
    BY <1>1, <1>5 DEF TakeOut
  <2>2. task[r].nth \in 1 .. MaxCount
    <3>1. task[r].nth \in 0 .. MaxCount
      BY <1>0 DEF TaskStates
    <3>2. task[r].nth >= 1
      BY <1>0, <2>1 DEF Sound, Holds
    <3> QED
      BY <3>1, <3>2
  <2>3. EndpointsTypeOK' /\ built' = built /\ Rotates(p, a)
    BY <1>0, <2>1, <2>2, DisableKeeps
  <2>4. ASSUME NEW q \in 1 .. built, q \notin raced
        PROVE  /\ pools'[q].addrs # {} => pools'[q].enabled # {}
               /\ \A u, v \in Ejecting(q)' : u = v
               /\ \A u \in Ejecting(q)' : \E b \in pools'[q].enabled : b # task'[u].at
    <3>1. /\ pools[q].addrs # {} => pools[q].enabled # {}
          /\ \A u, v \in Ejecting(q) : u = v
          /\ \A u \in Ejecting(q) : \E b \in pools[q].enabled : b # task[u].at
      BY <2>4 DEF Stays
    <3>2. \A u \in Ejecting(q)' : u # r /\ u \in Ejecting(q) /\ task'[u] = task[u]
      BY <1>2, <2>1 DEF Ejecting
    <3>3. CASE q # p
      <4>1. pools'[q].addrs = pools[q].addrs /\ \A b \in pools[q].enabled : b \in pools'[q].enabled
        BY <2>3, <3>3 DEF Rotates
      <4> QED
        BY <3>1, <3>2, <4>1
    <3>4. CASE q = p
      <4>1. r \in Ejecting(p)
        BY <2>1 DEF Ejecting
      <4>2. Ejecting(q)' = {}
        BY <3>1, <3>2, <3>4, <4>1
      <4>3. PICK b \in pools[p].enabled : b # a
        BY <3>1, <3>4, <4>1
      <4>4. b \in pools'[p].enabled
        BY <2>3, <2>4, <3>4, <4>3 DEF Rotates
      <4> QED
        BY <3>4, <4>2, <4>4
    <3> QED
      BY <3>3, <3>4
  <2>5. Stays'
    BY <2>1, <2>3, <2>4 DEF Stays, Ejecting
  <2> QED
    BY <1>0, <2>1, <2>3, <2>5
<1> QED
  BY <1>3, <1>4, <1>5

----------------------------------------------------------------------------
(* The induction *)

Inv == Typed /\ RequestsSound /\ Stays /\ PoolSound

\* The requests after a step of one of them, or of none.
LEMMA SoundNext ==
  ASSUME Typed, RequestsSound, built' \in PoolIds, built <= built',
         task' = task \/ \E r \in Tasks : \E k : Becomes(r, k)
  PROVE  RequestsSound'
<1>0. /\ task \in [Tasks -> TaskStates] /\ \A u \in Tasks : Sound(task[u]) /\ task[u].pool <= built
  BY DEF RequestsSound
<1>1. built \in Int /\ built' \in Int /\ \A k \in TaskStates : k.pool \in Int
  BY Given DEF PoolIds, Typed, Fits, TaskStates
<1>2. \A k \in TaskStates : k.pool <= built => k.pool <= built'
  BY <1>1
<1>3. \A u \in Tasks : task[u] \in TaskStates
  BY <1>0
<1>4. CASE task' = task
  BY <1>0, <1>2, <1>3, <1>4 DEF RequestsSound
<1>5. CASE \E r \in Tasks : \E k : Becomes(r, k)
  <2>0. PICK r \in Tasks : \E k : Becomes(r, k)
    BY <1>5
  <2>1. PICK k : Becomes(r, k)
    BY <2>0
  <2>2. task' = [task EXCEPT ![r] = k] /\ Sound(k) /\ k \in TaskStates /\ k.pool <= built
    BY <2>1 DEF Becomes, Sound
  <2>3. task' \in [Tasks -> TaskStates] /\ \A u \in Tasks : task'[u] = IF u = r THEN k ELSE task[u]
    BY <1>0, <2>2
  <2>4. \A u \in Tasks : Sound(task'[u]) /\ task'[u].pool <= built'
    BY <1>0, <1>2, <1>3, <2>2, <2>3
  <2> QED
    BY <2>3, <2>4 DEF RequestsSound
<1> QED
  BY <1>4, <1>5

\* What a step that is no ejection's has to show.
LEMMA StepNext ==
  ASSUME Inv, world' = world, version' \in DOMAIN world.snapshots, raced' = raced,
         EndpointsTypeOK', built' \in PoolIds, built <= built', RotatesAll, ConnsTyped', PoolSound',
         task' = task \/ \E r \in Tasks : \E k : Becomes(r, k) /\ k.pc \notin {"mark", "disable"}
  PROVE  Inv'
<1>0. Typed /\ RequestsSound /\ Stays
  BY DEF Inv
<1>1. Typed'
  BY <1>0 DEF Typed, Fits
<1>2. RequestsSound'
  BY <1>0, SoundNext
<1>3. \A u \in Tasks : task'[u].pc \in {"mark", "disable"} =>
        task[u].pc \in {"mark", "disable"} /\ task'[u].pool = task[u].pool /\ task'[u].at = task[u].at
  <2>1. CASE task' = task
    BY <2>1
  <2>2. ASSUME NEW r \in Tasks, NEW k, Becomes(r, k), k.pc \notin {"mark", "disable"}
        PROVE  \A u \in Tasks : task'[u].pc \in {"mark", "disable"} => u # r /\ task'[u] = task[u]
    BY <1>0, <2>2 DEF Becomes, RequestsSound
  <2> QED
    BY <2>1, <2>2
<1>4. Stays'
  BY <1>0, <1>3, RotationStays
<1> QED
  BY <1>1, <1>2, <1>4 DEF Inv

\* The endpoints in a step that leaves them alone.
LEMMA EndpointsStay ==
  ASSUME Typed, UNCHANGED endpointVars
  PROVE  EndpointsTypeOK' /\ built' \in PoolIds /\ built <= built' /\ RotatesAll
<1>1. pools' = pools /\ built' = built /\ record' = record /\ timers' = timers
  BY DEF endpointVars
<1>2. EndpointsTypeOK'
  BY <1>1 DEF EndpointsTypeOK, Typed
<1>3. built \in PoolIds /\ built <= built
  BY Given DEF Typed, Fits, PoolIds
<1>4. RotatesAll
  BY <1>1 DEF RotatesAll
<1> QED
  BY <1>1, <1>2, <1>3, <1>4

\* The steps of requests that touch neither the endpoints nor the idle list.
LEMMA QuietNext ==
  ASSUME Inv, NEW r \in Tasks,
         \/ Receive(r) \/ PlanRequest(r) \/ Scan(r) \/ Ask(r) \/ Admit(r) \/ Identify(r) \/ ChargeBudget(r)
         \/ Rewrite(r) \/ Dispatch(r) \/ Fanout(r)
         \/ Pick(r) \/ Answer(r) \/ Fail(r) \/ DeadlinePasses(r) \/ Settle(r) \/ Deliver(r) \/ Cancel(r)
  PROVE  Inv'
<1>0. Typed /\ RequestsSound /\ PoolSound /\ version \in DOMAIN world.snapshots
  BY DEF Inv, Typed, Fits
<1>1. PICK k : Quietly(r, k) /\ k.pc \notin {"mark", "disable"}
  BY <1>0, EarlyQuiet, LaterQuiet
<1>2. Calm
  BY <1>0, CalmSteps
<1>3. ConnsTyped' /\ PoolSound'
  BY <1>0, <1>1, <1>2, QuietPool
<1>4. world' = world /\ version' = version /\ raced' = raced /\ (UNCHANGED endpointVars \/ Answer(r))
  BY DEF Receive, PlanRequest, Scan, Ask, Admit, Identify, ChargeBudget, Rewrite, Dispatch, Fanout,
         Pick, Answer, Fail, DeadlinePasses, Settle, Deliver, Cancel
<1>5. EndpointsTypeOK' /\ built' \in PoolIds /\ built <= built' /\ RotatesAll
  <2>1. CASE UNCHANGED endpointVars
    BY <1>0, <2>1, EndpointsStay
  <2>2. CASE Answer(r)
    <3>1. PICK status \in IF task[r].q.upgrade THEN {101} ELSE world.answers : Responded(task[r].at, status)
      BY <2>2 DEF Answer
    <3>2. status \in Nat
      <4>1. world.answers \subseteq Statuses
        BY <1>0, World DEF Typed, Fits
      <4>2. \A x \in Statuses : x \in Nat
        BY DEF Statuses
      <4> QED
        BY <3>1, <4>1, <4>2
    <3>3. task[r].at \in Addrs
      BY <1>0 DEF RequestsSound, TaskStates
    <3>4. EndpointsTypeOK' /\ built' = built /\ RotatesAll
      BY <1>0, <3>1, <3>2, <3>3, RecordKeeps
    <3>5. built \in PoolIds /\ built <= built
      BY <1>0, Given DEF Typed, Fits, PoolIds
    <3> QED
      BY <3>4, <3>5
  <2> QED
    BY <1>4, <2>1, <2>2
<1>6. \E s \in Tasks : \E n : Becomes(s, n) /\ n.pc \notin {"mark", "disable"}
  BY <1>1 DEF Quietly
<1> QED
  BY <1>0, <1>3, <1>4, <1>5, <1>6, StepNext

\* The steps of an ejection.
LEMMA EjectionNext ==
  ASSUME Inv, NEW r \in Tasks, CountReady(r) \/ MarkOut(r) \/ TakeOut(r)
  PROVE  Inv'
<1>0. Typed /\ RequestsSound /\ PoolSound /\ Stays
  BY DEF Inv
<1>1. PICK k : Quietly(r, k)
  BY <1>0, EjectionQuiet
<1>2. Calm
  BY <1>0, CalmSteps
<1>3. ConnsTyped' /\ PoolSound'
  BY <1>0, <1>1, <1>2, QuietPool
<1>4. EndpointsTypeOK' /\ built' = built /\ raced' \subseteq PoolIds /\ Stays'
  BY <1>0, EjectionStays
<1>5. world' = world /\ version' = version
  BY DEF CountReady, MarkOut, TakeOut
<1>6. Typed'
  BY <1>0, <1>3, <1>4, <1>5 DEF Typed, Fits
<1>7. built' \in PoolIds /\ built <= built'
  BY <1>0, <1>4, Given DEF Typed, Fits, PoolIds
<1>8. RequestsSound'
  BY <1>0, <1>1, <1>7, SoundNext DEF Quietly
<1> QED
  BY <1>3, <1>4, <1>6, <1>8 DEF Inv

\* The steps that borrow a connection and give it back.
LEMMA ConnectionNext ==
  ASSUME Inv, NEW r \in Tasks,
         Lease(r) \/ Dial(r) \/ Return(r) \/ Subtract(r) \/ EvictOldest(r) \/ Push(r)
  PROVE  Inv'
<1>0. Typed /\ RequestsSound /\ PoolSound /\ version \in DOMAIN world.snapshots
  BY DEF Inv, Typed, Fits
<1>1. ConnsTyped' /\ PoolSound'
  BY <1>0, LeasePool, DialPool, ReturnPool, SubtractPool, EvictPool, PushPool
<1>2. world' = world /\ version' = version /\ raced' = raced /\ UNCHANGED endpointVars
  BY DEF Lease, Dial, Return, Subtract, EvictOldest, Push
<1>3. EndpointsTypeOK' /\ built' \in PoolIds /\ built <= built' /\ RotatesAll
  BY <1>0, <1>2, EndpointsStay
<1>4. \E k : Becomes(r, k) /\ k.pc \notin {"mark", "disable"}
  <2>1. CASE Lease(r)
    BY <1>0, <2>1, LeaseIs
  <2>2. CASE Dial(r)
    BY <1>0, <2>2, DialIs
  <2>3. CASE Return(r)
    BY <1>0, <2>3, ReturnIs
  <2>4. CASE Subtract(r) \/ EvictOldest(r) \/ Push(r)
    BY <1>0, <2>4, GivingIs
  <2> QED
    BY <2>1, <2>2, <2>3, <2>4
<1> QED
  BY <1>0, <1>1, <1>2, <1>3, <1>4, StepNext

\* The steps that are no request's.
LEMMA ElsewhereNext ==
  ASSUME Inv, Reload \/ HealthCheck \/ WakeUp \/ Tick \/ Upkeep \/ UNCHANGED vars
  PROVE  Inv'
<1>0. Typed /\ RequestsSound /\ PoolSound /\ built \in PoolIds /\ built <= built
      /\ version \in DOMAIN world.snapshots /\ world \in Worlds
  BY Given DEF Inv, Typed, Fits, PoolIds
<1>1. world' = world /\ raced' = raced /\ task' = task
  BY DEF Reload, HealthCheck, WakeUp, Tick, Upkeep, vars
<1>2. ConnsTyped' /\ PoolSound'
  <2>1. CASE Upkeep
    BY <1>0, <2>1, UpkeepPool
  <2>2. CASE ~Upkeep
    <3>1. UNCHANGED upstreamVars
      BY <2>2 DEF Reload, HealthCheck, WakeUp, Tick, vars
    <3> QED
      BY <1>0, <1>1, <3>1, ElsewherePool
  <2> QED
    BY <2>1, <2>2
<1>3. /\ version' \in DOMAIN world.snapshots
      /\ EndpointsTypeOK' /\ built' \in PoolIds /\ built <= built' /\ RotatesAll
  <2>1. CASE Reload
    <3>1. version + 1 \in DOMAIN world.snapshots
      <4>1. DOMAIN world.snapshots = 1 .. Len(world.snapshots) /\ Len(world.snapshots) \in Nat
        BY <1>0, World
      <4> QED
        BY <1>0, <2>1, <4>1 DEF Reload
    <3>2. world.snapshots[version + 1].addrs \in SUBSET Addrs
      BY <1>0, <3>1, World
    <3>3. version' = version + 1 /\ BuildPool(world.snapshots[version + 1].addrs)
      BY <2>1 DEF Reload
    <3>4. EndpointsTypeOK' /\ built' \in PoolIds /\ built <= built' /\ RotatesAll
      BY <1>0, <3>2, <3>3, BuildKeeps
    <3> QED
      BY <3>1, <3>3, <3>4
  <2>2. CASE HealthCheck
    <3>1. PICK a \in pools[built].addrs, healthy \in BOOLEAN : Probe(built, a, healthy)
      BY <2>2 DEF HealthCheck
    <3>2. EndpointsTypeOK' /\ built' = built /\ RotatesAll
      BY <1>0, <3>1, ProbeKeeps
    <3> QED
      BY <1>0, <2>2, <3>2 DEF HealthCheck
  <2>3. CASE WakeUp
    <3>1. PICK t \in timers : Reenable(t)
      BY <2>3 DEF WakeUp
    <3>2. EndpointsTypeOK' /\ built' = built /\ RotatesAll
      BY <1>0, <3>1, ReenableKeeps
    <3> QED
      BY <1>0, <2>3, <3>2 DEF WakeUp
  <2>4. CASE Tick
    <3>1. EndpointsTypeOK' /\ built' = built /\ RotatesAll
      BY <1>0, <2>4, RecordKeeps DEF Tick
    <3> QED
      BY <1>0, <2>4, <3>1 DEF Tick
  <2>5. CASE Upkeep \/ UNCHANGED vars
    <3>1. UNCHANGED endpointVars /\ version' = version
      BY <2>5 DEF Upkeep, vars
    <3> QED
      BY <1>0, <3>1, EndpointsStay
  <2> QED
    BY <2>1, <2>2, <2>3, <2>4, <2>5
<1> QED
  BY <1>1, <1>2, <1>3, StepNext

\* The program starts in order.
LEMMA InvInit ==
  ASSUME Init
  PROVE  Inv
<1>0. /\ world \in Worlds /\ version = 1 /\ raced = {} /\ task = [r \in Tasks |-> Idling]
      /\ EndpointsInit(world.snapshots[1].addrs) /\ UpstreamInit
  BY DEF Init
<1>1. 1 \in DOMAIN world.snapshots /\ world.snapshots[1].addrs \subseteq Addrs
      /\ (CHOOSE q \in world.traffic : TRUE) \in Facts
  BY <1>0, World
<1>2. built = 1 /\ 1 \in PoolIds
  BY <1>0, Given DEF EndpointsInit, PoolIds
<1>3. Fits
  BY <1>0, <1>1, <1>2 DEF Fits
<1>4. EndpointsTypeOK
  <2>1. \A a \in SUBSET Addrs : Pool(a) \in Pools
    <3>1. 0 \in 0 .. ConsecutiveSuccess + ConsecutiveFailure
      BY Given
    <3> QED
      BY <3>1 DEF Pool, Pools
  <2>2. NoRecord \in Records
    <3>1. 0 \in 0 .. Consecutive5xx /\ 0 \in 0 .. MaxCount /\ -MaxEjection \in -MaxEjection .. MaxEjection
      BY Given
    <3> QED
      BY <3>1 DEF NoRecord, Records
  <2>3. \A p \in PoolIds : Pool(IF p = 1 THEN world.snapshots[1].addrs ELSE {}) \in Pools
    BY <1>1, <2>1
  <2>4. pools \in [PoolIds -> Pools] /\ record \in [Addrs -> Records] /\ timers \subseteq Timers
    BY <1>0, <2>2, <2>3 DEF EndpointsInit
  <2>5. built \in 0 .. MaxPools
    BY <1>2, Given
  <2> QED
    BY <2>4, <2>5 DEF EndpointsTypeOK
<1>5. /\ conns = [c \in Conns |-> NoConn] /\ idle = {} /\ expired = {} /\ older = {}
      /\ idle_total = 0 /\ h2 = [t \in Targets |-> {}] /\ evicting = 0
  BY <1>0 DEF UpstreamInit
<1>6. ConnsTyped
  BY <1>5, NoConnTyped DEF ConnsTyped, ConnRecords
<1>7. Typed
  BY <1>0, <1>3, <1>4, <1>6 DEF Typed
<1>8. Sound(Idling) /\ Idling.pc = "idle" /\ Idling.conn = {} /\ Idling.pool = 1 /\ Idling.pending = 0
  BY <1>1, <1>3, Newcomers
<1>9. \A r \in Tasks : task[r] = Idling
  BY <1>0
<1>10. RequestsSound
  <2>1. Idling \in TaskStates
    BY <1>8 DEF Sound
  <2> HIDE DEF Idling
  <2> QED
    BY <1>0, <1>2, <1>8, <1>9, <2>1 DEF RequestsSound
<1>11. Stays
  <2>1. \A p : Ejecting(p) = {}
    BY <1>8, <1>9 DEF Ejecting
  <2>2. \A p \in 1 .. built : pools[p].enabled = pools[p].addrs
    BY <1>0, <1>2 DEF EndpointsInit, Pool
  <2> QED
    BY <2>1, <2>2 DEF Stays
<1>12. Borrowed
  <2>1. Held = {}
    <3>1. \A c : c \notin Held
      BY <1>5, <1>8, <1>9, HeldIs
    <3> QED
      BY <3>1
  <2>2. OneBorrower
    BY <1>5, <1>8, <1>9 DEF OneBorrower, Leases
  <2> QED
    BY <1>5, <1>8, <1>9, <2>1, <2>2 DEF Borrowed
<1>13. IdleExact
  <2> DEFINE f == [r \in Tasks |-> task[r].pending]
  <2>1. \A r \in Tasks : f[r] = 0
    BY <1>8, <1>9
  <2> HIDE DEF f
  <2>2. SumFunctionOnSet(f, Tasks) = 0
    BY <2>1, SumZero, Given
  <2>3. Cardinality(idle) = 0
    BY <1>5, FS_EmptySet
  <2> QED
    BY <1>5, <2>2, <2>3 DEF IdleExact, f
<1>14. IdleBounded
  <2>1. {r \in Tasks : task[r].pc = "push"} = {}
    BY <1>8, <1>9
  <2>2. Cardinality({r \in Tasks : task[r].pc = "push"}) = 0
    BY <2>1, FS_EmptySet
  <2>3. Cardinality(Tasks) \in Nat
    BY Given, FS_CardinalityType
  <2> QED
    BY <1>5, <2>2, <2>3, Given DEF IdleBounded
<1> QED
  BY <1>7, <1>10, <1>11, <1>12, <1>13, <1>14 DEF Inv, PoolSound

\* The inductive invariant holds always.
LEMMA Always ==
  Spec => []Inv
<1>1. Inv /\ [Next]_vars => Inv'
  <2> SUFFICES ASSUME Inv, [Next]_vars PROVE Inv'
    OBVIOUS
  <2>0. world.clients \subseteq Tasks
    BY World DEF Inv, Typed, Fits
  <2>1. ASSUME NEW r \in Tasks, Step(r) PROVE Inv'
    BY <2>1, QuietNext, EjectionNext, ConnectionNext DEF Step
  <2>2. ASSUME NEW r \in Tasks, \/ Receive(r) \/ Scan(r) \/ Rewrite(r) \/ Fanout(r) \/ Answer(r) \/ Fail(r)
                                \/ DeadlinePasses(r) \/ Deliver(r) \/ Cancel(r)
        PROVE  Inv'
    BY <2>2, QuietNext
  <2>3. ASSUME NEW r \in Tasks, Dial(r) PROVE Inv'
    BY <2>3, ConnectionNext
  <2>4. ASSUME Reload \/ HealthCheck \/ WakeUp \/ Tick \/ Upkeep \/ UNCHANGED vars PROVE Inv'
    BY <2>4, ElsewhereNext
  <2> QED
    BY <2>0, <2>1, <2>2, <2>3, <2>4 DEF Next
<1> QED
  BY <1>1, InvInit, PTL DEF Spec

----------------------------------------------------------------------------
(* The theorems *)

\* TypeOK: no handler leaves a request, a pool of endpoints or the upstream
\* client in a state the program has no name for, and idle_total never drops
\* below zero, where the code's unsigned counter would wrap around.
THEOREM TypeCorrect ==
  Spec => []TypeOK
<1>1. Inv => TypeOK
  <2> SUFFICES ASSUME Inv PROVE TypeOK
    OBVIOUS
  <2>1. Typed /\ RequestsSound /\ PoolSound
    BY DEF Inv
  <2>2. idle_total \in Nat
    BY <2>1, Counters
  <2> QED
    BY <2>1, <2>2 DEF TypeOK, Typed, Fits, RequestsSound, ConnsTyped, UpstreamTypeOK
<1> QED
  BY <1>1, Always, PTL

\* SentAsPlanned: whatever is pushed, fails, is retried or is cancelled
\* meanwhile, a request that reaches a backend was let through by the checks of
\* the one route it goes by, carries no identity of the client's own making and
\* is sent no more often than its route retries (plan_request, forward).
THEOREM AsPlanned ==
  Spec => []SentAsPlanned
<1>1. Inv => Admitted /\ OwnedHeaders /\ SentOnce
  <2> SUFFICES ASSUME Inv, NEW r \in Tasks
               PROVE  LET k == task[r] IN
                      /\ k.pc \in Planned =>
                           /\ k.rt.found /\ k.rt.backend /\ ~k.rt.redirect /\ k.q.body # "over"
                           /\ k.rt.ip_rules => ~k.q.denied
                           /\ k.rt.auth # "none" => k.q.cred = "good"
                           /\ k.rt.ext_auth # "none" => /\ k.asked \in {"allow", "open"}
                                                        /\ k.asked = "open" => k.rt.ext_auth = "open"
                           /\ k.rt.needs_body /\ k.q.body # "none" => k.scanned
                      /\ k.pc \in Charged => (k.rt.key_required => k.q.key = "good")
                      /\ k.charged => (k.rt.auth # "none" => k.q.cred = "good")
                      /\ k.pc = "exchange" /\ (k.rt.auth = "jwt" \/ k.rt.ext_auth # "none")
                           => Forwarded(k.rt, k.q, k.asked) # "client"
                      /\ k.sent > 1 => k.held
                      /\ k.sent <= k.rt.max_retries + 1
    BY DEF Admitted, OwnedHeaders, SentOnce
  <2> DEFINE k == task[r]
  <2>1. k \in TaskStates /\ Checked(k) /\ Spent(k)
    BY DEF Inv, RequestsSound, Sound
  <2>2. /\ k.pc \in Hops /\ k.sent \in Nat /\ k.left \in Nat /\ k.held \in BOOLEAN
        /\ k.rt \in Routes /\ k.rt.max_retries \in Nat /\ k.asked \in {"nobody", "allow", "open"}
    BY <2>1 DEF TaskStates, Routes
  <2>3. /\ k.rt.ext_auth \in {"none", "unpermitted", "closed", "open"}
        /\ k.rt.auth \in {"none", "basic", "key", "jwt"}
    BY <2>2 DEF Routes
  <2> HIDE DEF k
  <2>4. /\ k.pc \in Planned => k.pc \notin Before
        /\ k.pc \in Charged => k.pc \notin Before \cup {"identify"}
    BY DEF Planned, Charged, Before
  <2>5. k.pc \in Planned =>
          /\ k.rt.found /\ k.rt.backend /\ ~k.rt.redirect /\ k.q.body # "over"
          /\ k.rt.ip_rules => ~k.q.denied
          /\ k.rt.auth # "none" => k.q.cred = "good"
          /\ k.rt.ext_auth # "none" => /\ k.asked \in {"allow", "open"}
                                       /\ k.asked = "open" => k.rt.ext_auth = "open"
          /\ k.rt.needs_body /\ k.q.body # "none" => k.scanned
    BY <2>1, <2>4 DEF Checked, Passed, Before
  <2>6. k.pc \in Charged => (k.rt.key_required => k.q.key = "good")
    BY <2>1, <2>4 DEF Checked
  <2>7. k.charged => (k.rt.auth # "none" => k.q.cred = "good")
    BY <2>1 DEF Checked, Passed, Before
  <2>8. ASSUME k.pc = "exchange", k.rt.auth = "jwt" \/ k.rt.ext_auth # "none"
        PROVE  Forwarded(k.rt, k.q, k.asked) # "client"
    <3>1. k.rt.auth = "jwt" \/ k.rt.ext_auth \in {"closed", "open"}
      <4>1. Passed(k)
        BY <2>1, <2>8 DEF Checked
      <4> QED
        BY <2>3, <2>8, <4>1 DEF Passed
    <3> DEFINE h == AuthHeaders(k.rt, k.asked)
    <3>2. h.remove /\ h.set \in {"service", "claim", "nobody"}
      BY <3>1 DEF AuthHeaders
    <3>3. Forwarded(k.rt, k.q, k.asked) = apply(IF k.q.spoofs THEN "client" ELSE "nobody", h.remove, h.set)
      BY DEF Forwarded
    <3> HIDE DEF h
    <3> QED
      BY <3>2, <3>3 DEF apply
  <2>9. k.sent <= k.rt.max_retries + 1 /\ (k.sent > 1 => k.held)
    <3>1. k.pc \in Early \cup Trying \cup Leased \cup Giving
      BY <2>2 DEF Hops, Early, Before, Trying, Leased, Giving
    <3> QED
      BY <2>1, <2>2, <3>1 DEF Spent
  <2> QED
    BY <2>5, <2>6, <2>7, <2>8, <2>9 DEF k
<1>2. SentAsPlanned <=> TypeOK /\ Admitted /\ OwnedHeaders /\ SentOnce
  BY DEF SentAsPlanned
<1> QED
  BY <1>1, <1>2, Always, TypeCorrect, PTL

\* LastReadyStays: as long as no two ejections of a pool overlap, the pool keeps
\* an endpoint in rotation, however its health checks, timers and configuration
\* pushes interleave with them (Outliers::eject).
THEOREM LastStays ==
  Spec => []LastReadyStays
<1>1. Inv => LastReadyStays
  BY DEF Inv, Stays, LastReadyStays
<1> QED
  BY <1>1, Always, PTL

\* ConnectionsSound, for policies that differ in what the key of upstream_request
\* is made of: a connection serves one exchange at a time, verified as the
\* request's policy asks, and the pod's idle connections are counted without an
\* error and bounded (Pool::take, put, evict_idle_older_than, Lease's drop).
THEOREM Connections ==
  ASSUME \A p, q \in Policies : tls_key(p) = tls_key(q) => p = q
  PROVE  Spec => []ConnectionsSound
<1>1. Inv => ConnectionsSound
  <2> SUFFICES ASSUME Inv PROVE ConnectionsSound
    OBVIOUS
  <2>1. Typed /\ RequestsSound /\ Borrowed /\ IdleExact /\ IdleBounded
    BY DEF Inv, PoolSound
  <2>2. OneBorrower
    BY <2>1 DEF Borrowed
  <2>3. ASSUME NEW r \in Tasks, NEW c \in task[r].conn
        PROVE  conns[c].policy = task[r].policy /\ conns[c].target.addr = task[r].at
    <3>1. c \in Conns /\ task[r].policy \in Policies
      BY <2>1, <2>3 DEF RequestsSound, TaskStates
    <3>2. conns[c].policy \in Policies
      BY <2>1, <3>1 DEF Typed, ConnsTyped
    <3>3. conns[c].target = TargetOf(r) /\ c \in Held
      BY <2>1, <2>3, HeldIs DEF Borrowed
    <3>4. conns[c].target.tls_key = tls_key(conns[c].policy)
      BY <2>1, <3>3 DEF Borrowed
    <3>5. TargetOf(r).addr = task[r].at /\ TargetOf(r).tls_key = tls_key(task[r].policy)
      BY <2>1, TargetTyped
    <3> QED
      BY <3>1, <3>2, <3>3, <3>4, <3>5
  <2>4. VerifiedAsPlanned
    BY <2>3 DEF VerifiedAsPlanned
  <2> QED
    BY <2>1, <2>2, <2>4 DEF ConnectionsSound
<1> QED
  BY <1>1, Always, PTL
=============================================================================
