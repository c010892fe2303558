---------------------------- MODULE RequestPath ----------------------------
(* A request through the data plane (rama/proxy.rs): planned on a snapshot,  *)
(* identified, charged, sent to an endpoint of its pool on a connection of   *)
(* the upstream client, retried, answered, and its connection given back.    *)
(*                                                                           *)
(* A request's task runs between its awaits without a break in its own       *)
(* order; what other tasks may see in between, the flags of an endpoint, the *)
(* record of its failures and the idle connections, changes in steps of its  *)
(* own.  The snapshot is loaded when the request is planned and loaded again *)
(* for its second pass and for a federation.                                 *)
(*                                                                           *)
(* The verdicts of the rate limiter, the breaker and the connection limiter  *)
(* and of the budget are choices here: CircuitBreaker and Budget decide them. *)
(* The calls of a federated request are left out.                            *)
EXTENDS Filters, Endpoints, Upstream

CONSTANTS
  Tasks,       \* requests under way at a time
  Worlds       \* snapshots in the order they are pushed, the traffic and the faults

Snapshots == [route : Routes, addrs : SUBSET Addrs, policy : Policies, federation : BOOLEAN]

ASSUME RequestPathAssumption ==
  /\ IsFiniteSet(Tasks) /\ Hosts = Addrs /\ Addrs # {} /\ Policies # {}
  /\ \A w \in Worlds : /\ w.snapshots \in Seq(Snapshots) /\ w.snapshots # <<>>
                        /\ w.traffic \subseteq Facts /\ w.traffic # {}
                        /\ w.clients \subseteq Tasks /\ w.answers \subseteq Statuses

Hops == {"idle", "plan", "scan", "ask", "admit", "identify", "budget", "rewrite", "dispatch", "pick",
         "lease", "dial", "exchange", "count", "mark", "disable", "settle", "body", "return", "subtract",
         "oldest", "push", "fanout"}

VARIABLES
  world,      \* the world this behaviour is in
  version,    \* the snapshot in force
  task,       \* task[r]: where a request is, its plan and what it holds
  received,   \* requests received, at most world.requests
  raced       \* history: pools two ejections of which overlapped

vars == <<world, version, task, received, raced, endpointVars, upstreamVars>>

Snapshot == world.snapshots[version]

NoTag == {}

\* rt .. policy: the Forward plan; asked: the authorization service's answer;
\* charged: a rate limit token was spent; held: the body is buffered for
\* retries; left: retries left; sent: attempts that reached a connection; conn:
\* the lease; nth: the ejection under way; next: where the task goes when its
\* lease is dropped.
NewTask(q) ==
  [pc |-> "plan", q |-> q, rt |-> Snapshot.route, pool |-> built, policy |-> Snapshot.policy,
   scanned |-> FALSE, asked |-> "nobody", charged |-> FALSE, held |-> FALSE, left |-> 0, sent |-> 0,
   tag |-> NoTag, at |-> CHOOSE a \in Addrs : TRUE, conn |-> {}, status |-> 0, connected |-> TRUE,
   nth |-> 0, next |-> "idle", pending |-> 0, key |-> CHOOSE t \in Targets : TRUE]

\* A task between requests; what the last one left behind is forgotten.
Idling == [NewTask(CHOOSE q \in world.traffic : TRUE) EXCEPT !.pc = "idle", !.rt = world.snapshots[1].route,
                                                             !.pool = 1, !.policy = world.snapshots[1].policy]

Init ==
  /\ world \in Worlds
  /\ version = 1
  /\ EndpointsInit(world.snapshots[1].addrs)
  /\ UpstreamInit
  /\ task = [r \in Tasks |-> Idling]
  /\ received = 0
  /\ raced = {}

\* A connection lives as long as a lease, the idle list or an HTTP/2 set holds it.
Held == (UNION {task[r].conn : r \in Tasks}) \cup idle \cup (UNION {h2[t] : t \in Targets})
Keep(after) == conns' = [c \in Conns |-> IF c \in Held' THEN after[c] ELSE NoConn]

Goto(r, pc) == task' = [task EXCEPT ![r].pc = pc]
Finish(r) == task' = [task EXCEPT ![r] = Idling]

----------------------------------------------------------------------------
(* handle: the plan *)

Receive(r) ==
  /\ task[r].pc = "idle"
  /\ received < world.requests
  /\ received' = received + 1
  /\ \E q \in world.traffic : task' = [task EXCEPT ![r] = NewTask(q)]
  /\ UNCHANGED <<world, version, raced, endpointVars, upstreamVars>>

\* plan_request on the snapshot in force now.
PlanRequest(r) ==
  LET plan == plan_request(Snapshot.route, task[r].q, task[r].scanned) IN
  /\ task[r].pc = "plan"
  /\ \/ /\ plan.kind = "respond"
        /\ Finish(r)
     \/ /\ plan.kind = "needs_body"
        /\ Goto(r, "scan")
     \/ /\ plan.kind \in {"ask", "admit"}
        /\ task' = [task EXCEPT ![r] = [@ EXCEPT !.pc = plan.kind, !.rt = Snapshot.route,
                                                 !.pool = built, !.policy = Snapshot.policy]]
  /\ UNCHANGED <<world, version, received, raced, endpointVars, upstreamVars>>

\* scan_body; 400 or 413 end the request.
Scan(r) ==
  /\ task[r].pc = "scan"
  /\ \/ task' = [task EXCEPT ![r].pc = "plan", ![r].scanned = TRUE]
     \/ Finish(r)
  /\ UNCHANGED <<world, version, received, raced, endpointVars, upstreamVars>>

\* ExtAuth::check
Ask(r) ==
  /\ task[r].pc = "ask"
  /\ \E answer \in {"allow", "deny", "silent"} : LET decision == check(task[r].rt, answer) IN
       IF decision.kind = "respond" THEN Finish(r)
       ELSE task' = [task EXCEPT ![r].pc = "admit", ![r].asked = decision.kind]
  /\ UNCHANGED <<world, version, received, raced, endpointVars, upstreamVars>>

\* The rest of plan_request: no backend is 500, then the rate limiter (429),
\* the breaker and the connection limiter (503).
Admit(r) ==
  /\ task[r].pc = "admit"
  /\ \/ Finish(r)
     \/ /\ task[r].rt.backend
        /\ task' = [task EXCEPT ![r].pc = "identify", ![r].charged = task[r].rt.rate_limited]
  /\ UNCHANGED <<world, version, received, raced, endpointVars, upstreamVars>>

\* The key or token of an AI route: 401, or 403 for what it may not do.
Identify(r) ==
  /\ task[r].pc = "identify"
  /\ IF task[r].rt.key_required /\ task[r].q.key # "good" THEN Finish(r) ELSE Goto(r, "budget")
  /\ UNCHANGED <<world, version, received, raced, endpointVars, upstreamVars>>

\* budget_verdict: allowed, spent or unknown; a spent one may have an overflow
\* for the fallback model.
ChargeBudget(r) ==
  /\ task[r].pc = "budget"
  /\ \/ Goto(r, "dispatch")
     \/ /\ task[r].rt.budget # "none"   \* spent
        /\ \/ Finish(r)
           \/ task[r].rt.fallback /\ Goto(r, "rewrite")
     \/ /\ task[r].rt.budget = "closed" \* unknown
        /\ Finish(r)
  /\ UNCHANGED <<world, version, received, raced, endpointVars, upstreamVars>>

\* The body is read again for the fallback model: 413 or 400 when it cannot be.
Rewrite(r) ==
  /\ task[r].pc = "rewrite"
  /\ Goto(r, "dispatch") \/ Finish(r)
  /\ UNCHANGED <<world, version, received, raced, endpointVars, upstreamVars>>

----------------------------------------------------------------------------
(* forward *)

\* A federated route fans out, unless the snapshot in force has no such
\* federation any more.  A body is held for retries when the route retries and
\* the body is small (400 when it does not arrive).  A session id names the
\* endpoint that created the session, which may be gone by now.
Dispatch(r) ==
  LET rt == task[r].rt
      held == rt.max_retries > 0 /\ task[r].q.body \in {"none", "short"}
  IN
  /\ task[r].pc = "dispatch"
  /\ IF rt.federated /\ Snapshot.federation THEN Goto(r, "fanout")
     ELSE IF pools[task[r].pool].addrs = {} THEN Finish(r)
     ELSE \/ /\ held /\ task[r].q.body # "none" /\ "cancel" \in world.faults
             /\ Finish(r)
          \/ \E tag \in IF rt.session_affinity /\ task[r].q.session THEN {{a} : a \in Addrs} ELSE {NoTag} :
               task' = [task EXCEPT ![r].pc = "pick", ![r].held = held, ![r].tag = tag,
                                    ![r].left = IF held THEN rt.max_retries ELSE 0]
  /\ UNCHANGED <<world, version, received, raced, endpointVars, upstreamVars>>

Fanout(r) ==
  /\ task[r].pc = "fanout"
  /\ Finish(r)
  /\ UNCHANGED <<world, version, received, raced, endpointVars, upstreamVars>>

\* The endpoint that has the session when it is ready, else the next ready one;
\* 500 when there is none.
Pick(r) ==
  LET usable == ready(task[r].pool)
      pinned == usable \cap task[r].tag
  IN
  /\ task[r].pc = "pick"
  /\ IF usable = {} THEN Finish(r)
     ELSE \E a \in IF pinned # {} THEN pinned ELSE usable :
            task' = [task EXCEPT ![r].pc = "lease", ![r].at = a]
  /\ UNCHANGED <<world, version, received, raced, endpointVars, upstreamVars>>

\* The target of request r's attempt.
TargetOf(r) == Target(task[r].at, task[r].policy, task[r].rt.h2)

Attempt(r, c) == task' = [task EXCEPT ![r].pc = "exchange", ![r].conn = {c}, ![r].sent = @ + 1]

\* lease: an idle connection or one of a full HTTP/2 set, else dial.
Lease(r) ==
  LET t == TargetOf(r) IN
  /\ task[r].pc = "lease"
  /\ \/ /\ t.h2 /\ h2_full(t)
        /\ \E c \in h2[t] :
             IF broken(c) THEN Goto(r, "dial") /\ h2' = h2_cleaned(t)
             ELSE Attempt(r, c) /\ UNCHANGED h2
        /\ UNCHANGED <<poolVars, idle_total, evicting>>
     \/ /\ t.h2 /\ ~h2_full(t)
        /\ Goto(r, "dial")
        /\ UNCHANGED <<poolVars, idle_total, h2, evicting>>
     \/ /\ ~t.h2
        /\ \E conn \in Handed(t) :
             /\ take(t, conn)
             /\ IF conn = {} THEN Goto(r, "dial") ELSE \E c \in conn : Attempt(r, c)
  /\ UNCHANGED <<world, version, received, raced, endpointVars>>
  /\ Keep(conns)

\* One of the connections that are not alive; Conns bounds those that are.
NewConns == IF Conns \subseteq Held THEN {} ELSE {CHOOSE c \in Conns \ Held : TRUE}

\* connect; a failure is reported to the outliers, a deadline is not.
Dial(r) ==
  LET t == TargetOf(r) IN
  /\ task[r].pc = "dial"
  /\ \/ \E c \in NewConns :
          /\ conns' = Dialled(c, t, task[r].policy)
          /\ h2' = IF t.h2 THEN h2_add(c, t) ELSE h2
          /\ Attempt(r, c)
          /\ UNCHANGED <<poolVars, idle_total, evicting>>
     \/ /\ "refuse" \in world.faults
        /\ task' = [task EXCEPT ![r].pc = "count", ![r].connected = FALSE, ![r].status = 502]
        /\ UNCHANGED upstreamVars
  /\ UNCHANGED <<world, version, received, raced, endpointVars>>

\* Where a task goes that drops its lease: an HTTP/1 connection that does not
\* look broken goes back to the idle list, whatever became of the exchange.
Dropping(r, c, next, after, cost) ==
  IF conns[c].target.h2 \/ after = "closed" \/ task[r].status = 101
  THEN IF next = "idle" THEN Idling ELSE [task[r] EXCEPT !.pc = next, !.conn = {}, !.left = @ - cost]
  ELSE [task[r] EXCEPT !.pc = "return", !.next = next, !.left = @ - cost]

\* How connection c is left: as it is; closed behind the last exchange; or, when
\* it is dropped in the middle of one, at its end.  An HTTP/2 connection goes on.
Left(c, how) ==
  IF conns[c].target.h2 \/ conns[c].state # "open" \/ how = "open" THEN conns[c].state
  ELSE IF how = "cut" THEN "ending" ELSE "closed"

\* Task r drops its lease and goes on to next, for so many of its retries.
Drop(r, next, how, cost) == \E c \in task[r].conn :
  /\ task' = [task EXCEPT ![r] = Dropping(r, c, next, Left(c, how), cost)]
  /\ UNCHANGED <<poolVars, idle_total, h2, evicting>>
  /\ Keep([conns EXCEPT ![c].state = Left(c, how)])

\* The backend answers, and the answer is reported to the outliers.  An HTTP/2
\* connection that another request marked broken still carries this one.
Answer(r) ==
  /\ task[r].pc = "exchange"
  /\ \A c \in task[r].conn : conns[c].state = "open" \/ conns[c].target.h2
  /\ task[r].q.body # "grows"
  /\ \E status \in IF task[r].q.upgrade THEN {101} ELSE world.answers :
       /\ Responded(task[r].at, status)
       /\ task' = [task EXCEPT ![r].pc = IF Ejects(task[r].at, status) THEN "count" ELSE "settle",
                               ![r].status = status]
  /\ UNCHANGED <<world, version, received, raced, upstreamVars>>

\* The exchange fails once the connection is up (502), or the body outgrows the
\* limit (413): the connection is marked broken, nothing is retried.
Fail(r) ==
  /\ task[r].pc = "exchange"
  /\ \/ task[r].q.body = "grows"
     \/ "die" \in world.faults
     \/ \E c \in task[r].conn : conns[c].state # "open"
  /\ Finish(r)
  /\ UNCHANGED <<world, version, received, raced, endpointVars, poolVars, idle_total, h2, evicting>>
  /\ Keep([c \in Conns |-> IF c \in task[r].conn THEN [conns[c] EXCEPT !.state = "closed"] ELSE conns[c]])

\* Mutant: only the wait for the answer has a deadline.
DeadlineOnAnswer(r) ==
  /\ task[r].rt.deadline
  /\ task[r].pc = "exchange"
  /\ Drop(r, "idle", "cut", 0)
  /\ UNCHANGED <<world, version, received, raced, endpointVars>>

\* The deadline of the attempt passes while it dials or waits (504 or 502).
DeadlinePasses(r) ==
  /\ task[r].rt.deadline
  /\ \/ /\ task[r].pc = "dial"
        /\ Finish(r)
        /\ UNCHANGED upstreamVars
     \/ /\ task[r].pc = "exchange"
        /\ Drop(r, "idle", "cut", 0)
  /\ UNCHANGED <<world, version, received, raced, endpointVars>>

----------------------------------------------------------------------------
(* The outliers' steps on behalf of request r *)

Ejecting(p) == {r \in Tasks : task[r].pc \in {"mark", "disable"} /\ task[r].pool = p}

CountReady(r) ==
  LET p == task[r].pool IN
  /\ task[r].pc = "count"
  /\ IF MayEject(p, task[r].at)
     THEN /\ Goto(r, "mark")
          /\ raced' = IF Ejecting(p) = {} THEN raced ELSE raced \cup {p}
     ELSE Goto(r, "settle") /\ UNCHANGED raced
  /\ UNCHANGED <<world, version, received, endpointVars, upstreamVars>>

MarkOut(r) ==
  /\ task[r].pc = "mark"
  /\ IF AlreadyOut(task[r].at)
     THEN Goto(r, "settle") /\ UNCHANGED endpointVars
     ELSE /\ MarkEjected(task[r].at)
          /\ task' = [task EXCEPT ![r].pc = "disable", ![r].nth = NextEjection(task[r].at)]
  /\ UNCHANGED <<world, version, received, raced, upstreamVars>>

TakeOut(r) ==
  /\ task[r].pc = "disable"
  /\ Disable(task[r].pool, task[r].at, task[r].nth)
  /\ Goto(r, "settle")
  /\ UNCHANGED <<world, version, received, raced, upstreamVars>>

----------------------------------------------------------------------------
(* forward: retry or answer *)

should_retry_status(r) == task[r].left > 0 /\ task[r].status \in task[r].rt.retry_codes
should_retry_connect(r) == task[r].left > 0 /\ task[r].rt.retry_connect

\* Mutant: a retry costs nothing.
SettleFree(r) ==
  /\ task[r].pc = "settle"
  /\ \/ /\ task[r].connected /\ should_retry_status(r)
        /\ \E how \in world.leaves : Drop(r, "pick", how, 0)
     \/ /\ task[r].connected /\ ~should_retry_status(r)
        /\ Goto(r, "body")
        /\ UNCHANGED upstreamVars
     \/ /\ ~task[r].connected
        /\ IF should_retry_connect(r)
           THEN task' = [task EXCEPT ![r].pc = "pick", ![r].connected = TRUE]
           ELSE Finish(r)
        /\ UNCHANGED upstreamVars
  /\ UNCHANGED <<world, version, received, raced, endpointVars>>

\* A response that is retried is dropped with its lease.
Settle(r) ==
  /\ task[r].pc = "settle"
  /\ \/ /\ task[r].connected /\ should_retry_status(r)
        /\ \E how \in world.leaves : Drop(r, "pick", how, 1)
     \/ /\ task[r].connected /\ ~should_retry_status(r)
        /\ Goto(r, "body")
        /\ UNCHANGED upstreamVars
     \/ /\ ~task[r].connected
        /\ IF should_retry_connect(r)
           THEN task' = [task EXCEPT ![r].pc = "pick", ![r].connected = TRUE, ![r].left = @ - 1]
           ELSE Finish(r)
        /\ UNCHANGED upstreamVars
  /\ UNCHANGED <<world, version, received, raced, endpointVars>>

\* The client has read the body, or has gone away before that; an upgraded
\* connection ends with its streams.
Deliver(r) ==
  /\ task[r].pc = "body"
  /\ \E how \in world.leaves : Drop(r, "idle", IF task[r].status = 101 THEN "closed" ELSE how, 0)
  /\ UNCHANGED <<world, version, received, raced, endpointVars>>

\* The client goes away and the task is dropped at the await it is in.
Cancel(r) ==
  /\ "cancel" \in world.faults
  /\ \/ /\ task[r].pc \in {"scan", "ask", "budget", "rewrite", "dial", "fanout"}
        /\ Finish(r)
        /\ UNCHANGED upstreamVars
     \/ /\ task[r].pc = "exchange"
        /\ Drop(r, "idle", "cut", 0)
  /\ UNCHANGED <<world, version, received, raced, endpointVars>>

----------------------------------------------------------------------------
(* Lease::drop and Pool::put *)

Returned(r) == IF task[r].next = "idle" THEN Idling
               ELSE [task[r] EXCEPT !.pc = task[r].next, !.conn = {}, !.next = "idle", !.pending = 0]

\* Mutant: the pod's budget is not looked at.
ReturnAlways(r) ==
  /\ task[r].pc = "return"
  /\ Goto(r, "push")
  /\ UNCHANGED <<world, version, received, raced, endpointVars, upstreamVars>>

\* Room for one more: the expired entries go first, then the oldest one.
Return(r) ==
  /\ task[r].pc = "return"
  /\ \/ /\ \A c \in task[r].conn : broken(c)
        /\ task' = [task EXCEPT ![r] = Returned(r)]
        /\ UNCHANGED poolVars
     \/ /\ \A c \in task[r].conn : ~broken(c)
        /\ \/ /\ idle_total < MaxIdleTotal
              /\ Goto(r, "push")
              /\ UNCHANGED poolVars
           \/ /\ idle_total >= MaxIdleTotal /\ expired # {}
              /\ EvictExpired
              /\ task' = [task EXCEPT ![r].pc = "subtract", ![r].pending = Cardinality(expired)]
           \/ /\ idle_total >= MaxIdleTotal /\ expired = {}
              /\ \/ idle = {} /\ task' = [task EXCEPT ![r] = Returned(r)]
                 \/ \E c \in idle : /\ Ahead(c, idle) = {}
                                    /\ task' = [task EXCEPT ![r].pc = "oldest", ![r].key = conns[c].target]
              /\ UNCHANGED poolVars
  /\ UNCHANGED <<world, version, received, raced, endpointVars, idle_total, h2, evicting>>
  /\ Keep(conns)

Subtract(r) ==
  /\ task[r].pc = "subtract"
  /\ idle_total' = idle_total - task[r].pending
  /\ task' = [task EXCEPT ![r].pc = "push", ![r].pending = 0]
  /\ UNCHANGED <<world, version, received, raced, endpointVars, conns, poolVars, h2, evicting>>

EvictOldest(r) ==
  /\ task[r].pc = "oldest"
  /\ pop_front(task[r].key)
  /\ task' = [task EXCEPT ![r] = IF Shard(@.key) = {} THEN Returned(r) ELSE [@ EXCEPT !.pc = "push"]]
  /\ UNCHANGED <<world, version, received, raced, endpointVars>>
  /\ Keep(conns)

Push(r) ==
  /\ task[r].pc = "push"
  /\ \E c \in task[r].conn : push(c)
  /\ task' = [task EXCEPT ![r] = Returned(r)]
  /\ UNCHANGED <<world, version, received, raced, endpointVars>>
  /\ Keep(conns)

----------------------------------------------------------------------------
(* Everything else that happens meanwhile *)

\* A configuration push.
Reload ==
  /\ version < Len(world.snapshots)
  /\ version' = version + 1
  /\ BuildPool(world.snapshots[version + 1].addrs)
  /\ UNCHANGED <<world, task, received, raced, upstreamVars>>

HealthCheck ==
  /\ "probe" \in world.faults
  /\ \E a \in pools[built].addrs, healthy \in BOOLEAN : Probe(built, a, healthy)
  /\ UNCHANGED <<world, version, task, received, raced, upstreamVars>>

WakeUp ==
  /\ \E t \in timers : Reenable(t)
  /\ UNCHANGED <<world, version, task, received, raced, upstreamVars>>

Tick ==
  /\ EndpointsTick
  /\ UNCHANGED <<world, version, task, received, raced, upstreamVars>>

\* The idle list ages, is swept, and its connections end.
Upkeep ==
  /\ UNCHANGED <<world, version, task, received, raced, endpointVars>>
  /\ \/ "age" \in world.faults /\ Expire
     \/ SweepSubtract
     \/ Sweep /\ Keep(conns)
     \/ "die" \in world.faults /\ \E c \in idle \cup (UNION {h2[t] : t \in Targets}) : End(c)
     \/ \E c \in Held : Notice(c)

Step(r) ==
  \/ PlanRequest(r) \/ Ask(r) \/ Admit(r) \/ Identify(r) \/ ChargeBudget(r)
  \/ Dispatch(r) \/ Pick(r) \/ Lease(r)
  \/ CountReady(r) \/ MarkOut(r) \/ TakeOut(r) \/ Settle(r)
  \/ Return(r) \/ Subtract(r) \/ EvictOldest(r) \/ Push(r)

Next ==
  \/ \E r \in Tasks : Step(r)
  \/ \E r \in world.clients : Receive(r)
  \/ \E r \in Tasks : Scan(r) \/ Rewrite(r) \/ Fanout(r)
  \/ \E r \in Tasks : Dial(r)
  \/ \E r \in Tasks : Answer(r)
  \/ \E r \in Tasks : Fail(r)
  \/ \E r \in Tasks : DeadlinePasses(r)
  \/ \E r \in Tasks : Deliver(r)
  \/ \E r \in Tasks : Cancel(r)
  \/ Reload
  \/ HealthCheck
  \/ WakeUp
  \/ Tick
  \/ Upkeep

\* Tasks and timers run and deadlines pass; no client has to send a request, its
\* body or read a response, no backend to accept a connection or to answer.
Fairness ==
  /\ \A r \in Tasks : WF_vars(Step(r)) /\ WF_vars(DeadlinePasses(r))
  /\ WF_vars(WakeUp) /\ WF_vars(Tick)

Spec == Init /\ [][Next]_vars /\ Fairness

----------------------------------------------------------------------------
(* Properties *)

TaskStates ==
  [pc : Hops, q : Facts, rt : Routes, pool : PoolIds, policy : Policies, scanned : BOOLEAN,
   asked : {"nobody", "allow", "open"}, charged : BOOLEAN, held : BOOLEAN, left : Nat, sent : Nat,
   tag : SUBSET Addrs, at : Addrs, conn : SUBSET Conns, status : Statuses, connected : BOOLEAN,
   nth : 0 .. MaxCount, next : {"idle", "pick"}, pending : Nat, key : Targets]

TypeOK ==
  /\ world \in Worlds
  /\ version \in DOMAIN world.snapshots
  /\ raced \subseteq PoolIds
  /\ task \in [Tasks -> TaskStates]
  /\ \A r \in Tasks : task[r].pool <= built
  /\ EndpointsTypeOK
  /\ UpstreamTypeOK

\* The places of a request that plan_request has let through.
Planned == {"identify", "budget", "rewrite", "dispatch", "fanout", "pick", "lease", "dial", "exchange",
            "count", "mark", "disable", "settle", "body"}
Charged == Planned \ {"identify", "budget", "rewrite"}

\* A request leaves for a backend only when the one route it goes by allows it:
\* a configuration push between its two passes, or before the federation is
\* looked up, never combines the checks of one route with the backend of
\* another, and nothing is charged for a request authentication refuses
\* (plan_request, proxy.rs's handle).
Admitted == \A r \in Tasks : LET rt == task[r].rt  q == task[r].q IN
  /\ task[r].pc \in Planned =>
       /\ rt.found /\ rt.backend /\ ~rt.redirect /\ q.body # "over"
       /\ rt.ip_rules => ~q.denied
       /\ rt.auth # "none" => q.cred = "good"
       /\ rt.ext_auth # "none" => task[r].asked \in {"allow", "open"} /\ (task[r].asked = "open" => rt.ext_auth = "open")
       /\ rt.needs_body /\ q.body # "none" => task[r].scanned
  /\ task[r].pc \in Charged => (rt.key_required => q.key = "good")
  /\ task[r].charged => (rt.auth # "none" => q.cred = "good")

\* A backend never sees a client's own value of a header that authentication
\* sets, also when the service it would come from did not answer and the route
\* fails open (HeaderMutations::apply, AuthHeaders' remove lists).
OwnedHeaders == \A r \in Tasks :
  task[r].pc = "exchange" /\ (task[r].rt.auth = "jwt" \/ task[r].rt.ext_auth # "none")
    => Forwarded(task[r].rt, task[r].q, task[r].asked) # "client"

\* A request whose body is streamed reaches a connection once, and no request
\* more often than its route's retries allow, whatever fails (forward's loop).
SentOnce == \A r \in Tasks :
  /\ task[r].sent > 1 => task[r].held
  /\ task[r].sent <= task[r].rt.max_retries + 1

\* A pool with endpoints keeps one in rotation, unless two of its ejections
\* overlap (eject counts the ready endpoints before it takes the record's lock
\* and disables after it has released it).
LastReadyStays == \A p \in 1 .. built :
  pools[p].addrs # {} /\ p \notin raced => pools[p].enabled # {}

\* An ejected endpoint comes back into every pool it was taken out of, the
\* replaced ones that requests still hold included (the task eject spawns).
EjectedReturns == \A p \in PoolIds : \A a \in Addrs :
  (a \in pools[p].addrs /\ a \notin pools[p].enabled) ~> (a \in pools[p].enabled)

Leases(c) == {r \in Tasks : c \in task[r].conn}

\* An HTTP/1 connection serves one exchange at a time: it is leased once or
\* lies idle, never both (take, put and Lease's drop).
OneBorrower == \A c \in Conns : conns[c].target.h2 \/
  /\ \A r, s \in Leases(c) : r = s
  /\ c \in idle => Leases(c) = {}

\* idle_total is the number of idle connections once the removals under way
\* have been subtracted: no eviction, sweep or failed lookup leaves it high or
\* low for good.
IdleExact ==
  idle_total = Cardinality(idle) + evicting + SumFunctionOnSet([r \in Tasks |-> task[r].pending], Tasks)

\* The pod's idle connections exceed their bound by less than one for every
\* request that gives one back at the same moment, the bound being looked at
\* before the shard's lock is taken (put).
IdleBounded ==
  idle_total + Cardinality({r \in Tasks : task[r].pc = "push"}) <= MaxIdleTotal + Cardinality(Tasks) - 1

\* A connection verified under one BackendTLSPolicy never serves a request of
\* another (UpstreamTarget's key).
VerifiedAsPlanned == \A r \in Tasks : \A c \in task[r].conn :
  conns[c].policy = task[r].policy /\ conns[c].target.addr = task[r].at

\* A request on a route with a timeout is answered, whatever its backends do,
\* once its body is in: the deadline covers the dial as well as the exchange
\* and the retries run out (attempt, forward's loop).
DeadlineAnswers == \A r \in Tasks :
  (task[r].pc = "pick" /\ task[r].rt.deadline) ~> (task[r].pc \in {"idle", "body"})

\* What reaches a backend is what its route lets through, under the identity
\* its route established, and no more often than the route allows.
SentAsPlanned == TypeOK /\ Admitted /\ OwnedHeaders /\ SentOnce

\* Connections are borrowed once, under the policy they were verified for, and
\* the idle ones are counted and bounded (client.rs).
ConnectionsSound == OneBorrower /\ VerifiedAsPlanned /\ IdleExact /\ IdleBounded

\* Ejections end and deadlines answer (outlier.rs, attempt).
TimersFire == EjectedReturns /\ DeadlineAnswers
=============================================================================
