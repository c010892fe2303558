--------------------------- MODULE MCRequestPath ---------------------------
(* RequestPath on small worlds: what a request may meet in its filters, in   *)
(* its retries and ejections, and in the connections it borrows.             *)
EXTENDS RequestPath

CONSTANTS a1, a2, r1, r2, c1, c2, c3, c4

MCAddrs == {a1, a2}
MCTasks == {r1, r2}
MCConns == {c1, c2, c3, c4}

Plain == [ca |-> "plain"]
PolicyA == [ca |-> "caA"]
PolicyB == [ca |-> "caB"]
MCPolicies == {Plain, PolicyA, PolicyB}

----------------------------------------------------------------------------
Quiet == [acme |-> FALSE, misdirected |-> FALSE, metadata |-> FALSE, body |-> "none", origin |-> "none",
          preflight |-> FALSE, denied |-> FALSE, cred |-> "good", key |-> "good", spoofs |-> FALSE,
          session |-> FALSE, upgrade |-> FALSE]

Open == [found |-> TRUE, oauth |-> FALSE, needs_body |-> FALSE, redirect |-> FALSE, cors |-> FALSE,
         ip_rules |-> FALSE, auth |-> "none", ext_auth |-> "none", backend |-> TRUE, rate_limited |-> FALSE,
         max_retries |-> 0, retry_codes |-> {}, retry_connect |-> FALSE, deadline |-> FALSE,
         has_timeout |-> FALSE, key_required |-> FALSE, budget |-> "none", fallback |-> FALSE,
         federated |-> FALSE, session_affinity |-> FALSE, h2 |-> FALSE]

Snap(route, addrs, policy, federation) ==
  [route |-> route, addrs |-> addrs, policy |-> policy, federation |-> federation]

\* The filters: one client, every kind of request, a route that gains and
\* loses its checks.
Guarded == [Open EXCEPT !.cors = TRUE, !.ip_rules = TRUE, !.auth = "jwt", !.oauth = TRUE, !.needs_body = TRUE,
                        !.ext_auth = "open", !.rate_limited = TRUE, !.key_required = TRUE, !.budget = "closed",
                        !.fallback = TRUE, !.federated = TRUE]
Lenient == [Guarded EXCEPT !.auth = "none", !.federated = FALSE, !.key_required = FALSE, !.budget = "open"]
Closed == [Open EXCEPT !.auth = "basic", !.ext_auth = "closed", !.needs_body = TRUE, !.session_affinity = TRUE]

Requests == {Quiet} \cup
  {[Quiet EXCEPT !.acme = TRUE], [Quiet EXCEPT !.misdirected = TRUE], [Quiet EXCEPT !.metadata = TRUE],
   [Quiet EXCEPT !.denied = TRUE], [Quiet EXCEPT !.origin = "allowed", !.preflight = TRUE],
   [Quiet EXCEPT !.origin = "other", !.preflight = TRUE], [Quiet EXCEPT !.body = "over"],
   [Quiet EXCEPT !.cred = "none", !.body = "short"], [Quiet EXCEPT !.cred = "bad"],
   [Quiet EXCEPT !.key = "limited", !.spoofs = TRUE], [Quiet EXCEPT !.spoofs = TRUE, !.body = "long"],
   [Quiet EXCEPT !.session = TRUE], [Quiet EXCEPT !.upgrade = TRUE], [Quiet EXCEPT !.body = "grows"]}

Filtering(routes) ==
  [snapshots |-> [i \in DOMAIN routes |-> Snap(routes[i], {a1}, Plain, i < Len(routes))],
   traffic |-> Requests, clients |-> {r1}, faults |-> {"cancel"}, leaves |-> {"open"},
   requests |-> 2, answers |-> {200}]

\* Retries and ejections: endpoints that refuse and fail, under two clients at
\* a time, under retries, while they are probed and while the pool is replaced.
Retried == [Open EXCEPT !.max_retries = 1, !.retry_codes = {503}, !.retry_connect = TRUE, !.deadline = TRUE]
Failing(routes, pools_, bodies, clients, faults, requests, answers) ==
  [snapshots |-> [i \in DOMAIN pools_ |-> Snap(routes, pools_[i], Plain, FALSE)],
   traffic |-> {[Quiet EXCEPT !.body = b] : b \in bodies}, clients |-> clients, faults |-> faults,
   leaves |-> {"closed"}, requests |-> requests, answers |-> answers]

Both == {a1, a2}
Racing == Failing([Open EXCEPT !.deadline = TRUE], <<Both>>, {"none"}, {r1, r2}, {"refuse"}, 2, {503})
Retrying == Failing(Retried, <<Both>>, {"none"}, {r1}, {"refuse"}, 2, {200, 503})
Streaming == Failing(Retried, <<Both>>, {"long"}, {r1}, {"refuse"}, 2, {200, 503})
Probed == Failing(Open, <<Both>>, {"none"}, {r1}, {"probe", "refuse"}, 2, {200})
Replaced == Failing([Retried EXCEPT !.max_retries = 2], <<Both, {a1}>>, {"none"}, {r1}, {}, 1, {200, 503})

\* Connections: requests that give theirs back at the same moment, that are cut
\* short, and that go to one address under two policies.
Borrowing(h2_, addrs, policies, clients, faults, leaves, requests) ==
  [snapshots |-> [i \in DOMAIN policies |-> Snap([Open EXCEPT !.deadline = TRUE, !.h2 = h2_], addrs, policies[i], FALSE)],
   traffic |-> {Quiet}, clients |-> clients, faults |-> faults, leaves |-> leaves, requests |-> requests,
   answers |-> {200}]

Pooled == Borrowing(FALSE, {a1}, <<Plain>>, {r1, r2}, {"die", "age"}, {"open", "cut"}, 3)
Crowded == Borrowing(FALSE, Both, <<Plain>>, {r1, r2}, {}, {"open"}, 3)
Verified == Borrowing(FALSE, {a1}, <<PolicyA, PolicyB>>, {r1}, {}, {"open"}, 3)
Multiplexed == Borrowing(TRUE, {a1}, <<PolicyA, PolicyB>>, {r1, r2}, {"die"}, {"open"}, 3)

MCWorlds ==
  {Filtering(<<[Open EXCEPT !.redirect = TRUE], Closed, Guarded, [Open EXCEPT !.found = FALSE]>>),
   Filtering(<<Lenient, Closed, [Open EXCEPT !.backend = FALSE], [Open EXCEPT !.ext_auth = "unpermitted"]>>),
   Racing, Retrying, Streaming, Probed, Replaced, Pooled, Crowded, Verified, Multiplexed}
=============================================================================
