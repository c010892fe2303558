------------------------------- MODULE Routing -------------------------------
(* From the objects in the store to the route that serves a request: edits,  *)
(* recompilations and reloads of one Gateway's data plane while its worker   *)
(* serves requests.  Delivery of a slice is one step here (ConfigDelivery    *)
(* has its interleavings): what matters is what each reload keeps, drops and *)
(* reorders, compilation after compilation.                                  *)
EXTENDS Backends

CONSTANTS
  Gateway,        \* the Gateway whose data plane this is
  Initial,        \* [scene -> the store at first]
  Edits,          \* [scene -> object edits <<field, name, to>>]
  Requests,       \* the requests clients send
  CounterSize,    \* where the thread's counter wraps (2^64)
  MaxEdits        \* bound on edits

ASSUME RoutingAssumption == {CounterSize, MaxEdits} \subseteq Nat

VARIABLES
  scene,      \* which of the stores this one started as
  store,      \* the objects the reconcilers stored
  applied,    \* the fingerprint of the slice the data plane runs
  table,      \* its routing table
  upstreams,  \* its pools, TLS to backends and federations
  tokens,     \* tokens[i]: what limiter i has left
  counter,    \* WEIGHT_COUNTER of the worker's thread
  edits       \* edits so far

vars == <<scene, store, applied, table, upstreams, tokens, counter, edits>>

rps(rate) == (CHOOSE v \in rate : TRUE).rps

PathRoutes(t) == UNION {Range(t[g].exact \o t[g].rules) : g \in DOMAIN t}

LimitOf(t, i) == rps((CHOOSE r \in PathRoutes(t) : r.limiter = i).policy.rate)

TypeOK ==
  /\ DOMAIN tokens = LimitersOf(table)
  /\ \A r \in PathRoutes(table) : r.limiter = NoLimiter <=> r.policy.rate = {}
  /\ \A i \in LimitersOf(table) : tokens[i] \in 0 .. LimitOf(table, i)
  /\ counter \in 0 .. CounterSize - 1
  /\ edits \in 0 .. MaxEdits

\* A new limiter is full, a kept one has what it had.
Filled(new) ==
  [i \in LimitersOf(new) |-> IF i \in DOMAIN tokens THEN tokens[i] ELSE LimitOf(new, i)]

\* A slice reaches the data plane when its fingerprint is another one.
apply_config(st, ro, po, lo, reload) ==
  LET slice == compile_slice(st, ro, po, lo, Gateway)
      fp == config_fingerprint(st, slice, Gateway)
      new == build_listener_buckets(slice.routes, table, reload)
  IN IF fp = applied THEN UNCHANGED <<applied, table, upstreams, tokens>>
     ELSE /\ applied' = fp
          /\ table' = new
          /\ \E no \in NamespaceOrders(slice.backends) :
               upstreams' = build_upstreams(slice, no, upstreams.pools, reload)
          /\ tokens' = Filled(new)

\* The orders the objects of a map can be met in.  Those of different kinds
\* are kept in maps of their own: when no two are of one kind, any order will do.
Orders(objects) ==
  LET orders == SetToSeqs(DOMAIN objects)
  IN IF \E a, b \in DOMAIN objects : a # b /\ objects[a].kind = objects[b].kind /\ objects[a] # Absent
       THEN orders ELSE {CHOOSE o \in orders : TRUE}

Init ==
  /\ scene \in DOMAIN Initial
  /\ store = Initial[scene]
  /\ edits = 0
  /\ counter = 0
  /\ LET any(objects) == CHOOSE o \in Orders(objects) : TRUE
         slice == compile_slice(store, any(store.routes), any(store.policies), any(store.streams), Gateway)
         empty == [g \in {} |-> <<>>]
     IN /\ applied = config_fingerprint(store, slice, Gateway)
        /\ table = build_listener_buckets(slice.routes, empty, 0)
        /\ \E no \in NamespaceOrders(slice.backends) : upstreams = build_upstreams(slice, no, empty, 0)
  /\ tokens = [i \in LimitersOf(table) |-> LimitOf(table, i)]

\* An object is created, changed or deleted; the store is compiled again.
Edit(e) ==
  /\ edits < MaxEdits
  /\ edits' = edits + 1
  /\ store' = IF e[1] \in {"grants", "secrets"} THEN [store EXCEPT ![e[1]] = e[3]]
              ELSE [store EXCEPT ![e[1]][e[2]] = e[3]]
  /\ store' # store
  /\ \E ro \in Orders(store'.routes), po \in Orders(store'.policies), lo \in Orders(store'.streams) :
       apply_config(store', ro, po, lo, edits')
  /\ UNCHANGED <<scene, counter>>

\* What serving rq with route r does: authentication, then the backend, then
\* the rate limit.
Request(rq) ==
  \E r \in Matched(table, rq) :
    /\ r.policy.auth = {} \/ rq.known
    /\ counter' = IF TotalWeight(r.config.weighted) = 0 THEN counter ELSE (counter + 1) % CounterSize
    /\ tokens' = IF \/ r.limiter = NoLimiter
                    \/ r.config.weighted = <<>> /\ r.config.service = NoService
                    \/ tokens[r.limiter] = 0
                   THEN tokens ELSE [tokens EXCEPT ![r.limiter] = @ - 1]
    /\ UNCHANGED <<scene, store, applied, table, upstreams, edits>>

\* A second passes for limiter i.
Refill(i) ==
  /\ tokens' = [tokens EXCEPT ![i] = LimitOf(table, i)]
  /\ UNCHANGED <<scene, store, applied, table, upstreams, counter, edits>>

Next ==
  \/ \E e \in Edits[scene] : Edit(e)
  \/ \E rq \in Requests : Request(rq)
  \/ \E i \in DOMAIN tokens : Refill(i)

Spec == Init /\ [][Next]_vars

-----------------------------------------------------------------------------
(* Which rule should serve a request, read off the store. *)

\* One rule's match on one listener that this Gateway's data plane serves.
Candidates ==
  UNION {UNION {{[route |-> n, rule |-> k, listener |-> store.parents[store.routes[n].parents[b[1]].parent].listeners[b[2]],
                  entry |-> match_entries(store.routes[n].kind, store.routes[n].rules[k])[m]] :
                   m \in 1 .. Len(match_entries(store.routes[n].kind, store.routes[n].rules[k]))} :
                 k \in DOMAIN store.routes[n].rules, b \in {x \in Bindings(store, store.routes[n]) :
                    /\ Attached(store, store.routes[n], x)
                    /\ store.parents[store.routes[n].parents[x[1]].parent].gateway = Gateway}} :
         n \in {x \in DOMAIN store.routes : store.routes[x] # Absent}}

Most(S, f(_)) == {c \in S : \A d \in S : f(d) <= f(c)}

\* The hostname of a candidate's route that claims a host best, by its rank.
RouteHostRank(c, host) ==
  LET names == store.routes[c.route].hostnames
      claiming == {p \in names : listener_hostname_claims(p, host)}
  IN IF names = {} THEN 1
     ELSE IF claiming = {} THEN 0
     ELSE listener_specificity(CHOOSE p \in Most(claiming, listener_specificity) : TRUE)

HostRank(c, host) ==
  LET l == listener_specificity(c.listener.hostname)
      r == RouteHostRank(c, host)
  IN IF r = 0 THEN 0 ELSE IF l > r THEN l ELSE r

\* A listener counts once some route is compiled onto it.
Served(c) == compute_effective_hostnames(c.listener.hostname, store.routes[c.route].hostnames) # {}

BestListener(candidates, rq, host) ==
  Most({c \in candidates : Served(c) /\ c.listener.port = rq.port /\ listener_hostname_claims(c.listener.hostname, host)},
       LAMBDA c : listener_specificity(c.listener.hostname))

\* The matches of the most specific listener and host that apply to rq, the
\* most specific by path, method, headers and query parameters.
Best(candidates, rq) ==
  LET hosts == Most({c \in BestListener(candidates, rq, rq.host) : HostRank(c, rq.host) > 0}, LAMBDA c : HostRank(c, rq.host))
      applying == {c \in hosts : path_matches(c.entry.path, rq.path) /\ extra_dimensions_match(c.entry.dims, rq)}
      byType == Most(applying, LAMBDA c : IF c.entry.path.type = "Exact" THEN 1 ELSE 0)
      byLen == Most(byType, LAMBDA c : c.entry.path.len)
      byMethod == Most(byLen, LAMBDA c : IF c.entry.dims.method = None THEN 0 ELSE 1)
      byHeaders == Most(byMethod, LAMBDA c : Cardinality(c.entry.dims.headers))
  IN Most(byHeaders, LAMBDA c : Cardinality(c.entry.dims.query))

Hostnames(S) == {c.listener.hostname : c \in S}

RuleOf(c) == [route |-> c.route, rule |-> store.routes[c.route].rules[c.rule].id]

\* Whatever was edited, in whatever order the store was walked, a request is
\* served by a most specific match of the most specific listener and host that
\* have routes, and by none of another Gateway; it is answered 404 only when
\* nothing applies, and 421 only when its TLS name belongs to another listener
\* (build_listener_buckets_from_proto, match_request, plan_request; the
\* precedence documented in docs/compliance-matrix.md:53).
RoutedByPrecedence ==
  LET candidates == Candidates IN
  \A rq \in Requests :
    LET matched == Matched(table, rq)
        best == Best(candidates, rq)
        own(host) == Hostnames(BestListener(candidates, rq, host))
        misdirected == \E name \in rq.sni : own(name) # {} /\ own(name) # own(rq.host)
    IN /\ misdirected <=> Misdirected(table, rq)
       /\ ~misdirected => (matched = {} <=> best = {})
       /\ \A r \in matched : r.src \in {RuleOf(c) : c \in best}

\* A request is served under the policies that name its route, else under
\* those of the Gateway when the route names it as a parent: an edit that moves a policy, a route or a
\* parentRef never leaves a route open that a policy closes, nor unlimited
\* (apply_policies, find_matching_policy).
PolicyFollowsTarget ==
  \A rq \in Requests : \A r \in Matched(table, rq) :
    LET n == r.src.route
        live == {p \in DOMAIN store.policies : store.policies[p] # Absent /\ store.policies[p].accepted}
        onRoute == {p \in live : TargetsRoute(store.policies[p], n, store.routes[n])}
        onGateway == {p \in live : LET t == store.policies[p].target IN
                        /\ t.kind = "Gateway" /\ t.section = None /\ t.name = Gateway
                        /\ \E i \in DOMAIN store.routes[n].parents : store.routes[n].parents[i].parent = Gateway}
        values(S, kinds) == {store.policies[p].value : p \in {x \in S : store.policies[x].kind \in kinds}}
        covers(got, kinds) ==
          /\ values(onRoute, kinds) # {} => got # {}
          /\ values(onGateway, kinds) # {} => got # {}
          /\ got \subseteq values(live, kinds)
    IN /\ covers(r.policy.auth, Range(AuthKinds))
       /\ covers(r.policy.rate, {"RateLimit"})
       /\ values(onRoute, {"RateLimit"}) # {} => r.policy.rate \subseteq values(onRoute, {"RateLimit"})

\* What is left for a path of group g under a limit.
Left(t, tok, g, path, rate) ==
  LET mine == IF g \notin DOMAIN t THEN {}
              ELSE {r.limiter : r \in {x \in Range(t[g].exact \o t[g].rules) :
                      x.policy.rate = rate /\ x.limiter # NoLimiter /\ SamePath(x.config.path, path)}}
  IN [on |-> mine # {}, left |-> FoldSet(LAMBDA i, sum : tok[i] + sum, 0, mine)]

\* A reload never gives a limited path more than it had left: a limit that
\* stays is not refilled by editing something else (make_route reusing the
\* limiter, find_rate_limiter).
ReloadGrantsNothing ==
  table' # table =>
     \A r \in {x \in PathRoutes(table) : x.limiter # NoLimiter} :
       LET g == Group(r)
           before == Left(table, tokens, g, r.config.path, r.policy.rate)
           after == Left(table', tokens', g, r.config.path, r.policy.rate)
       IN after.on => after.left <= before.left

\* From wherever the thread's counter stands, as many requests for one route
\* as its backends' weights sum up to give each backend its weight
\* (select_weighted_backend; not across the counter's wrap, and not when
\* requests for other weighted routes come in between).
WeightsHonoured ==
  \A r \in PathRoutes(table) :
    LET w == r.config.weighted
        total == TotalWeight(w)
    IN total > 0 /\ counter + total <= CounterSize =>
         \A i \in DOMAIN w :
           Cardinality({c \in counter .. counter + total - 1 : select_weighted_backend(w, c) = i}) = w[i].weight

-----------------------------------------------------------------------------
(* What stands behind the routes, read off the store. *)

Live(objects) == {n \in DOMAIN objects : objects[n] # Absent}

Accepted(st, kind) == {st.policies[p] : p \in {x \in Live(st.policies) : st.policies[x].kind = kind /\ st.policies[x].accepted}}

\* The Services something in the store may name.
Referenced(st) ==
  LET byRoute(r) ==
        IF r.kind = "AIRoute"
          THEN {ServiceKey(p.ns, p.service, p.port) : p \in {Provider(st, r.rules[k].provider) : k \in DOMAIN r.rules} \ {Absent}}
          ELSE {ServiceKey(b.ns, b.name, b.port) :
                  b \in {x \in UNION {Range(r.rules[k].backends) : k \in DOMAIN r.rules} :
                           is_reference_allowed(st.grants, r.ns, r.kind, x.ns, x.name)}}
      byPolicy == {ServiceKey(p.value.ns, p.value.name, p.value.port) :
                     p \in {x \in Accepted(st, "ExtAuth") :
                              is_reference_allowed(st.grants, x.value.from, "ExtAuthPolicy", x.value.ns, x.value.name)}}
      members == UNION {{Provider(st, <<st.providers[f].ns, m.provider>>) : m \in st.providers[f].members} :
                        f \in {x \in Live(st.providers) : st.providers[x].kind = "mcp-federation"}} \ {Absent}
      byStream == UNION {{ServiceKey(b.ns, b.name, b.port) : b \in Range(st.streams[n].backends)} : n \in Live(st.streams)}
  IN UNION {byRoute(st.routes[n]) : n \in Live(st.routes)} \cup byPolicy \cup byStream
     \cup {ServiceKey(p.ns, p.service, p.port) : p \in members}

Owners(st, key) == {k \in Referenced(st) : PoolKey(k) = key}

\* What a policy of a kind says of a Service.
SaidOf(st, kind, k) ==
  {p \in Accepted(st, kind) : p.target.kind = "Service" /\ p.target.ns = k.ns /\ p.target.name = k.name}

\* Where route r sends requests, or asks about them.
Forwards(r) == Wanted({r}, {}) \ {PoolKey(NoService)}

\* The BackendTLSPolicies that may decide for a Service: those of its port, else
\* those of the Service, without the ones that are younger than another.
Deciding(st, k) ==
  LET all == SaidOf(st, "BackendTLS", k)
      own == {p \in all : k \in DOMAIN st.port_names /\ p.target.section = st.port_names[k]}
      scope == IF own # {} THEN own ELSE {p \in all : p.target.section = None}
  IN {p \in scope : \A q \in scope : p.created = NoTime \/ q.created = NoTime \/ p.created <= q.created}

\* Whatever was edited, requests are sent to endpoints the store has for a
\* Service of the name the route gives; when the store knows one such Service
\* they are its endpoints, probed and spoken to over TLS as its policies say,
\* and there is no pool only when it has no endpoints (compile_config's groups
\* and their port translation, config_fingerprint, build_lb_map_from_proto,
\* build_backend_tls_map_from_proto).  Services that share a name and port
\* share a pool, which is one's or the other's.
PoolsFollowStore ==
  \A key \in UNION {Forwards(r) : r \in PathRoutes(table)} \cup Wanted({}, upstreams.streams) :
    LET owners == Owners(store, key)
        pooled == key \in DOMAIN upstreams.pools
        secured == key \in DOMAIN upstreams.tls
    IN /\ pooled => \E k \in owners : upstreams.pools[key].endpoints = EndpointsOf(store, k)
       /\ \A k \in owners : owners = {k} =>
            LET deciding == Deciding(store, k) IN
            /\ pooled <=> EndpointsOf(store, k) # {}
            /\ pooled => upstreams.pools[key].health_check = {p.value : p \in SaidOf(store, "HealthCheck", k)}
            /\ secured => upstreams.tls[key] \in {p.value : p \in deciding}
            /\ deciding # {} /\ (\A p \in deciding : p.value.ca) => secured

\* An edit of something else leaves a pool as it is, with what it knows of its
\* endpoints' health (build_lb_map_from_proto: "health-check state survive
\* unrelated config changes").
PoolsKeepState ==
  \A key \in DOMAIN upstreams.pools \cap DOMAIN upstreams'.pools :
       \A k \in Owners(store, key) :
         /\ Owners(store, key) = {k}
         /\ Owners(store', key) = {k}
         /\ EndpointsOf(store, k) = EndpointsOf(store', k)
         /\ SaidOf(store, "HealthCheck", k) = SaidOf(store', "HealthCheck", k)
         => upstreams'.pools[key] = upstreams.pools[key]

\* A request of an AIRoute is let in and charged as the route and its policy
\* now say, and goes out as its provider is now: under its name, with its
\* credential while there is one, over TLS to its host, to its members when it
\* is a federation, and nowhere when it is gone (ai_routes_as_http_routes,
\* compile_mcp_federations, compile_config, scope_config).
ProviderFollowsRoute ==
  \A r \in PathRoutes(table) :
    LET route == store.routes[r.src.route]
        rule == CHOOSE x \in Range(route.rules) : x.id = r.src.rule
        p == Provider(store, rule.provider)
        budgets == {x.value : x \in {y \in Accepted(store, "AIUsage") : y.target.kind = "AIRoute" /\ y.target.name = r.src.route}}
        reachable == {m \in p.members : Provider(store, <<p.ns, m.provider>>) # Absent}
    IN route.kind = "AIRoute" =>
         /\ r.config.ai.access = route.access
         /\ r.config.ai.budget \subseteq budgets /\ (budgets # {} => r.config.ai.budget # {})
         /\ p = Absent => r.config.service = NoService
         /\ p # Absent => r.config.service.name = p.service /\ r.config.tls = IF p.tls THEN {[sni |-> p.host]} ELSE {}
         /\ p.kind = "mcp-federation" =>
              {m.name : m \in upstreams.federations[rule.provider]} = {m.name : m \in reachable}
         /\ p.kind \notin {"absent", "mcp-federation"} =>
              r.config.headers = {[host |-> p.host, credential |-> {c \in p.credential : c \in store.secrets}]}

\* The hosts the TLS names of the store's listeners and routes stand for.
Hosts == {h.name : h \in UNION ({store.streams[n].hostnames : n \in Live(store.streams)} \cup
                                {{l.hostname : l \in Range(store.parents[p].listeners)} : p \in Live(store.parents)})}

\* A TCP or UDP listener is served by the oldest of the routes whose accepted
\* parentRefs attach them to it, whichever the maps give first; a TLSRoute is
\* asked for exactly the hosts that it and a TLS listener of an accepted
\* parentRef claim, unless it names neither hosts nor a listener, and no Gateway
\* has another's (compile_l4_routes, compute_effective_hostnames_tls,
\* scope_config).
StreamsFollowStore ==
  LET streams == upstreams.streams
      attached(l, kind) ==
        {n \in Live(store.streams) :
           /\ store.streams[n].kind = kind
           /\ \E i \in DOMAIN store.streams[n].parents :
                LET ref == store.streams[n].parents[i]
                IN ref.parent = Gateway /\ ref.accepted /\ ref.section \in {None, l.name} /\ ref.port \in {NoPort, l.port}}
      known(S) == {n \in S : store.streams[n].created # NoTime}
      oldest(S) == IF known(S) = {} THEN S
                   ELSE {n \in known(S) : \A m \in known(S) : store.streams[n].created <= store.streams[m].created}
      served(l) == {s \in streams : s.protocol = l.protocol /\ s.listener = l.name}
      claimed(n, host) ==
        /\ store.streams[n].hostnames = {} \/ \E h \in store.streams[n].hostnames : listener_hostname_claims(h, host)
        /\ \E l \in Range(store.parents[Gateway].listeners) :
             l.protocol = "TLS" /\ l.accepted /\ n \in attached(l, "TLSRoute") /\ listener_hostname_claims(l.hostname, host)
      tls == {n \in Live(store.streams) : store.streams[n].kind = "TLSRoute"}
      placed(n) == store.streams[n].hostnames # {} \/ \E ref \in Range(store.streams[n].parents) : ref.section # None
      asked(host) == \E s \in streams : s.protocol = "TLS" /\ \E h \in s.names : listener_hostname_claims(h, host)
  IN /\ \A s \in streams : s.gateway = Gateway
     /\ \A l \in Range(store.parents[Gateway].listeners) : l.accepted /\ l.protocol \in {"TCP", "UDP"} =>
          LET mine == oldest(attached(l, l.protocol \o "Route"))
              backends(n) == {[name |-> b.name, weight |-> b.weight] : b \in Range(store.streams[n].backends)}
          IN \/ \E s \in served(l), n \in mine : {[name |-> b.name, weight |-> b.weight] : b \in Range(s.backends)} = backends(n)
             \/ served(l) = {} /\ (mine # {} => \E n \in mine : store.streams[n].backends = <<>>)
     /\ \A host \in Hosts : /\ (\E n \in tls : placed(n) /\ claimed(n, host)) => asked(host)
                            /\ asked(host) => \E n \in tls : claimed(n, host)

\* Every member of a federation a route fans out to that has endpoints has a
\* pool (the comment on compile_mcp_federations).
MembersArePooled ==
  \A f \in DOMAIN upstreams.federations : \A m \in upstreams.federations[f] :
    EndpointsOf(store, ServiceKey(m.ns, m.service, m.port)) # {} => PoolKey([name |-> m.service, port |-> m.port]) \in DOMAIN upstreams.pools

\* What a data plane holds of its backends is what the store says: pools and
\* their TLS, providers and budgets of AI routes, L4 and TLS routes.
SliceFollowsStore == TypeOK /\ PoolsFollowStore /\ ProviderFollowsRoute /\ StreamsFollowStore

\* A reload disturbs nothing that did not change: no limiter is refilled and no
\* pool forgets what it knows (apply_config).
ReloadKeepsState == [][ReloadGrantsNothing /\ PoolsKeepState]_<<upstreams, store, table, tokens>>
=============================================================================
