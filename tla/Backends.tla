------------------------------ MODULE Backends ------------------------------
(* The other half of a slice: which Services its routes send requests to,    *)
(* with their endpoints, health checks and TLS, the AI providers and MCP     *)
(* federations behind AIRoutes, and the pools config_receiver.rs builds from *)
(* it.                                                                       *)
(*                                                                           *)
(* A store st also has                                                       *)
(*   endpoints      [[ns, name, port] -> addresses], as EndpointSlices say   *)
(*   port_map       [[ns, name, port] -> target port] of some Services       *)
(*   port_names     [[ns, name, port] -> its name] of some Services          *)
(*   app_protocols  [[ns, name, port] -> appProtocol] of some Services       *)
(*   providers      [<<ns, name>> -> [kind, ns, name, service, port, host,   *)
(*                  tls, credential, members]], or Absent                    *)
(*   secrets        the Secrets that are there                               *)
(* An AIRoute is a route with "access" (whether callers need a key, a token) *)
(* whose rules are [id, matches, provider].                                  *)
EXTENDS Router, StreamRoutes

ServiceKey(ns, name, port) == [ns |-> ns, name |-> name, port |-> port]

-----------------------------------------------------------------------------
(* AI providers. *)

Provider(st, key) == IF key \in DOMAIN st.providers THEN st.providers[key] ELSE Absent

\* A credential whose Secret is gone is left out.
provider_request_headers(st, p) == [host |-> p.host, credential |-> p.credential \cap st.secrets]

\* The store with its AIRoutes as the HTTP loop sees them.  The provider is
\* looked up now: a rule whose provider is gone has no backend.
ai_routes_as_http_routes(st) ==
  LET rule(x) ==
        LET p == Provider(st, x.provider)
        IN [id |-> x.id, matches |-> x.matches,
            backends |-> IF p = Absent THEN <<>>
                         ELSE <<[ns |-> p.ns, name |-> p.service, port |-> p.port, weight |-> 1]>>,
            headers |-> IF p.kind \in {"absent", "mcp-federation"} THEN {} ELSE {provider_request_headers(st, p)}]
      http(r) == IF r.kind # "AIRoute" THEN r
                 ELSE [r EXCEPT !.rules = [k \in DOMAIN @ |-> rule(@[k])]]
  IN [st EXCEPT !.routes = [n \in DOMAIN @ |-> http(@[n])]]

\* Every federation with those of its members whose provider is there.
compile_mcp_federations(st) ==
  LET member(f, m) == LET p == Provider(st, <<f.ns, m.provider>>)
                      IN [name |-> m.name, service |-> p.service, port |-> p.port, ns |-> p.ns, tls |-> p.tls,
                          headers |-> provider_request_headers(st, p)]
      members(f) == {member(f, m) : m \in {x \in f.members : Provider(st, <<f.ns, x.provider>>) # Absent}}
  IN [k \in {x \in DOMAIN st.providers : st.providers[x].kind = "mcp-federation"} |-> members(st.providers[k])]

\* The budget of an AIRoute: of several accepted policies the last one met.
ai_budget(st, po, n) ==
  LET mine == {i \in DOMAIN po : LET p == st.policies[po[i]] IN
                 p.kind = "AIUsage" /\ p.accepted /\ p.target.kind = "AIRoute" /\ p.target.name = n}
  IN IF mine = {} THEN {} ELSE {st.policies[po[CHOOSE i \in mine : \A j \in mine : j <= i]].value}

ai_dialect(kind) ==
  CASE kind = "anthropic" -> "anthropic"
    [] kind \in {"mcp", "mcp-federation"} -> "mcp"
    [] OTHER -> "openai"

\* The provider a Service name stands for, as a set of at most one.
ProviderOf(st, service) ==
  {st.providers[k] : k \in {x \in DOMAIN st.providers : st.providers[x] # Absent /\ st.providers[x].service = service.name}}

-----------------------------------------------------------------------------
(* What is laid over the compiled routes. *)

\* The namespace a Service name and port was last seen with, over the HTTP and
\* AI routes in the order they are met: grants are not asked.
backend_ns_index(st, ro, service) ==
  LET of(n) == LET r == st.routes[n] IN
        UNION {{[at |-> <<KindRank(r), Position(ro, n), k, i>>, ns |-> r.rules[k].backends[i].ns] :
                  i \in {x \in DOMAIN r.rules[k].backends :
                           /\ r.rules[k].backends[x].name = service.name
                           /\ r.rules[k].backends[x].port = service.port}} : k \in DOMAIN r.rules}
      seen == UNION {of(n) : n \in {x \in DOMAIN st.routes : st.routes[x].kind \in {"HTTPRoute", "AIRoute"}}}
  IN {s.ns : s \in {x \in seen : \A y \in seen \ {x} : LexBefore(y.at, x.at)}}

app_protocol(st, ro, service) ==
  {st.app_protocols[k] : k \in {x \in DOMAIN st.app_protocols :
     x.name = service.name /\ x.port = service.port /\ x.ns \in backend_ns_index(st, ro, service)}}

\* A RouteConfig with its Service's protocol, its AIRoute's demands and its
\* provider's TLS: st has the AIRoutes as HTTPRoutes.
Overlaid(st, ro, po, rc) ==
  LET c == rc.config
      source == st.routes[rc.src.route]
      proto == IF c.service.name = None \/ c.protocol = "GRPC" THEN {} ELSE app_protocol(st, ro, c.service)
      provider == ProviderOf(st, c.service)
  IN [rc EXCEPT
        !.config.protocol = CASE proto = {"kubernetes.io/h2c"} -> "H2C"
                              [] proto = {"kubernetes.io/ws"} -> "WS"
                              [] OTHER -> c.protocol,
        !.config.tls = CASE \E p \in provider : p.tls -> {[sni |-> p.host] : p \in provider}
                         [] (\A p \in provider : ~p.tls) /\ proto = {"HTTPS"} -> {[sni |-> c.service.name]}
                         [] OTHER -> {},
        !.config.ai = [access |-> IF source.kind = "AIRoute" THEN source.access ELSE {},
                       budget |-> IF source.kind = "AIRoute" THEN ai_budget(st, po, rc.src.route) ELSE {},
                       provider |-> {[name |-> p.name, dialect |-> ai_dialect(p.kind)] : p \in provider},
                       federation |-> {<<p.ns, p.name>> : p \in {x \in provider : x.kind = "mcp-federation"}}]]

-----------------------------------------------------------------------------
(* Backend groups. *)

\* The Services that get a group: those the routes may name, bound to a
\* listener or not, the authorization Services of the compiled routes and the
\* members of federations.
backend_keys(st, routes) ==
  LET of(r) == {b \in UNION {Range(r.rules[k].backends) : k \in DOMAIN r.rules} :
                  is_reference_allowed(st.grants, r.ns, GrantKind(r), b.ns, b.name)}
      named == UNION {of(st.routes[n]) : n \in {x \in DOMAIN st.routes : st.routes[x] # Absent}}
      asked == {e \in UNION {rc.policy.ext : rc \in routes} : e.service # None}
      federations == compile_mcp_federations(st)
      members == UNION {federations[k] : k \in DOMAIN federations}
  IN {ServiceKey(b.ns, b.name, b.port) : b \in named}
     \cup {ServiceKey(e.ns, e.service, e.port) : e \in asked}
     \cup {ServiceKey(b.ns, b.name, b.port) : b \in stream_keys(st)}
     \cup {ServiceKey(m.ns, m.service, m.port) : m \in members}

\* The policies of a kind that name the Service, in the order they are met.
ServicePolicies(st, po, kind, key) ==
  LET names(p) == /\ p.kind = kind
                  /\ p.accepted
                  /\ p.target.kind = "Service"
                  /\ p.target.ns = key.ns
                  /\ p.target.name = key.name
  IN SelectSeq([i \in DOMAIN po |-> st.policies[po[i]]], names)

\* Mutant: the policy met last.
pick_latest(a, b) == b

\* The one met first unless the other is known to be older.
pick_oldest(a, b) == IF a.created # NoTime /\ b.created # NoTime /\ b.created < a.created THEN b ELSE a

Winner(policies) == IF policies = <<>> THEN {} ELSE {FoldLeft(pick_oldest, policies[1], Tail(policies)).value}

\* A policy for the Service's port comes before one for the whole Service.
backend_tls(st, po, key) ==
  LET all == ServicePolicies(st, po, "BackendTLS", key)
      own == SelectSeq(all, LAMBDA p : key \in DOMAIN st.port_names /\ p.target.section = st.port_names[key])
      wide == SelectSeq(all, LAMBDA p : p.target.section = None)
  IN IF own # <<>> THEN Winner(own) ELSE Winner(wide)

EndpointsOf(st, key) ==
  LET target == IF key \in DOMAIN st.port_map THEN [key EXCEPT !.port = st.port_map[key]] ELSE key
  IN IF target \in DOMAIN st.endpoints THEN st.endpoints[target] ELSE {}

\* A group has no namespace: ns is what the group was made for, which nothing
\* on the data plane sees.
backend_group(st, po, key) ==
  LET checks == ServicePolicies(st, po, "HealthCheck", key)
  IN [ns |-> key.ns,
      group |-> [name |-> key.name, port |-> key.port, endpoints |-> EndpointsOf(st, key),
                 health_check |-> IF checks = <<>> THEN {} ELSE {checks[1].value},
                 tls |-> backend_tls(st, po, key)]]

-----------------------------------------------------------------------------
(* The slice of one Gateway. *)

PoolKey(x) == <<x.name, x.port>>

\* The Services the routes of a slice name: a federation's members are none.
Wanted(routes, streams) ==
  {PoolKey(rc.config.service) : rc \in routes}
  \cup UNION {{PoolKey(w) : w \in Range(rc.config.weighted)} : rc \in routes}
  \cup UNION {{<<e.service, e.port>> : e \in rc.policy.ext} : rc \in routes}
  \cup UNION {{PoolKey(b) : b \in Range(s.backends)} : s \in streams}

compile_slice(st, ro, po, lo, gateway) ==
  LET http == ai_routes_as_http_routes(st)
      all == {Overlaid(http, ro, po, rc) : rc \in compile_config(http, ro, po)}
      routes == scope_config(all, gateway)
      streams == {s \in compile_streams(st, lo) : s.gateway = gateway}
      wanted == Wanted(routes, streams)
      federations == compile_mcp_federations(st)
      used == DOMAIN federations \cap UNION {rc.config.ai.federation : rc \in routes}
  IN [routes |-> routes,
      streams |-> streams,
      backends |-> {backend_group(st, po, k) : k \in {x \in backend_keys(http, all) : PoolKey(x) \in wanted}},
      federations |-> [k \in used |-> federations[k]]]

\* Mutant: the fingerprint leaves the federations out.
fingerprint_of_routes(st, slice, gateway) ==
  LET content(rc) == [config |-> rc.config, policy |-> rc.policy]
      counts(S, f(_)) == [c \in {f(x) : x \in S} |-> Cardinality({x \in S : f(x) = c})]
  IN [routes |-> counts(slice.routes, content), backends |-> counts(slice.backends, LAMBDA b : b.group)]

\* What a slice's fingerprint tells apart: its RouteConfigs and groups with how
\* often each occurs, in no order, its stream routes, listeners and federations.
config_fingerprint(st, slice, gateway) ==
  LET content(rc) == [config |-> rc.config, policy |-> rc.policy]
      counts(S, f(_)) == [c \in {f(x) : x \in S} |-> Cardinality({x \in S : f(x) = c})]
      own == {p \in DOMAIN st.parents : /\ st.parents[p] # Absent
                                        /\ st.parents[p].accepted
                                        /\ st.parents[p].gateway = gateway}
  IN [routes |-> counts(slice.routes, content),
      streams |-> slice.streams,
      backends |-> counts(slice.backends, LAMBDA b : b.group),
      listeners |-> [p \in own |-> SelectSeq(st.parents[p].listeners, LAMBDA l : l.accepted)],
      federations |-> slice.federations]

-----------------------------------------------------------------------------
(* The data plane's pools.  Groups arrive in the order of a hash set; only   *)
(* that of groups with one name and port matters, and no, a sequence of the  *)
(* namespaces, is the order those are met in.                                *)

Groups(backends, no, key) ==
  LET mine == {b \in backends : PoolKey(b.group) = key}
      inOrder == SelectSeq(no, LAMBDA ns : \E b \in mine : b.ns = ns)
  IN [i \in DOMAIN inOrder |-> (CHOOSE b \in mine : b.ns = inOrder[i]).group]

\* The orders that make a difference.
NamespaceOrders(backends) ==
  LET orders == SetToSeqs({b.ns : b \in backends})
  IN IF \E b, c \in backends : b.ns # c.ns /\ PoolKey(b.group) = PoolKey(c.group)
       THEN orders ELSE {CHOOSE o \in orders : TRUE}

NoPool == [made |-> <<>>]

lb_signature(x) == [endpoints |-> x.endpoints, health_check |-> x.health_check]

\* Mutant: a pool is kept as long as its Service is named.
MadeOnce(old, group, at) ==
  CASE old # NoPool -> old
    [] group.endpoints = {} -> NoPool
    [] OTHER -> [made |-> at, endpoints |-> group.endpoints, health_check |-> group.health_check]

\* Mutant: every reload makes new pools.
MadeAnew(old, group, at) ==
  IF group.endpoints = {} THEN NoPool
  ELSE [made |-> at, endpoints |-> group.endpoints, health_check |-> group.health_check]

\* The pool a group becomes: the old one when its signature is the same, a new
\* one (told from others by the reload and the place that made it), or none
\* when there are no endpoints.
MadePool(old, group, at) ==
  CASE old # NoPool /\ lb_signature(old) = lb_signature(group) -> old
    [] group.endpoints = {} -> NoPool
    [] OTHER -> [made |-> at, endpoints |-> group.endpoints, health_check |-> group.health_check]

\* Later groups of a key replace earlier ones, except by nothing.
build_lb_map(backends, no, pools, reload) ==
  LET old(key) == IF key \in DOMAIN pools THEN pools[key] ELSE NoPool
      last(key) == LET groups == Groups(backends, no, key)
                       made(i) == MadePool(old(key), groups[i], <<reload, i>>)
                       some == {i \in DOMAIN groups : made(i) # NoPool}
                   IN IF some = {} THEN NoPool ELSE made(CHOOSE i \in some : \A j \in some : j <= i)
      keys == {PoolKey(b.group) : b \in backends}
  IN [key \in {k \in keys : last(k) # NoPool} |-> last(key)]

\* CAs that cannot be read leave the group without TLS.
build_backend_tls_map(backends, no) ==
  LET usable(key) == SelectSeq(Groups(backends, no, key), LAMBDA g : \E t \in g.tls : t.ca)
      keys == {k \in {PoolKey(b.group) : b \in backends} : usable(k) # <<>>}
  IN [key \in keys |-> CHOOSE t \in usable(key)[Len(usable(key))].tls : TRUE]

build_upstreams(slice, no, pools, reload) ==
  [pools |-> build_lb_map(slice.backends, no, pools, reload),
   tls |-> build_backend_tls_map(slice.backends, no),
   streams |-> slice.streams,
   federations |-> slice.federations]
=============================================================================
