---------------------------- MODULE RouteCompiler ----------------------------
(* What portus-controller's compiler.rs makes of the HTTP and gRPC routes of *)
(* the store: one RouteConfig per match of a rule, for every listener the    *)
(* route is attached to and every hostname the two share, with the policies  *)
(* that apply; and the slice of all that one Gateway's data plane is given.  *)
(*                                                                           *)
(* A store st is a record:                                                   *)
(*   parents    [Gateway or ListenerSet -> [kind, gateway, ns, accepted,     *)
(*              listeners (a sequence)]], or Absent                          *)
(*   routes     [route -> [kind, ns, hostnames, parents, rules]], or Absent  *)
(*   policies   [policy -> [kind, target, accepted, created, value]], or     *)
(*              Absent                                                       *)
(*   grants     ReferenceGrants [ns, from_ns, from_kind, name]               *)
(*   labels     [namespace -> its labels]                                    *)
(* and what Backends reads of it.                                            *)
(* DashMaps have no order: ro and po, sequences of the route and policy      *)
(* names, are the order a compilation meets them in.                         *)
EXTENDS Hostnames, FiniteSets

Absent == [kind |-> "absent"]
None == "none"    \* a name left out
NoPort == 0

\* A path of a match: its type, its text, its length and, for a regular
\* expression, the request paths it matches (none when it does not compile).
PrefixPath(p) == [type |-> "Prefix", path |-> p, len |-> Len(p), lang |-> {}]
ExactPath(p) == [type |-> "Exact", path |-> p, len |-> Len(p), lang |-> {}]
RegexPath(p, n, lang) == [type |-> "RegularExpression", path |-> p, len |-> n, lang |-> lang]

Dimensions(method, headers, query) == [method |-> method, headers |-> headers, query |-> query]

\* A match entry of an HTTPRoute is [path, dims].  A match without a path, and a
\* rule without matches, is the prefix "/" on the data plane.
NoMatch == [path |-> PrefixPath(<<>>), dims |-> Dimensions(None, {}, {})]

\* The match entry a gRPC match [service, method, headers] compiles to: always
\* a prefix, and "/" when the service is not named.
grpc_match(m) ==
  [path |-> PrefixPath(IF m.service = None THEN <<>>
                       ELSE IF m.method = None THEN <<m.service>> ELSE <<m.service, m.method>>),
   dims |-> Dimensions(None, m.headers, {})]

match_entries(kind, rule) ==
  IF rule.matches = <<>> THEN <<NoMatch>>
  ELSE [i \in DOMAIN rule.matches |->
          IF kind = "GRPCRoute" THEN grpc_match(rule.matches[i]) ELSE rule.matches[i]]

is_reference_allowed(grants, from_ns, from_kind, to_ns, name) ==
  \/ from_ns = to_ns
  \/ \E g \in grants : /\ g.ns = to_ns
                       /\ g.from_ns = from_ns
                       /\ g.from_kind = from_kind
                       /\ g.name \in {None, name}

\* selector: the wanted labels, {} when no selector is given.
namespace_allowed(allowed, route_ns, gateway_ns, labels) ==
  \/ allowed.from = "All"
  \/ allowed.from = "Same" /\ route_ns = gateway_ns
  \/ allowed.from = "Selector" /\ \E wanted \in allowed.selector : wanted \subseteq labels

-----------------------------------------------------------------------------
(* Attachment: which listeners a route is compiled onto. *)

\* The pairs of an accepted parentRef and a listener of a parent that is there
\* (and, a ListenerSet, accepted).
Bindings(st, r) ==
  UNION {{<<i, j>> : j \in DOMAIN st.parents[r.parents[i].parent].listeners} :
           i \in {k \in DOMAIN r.parents : /\ r.parents[k].accepted
                                           /\ st.parents[r.parents[k].parent] # Absent
                                           /\ st.parents[r.parents[k].parent].accepted}}

Attached(st, r, b) ==
  LET ref == r.parents[b[1]]
      parent == st.parents[ref.parent]
      l == parent.listeners[b[2]]
  IN /\ l.accepted
     /\ l.protocol \in {"HTTP", "HTTPS"}
     /\ ref.section \in {None, l.name}
     /\ ref.port \in {NoPort, l.port}
     /\ namespace_allowed(l.allowed, r.ns, parent.ns, st.labels[r.ns])

\* The backends of a rule as the data plane sees them: a weighted list when
\* there are several or one has a weight of its own, and the service used when
\* there is none.  A service of another namespace needs a grant that is still
\* there; the weighted list and a weighted gRPC rule's service are not checked.
weighted_backends(rule) ==
  IF Len(rule.backends) > 1 \/ \E i \in DOMAIN rule.backends : rule.backends[i].weight # 1
    THEN [i \in DOMAIN rule.backends |->
            [name |-> rule.backends[i].name, port |-> rule.backends[i].port, weight |-> rule.backends[i].weight]]
    ELSE <<>>

\* An AIRoute goes through the loop as an HTTPRoute and needs the grants of one.
GrantKind(r) == IF r.kind = "GRPCRoute" THEN "GRPCRoute" ELSE "HTTPRoute"

NoService == [name |-> None, port |-> NoPort]

service_name(st, r, rule) ==
  IF rule.backends = <<>> THEN NoService
  ELSE LET b == rule.backends[1]
       IN IF \/ is_reference_allowed(st.grants, r.ns, GrantKind(r), b.ns, b.name)
             \/ r.kind = "GRPCRoute" /\ weighted_backends(rule) # <<>>
            THEN [name |-> b.name, port |-> b.port] ELSE NoService

-----------------------------------------------------------------------------
(* Policies: one that names the route comes before one that names a Gateway  *)
(* of its parentRefs; among equals the first one met.  What applies is a set *)
(* of at most one value.                                                     *)

TargetsRoute(p, n, r) == p.target.kind = r.kind /\ p.target.name = n

TargetsGateway(p, r) ==
  /\ p.target.kind = "Gateway"
  /\ \E i \in DOMAIN r.parents :
       /\ p.target.name = r.parents[i].parent
       /\ p.target.section \in {None, r.parents[i].section}

\* Mutant: a Gateway's policy comes before the route's own.
find_gateway_policy(st, po, kind, n) ==
  LET live(i) == LET p == st.policies[po[i]] IN p # Absent /\ p.kind = kind /\ p.accepted
      direct == {i \in DOMAIN po : live(i) /\ TargetsRoute(st.policies[po[i]], n, st.routes[n])}
      gateway == {i \in DOMAIN po : live(i) /\ TargetsGateway(st.policies[po[i]], st.routes[n])}
      first(S) == {st.policies[po[CHOOSE i \in S : \A j \in S : i <= j]].value}
  IN CASE gateway # {} -> first(gateway)
       [] gateway = {} /\ direct # {} -> first(direct)
       [] OTHER -> {}

find_matching_policy(st, po, kind, n) ==
  LET live(i) == LET p == st.policies[po[i]] IN p # Absent /\ p.kind = kind /\ p.accepted
      direct == {i \in DOMAIN po : live(i) /\ TargetsRoute(st.policies[po[i]], n, st.routes[n])}
      gateway == {i \in DOMAIN po : live(i) /\ TargetsGateway(st.policies[po[i]], st.routes[n])}
      first(S) == {st.policies[po[CHOOSE i \in S : \A j \in S : i <= j]].value}
  IN CASE direct # {} -> first(direct)
       [] direct = {} /\ gateway # {} -> first(gateway)
       [] OTHER -> {}

\* A route has one kind of authentication; basic comes before API keys, and
\* those before tokens.
AuthKinds == <<"BasicAuth", "APIKeyAuth", "JWTAuth">>

auth_policy(st, po, n) ==
  LET found == {i \in DOMAIN AuthKinds : find_matching_policy(st, po, AuthKinds[i], n) # {}}
  IN IF found = {} THEN {}
     ELSE find_matching_policy(st, po, AuthKinds[CHOOSE i \in found : \A j \in found : i <= j], n)

\* An authorization Service the policy may not name is compiled without a name.
ext_auth(st, po, n) ==
  {[service |-> IF is_reference_allowed(st.grants, v.from, "ExtAuthPolicy", v.ns, v.name) THEN v.name ELSE None,
    ns |-> v.ns, port |-> v.port] : v \in find_matching_policy(st, po, "ExtAuth", n)}

apply_policies(st, po, n) ==
  [rate |-> find_matching_policy(st, po, "RateLimit", n), auth |-> auth_policy(st, po, n), ext |-> ext_auth(st, po, n)]

-----------------------------------------------------------------------------
(* The RouteConfigs of one route.  at is where the compilation emits one, src *)
(* (which nothing compiled depends on) the rule it comes from.               *)

\* Tuples of numbers in lexicographic order.
LexBefore(a, b) == \E i \in DOMAIN a : a[i] < b[i] /\ \A j \in 1 .. i - 1 : a[j] = b[j]

Position(seq, x) == CHOOSE i \in DOMAIN seq : seq[i] = x

\* HTTPRoutes are met first, then the AIRoutes, then the GRPCRoutes.
KindRank(r) == CASE r.kind = "HTTPRoute" -> 0 [] r.kind = "AIRoute" -> 1 [] OTHER -> 2

\* What compile_config adds for an AIRoute and its provider (Backends).
NoAi == [access |-> {}, budget |-> {}, provider |-> {}, federation |-> {}]

compile_http_rule(st, n, ref, rule, m, l, host) ==
  LET r == st.routes[n]
      entry == match_entries(r.kind, rule)[m]
  IN [gateway |-> st.parents[ref.parent].gateway,
      listener_name |-> IF ref.section = None THEN l.name ELSE ref.section, port |-> l.port, listener_hostname |-> l.hostname, host |-> host,
      path |-> entry.path, dims |-> entry.dims,
      service |-> service_name(st, r, rule), weighted |-> weighted_backends(rule),
      protocol |-> IF r.kind = "GRPCRoute" THEN "GRPC" ELSE "HTTP", headers |-> rule.headers, tls |-> {}, ai |-> NoAi]

compile_route(st, ro, po, n) ==
  LET r == st.routes[n]
      policy == apply_policies(st, po, n)
      listener(b) == st.parents[r.parents[b[1]].parent].listeners[b[2]]
      entries == UNION {{<<k, m>> : m \in DOMAIN match_entries(r.kind, r.rules[k])} : k \in DOMAIN r.rules}
  IN UNION {{[config |-> compile_http_rule(st, n, r.parents[b[1]], r.rules[e[1]], e[2], listener(b), host),
              policy |-> policy,
              at |-> <<KindRank(r), Position(ro, n)>> \o b \o e,
              src |-> [route |-> n, rule |-> r.rules[e[1]].id]] :
               e \in entries, host \in compute_effective_hostnames(listener(b).hostname, r.hostnames)} :
             b \in {x \in Bindings(st, r) : Attached(st, r, x)}}

compile_config(st, ro, po) ==
  UNION {compile_route(st, ro, po, n) : n \in {x \in DOMAIN st.routes : st.routes[x] # Absent}}

\* The routes of one Gateway's slice.
scope_config(routes, gateway) == {rc \in routes : rc.config.gateway = gateway}
=============================================================================
