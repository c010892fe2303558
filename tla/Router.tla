------------------------------- MODULE Router -------------------------------
(* The data plane's routing tables: how config_receiver.rs builds them from  *)
(* the RouteConfigs of a slice, keeping the rate limiters of the tables they *)
(* replace, and how router.rs and plan.rs find the route of a request.       *)
(*                                                                           *)
(* A table is a function from groups <<port, listener hostname, host>> to    *)
(* [exact, rules], two sequences of PathRoutes in the order they are tried.  *)
EXTENDS RouteCompiler, SequencesExt

AnyPort == 0
NoLimiter == <<>>

Group(rc) == <<rc.config.port, rc.config.listener_hostname, rc.config.host>>

-----------------------------------------------------------------------------
(* Building a table. *)

\* More specific first: a method, then more headers, then more query
\* parameters; the sort is stable, so the order of emission decides last.
specificity(rc) ==
  <<IF rc.config.dims.method = None THEN 1 ELSE 0,
    -Cardinality(rc.config.dims.headers), -Cardinality(rc.config.dims.query)>>

ExactBefore(a, b) == LexBefore(specificity(a) \o a.at, specificity(b) \o b.at)

\* Mutant: the shortest path first.
ShortestFirst(a, b) ==
  LexBefore(<<a.config.path.len>> \o specificity(a) \o a.at, <<b.config.path.len>> \o specificity(b) \o b.at)

PrefixBefore(a, b) ==
  LexBefore(<<-a.config.path.len>> \o specificity(a) \o a.at, <<-b.config.path.len>> \o specificity(b) \o b.at)

Sorted(S, before(_, _)) ==
  [i \in 1 .. Cardinality(S) |-> CHOOSE x \in S : Cardinality({y \in S : before(y, x)}) = i - 1]

SamePath(p, q) == p.type = q.type /\ p.path = q.path

\* Mutant: a limiter is kept whatever its limit.
find_any_limiter(table, g, rc) ==
  LET old == IF g \in DOMAIN table THEN table[g].exact \o table[g].rules ELSE <<>>
      same == {i \in DOMAIN old : old[i].limiter # NoLimiter /\ SamePath(old[i].config.path, rc.config.path)}
  IN IF same = {} THEN NoLimiter ELSE old[CHOOSE i \in same : \A j \in same : i <= j].limiter

\* The limiter an entry of group g finds in the old table: the first one tried
\* there under the same path with the same limit.
find_rate_limiter(table, g, rc) ==
  LET old == IF g \in DOMAIN table THEN table[g].exact \o table[g].rules ELSE <<>>
      same == {i \in DOMAIN old : /\ old[i].limiter # NoLimiter
                                  /\ SamePath(old[i].config.path, rc.config.path)
                                  /\ old[i].policy.rate = rc.policy.rate}
  IN IF same = {} THEN NoLimiter ELSE old[CHOOSE i \in same : \A j \in same : i <= j].limiter

LimitersOf(table) ==
  UNION {{r.limiter : r \in Range(table[g].exact \o table[g].rules)} : g \in DOMAIN table} \ {NoLimiter}

\* Mutant: every reload makes new limiters.
make_fresh_route(rc, table, reload) ==
  [config |-> rc.config, policy |-> rc.policy, at |-> rc.at, src |-> rc.src,
   limiter |-> IF rc.policy.rate = {} THEN NoLimiter ELSE <<reload, Group(rc), rc.at>>]

\* A limiter nothing carries on is a new one: the entry it was made for and the
\* reload that made it tell it from every other.
make_route(rc, table, reload) ==
  LET kept == find_rate_limiter(table, Group(rc), rc)
  IN [config |-> rc.config, policy |-> rc.policy, at |-> rc.at, src |-> rc.src,
      limiter |-> IF rc.policy.rate = {} THEN NoLimiter
                  ELSE IF kept # NoLimiter THEN kept
                  ELSE <<reload, Group(rc), rc.at>>]

build_listener_buckets(routes, table, reload) ==
  LET made(g) == {make_route(rc, table, reload) : rc \in {x \in routes : Group(x) = g}}
  IN [g \in {Group(rc) : rc \in routes} |->
        [exact |-> Sorted({r \in made(g) : r.config.path.type = "Exact"}, ExactBefore),
         rules |-> Sorted({r \in made(g) : r.config.path.type # "Exact"}, PrefixBefore)]]

-----------------------------------------------------------------------------
(* Finding the route of a request [port, sni, host, path, method, headers,   *)
(* query, known]; sni is the set of the at most one name of a TLS handshake. *)

Buckets(table, port) == {g[2] : g \in {x \in DOMAIN table : x[1] = port}}

\* The most specific listener that claims the host, as a set of at most one.
select_listener_bucket(host, buckets) ==
  LET claiming == {b \in buckets : listener_hostname_claims(b, host)}
  IN {b \in claiming : \A c \in claiming : listener_specificity(c) <= listener_specificity(b)}

detect_misdirected_request(rq, buckets) ==
  \E name \in rq.sni :
    LET s == select_listener_bucket(name, buckets)
    IN s # {} /\ s # select_listener_bucket(rq.host, buckets)

\* Within a listener: the host itself, the longest wildcard above it, or "*".
HostGroups(table, rq) ==
  LET own == select_listener_bucket(rq.host, Buckets(table, rq.port))
      port == IF own # {} THEN rq.port ELSE AnyPort
      bucket == IF own # {} THEN own ELSE select_listener_bucket(rq.host, Buckets(table, AnyPort))
      claiming == {g \in DOMAIN table : /\ g[1] = port
                                        /\ g[2] \in bucket
                                        /\ listener_hostname_claims(g[3], rq.host)}
  IN {g \in claiming : \A f \in claiming : listener_specificity(f[3]) <= listener_specificity(g[3])}

path_matches(p, path) ==
  CASE p.type = "Exact" -> p.path = path
    [] p.type = "Prefix" -> IsPrefix(p.path, path)
    [] OTHER -> path \in p.lang

extra_dimensions_match(dims, rq) ==
  /\ dims.method \in {None, rq.method}
  /\ dims.headers \subseteq rq.headers
  /\ dims.query \subseteq rq.query

\* The route that serves a request, as a set of at most one.
match_request(host_routes, rq) ==
  LET hit(r) == path_matches(r.config.path, rq.path) /\ extra_dimensions_match(r.config.dims, rq)
      tried == host_routes.exact \o host_routes.rules
      hits == {i \in DOMAIN tried : hit(tried[i])}
  IN IF hits = {} THEN {} ELSE {tried[CHOOSE i \in hits : \A j \in hits : i <= j]}

Misdirected(table, rq) == detect_misdirected_request(rq, Buckets(table, rq.port))

Matched(table, rq) ==
  IF Misdirected(table, rq) THEN {}
  ELSE UNION {match_request(table[g], rq) : g \in HostGroups(table, rq)}

-----------------------------------------------------------------------------
(* Weighted backends. *)

TotalWeight(backends) == FoldLeft(LAMBDA sum, b : sum + b.weight, 0, backends)

\* Mutant: a backend's share includes the first position of the next.
select_one_too_many(backends, counter) ==
  LET total == TotalWeight(backends)
      idx == counter % total
  IN IF total = 0 THEN 1
     ELSE CHOOSE i \in DOMAIN backends :
            /\ idx <= TotalWeight(SubSeq(backends, 1, i))
            /\ \A j \in 1 .. i - 1 : idx > TotalWeight(SubSeq(backends, 1, j))

\* Which of the backends position counter of the thread selects: the first
\* one when no backend has a weight.
select_weighted_backend(backends, counter) ==
  LET total == TotalWeight(backends)
      idx == counter % total
  IN IF total = 0 THEN 1
     ELSE CHOOSE i \in DOMAIN backends :
            /\ idx < TotalWeight(SubSeq(backends, 1, i))
            /\ idx >= TotalWeight(SubSeq(backends, 1, i - 1))
=============================================================================
