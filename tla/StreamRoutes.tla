---------------------------- MODULE StreamRoutes ----------------------------
(* What compiler.rs makes of TCPRoutes, UDPRoutes and TLSRoutes.             *)
(*                                                                           *)
(* A store st has streams, [route -> [kind, name, created, hostnames,        *)
(* parents, backends]] or Absent, where name is the place of the route's     *)
(* name among all names and created a time or NoTime; listeners of TLS       *)
(* Gateways have a mode and the Secrets of their certificates.  Only         *)
(* Gateways are looked up as parents.                                        *)
EXTENDS RouteCompiler

NoTime == 0

GatewayParents(st, r) ==
  {i \in DOMAIN r.parents : /\ r.parents[i].parent \in DOMAIN st.parents
                            /\ st.parents[r.parents[i].parent].kind = "Gateway"}

WeightedBackend(b) == [name |-> b.name, port |-> b.port, weight |-> b.weight]

-----------------------------------------------------------------------------
(* TCP and UDP: one route per listener. *)

\* The routes of a kind with the listeners their accepted parentRefs attach
\* them to.
L4Candidates(st, kind, protocol) ==
  LET of(n) == LET r == st.streams[n] IN
        UNION {{[route |-> n, listener |-> <<r.parents[i].parent, j>>] :
                  j \in {x \in DOMAIN st.parents[r.parents[i].parent].listeners :
                           LET l == st.parents[r.parents[i].parent].listeners[x] IN
                           /\ l.protocol = protocol
                           /\ l.accepted
                           /\ r.parents[i].section \in {None, l.name}
                           /\ r.parents[i].port \in {NoPort, l.port}}} :
               i \in {x \in GatewayParents(st, r) : r.parents[x].accepted}}
  IN UNION {of(n) : n \in {x \in DOMAIN st.streams : st.streams[x].kind = kind}}

\* Mutant: routes without a timestamp come first.
TimelessFirst(st, lo, a, b) ==
  LexBefore(<<st.streams[a].created, st.streams[a].name, Position(lo, a)>>,
            <<st.streams[b].created, st.streams[b].name, Position(lo, b)>>)

\* Oldest first, those without a timestamp last; then by name, and then (the
\* namespace is not asked) in the order lo the map gives them in.
OldestFirst(st, lo, a, b) ==
  LET age(n) == LET r == st.streams[n]
                IN <<IF r.created = NoTime THEN 1 ELSE 0, r.created, r.name, Position(lo, n)>>
  IN LexBefore(age(a), age(b))

\* The first route of a listener serves it, or nothing when it has no backends.
compile_l4_routes(st, lo, kind, protocol) ==
  LET candidates == L4Candidates(st, kind, protocol)
      first == {c \in candidates : \A d \in candidates :
                  d.listener = c.listener /\ d.route # c.route => OldestFirst(st, lo, c.route, d.route)}
      listener(c) == st.parents[c.listener[1]].listeners[c.listener[2]]
  IN {[gateway |-> c.listener[1], protocol |-> protocol, listener |-> listener(c).name, port |-> listener(c).port,
       backends |-> [i \in DOMAIN st.streams[c.route].backends |-> WeightedBackend(st.streams[c.route].backends[i])]] :
        c \in {x \in first : st.streams[x.route].backends # <<>>}}

-----------------------------------------------------------------------------
(* TLS: one listener per route. *)

FirstOf(S) == {i \in S : \A j \in S : i <= j}

\* The listener a parentRef resolves to, as a set of at most one index; whether
\* the reconciler accepted the parentRef is not asked.
TlsListener(st, r, i) ==
  LET listeners == st.parents[r.parents[i].parent].listeners
      usable == {j \in DOMAIN listeners : listeners[j].protocol = "TLS" /\ listeners[j].accepted}
      meets(l) == l.hostname = AnyHost \/ \E h \in r.hostnames : hostname_matches(l.hostname, h)
  IN IF r.parents[i].section # None THEN FirstOf({j \in usable : listeners[j].name = r.parents[i].section})
     ELSE IF Cardinality(usable) <= 1 THEN usable
     ELSE FirstOf({j \in usable : meets(listeners[j])})

\* The TLS listeners of the accepted parentRefs.
collect_listener_hostnames(st, r) ==
  UNION {{l.hostname : l \in {x \in {st.parents[r.parents[i].parent].listeners[j] :
                                       j \in DOMAIN st.parents[r.parents[i].parent].listeners} :
                                x.accepted /\ x.protocol = "TLS" /\ r.parents[i].section \in {None, x.name}
                                /\ r.parents[i].port \in {NoPort, x.port}}} :
         i \in {x \in GatewayParents(st, r) : r.parents[x].accepted}}

\* The first parentRef that resolves decides where the route is compiled, under
\* the names all of its listeners share with it; the first backend serves.  A
\* route with neither names nor a backend is left out.
compile_tls_route(st, r) ==
  LET at == FirstOf({i \in GatewayParents(st, r) : TlsListener(st, r, i) # {}})
      names == UNION {compute_effective_hostnames(h, r.hostnames) : h \in collect_listener_hostnames(st, r)}
      compiled(i, j) ==
        LET l == st.parents[r.parents[i].parent].listeners[j]
        IN [gateway |-> r.parents[i].parent, protocol |-> "TLS", listener |-> r.parents[i].section, port |-> l.port,
            hostname |-> l.hostname, mode |-> l.mode, names |-> names,
            cert |-> IF l.mode = "Terminate" THEN l.certs \cap st.secrets ELSE {},
            backends |-> IF r.backends = <<>> THEN <<>> ELSE <<WeightedBackend(r.backends[1])>>]
  IN IF names = {} /\ r.backends = <<>> THEN {}
     ELSE UNION {{compiled(i, j) : j \in TlsListener(st, r, i)} : i \in at}

compile_streams(st, lo) ==
  compile_l4_routes(st, lo, "TCPRoute", "TCP") \cup compile_l4_routes(st, lo, "UDPRoute", "UDP")
  \cup UNION {compile_tls_route(st, st.streams[n]) : n \in {x \in DOMAIN st.streams : st.streams[x].kind = "TLSRoute"}}

\* The Services of stream routes: a TLSRoute's when it is compiled, the others'
\* always.  Grants are not asked.
stream_keys(st) ==
  LET compiled(r) == r.kind # "TLSRoute" \/ compile_tls_route(st, r) # {}
      used(r) == IF r.kind = "TLSRoute" THEN {r.backends[i] : i \in DOMAIN r.backends \cap {1}}
                 ELSE {r.backends[i] : i \in DOMAIN r.backends}
  IN UNION {used(st.streams[n]) : n \in {x \in DOMAIN st.streams : st.streams[x] # Absent /\ compiled(st.streams[x])}}
=============================================================================
