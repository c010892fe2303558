---------------------------- MODULE MCReconcile ----------------------------
(* Small clusters for TLC: each world has the few objects that one kind of   *)
(* dependency needs, and the edits that exercise it.                         *)
EXTENDS Reconcile

NoTls == [frontend |-> [p \in {} |-> None], clientCert |-> None]
ListenerOf(name, protocol, hostname, from, selector, tls) ==
  [name |-> name, port |-> 80, protocol |-> protocol, hostname |-> hostname, kinds |-> {},
   from |-> from, selector |-> selector, tls |-> tls]
Gateway(listeners, tls, from) ==
  [class |-> "c", params |-> FALSE, addresses |-> <<>>, listeners |-> listeners, tls |-> tls,
   allowed |-> [from |-> from, labels |-> {}]]
Route(parentRefs, hostnames, backends) ==
  [parents |-> parentRefs, hostnames |-> hostnames, rules |-> <<[regexOk |-> TRUE, backends |-> backends]>>]
Ref(k, section) == [kind |-> k.kind, ns |-> k.ns, name |-> k.name, section |-> section, port |-> None]

class == Key("GatewayClass", "", "c")
gw == Key("Gateway", "a", "g")
set == Key("ListenerSet", "b", "s")
sibling == Key("ListenerSet", "a", "z")
route == Key("HTTPRoute", "b", "r")
grpc == Key("GRPCRoute", "a", "q")
tls == Key("TLSRoute", "a", "w")
tcp == Key("TCPRoute", "a", "t")
udp == Key("UDPRoute", "a", "u")
svc == Key("Service", "a", "v")
remote == Key("Service", "b", "v")
nsb == Key("Namespace", "", "b")
grant == Key("ReferenceGrant", "a", "n")
secret == Key("Secret", "a", "k")
ca == Key("ConfigMap", "a", "m")
older(kind) == Key(kind, "a", "p1")
younger(kind) == Key(kind, "a", "p2")
btls == Key("BackendTLSPolicy", "a", "b")
provider == Key("AIProvider", "a", "i")
airoute == Key("AIRoute", "a", "j")
slice == Key("EndpointSlice", "a", "e")
endpoints == Key("Endpoints", "a", "v")

Contested == {"RetryPolicy", "JWTAuthPolicy", "AIUsagePolicy"}
MCKeys ==
  {class, gw, set, sibling, route, grpc, tls, tcp, udp, svc, nsb, grant, secret, ca, btls,
   provider, airoute, slice, endpoints, Key("ProviderEndpoints", "a", "i"), Key("IssuerKeys", "", "i")}
  \cup {older(kind) : kind \in PolicyKinds} \cup {younger(kind) : kind \in Contested}

Plain == ListenerOf("l", "HTTP", AnyHost, "All", None, None)
Ours == class :> [ours |-> TRUE]
Basic == Ours @@ gw :> Gateway(<<Plain>>, NoTls, "None")

\* Cold start: whichever of class, Gateway and route is seen first.  The
\* Gateway's address is withheld: its data plane is not ready.
Cold ==
  [objects |-> Basic @@ route :> Route(<<Ref(gw, None)>>, {}, <<>>),
   edits |-> {}, up |-> {}, maxEdits |-> 0, maxFailures |-> 0, boot |-> <<>>]

\* A route whose Service is in another namespace, behind a grant.
Backends ==
  [objects |-> Basic @@ route :> Route(<<Ref(gw, None)>>, {}, <<svc>>) @@ svc :> [ports |-> {80}],
   edits |-> {<<grant, "apply", [from |-> {[kind |-> "HTTPRoute", ns |-> "b"]}, to |-> {[kind |-> "Service", name |-> None]}]>>,
              <<grant, "delete", None>>, <<svc, "delete", None>>},
   up |-> {gw}, maxEdits |-> 2, maxFailures |-> 1, boot |-> <<class, svc, gw, route, gw>>]

\* The class and the Gateway come, change and go under a bound route; the
\* route goes, or is held by a finalizer.
Com == <<"com">>
Lifecycle ==
  [objects |-> Basic @@ route :> Route(<<Ref(gw, "l")>>, {Exact(<<"com", "x">>)}, <<>>),
   edits |-> {<<class, "apply", [ours |-> FALSE]>>, <<class, "delete", None>>,
              <<gw, "apply", Gateway(<<ListenerOf("l", "HTTP", Wild(Com), "Same", None, None)>>, NoTls, "None")>>,
              <<gw, "delete", None>>, <<route, "delete", None>>, <<route, "terminate", None>>, <<gw, "programmed", None>>},
   up |-> {gw}, maxEdits |-> 2, maxFailures |-> 0, boot |-> <<class, gw, route, gw>>]

\* Two ListenerSets of one Gateway, which claim the same host; namespaces are
\* let in by label.
Set(age, rank, from) ==
  [parent |-> gw, age |-> age, rank |-> rank,
   listeners |-> <<[ListenerOf("x", "HTTP", Exact(<<"com", "x">>), from, {"ok"}, None) EXCEPT !.port = 81]>>]
Sets ==
  [objects |-> Ours @@ gw :> [Gateway(<<Plain>>, NoTls, "All") EXCEPT !.allowed.from = "All"]
               @@ set :> Set(1, 2, "Selector") @@ route :> Route(<<Ref(set, None)>>, {}, <<>>)
               @@ nsb :> [labels |-> {"ok"}],
   edits |-> {<<sibling, "apply", Set(0, 1, "All")>>, <<sibling, "delete", None>>, <<set, "terminate", None>>,
              <<nsb, "apply", [labels |-> {}]>>},
   up |-> {gw}, maxEdits |-> 1, maxFailures |-> 0, boot |-> <<class, nsb, gw, set, route, set, gw>>]

\* Policies.
Policy(target, age) == [target |-> target, age |-> age, rank |-> age]
Cluster(specs, changes, most, order) ==
  [objects |-> specs, edits |-> changes, up |-> {}, maxEdits |-> most, maxFailures |-> 0, boot |-> order]

RateLimit(n) == Policy(route, 1) @@ [requestsPerSecond |-> n, perClient |-> TRUE]
CircuitBreaker(n) == Policy(route, 1) @@ [failureThreshold |-> n, successThreshold |-> 1, timeoutSecs |-> 1]
Connection(n) == Policy(route, 1) @@ [maxConnections |-> n]
Cors(age) ==
  Policy(route, 1) @@ [origins |-> {}, methods |-> {}, headers |-> {}, exposed |-> {}, credentials |-> FALSE, maxAge |-> age]
Timeout(n) == Policy(route, 1) @@ [request |-> n, backendRequest |-> None, connect |-> None]
BodySize(n) == Policy(route, 1) @@ [maxBytes |-> n]
HealthCheck(n) == Policy(route, 1) @@ [path |-> None, interval |-> n, timeout |-> 1, healthy |-> 1, unhealthy |-> 1]
Retry(age, on) == Policy(route, age) @@ [maxRetries |-> 1, retryOn |-> {on}]
Allowlist(cidr) == Policy(route, 1) @@ [allow |-> {cidr}, deny |-> {}, trusted |-> {}]
BasicAuth(realm) == Policy(route, 1) @@ [secret |-> secret, realm |-> realm]
ApiKeyAuth(s) == Policy(route, 1) @@ [secret |-> s, header |-> "x-api-key"]
JwtAuth(age, uri, headers) ==
  Policy(route, age) @@ [providers |-> <<[issuer |-> "i", uri |-> uri, urlsOk |-> TRUE, headers |-> headers]>>]
ExtAuth(service, port) ==
  Policy(route, 1) @@ [service |-> service, port |-> port, pathOk |-> TRUE, timeout |-> 1000, failOpen |-> FALSE,
                       requestHeaders |-> {}, responseHeaders |-> {}]
Usage(age, tokens, calls) ==
  Policy(airoute, age) @@ [tokens |-> tokens, calls |-> calls, fallback |-> None, overflow |-> None, wordsOk |-> TRUE]

There == secret :> [pem |-> TRUE]
Apply(kind, spec) == <<older(kind), "apply", spec>>

\* One policy of each of a few kinds, and what may become of it.
Before ==
  "RateLimitPolicy" :> RateLimit(1) @@ "CircuitBreakerPolicy" :> CircuitBreaker(1) @@ "ConnectionPolicy" :> Connection(1)
  @@ "CORSPolicy" :> Cors(1) @@ "TimeoutPolicy" :> Timeout(1) @@ "RequestBodySizeLimitPolicy" :> BodySize(1)
  @@ "HealthCheckPolicy" :> HealthCheck(1) @@ "RetryPolicy" :> Retry(1, "connect-failure")
  @@ "IPAllowlistPolicy" :> Allowlist("network") @@ "BasicAuthPolicy" :> BasicAuth("x")
  @@ "APIKeyAuthPolicy" :> ApiKeyAuth(secret)
  @@ "ExtAuthPolicy" :> ExtAuth(remote, 80) @@ "AIUsagePolicy" :> Usage(1, 10, None)
After ==
  "RateLimitPolicy" :> RateLimit(2) @@ "CircuitBreakerPolicy" :> CircuitBreaker(2) @@ "ConnectionPolicy" :> Connection(2)
  @@ "CORSPolicy" :> Cors(2) @@ "TimeoutPolicy" :> Timeout(2) @@ "RequestBodySizeLimitPolicy" :> BodySize(2)
  @@ "HealthCheckPolicy" :> HealthCheck(2) @@ "RetryPolicy" :> Retry(1, "reset") @@ "IPAllowlistPolicy" :> Allowlist("text")
  @@ "BasicAuthPolicy" :> BasicAuth("y") @@ "APIKeyAuthPolicy" :> ApiKeyAuth([secret EXCEPT !.ns = "b"])
  @@ "ExtAuthPolicy" :> ExtAuth(remote, 0) @@ "AIUsagePolicy" :> Usage(1, 10, 10)
Few(kinds) ==
  Cluster(There @@ [k \in {older(kinds[i]) : i \in DOMAIN kinds} |-> Before[k.kind]],
          {Apply(kinds[i], After[kinds[i]]) : i \in DOMAIN kinds}, 1,
          <<secret>> \o [i \in DOMAIN kinds |-> older(kinds[i])])

\* Two policies on one target: the older one changes, is refused or goes.
Pair(kind, a, b) == older(kind) :> a @@ younger(kind) :> b
Both(kind) == <<older(kind), younger(kind)>>

Retries ==
  Cluster(Pair("RetryPolicy", Retry(1, "connect-failure"), Retry(2, "gateway-error")),
          {<<older("RetryPolicy"), "delete", None>>, Apply("RetryPolicy", Retry(1, "gateway-error")),
           <<younger("RetryPolicy"), "delete", None>>, <<gw, "programmed", None>>}, 1, Both("RetryPolicy"))

\* The keys of an issuer are there or not; its URI changes.
JwtAuths ==
  Cluster(Pair("JWTAuthPolicy", JwtAuth(1, "u", <<"x-sub">>), JwtAuth(2, "u", <<>>)),
          {<<older("JWTAuthPolicy"), "delete", None>>, <<younger("JWTAuthPolicy"), "apply", JwtAuth(2, "w", <<>>)>>},
          1, Both("JWTAuthPolicy"))

Budgets ==
  Cluster(Pair("AIUsagePolicy", Usage(1, 10, None), Usage(2, None, 10)),
          {Apply("AIUsagePolicy", Usage(1, 0, None)), <<older("AIUsagePolicy"), "delete", None>>,
           <<gw, "programmed", None>>}, 2, Both("AIUsagePolicy"))

\* The Gateway's CA and client certificate, and a BackendTLSPolicy's CA.
Certified ==
  [objects |-> Ours
     @@ gw :> Gateway(<<[Plain EXCEPT !.protocol = "HTTPS", !.tls = [mode |-> "Passthrough", certs |-> <<>>]]>>,
                      [frontend |-> 0 :> [mode |-> "AllowValidOnly", refs |-> <<ca>>], clientCert |-> secret], "None")
     @@ btls :> [targets |-> <<svc>>, refs |-> <<ca>>, age |-> 1, rank |-> 1],
   edits |-> {<<ca, "apply", [pem |-> TRUE]>>, <<secret, "apply", [pem |-> TRUE]>>},
   up |-> {gw}, maxEdits |-> 1, maxFailures |-> 0, boot |-> <<class, gw, btls>>]

\* Routes of the other kinds on one Gateway.
Kinds ==
  [objects |-> Ours
     @@ gw :> Gateway(<<Plain, [Plain EXCEPT !.name = "t", !.port = 90, !.protocol = "TCP"]>>, NoTls, "None")
     @@ grpc :> Route(<<Ref(gw, None)>>, {}, <<svc>>) @@ tcp :> Route(<<Ref(gw, None)>>, {}, <<svc>>),
   edits |-> {<<svc, "apply", [ports |-> {80}]>>,
              <<gw, "apply", Gateway(<<Plain, [Plain EXCEPT !.name = "t", !.port = 90, !.protocol = "UDP"]>>, NoTls, "None")>>,
              <<udp, "apply", Route(<<Ref(gw, "t")>>, {}, <<>>)>>, <<gw, "ready", None>>},
   up |-> {gw}, maxEdits |-> 1, maxFailures |-> 0, boot |-> <<class, gw, grpc, tcp, gw>>]

Passthrough == [mode |-> "Passthrough", certs |-> <<>>]
Tls ==
  [objects |-> Ours @@ gw :> Gateway(<<[Plain EXCEPT !.protocol = "TLS", !.tls = Passthrough]>>, NoTls, "None")
     @@ tls :> Route(<<Ref(gw, None)>>, {Exact(<<"com", "x">>)}, <<svc>>),
   edits |-> {<<svc, "apply", [ports |-> {80}]>>, <<tls, "delete", None>>,
              <<gw, "apply", Gateway(<<[Plain EXCEPT !.protocol = "TLS", !.tls = Passthrough, !.hostname = Exact(Com)]>>, NoTls, "None")>>},
   up |-> {gw}, maxEdits |-> 2, maxFailures |-> 0, boot |-> <<class, gw, tls, gw>>]

\* An AIRoute that waits for its provider, and a provider for its Secret; the
\* provider's host is a Service.
Provider == [kind |-> "openai", host |-> svc, members |-> <<>>, secret |-> secret]
AI ==
  [objects |-> Basic
     @@ airoute :> [parents |-> <<Ref(gw, None)>>, hostnames |-> {}, authOk |-> TRUE,
                    rules |-> <<[matchOk |-> TRUE, providers |-> <<"i">>, rewriteOk |-> TRUE]>>],
   edits |-> {<<provider, "apply", Provider>>, <<secret, "apply", [pem |-> TRUE]>>,
              <<slice, "apply", [service |-> "v", ready |-> {1}]>>},
   up |-> {gw}, maxEdits |-> 2, maxFailures |-> 0, boot |-> <<class, gw, airoute, gw>>]

MCWorlds ==
  "cold" :> Cold @@ "backends" :> Backends @@ "lifecycle" :> Lifecycle @@ "sets" :> Sets
  @@ "certified" :> Certified @@ "kinds" :> Kinds @@ "tls" :> Tls @@ "ai" :> AI
  @@ "limits" :> Few(<<"RateLimitPolicy", "CircuitBreakerPolicy", "ConnectionPolicy">>)
  @@ "shapes" :> Few(<<"CORSPolicy", "TimeoutPolicy", "RequestBodySizeLimitPolicy", "BasicAuthPolicy">>)
  @@ "checks" :> Few(<<"HealthCheckPolicy", "RetryPolicy", "IPAllowlistPolicy">>)
  @@ "guards" :> Few(<<"APIKeyAuthPolicy", "ExtAuthPolicy", "AIUsagePolicy">>)
  @@ "retries" :> Retries @@ "jwt" :> JwtAuths @@ "budgets" :> Budgets
=============================================================================
