------------------------------ MODULE MCRouting ------------------------------
(* Routing for TLC: a Gateway with two listeners on port 80, a ListenerSet   *)
(* of it with two on port 443, another Gateway, two routes, two policies;    *)
(* that Gateway with AI providers, a federation and Services; and with       *)
(* stream routes.                                                            *)
EXTENDS Routing, TLC

ex == <<"com", "ex">>
aex == <<"com", "ex", "a">>

All == [from |-> "All", selector |-> {}]
Same == [from |-> "Same", selector |-> {}]
Listener(name, port, protocol, hostname, allowed) ==
  [name |-> name, port |-> port, protocol |-> protocol, hostname |-> hostname, accepted |-> TRUE, allowed |-> allowed]
Ref(p, section) == [parent |-> p, section |-> section, port |-> NoPort, accepted |-> TRUE]
Backend(ns, name, weight) == [ns |-> ns, name |-> name, port |-> 8080, weight |-> weight]
Rule(id, matches, backends) == [id |-> id, matches |-> matches, backends |-> backends, headers |-> {}]
Match(path, method, headers) == [path |-> path, dims |-> Dimensions(method, headers, {})]

gw == [kind |-> "Gateway", gateway |-> "gw", ns |-> "infra", accepted |-> TRUE,
       listeners |-> <<Listener("any", 80, "HTTP", AnyHost, All), Listener("wild", 80, "HTTP", Wild(ex), All)>>]
ls == [kind |-> "ListenerSet", gateway |-> "gw", ns |-> "b", accepted |-> TRUE,
       listeners |-> <<Listener("exact", 443, "HTTPS", Exact(aex), Same), Listener("below", 443, "HTTPS", Wild(ex), Same)>>]
other == [kind |-> "Gateway", gateway |-> "other", ns |-> "infra", accepted |-> TRUE,
          listeners |-> <<Listener("any", 80, "HTTP", AnyHost, All)>>]

plain == Rule("plain", <<>>, <<Backend("a", "s1", 1)>>)
byX == Rule("byX", <<Match(PrefixPath(<<"p">>), None, {"x"})>>, <<Backend("a", "s2", 2), Backend("a", "s3", 1)>>)
byY == Rule("byY", <<Match(PrefixPath(<<"p">>), None, {"y"})>>, <<Backend("a", "s4", 1)>>)
r1(hostnames, rules) ==
  [kind |-> "HTTPRoute", ns |-> "a", hostnames |-> hostnames, parents |-> <<Ref("gw", None), Ref("other", None)>>, rules |-> rules]

exact == Rule("exact", <<Match(ExactPath(<<"p">>), "GET", {})>>, <<Backend("a", "s5", 1)>>)
regex == Rule("regex", <<Match(RegexPath(<<"p.*">>, 2, {<<"p">>, <<"p", "q">>}), None, {}), Match(PrefixPath(<<>>), None, {})>>,
              <<Backend("b", "s6", 0), Backend("b", "s7", 1)>>)
rpc == Rule("rpc", <<[service |-> "p", method |-> "q", headers |-> {}], [service |-> None, method |-> "q", headers |-> {"x"}]>>,
            <<Backend("b", "s8", 1)>>)
r2(kind, parents, rules) ==
  [kind |-> kind, ns |-> "b", hostnames |-> {Wild(ex), Exact(aex)}, parents |-> parents, rules |-> rules]

Policy(kind, target, section, on, value) ==
  [kind |-> kind, target |-> [kind |-> on, ns |-> "a", name |-> target, section |-> section],
   accepted |-> TRUE, created |-> NoTime, value |-> value]
rate(n) == [rps |-> n]
open == [user |-> "u"]

Nothing == [x \in {} |-> x]
Svc(ns, name) == ServiceKey(ns, name, 8080)

Routes ==
  [parents |-> ("gw" :> gw @@ "ls" :> ls @@ "other" :> other),
   routes |-> ("r1" :> r1({}, <<plain, byX, byY>>) @@ "r2" :> r2("HTTPRoute", <<Ref("ls", None), Ref("gw", "wild")>>, <<exact, regex>>)),
   policies |-> ("limit" :> Policy("RateLimit", "r1", None, "HTTPRoute", rate(1)) @@ "auth" :> Absent),
   grants |-> {[ns |-> "a", from_ns |-> "b", from_kind |-> "HTTPRoute", name |-> "s5"]},
   labels |-> [ns \in {"a", "b", "infra"} |-> {}],
   endpoints |-> [k \in {Svc("a", s) : s \in {"s1", "s2", "s4", "s5"}} \cup {Svc("b", s) : s \in {"s7", "s8"}} |-> {k.name}],
   streams |-> Nothing, port_map |-> Nothing, port_names |-> Nothing, app_protocols |-> Nothing, providers |-> Nothing, secrets |-> {}]

Put(field, name, to) == <<field, name, to>>
RouteEdits ==
  {Put("routes", "r1", r1({}, <<plain, byY, byX>>)),
   Put("routes", "r1", r1({Exact(aex)}, <<byX, plain>>)),
   Put("routes", "r2", r2("GRPCRoute", <<Ref("gw", None), Ref("ls", "exact")>>, <<rpc>>)),
   Put("routes", "r2", Absent),
   Put("parents", "gw", [gw EXCEPT !.listeners[1].accepted = FALSE]),
   Put("parents", "ls", [ls EXCEPT !.accepted = FALSE]),
   Put("policies", "limit", Policy("RateLimit", "gw", None, "Gateway", rate(1))),
   Put("policies", "limit", Policy("RateLimit", "gw", "wild", "Gateway", rate(2))),
   Put("policies", "auth", Policy("BasicAuth", "gw", None, "Gateway", open)),
   Put("policies", "auth", Policy("RateLimit", "r2", None, "HTTPRoute", rate(1))),
   Put("grants", "", {}),
   Put("endpoints", Svc("a", "s1"), {})}

\* Behind gw: an AIRoute to a provider and to a federation, and an HTTPRoute
\* to two Services of one name in two namespaces.
AIProvider(kind, name, host, members) ==
  [kind |-> kind, ns |-> "a", name |-> name, service |-> "aiprovider/a/" \o name, port |-> 443, host |-> host,
   tls |-> kind = "anthropic", credential |-> IF kind = "mcp-federation" THEN {} ELSE {"key"}, members |-> members]
llm == AIProvider("anthropic", "llm", "api", {})
wiki == AIProvider("mcp", "wiki", "wiki", {})
fed(members) == AIProvider("mcp-federation", "fed", "", members)
Member(name) == [name |-> name, provider |-> name]

AIRule(id, path, provider) == [id |-> id, matches |-> <<Match(PrefixPath(path), None, {})>>, provider |-> <<"a", provider>>]
chat == AIRule("chat", <<"p">>, "llm")
tools == AIRule("tools", <<>>, "fed")
ai(access, rules) ==
  [kind |-> "AIRoute", ns |-> "a", hostnames |-> {}, parents |-> <<Ref("gw", "any")>>, rules |-> rules, access |-> access]

own == Rule("own", <<Match(PrefixPath(<<"p", "q">>), None, {})>>, <<Backend("b", "s1", 1)>>)
far == Rule("far", <<Match(PrefixPath(<<"p", "q">>), "POST", {})>>, <<Backend("a", "s1", 1)>>)
web(rules) == [kind |-> "HTTPRoute", ns |-> "b", hostnames |-> {}, parents |-> <<Ref("gw", None)>>, rules |-> rules]

OnService(kind, section, created, value) ==
  [kind |-> kind, target |-> [kind |-> "Service", ns |-> "b", name |-> "s1", section |-> section],
   accepted |-> TRUE, created |-> created, value |-> value]
tls(hostname, ca) == [hostname |-> hostname, ca |-> ca]
Usage(n) == Policy("AIUsage", "ai", None, "AIRoute", [limit |-> n])
Grant(kind, name) == [ns |-> "a", from_ns |-> "b", from_kind |-> kind, name |-> name]

Services ==
  [parents |-> ("gw" :> gw),
   routes |-> ("ai" :> ai({"key"}, <<chat, tools>>) @@ "web" :> web(<<own>>)),
   policies |-> ("tls" :> OnService("BackendTLS", None, 2, tls("old", TRUE)) @@ "more" :> Absent),
   grants |-> {Grant("HTTPRoute", None)},
   labels |-> [ns \in {"a", "b"} |-> {}],
   streams |-> Nothing,
   endpoints |-> (Svc("a", "s1") :> {"a1"} @@ Svc("b", "s1") :> {} @@ ServiceKey("b", "s1", 9090) :> {"b1", "b2"}
                  @@ ServiceKey("a", llm.service, 443) :> {"api1"} @@ ServiceKey("a", wiki.service, 443) :> {"w1"}),
   port_map |-> (Svc("b", "s1") :> 9090),
   port_names |-> (Svc("b", "s1") :> "web"),
   app_protocols |-> (Svc("a", "s1") :> "kubernetes.io/h2c" @@ Svc("b", "s1") :> None),
   providers |-> (<<"a", "llm">> :> llm @@ <<"a", "wiki">> :> wiki @@ <<"a", "fed">> :> fed({Member("wiki"), Member("gone")})),
   secrets |-> {"key"}]

ServiceEdits ==
  {Put("routes", "web", web(<<own, far>>)),
   Put("routes", "web", web(<<far>>)),
   Put("routes", "ai", ai({}, <<chat, AIRule("wiki", <<>>, "wiki")>>)),
   Put("routes", "ai", Absent),
   Put("providers", <<"a", "llm">>, [llm EXCEPT !.host = "api2", !.kind = "openai"]),
   Put("providers", <<"a", "llm">>, Absent),
   Put("providers", <<"a", "fed">>, fed({Member("wiki"), Member("llm")})),
   Put("endpoints", Svc("a", "s1"), {}),
   Put("endpoints", ServiceKey("b", "s1", 9090), {"b2"}),
   Put("port_map", Svc("b", "s1"), 8080),
   Put("app_protocols", Svc("b", "s1"), "HTTPS"),
   Put("app_protocols", Svc("b", "s1"), "kubernetes.io/ws"),
   Put("policies", "tls", OnService("BackendTLS", None, NoTime, tls("new", FALSE))),
   Put("policies", "more", OnService("BackendTLS", None, 1, tls("older", TRUE))),
   Put("policies", "more", OnService("BackendTLS", "web", 3, tls("port", TRUE))),
   Put("policies", "more", OnService("HealthCheck", None, NoTime, [path |-> "/"])),
   Put("policies", "more", Policy("ExtAuth", "web", None, "HTTPRoute", [from |-> "b", ns |-> "a", name |-> "s1", port |-> 8080])),
   Put("policies", "more", Usage(1)),
   Put("policies", "tls", Usage(2)),
   Put("grants", "", {Grant("ExtAuthPolicy", "s1")}),
   Put("secrets", "", {})}

\* Behind gw with a TCP, a UDP and two TLS listeners: two TCPRoutes of one
\* name in two namespaces, and a third route that is edited.
TlsOn(name, hostname, mode) ==
  [name |-> name, port |-> 443, protocol |-> "TLS", hostname |-> hostname, accepted |-> TRUE, allowed |-> All,
   mode |-> mode, certs |-> {"key"}]
gw4 == [gw EXCEPT !.listeners =
          <<Listener("tcp", 90, "TCP", AnyHost, All), Listener("udp", 90, "UDP", AnyHost, All),
            TlsOn("pass", Wild(ex), "Passthrough"), TlsOn("term", Exact(aex), "Terminate")>>]
stream(kind, name, created, hostnames, parents, backends) ==
  [kind |-> kind, name |-> name, created |-> created, hostnames |-> hostnames, parents |-> parents, backends |-> backends]
t1(created, backends) == stream("TCPRoute", 1, created, {}, <<Ref("gw", None)>>, backends)
t2(created) == stream("TCPRoute", 1, created, {}, <<Ref("gw", "tcp")>>, <<Backend("b", "s2", 2), Backend("b", "s1", 1)>>)
udp == stream("UDPRoute", 2, NoTime, {}, <<[Ref("gw", "udp") EXCEPT !.port = 90]>>, <<Backend("a", "s1", 1)>>)
passed(hostnames, parents, backends) == stream("TLSRoute", 3, 1, hostnames, parents, backends)
s3 == <<Backend("b", "s2", 1)>>

Streams ==
  [parents |-> ("gw" :> gw4 @@ "other" :> other),
   routes |-> Nothing,
   streams |-> ("t1" :> t1(1, <<Backend("a", "s1", 1)>>) @@ "t2" :> t2(1) @@ "x" :> Absent),
   policies |-> Nothing, grants |-> {}, labels |-> Nothing,
   endpoints |-> (Svc("a", "s1") :> {"a1"} @@ Svc("b", "s2") :> {"b2"}),
   port_map |-> Nothing, port_names |-> Nothing, app_protocols |-> Nothing, providers |-> Nothing, secrets |-> {"key"}]

StreamEdits ==
  {Put("streams", "t1", t1(2, <<Backend("a", "s1", 1)>>)),
   Put("streams", "t1", t1(1, <<>>)),
   Put("streams", "t1", [t1(1, <<Backend("a", "s1", 1)>>) EXCEPT !.parents[1].accepted = FALSE]),
   Put("streams", "t1", Absent),
   Put("streams", "t2", t2(NoTime)),
   Put("streams", "x", udp),
   Put("streams", "x", [udp EXCEPT !.kind = "TCPRoute", !.parents[1].section = None]),
   Put("streams", "x", passed({}, <<Ref("gw", None)>>, s3)),
   Put("streams", "x", passed({Exact(aex)}, <<Ref("other", None), Ref("gw", "term")>>, s3)),
   Put("streams", "x", passed({Wild(aex)}, <<Ref("gw", None)>>, <<>>)),
   Put("streams", "x", passed({Exact(<<"com", "b">>)}, <<Ref("gw", "pass")>>, <<>>)),
   Put("streams", "x", passed({}, <<[Ref("gw", "pass") EXCEPT !.accepted = FALSE]>>, s3)),
   Put("parents", "gw", [gw4 EXCEPT !.listeners[4].accepted = FALSE]),
   Put("parents", "gw", [gw4 EXCEPT !.listeners[1].accepted = FALSE]),
   Put("endpoints", Svc("b", "s2"), {}),
   Put("secrets", "", {})}

MCInitial == "routes" :> Routes @@ "services" :> Services @@ "streams" :> Streams
MCEdits == "routes" :> RouteEdits @@ "services" :> ServiceEdits @@ "streams" :> StreamEdits

Ask(port, sni, host, path, method, headers, known) ==
  [port |-> port, sni |-> sni, host |-> host, path |-> path, method |-> method, headers |-> headers, query |-> {}, known |-> known]
MCRequests ==
  {Ask(80, {}, aex, <<"p">>, "GET", {"x", "y"}, FALSE),
   Ask(80, {}, <<"com", "b">>, <<"p", "q">>, "GET", {"x", "y"}, TRUE),
   Ask(80, {}, aex, <<>>, "POST", {}, TRUE),
   Ask(443, {aex}, aex, <<"p", "q">>, "POST", {"x"}, FALSE),
   Ask(443, {aex}, <<"com", "ex", "b">>, <<"p">>, "GET", {}, TRUE)}
=============================================================================
