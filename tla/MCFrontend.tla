----------------------------- MODULE MCFrontend -----------------------------
(* Frontend on small worlds, each about one part of the data plane.          *)
EXTENDS Frontend

CONSTANTS c1, c2, c3, p1, p2, p3, e1, e2

MCPorts == {80, 443, 5000, 53}
MCServices == {"s1", "s2"}
MCAddrs == {e1, e2}
MCConns == {c1, c2, c3}
MCPeers == {p1, p2, p3}
MCHosts == {"db"}
MCFiles == {"pem"}

Name(h) == <<"com", h>>
MCDomains == {Exact(Name("a")), Exact(Name("b"))}

Cert(n) == [id |-> n, loads |-> TRUE]
Broken(n) == [id |-> n, loads |-> FALSE]

Listener(port, protocol, hostname, cert) ==
  [port |-> port, protocol |-> protocol, hostname |-> hostname, cert |-> cert, ca |-> "none", mode |-> "strict"]
Checked(port, hostname, cert, ca, mode) == [Listener(port, "HTTPS", hostname, cert) EXCEPT !.ca = ca, !.mode = mode]

Config(listeners) == [listeners |-> listeners, tls |-> <<>>, claims |-> {}, tcp |-> <<>>, udp |-> <<>>, pools |-> <<>>]
TlsRoute(listener, sni, service, mode, cert) ==
  [listener |-> listener, sni |-> sni, service |-> service, mode |-> mode, cert |-> cert, port |-> 443]
Backend(service, weight) == [service |-> service, weight |-> weight]
Pools == [s \in MCServices |-> IF s = "s1" THEN {e1} ELSE {e2}]

NoYamlWorld == [yaml |-> NoYaml, files |-> [f \in MCFiles |-> Unreadable], lookup |-> [h \in MCHosts |-> {}], changes |-> <<>>]
World(mode, configs, traffic, datagrams, faults, standalone) ==
  [mode |-> mode, configs |-> configs, traffic |-> traffic, datagrams |-> datagrams, faults |-> faults, held |-> {},
   yaml |-> standalone.yaml, files |-> standalone.files, lookup |-> standalone.lookup, changes |-> standalone.changes]
Grpc(configs, traffic, datagrams, faults) == World("grpc", configs, traffic, datagrams, faults, NoYamlWorld)

----------------------------------------------------------------------------
(* Ports come and go, are held by others, and their tasks end. *)

PlainHttp == Config(<<Listener(80, "HTTP", AnyHost, NoCert)>>)
WithUdp == [PlainHttp EXCEPT !.listeners = Append(@, Listener(53, "UDP", AnyHost, NoCert)),
                             !.tcp = (5000 :> <<Backend("s1", 1)>>)]
PortWorld == Grpc(<<PlainHttp, WithUdp, PlainHttp>>, {}, {}, {"panic", "occupy", "silent"})

(* TLS routes under nested wildcards, one service behind each. *)
SniConfig ==
  [Config(<<Listener(443, "TLS", Wild(Name("a")), NoCert)>>) EXCEPT
     !.tls = <<TlsRoute(Wild(<<"com">>), {Wild(<<"com">>)}, "s1", "Passthrough", NoCert),
               TlsRoute(Wild(Name("a")), {Exact(Name("a") \o <<"x">>), Wild(Name("a"))}, "s2", "Passthrough", NoCert),
               TlsRoute(Exact(Name("t")), {Exact(Name("t"))}, "s2", "Terminate", Cert(1)),
               TlsRoute(Exact(Name("u")), {Exact(Name("u"))}, "s2", "Terminate", Broken(2))>>,
     !.claims = {Exact(Name("empty"))},
     !.pools = Pools]
Snis == {Name("a"), Name("a") \o <<"x">>, Name("t"), Name("u"), Name("empty"), <<"org">>}
SniWorld == Grpc(<<SniConfig, [SniConfig EXCEPT !.pools = ("s1" :> {e1}), !.tls = SubSeq(@, 1, 1)]>>,
                 {<<443, n>> : n \in Snis}, {}, {"refuse", "hangup"})

(* A TCP route of two weights, whose sessions go quiet. *)
TcpConfig == [Config(<<Listener(5000, "TCP", AnyHost, NoCert), Listener(80, "TCP", AnyHost, NoCert)>>) EXCEPT
                !.tcp = (5000 :> <<Backend("s1", 2), Backend("s2", 1)>>), !.pools = Pools]
IdleWorld == Grpc(<<TcpConfig>>, {<<5000, <<>>>>, <<80, <<>>>>}, {}, {"time"})

(* More clients than permits, handed to the stack until it drains. *)
WebConfig == Config(<<Listener(80, "HTTP", AnyHost, NoCert), Listener(443, "HTTPS", AnyHost, Cert(1))>>)
HandoffWorld == Grpc(<<WebConfig>>, {<<80, <<>>>>, <<443, Name("a")>>, <<443, <<>>>>}, {}, {"drain", "refuse"})

(* UDP sessions of three peers; the route goes away and comes back. *)
UdpConfig == [Config(<<>>) EXCEPT !.udp = (53 :> <<Backend("s1", 1), Backend("s2", 1)>>), !.pools = Pools]
UdpWorld == Grpc(<<UdpConfig, Config(<<>>), UdpConfig>>, {}, {<<53, p>> : p \in MCPeers}, {"time", "unreachable"})

(* Certificates renewed, reordered and broken, client validation switched. *)
a == Exact(Name("a"))
b == Exact(Name("b"))
CertConfigs == <<
  Config(<<Checked(443, a, Cert(1), "none", "strict"), Checked(443, b, Cert(2), "none", "strict")>>),
  Config(<<Checked(443, a, Cert(3), "none", "strict"), Checked(443, b, Cert(2), "none", "strict")>>),
  Config(<<Checked(443, b, Cert(2), "good", "strict"), Checked(443, Wild(<<"com">>), Cert(3), "none", "strict")>>),
  Config(<<Checked(443, b, Broken(4), "good", "fallback"), Checked(443, a, Cert(5), "broken", "strict")>>),
  Config(<<Checked(443, b, Broken(4), "none", "strict")>>),
  Config(<<Checked(443, a, Cert(5), "broken", "strict"), Checked(443, b, Cert(2), "none", "strict")>>)>>
CertWorld == Grpc(CertConfigs, {}, {}, {})
BrokenFirst == Grpc(<<CertConfigs[5]>>, {}, {}, {})

\* A port another process holds while the manager looks, and lets go.
HeldWorld == [Grpc(<<PlainHttp>>, {}, {}, {}) EXCEPT !.held = {80}]

----------------------------------------------------------------------------
(* Standalone *)

YamlListener(port, protocol, tls) ==
  [port |-> port, protocol |-> protocol, hostname |-> AnyHost, tls |-> tls, file |-> "pem", domains |-> <<>>]
YamlRoute(port, host) ==
  [port |-> port, hosts |-> {}, path |-> "/", method |-> "any", headers |-> "none", redirect |-> FALSE,
   backends |-> <<[host |-> host, port |-> 8080, weight |-> 1], [host |-> "10.0.0.1", port |-> 8080, weight |-> 1]>>]
YamlOf(listeners, routes) == [parses |-> TRUE, listeners |-> listeners, routes |-> routes, challenge |-> "http01"]

Local(yaml, files, lookups, changes) ==
  [yaml |-> yaml, files |-> [f \in MCFiles |-> files], lookup |-> [h \in MCHosts |-> lookups], changes |-> changes]
ToYaml(y) == [kind |-> "yaml", yaml |-> y]
ToFile(cert) == [kind |-> "file", file |-> "pem", cert |-> cert]
ToDns(addresses) == [kind |-> "dns", host |-> "db", addresses |-> addresses]

HttpYaml == YamlOf(<<YamlListener(80, "HTTP", "none")>>, <<YamlRoute(80, "db")>>)
FileYaml == YamlOf(<<YamlListener(443, "HTTPS", "file")>>, <<YamlRoute(443, "db")>>)
Doubled == [HttpYaml EXCEPT !.routes = <<YamlRoute(80, "db"), [YamlRoute(80, "10.0.0.1") EXCEPT !.headers = "x"]>>]

\* The YAML and the certificate it names are edited, well and badly.
EditWorld == World("standalone", <<>>, {}, {}, {"touch"},
  Local(HttpYaml, Cert(1), {e1}, <<ToYaml(Doubled), ToYaml(FileYaml), ToFile(Cert(2)), ToFile(Unreadable), ToFile(Cert(3))>>))
\* Lookups fail and change.
DnsWorld == World("standalone", <<>>, {}, {}, {},
  Local(HttpYaml, Unreadable, {e1}, <<ToDns({}), ToYaml([HttpYaml EXCEPT !.parses = FALSE]), ToDns({e2}), ToDns({})>>))
\* The first YAML is refused.
RefusedWorld == World("standalone", <<>>, {}, {}, {}, Local(FileYaml, Unreadable, {}, <<>>))

AcmeYaml(domains) ==
  YamlOf(<<YamlListener(80, "HTTP", "none"), [YamlListener(443, "HTTPS", "acme") EXCEPT !.domains = domains]>>, <<YamlRoute(80, "db")>>)
\* Two certificates are issued one after the other.
AcmeWorld == World("standalone", <<>>, {}, {}, {}, Local(AcmeYaml(<<a, b>>), Unreadable, {e1}, <<>>))
\* A renewal among unrelated file events.
RenewWorld == World("standalone", <<>>, {}, {}, {"renew", "touch"}, Local(AcmeYaml(<<a>>), Unreadable, {e1}, <<>>))
\* The YAML is broken and put right while a certificate is issued.
RepairWorld == World("standalone", <<>>, {}, {}, {},
  Local(AcmeYaml(<<a>>), Unreadable, {e1}, <<ToYaml([HttpYaml EXCEPT !.parses = FALSE]), ToYaml(AcmeYaml(<<a>>))>>))
\* Orders fail for hours.
FailWorld == World("standalone", <<>>, {}, {}, {"acme"}, Local(AcmeYaml(<<a>>), Unreadable, {e1}, <<>>))

MCWorlds == {PortWorld, SniWorld, IdleWorld, HandoffWorld, UdpWorld, CertWorld, BrokenFirst, HeldWorld,
             EditWorld, DnsWorld, RefusedWorld, AcmeWorld, RenewWorld, RepairWorld, FailWorld}
=============================================================================
