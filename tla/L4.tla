--------------------------------- MODULE L4 ---------------------------------
(* The L4 side of a config (portus-dataplane-core): what                     *)
(* build_l4_config_from_proto of config_receiver.rs makes of it, the ports   *)
(* to bind, and where l4_proxy.rs sends a connection by its port and SNI.    *)
(*                                                                           *)
(* A config is a record of its listeners (port, protocol, hostname, cert,    *)
(* ca), its TLSRoutes per listener (tls), the hostnames of TLS listeners     *)
(* (claims), its TCPRoutes and UDPRoutes as functions of the port, and the   *)
(* addresses of its Services (pools).  Hostnames are those of Hostnames.     *)
EXTENDS Hostnames, FiniteSets, SequencesExt

NoCert == [id |-> 0, loads |-> FALSE]
NoService == "none"

\* Ports the network stack binds itself: health and metrics.
RESERVED_PORTS == {8081, 9090}

----------------------------------------------------------------------------
(* build_l4_config_from_proto *)

RoutesUnder(config, h) == SelectSeq(config.tls, LAMBDA r : r.listener = h)

\* The last TLSRoute under a listener that names the pattern has it.
OwnerOf(routes, pattern) ==
  routes[CHOOSE i \in DOMAIN routes :
    pattern \in routes[i].sni /\ \A j \in i + 1 .. Len(routes) : pattern \notin routes[j].sni]

\* The listeners of one hostname are one entry, whatever their ports: it has
\* the mode of its first route, its first certificate that loads and its first
\* port; port 0 is every port.
TlsListener(config, h) ==
  LET routes == RoutesUnder(config, h)
      loaded == SelectSeq(routes, LAMBDA r : r.mode = "Terminate" /\ r.cert.loads)
      ported == SelectSeq(routes, LAMBDA r : r.port > 0)
  IN [hostname |-> h,
      routes |-> [p \in UNION {routes[i].sni : i \in DOMAIN routes} |-> OwnerOf(routes, p).service],
      mode |-> IF routes = <<>> THEN "Passthrough" ELSE routes[1].mode,
      cert |-> IF loaded = <<>> THEN NoCert ELSE loaded[1].cert,
      port |-> IF ported = <<>> THEN 0 ELSE ported[1].port]

PortsOf(config, protocol) ==
  {config.listeners[i].port : i \in {j \in DOMAIN config.listeners : config.listeners[j].protocol = protocol}} \ {0}

build_l4_config_from_proto(config) ==
  [tls_listeners |-> {TlsListener(config, h) : h \in {config.tls[i].listener : i \in DOMAIN config.tls} \cup config.claims},
   tcp_proxy |-> config.tcp, udp_proxy |-> config.udp,
   http_ports |-> PortsOf(config, "HTTP"), https_ports |-> PortsOf(config, "HTTPS"),
   tls_ports |-> PortsOf(config, "TLS"), tcp_ports |-> PortsOf(config, "TCP"), udp_ports |-> PortsOf(config, "UDP")]

NoL4 == build_l4_config_from_proto([listeners |-> <<>>, tls |-> <<>>, claims |-> {}, tcp |-> <<>>, udp |-> <<>>])

desired_l4_ports(l4) ==
  (DOMAIN l4.tcp_proxy \cup l4.http_ports \cup l4.https_ports \cup l4.tls_ports \cup l4.tcp_ports
    \cup {l.port : l \in l4.tls_listeners}) \ ({0} \cup RESERVED_PORTS)

desired_udp_ports(l4) == (DOMAIN l4.udp_proxy \cup l4.udp_ports) \ {0}

----------------------------------------------------------------------------
(* Where a connection goes *)

OnPort(l4, port) == {l \in l4.tls_listeners : l.port \in {port, 0}}

port_role(l4, port) ==
  IF port \in DOMAIN l4.tcp_proxy \cup l4.tcp_ports THEN "Tcp"
  ELSE IF port \in l4.https_ports \cup l4.tls_ports \/ OnPort(l4, port) # {} THEN "Tls"
  ELSE IF port \in l4.http_ports THEN "Http"
  ELSE "Tls"

\* listener_matches_sni: the suffix of a wildcard has a dot per label.
sni_specificity(p) ==
  CASE p.kind = "any" -> 1
    [] p.kind = "wild" -> Len(p.name) + 2
    [] OTHER -> 1000

\* Mutant: any listener that claims the name.
AnyClaiming(listeners, sni) == {l \in listeners : listener_hostname_claims(l.hostname, sni)}

\* Two listeners of one specificity that claim one name have one hostname.
find_best_matching_listener(listeners, sni) ==
  LET claiming == {l \in listeners : listener_hostname_claims(l.hostname, sni)}
  IN {l \in claiming : \A k \in claiming : sni_specificity(k.hostname) <= sni_specificity(l.hostname)}

\* The exact name, else the wildcard of the longest suffix.
lookup_route_in_listener(routes, sni) ==
  LET named == {p \in DOMAIN routes : p = Exact(sni) \/ (p.kind = "wild" /\ Below(sni, p.name))}
      first == {p \in named : p.kind = "exact" \/ (\A k \in named : k.kind = "wild" /\ Len(k.name) <= Len(p.name))}
  IN {routes[p] : p \in first}

Decision(kind, service, cert) == [kind |-> kind, service |-> service, cert |-> cert]

\* sni_mux_decision_for_port; no name at all, or one nobody claims, is the
\* stack's.
sni_mux_decision(l4, port, sni) ==
  LET best == find_best_matching_listener(OnPort(l4, port), sni)
  IN IF sni = <<>> \/ best = {} THEN Decision("Terminate", NoService, NoCert)
     ELSE LET l == CHOOSE x \in best : TRUE
              found == lookup_route_in_listener(l.routes, sni)
          IN IF found = {} \/ (l.mode = "Terminate" /\ ~l.cert.loads)
             THEN Decision("Reject", NoService, NoCert)
             ELSE Decision(IF l.mode = "Terminate" THEN "TlsTerminate" ELSE "Passthrough",
                           CHOOSE s \in found : TRUE, IF l.mode = "Terminate" THEN l.cert ELSE NoCert)

----------------------------------------------------------------------------
(* L4RouteTarget *)

WeightUpTo(backends, i) == FoldLeft(LAMBDA sum, b : sum + b.weight, 0, SubSeq(backends, 1, i))
total_weight(backends) == WeightUpTo(backends, Len(backends))

\* Mutant: a backend is chosen once too often.
SelectLate(backends, counter) ==
  LET n == counter % total_weight(backends)
  IN CHOOSE i \in DOMAIN backends : n <= WeightUpTo(backends, i) /\ \A j \in 1 .. i - 1 : n > WeightUpTo(backends, j)

\* The backend of the n-th connection; there is one when total_weight > 0.
select(backends, counter) ==
  LET n == counter % total_weight(backends)
  IN CHOOSE i \in DOMAIN backends : n < WeightUpTo(backends, i) /\ \A j \in 1 .. i - 1 : n >= WeightUpTo(backends, j)
=============================================================================
