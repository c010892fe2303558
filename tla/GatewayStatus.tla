--------------------------- MODULE GatewayStatus ---------------------------
(* What the Gateway, ListenerSet and GatewayClass reconcilers make of an     *)
(* object (portus-controller/src/reconcilers/gateway.rs, listener_set.rs,    *)
(* gateway_class.rs): the listeners' verdicts, the state that is stored, the *)
(* routes counted as attached and the conditions of the status.              *)
(*                                                                           *)
(* A Gateway's spec is [class, params, addresses, listeners, tls, allowed];  *)
(* a listener [name, port, protocol, hostname, kinds, from, selector, tls].  *)
(* A condition is its reason; what is fine has the reason named so.          *)
EXTENDS RouteStatus

----------------------------------------------------------------------------
(* References of spec.tls *)

\* One caCertificateRef of a frontend validation.
CaReason(st, ns, ref) ==
  CASE ref.kind # "ConfigMap" -> "InvalidCACertificateKind"
    [] ref.ns # ns /\ ~reference_grant_allows(st, "Gateway", ns, ref) -> "RefNotPermitted"
    [] ~Has(st, ref) -> "InvalidCACertificateRef"
    [] OTHER -> IF st[ref].pem THEN Fine ELSE "InvalidCACertificateRef"

\* The block is invalid when no reference is usable; with some usable, the
\* first bad one is only reported.
resolve_frontend_validation(st, ns, v) ==
  LET why == [i \in DOMAIN v.refs |-> CaReason(st, ns, v.refs[i])]
      usable == SelectSeq(v.refs, LAMBDA r : CaReason(st, ns, r) = Fine)
      Invalid(reason) == [valid |-> FALSE, cas |-> <<>>, mode |-> v.mode, error |-> reason]
  IN CASE v.mode \notin {"AllowValidOnly", "AllowInsecureFallback"} -> Invalid("UnsupportedValue")
       [] v.refs = <<>> -> Invalid("InvalidCACertificateRef")
       [] usable = <<>> -> Invalid(FirstReason(why, Fine))
       [] OTHER -> [valid |-> TRUE, cas |-> usable, mode |-> v.mode, error |-> FirstReason(why, Fine)]

resolve_backend_client_cert(st, ns, ref) ==
  CASE ref.kind # "Secret" -> "InvalidClientCertificateRef"
    [] ref.ns # ns /\ ~reference_grant_allows(st, "Gateway", ns, ref) -> "RefNotPermitted"
    [] ~Has(st, ref) -> "InvalidClientCertificateRef"
    [] OTHER -> IF st[ref].pem THEN Fine ELSE "InvalidClientCertificateRef"

\* frontend maps ports, and 0 for the default, to validation blocks.  The state of the
\* backend's certificate is its key when it resolves.
resolve_gateway_tls(st, ns, tls) ==
  [frontend |-> [port \in DOMAIN tls.frontend |-> resolve_frontend_validation(st, ns, tls.frontend[port])],
   clientCert |-> IF tls.clientCert # None /\ resolve_backend_client_cert(st, ns, tls.clientCert) = Fine
                  THEN tls.clientCert ELSE None]

\* The Gateway's own ResolvedRefs, there only with a client certificate.
ClientCertCondition(st, ns, tls) ==
  IF tls.clientCert = None THEN None ELSE resolve_backend_client_cert(st, ns, tls.clientCert)

frontend_validation_for_port(tls, port) ==
  CASE port \in DOMAIN tls.frontend -> tls.frontend[port]
    [] 0 \in DOMAIN tls.frontend -> tls.frontend[0]
    [] OTHER -> None

has_insecure_fallback(tls) ==
  \E p \in DOMAIN tls.frontend : tls.frontend[p].valid /\ tls.frontend[p].mode = "AllowInsecureFallback"

----------------------------------------------------------------------------
(* Listeners *)

hostnames_overlap(a, b) == AnyHost \in {a, b} \/ hostname_matches(a, b)

\* Both of two listeners of one port and protocol whose hostnames overlap.
detect_listener_conflicts(listeners) ==
  {i \in DOMAIN listeners :
     \E j \in DOMAIN listeners \ {i} :
       /\ listeners[i].port = listeners[j].port
       /\ listeners[i].protocol = listeners[j].protocol
       /\ hostnames_overlap(listeners[i].hostname, listeners[j].hostname)}

KindsOf(protocol) ==
  CASE protocol \in HTTPProtocols -> {"HTTPRoute", "GRPCRoute"}
    [] protocol = "TLS" -> {"TLSRoute"}
    [] protocol = "TCP" -> {"TCPRoute"}
    [] protocol = "UDP" -> {"UDPRoute"}
    [] OTHER -> {}

\* allowedRoutes.kinds narrows what the protocol carries; {}: not given.
SupportedKinds(l, carried) == IF l.kinds = {} THEN carried ELSE l.kinds \cap carried
InvalidKinds(l, carried) == l.kinds # {} /\ ~(l.kinds \subseteq carried)

\* One certificateRef of a Gateway's listener.
CertReason(st, ns, ref) ==
  CASE ref.kind # "Secret" -> "InvalidCertificateRef"
    [] ref.ns # ns /\ ~reference_grant_allows(st, "Gateway", ns, ref) -> "RefNotPermitted"
    [] ~Has(st, ref) -> "InvalidCertificateRef"
    [] OTHER -> IF st[ref].pem THEN Fine ELSE "InvalidCertificateRef"

CertsReason(st, ns, l) ==
  CASE l.protocol \notin {"HTTPS", "TLS"} -> Fine
    [] l.tls = None -> "InvalidCertificateRef"
    [] OTHER -> IF l.tls.mode # "Terminate" THEN Fine
                ELSE IF l.tls.certs = <<>> THEN "InvalidCertificateRef"
                ELSE FirstReason([i \in DOMAIN l.tls.certs |-> CertReason(st, ns, l.tls.certs[i])], Fine)

\* The certificates before the first bad one are kept.
GoodCerts(st, ns, l) ==
  IF l.protocol \notin {"HTTPS", "TLS"} \/ l.tls = None THEN <<>>
  ELSE IF l.tls.mode # "Terminate" THEN <<>>
  ELSE LET n == Cardinality({i \in DOMAIN l.tls.certs :
                               \A j \in 1 .. i : CertReason(st, ns, l.tls.certs[j]) = Fine})
       IN SubSeq(l.tls.certs, 1, n)

TlsMode(l) == IF l.protocol # "TLS" THEN None ELSE IF l.tls = None THEN "Terminate" ELSE l.tls.mode

ListenerState(l, accepted, conflicted, resolved, certs) ==
  [name |-> l.name, port |-> l.port, protocol |-> l.protocol, hostname |-> l.hostname,
   from |-> l.from, selector |-> l.selector, mode |-> TlsMode(l),
   accepted |-> accepted, conflicted |-> conflicted, resolved |-> resolved, certs |-> certs]

\* One listener of a Gateway: its state and its conditions.
EvaluateListener(st, k, gen, spec, tls, i, programmed) ==
  LET l == spec.listeners[i]
      classOk == Has(st, Key("GatewayClass", "", spec.class)) /\ st[Key("GatewayClass", "", spec.class)].accepted
      basic == CASE ~classOk -> "InvalidGatewayClass"
                 [] KindsOf(l.protocol) = {} -> "UnsupportedProtocol"
                 [] OTHER -> "Accepted"
      carried == IF basic = "Accepted" THEN KindsOf(l.protocol) ELSE {}
      refs == IF InvalidKinds(l, carried) THEN "InvalidRouteKinds" ELSE CertsReason(st, k.ns, l)
      client == IF refs = Fine /\ l.protocol = "HTTPS" THEN frontend_validation_for_port(tls, l.port) ELSE None
      noCa == client # None /\ ~client.valid
      resolve == IF client # None THEN client.error ELSE refs
      accept == IF noCa THEN "NoValidCACertificate" ELSE basic
      conflicted == i \in detect_listener_conflicts(spec.listeners)
      certs == IF InvalidKinds(l, carried) THEN <<>> ELSE GoodCerts(st, k.ns, l)
  IN [state |-> ListenerState(l, accept = "Accepted", conflicted, resolve = Fine, certs),
      kinds |-> SupportedKinds(l, carried),
      conditions |-> [accepted |-> accept, programmed |-> k \in programmed /\ resolve = Fine,
                      conflicted |-> conflicted, resolved |-> resolve, gen |-> gen]]

\* The Gateway's own Accepted condition, from its address requests and from
\* how many of its listeners are accepted.
gateway_accepted_condition(classOk, spec, listeners) ==
  LET ok == {i \in DOMAIN listeners : listeners[i].conditions.accepted = "Accepted"}
      Bad(a) == IF a.type \notin {"IPAddress", "Hostname"} THEN "UnsupportedAddress"
                ELSE IF a.value # "" THEN "AddressNotUsable" ELSE "Accepted"
      addresses == FirstReason([i \in DOMAIN spec.addresses |-> Bad(spec.addresses[i])], "Accepted")
      No(reason) == [status |-> FALSE, reason |-> reason]
  IN CASE ~classOk -> No("InvalidGatewayClass")
       [] spec.params -> No("InvalidParameters")
       [] addresses # "Accepted" -> No(addresses)
       [] listeners # <<>> /\ ok = {} -> No("ListenersNotValid")
       [] ok # DOMAIN listeners -> [status |-> TRUE, reason |-> "ListenersNotValid"]
       [] OTHER -> [status |-> TRUE, reason |-> "Accepted"]

\* The state stored for a Gateway, spec.tls's outcome (its own map) included.
GatewayState(st, k, obj, programmed) ==
  LET tls == resolve_gateway_tls(st, k.ns, obj.spec.tls)
  IN [listeners |-> [i \in DOMAIN obj.spec.listeners |->
                       EvaluateListener(st, k, obj.gen, obj.spec, tls, i, programmed).state],
      gen |-> obj.gen, tls |-> tls, allowed |-> obj.spec.allowed]

----------------------------------------------------------------------------
(* Attached routes.  The parent's kind is not looked at. *)

\* Mutant: refused parents count, too.
Names(p, k) == p.ns = k.ns /\ p.name = k.name

Targets(p, k) == p.ns = k.ns /\ p.name = k.name /\ p.accepted

\* A section name decides for HTTP, gRPC and TLS routes; without one the
\* listener has to be one the route could have bound to.
AttachesHTTP(st, k, l, r) ==
  \E p \in Each(st[r].parents) :
    /\ Targets(p, k)
    /\ IF p.section # None THEN p.section = l.name
       ELSE /\ p.port \in {None, l.port} /\ l.protocol \in HTTPProtocols
            /\ hostnames_compatible(l.hostname, st[r].hostnames)
            /\ namespace_allowed(l, r.ns, k.ns, Labels(st, r.ns))

AttachesGRPC(st, k, l, r) ==
  \E p \in Each(st[r].parents) :
    Targets(p, k) /\ IF p.section # None THEN p.section = l.name ELSE l.protocol \in HTTPProtocols

AttachesTLS(st, k, l, r) ==
  \E p \in Each(st[r].parents) :
    /\ Targets(p, k)
    /\ IF p.section # None THEN p.section = l.name
       ELSE l.protocol = "TLS" /\ hostnames_compatible(l.hostname, st[r].hostnames)

AttachesL4(st, k, l, r, protocol) ==
  \E p \in Each(st[r].parents) :
    /\ Targets(p, k) /\ l.protocol = protocol
    /\ p.section \in {None, l.name} /\ p.port \in {None, l.port}
    /\ namespace_allowed(l, r.ns, k.ns, Labels(st, r.ns))

attached_routes(st, k, l) ==
  Cardinality({r \in Stored(st, "HTTPRoute") : AttachesHTTP(st, k, l, r)}
              \cup {r \in Stored(st, "GRPCRoute") : AttachesGRPC(st, k, l, r)}
              \cup {r \in Stored(st, "TLSRoute") : AttachesTLS(st, k, l, r)}
              \cup {r \in Stored(st, "TCPRoute") : AttachesL4(st, k, l, r, "TCP")}
              \cup {r \in Stored(st, "UDPRoute") : AttachesL4(st, k, l, r, "UDP")})

attached_listener_sets(st, k) ==
  Cardinality({s \in Stored(st, "ListenerSet") : st[s].accepted /\ st[s].parent = k})

\* Everything of a Gateway's status that is computed before the provisioner is
\* called: the listeners' entries, from their evaluation ls, and the conditions.
GatewayConditions(st, k, obj, ls, programmed) ==
  [listeners |-> [i \in DOMAIN ls |->
                    [name |-> obj.spec.listeners[i].name, kinds |-> ls[i].kinds,
                     conditions |-> ls[i].conditions, attached |-> attached_routes(st, k, ls[i].state)]],
   accepted |-> gateway_accepted_condition(st[Key("GatewayClass", "", obj.spec.class)].accepted, obj.spec, ls),
   programmed |-> k \in programmed, gen |-> obj.gen,
   clientCert |-> ClientCertCondition(st, k.ns, obj.spec.tls),
   insecure |-> has_insecure_fallback(st[k].tls)]

GatewayStatusOf(st, k, obj, programmed) ==
  GatewayConditions(st, k, obj,
    [i \in DOMAIN obj.spec.listeners |-> EvaluateListener(st, k, obj.gen, obj.spec, st[k].tls, i, programmed)],
    programmed)

----------------------------------------------------------------------------
(* ListenerSets *)

\* allowedListeners; unlike allowedRoutes, an empty selector takes nobody.
is_allowed(gw, gwNs, ns, labels) ==
  CASE gw.allowed.from = "All" -> TRUE
    [] gw.allowed.from = "Same" -> ns = gwNs
    [] gw.allowed.from = "Selector" -> gw.allowed.labels # {} /\ gw.allowed.labels \subseteq labels
    [] OTHER -> FALSE

\* Listeners that come before those of a ListenerSet: its Gateway's, and those
\* of the Gateway's older ListenerSets that are not in conflict themselves.
\* A smaller age is older; rank is the alphabetical place of (namespace, name).
Elders(st, k, parent, age, rank) ==
  {s \in Stored(st, "ListenerSet") \ {k} :
     st[s].parent = parent /\ (st[s].age < age \/ (st[s].age = age /\ st[s].rank < rank))}

SiblingClaims(st, k, parent, age, rank) ==
  UNION {{l \in Each(st[s].listeners) : ~l.conflicted} : s \in Elders(st, k, parent, age, rank)}

\* The protocol of a port is the last Gateway listener's on it; without one
\* a sibling's or an earlier listener's, which agree once they have settled.
ProtocolClaims(gateway, others, port) ==
  LET own == SelectSeq(gateway, LAMBDA g : g.port = port)
  IN IF own # <<>> THEN {own[Len(own)].protocol} ELSE {l.protocol : l \in {o \in others : o.port = port}}

\* Conflicts of a ListenerSet's own listeners, in their order: each one that
\* has none becomes a claim on those after it.
ListenerConflicts(listeners, gateway, siblings) ==
  LET Conflict(l, claims) ==
        CASE \E c \in Each(gateway) \cup claims : c.port = l.port /\ c.hostname = l.hostname -> "HostnameConflict"
          [] LET p == ProtocolClaims(gateway, claims, l.port) IN p # {} /\ l.protocol \notin p -> "ProtocolConflict"
          [] OTHER -> "NoConflicts"
      verdict[i \in 0 .. Len(listeners)] ==
        IF i = 0 THEN [claims |-> siblings, list |-> <<>>]
        ELSE LET c == Conflict(listeners[i], verdict[i - 1].claims)
             IN [claims |-> verdict[i - 1].claims
                            \cup (IF c = "NoConflicts"
                                  THEN {[port |-> listeners[i].port, hostname |-> listeners[i].hostname,
                                         protocol |-> listeners[i].protocol]} ELSE {}),
                 list |-> Append(verdict[i - 1].list, c)]
  IN verdict[Len(listeners)].list

\* Certificates are only checked for the grant; UDP is not supported here.
EvaluateSetListener(st, k, gen, parent, l, attach, conflict) ==
  LET carried == KindsOf(l.protocol) \ {"UDPRoute"}
      unpermitted == /\ l.protocol \in {"HTTPS", "TLS"} /\ l.tls # None
                     /\ l.tls.mode = "Terminate"
                     /\ \E c \in Each(l.tls.certs) :
                          c.ns # k.ns /\ ~reference_grant_allows(st, "ListenerSet", k.ns, [c EXCEPT !.kind = "Secret"])
      client == IF l.protocol = "HTTPS" /\ Has(st, parent)
                THEN frontend_validation_for_port(st[parent].tls, l.port) ELSE None
      resolve == CASE InvalidKinds(l, carried) -> "InvalidRouteKinds"
                   [] unpermitted -> "RefNotPermitted"
                   [] OTHER -> IF client = None THEN Fine ELSE client.error
      accept == CASE ~attach -> "NotAllowed"
                  [] carried = {} -> "UnsupportedProtocol"
                  [] conflict # "NoConflicts" -> conflict
                  [] InvalidKinds(l, carried) -> "InvalidRouteKinds"
                  [] unpermitted -> "RefNotPermitted"
                  [] OTHER -> IF client # None /\ ~client.valid THEN "NoValidCACertificate" ELSE "Accepted"
      accepted == attach /\ carried # {} /\ conflict = "NoConflicts" /\ resolve = Fine
  IN [state |-> ListenerState(l, accepted, conflict # "NoConflicts", resolve = Fine,
                              IF l.tls = None THEN <<>> ELSE l.tls.certs),
      kinds |-> SupportedKinds(l, carried),
      conditions |-> [status |-> accepted, accepted |-> accept, conflicted |-> conflict, resolved |-> resolve,
                      gen |-> gen]]

EvaluateSetListeners(st, k, obj, parent, attach, conflicts) ==
  [i \in DOMAIN obj.spec.listeners |->
     EvaluateSetListener(st, k, obj.gen, parent, obj.spec.listeners[i], attach, conflicts[i])]

SetConflicts(st, k, spec) ==
  ListenerConflicts(spec.listeners, IF Has(st, spec.parent) THEN st[spec.parent].listeners ELSE <<>>,
    {[port |-> l.port, hostname |-> l.hostname, protocol |-> l.protocol] :
       l \in SiblingClaims(st, k, spec.parent, spec.age, spec.rank)})

\* The set with its listeners evaluated; attach: the Gateway is there and lets it in.
EvaluatedSet(obj, found, attach, ls) ==
  LET accepted == \E i \in DOMAIN ls : ls[i].state.accepted
      reason == CASE ~found -> "Invalid" [] ~attach -> "NotAllowed"
                  [] ~accepted -> "ListenersNotValid" [] OTHER -> "Accepted"
  IN [state |-> [parent |-> obj.spec.parent, listeners |-> [i \in DOMAIN ls |-> ls[i].state], accepted |-> accepted,
                 gen |-> obj.gen, reason |-> reason, age |-> obj.spec.age, rank |-> obj.spec.rank],
      listeners |-> ls]

evaluate_listener_set(st, k, obj) ==
  LET parent == obj.spec.parent
      found == Has(st, parent)
      attach == found /\ is_allowed(st[parent], parent.ns, k.ns, Labels(st, k.ns))
  IN EvaluatedSet(obj, found, attach, EvaluateSetListeners(st, k, obj, parent, attach, SetConflicts(st, k, obj.spec)))

\* HTTP and gRPC routes whose parentRef names this ListenerSet; the route's
\* other parents are not told apart when a listener filters it.
count_attached(st, k, l) ==
  Cardinality({r \in Stored(st, "HTTPRoute") \cup Stored(st, "GRPCRoute") :
    /\ \E p \in Each(st[r].parents) :
         /\ p.kind = "ListenerSet" /\ Targets(p, k)
         /\ p.section \in {None, l.name} /\ p.port \in {None, l.port}
    /\ l.protocol \in HTTPProtocols
    /\ hostnames_compatible(l.hostname, st[r].hostnames)
    /\ namespace_allowed(l, r.ns, k.ns, Labels(st, r.ns))})

ListenerSetStatusOf(st, k, obj, eval) ==
  [accepted |-> eval.state.reason, gen |-> obj.gen,
   listeners |-> [i \in DOMAIN eval.listeners |->
                    [name |-> obj.spec.listeners[i].name, kinds |-> eval.listeners[i].kinds,
                     conditions |-> eval.listeners[i].conditions,
                     attached |-> count_attached(st, k, eval.listeners[i].state)]]]

----------------------------------------------------------------------------
(* GatewayClasses: ours are accepted, others' are not kept *)

evaluate_gateway_class(obj) ==
  IF obj.spec.ours THEN [accepted |-> TRUE, gen |-> obj.gen] ELSE None
=============================================================================
