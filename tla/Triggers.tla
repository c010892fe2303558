------------------------------ MODULE Triggers ------------------------------
(* Which objects a store event re-runs (portus-controller/src/triggers.rs)   *)
(* and which a Kubernetes watch of another kind does (main.rs).  objs stands *)
(* for the reflectors: objs[k] is the object a controller holds, or None.    *)
EXTENDS PolicyStatus

RouteKinds == {"HTTPRoute", "GRPCRoute", "TLSRoute", "TCPRoute", "UDPRoute", "AIRoute"}

Objects(objs, kind) == {k \in Keys : k.kind = kind /\ objs[k] # None}

----------------------------------------------------------------------------
(* Routes *)

\* A parentRef of any other kind is read as a Gateway's.
parent_key(p) == Key(IF p.kind = "ListenerSet" THEN "ListenerSet" ELSE "Gateway", p.ns, p.name)

parents(spec) == {parent_key(p) : p \in Each(spec.parents)}

\* Whatever the kind of the backendRef; an AIRoute names no Service.
backend_services(kind, spec) ==
  IF kind = "AIRoute" THEN {}
  ELSE UNION {{Key("Service", b.ns, b.name) : b \in Each(r.backends)} : r \in Each(spec.rules)}

\* Mutant: a route follows the grants of its own namespace.
OwnGrants(event, kind, objs) ==
  {k \in Objects(objs, kind) :
     \/ event.type \in {"Gateway", "ListenerSet"} /\ event.key \in parents(objs[k].spec)
     \/ event.type = "Service" /\ event.key \in backend_services(kind, objs[k].spec)
     \/ event.type \in {"ReferenceGrant", "Namespace"} /\ k.ns = event.ns}

routes_for(event, kind, objs) ==
  LET Affected(k) ==
        LET spec == objs[k].spec
        IN CASE event.type \in {"Gateway", "ListenerSet"} -> event.key \in parents(spec)
             [] event.type = "Service" -> event.key \in backend_services(kind, spec)
             [] event.type = "ReferenceGrant" ->
                  event.ns # k.ns /\ \E s \in backend_services(kind, spec) : s.ns = event.ns
             [] event.type = "Namespace" -> k.ns = event.ns
             [] OTHER -> FALSE
  IN {k \in Objects(objs, kind) : Affected(k)}

----------------------------------------------------------------------------
(* Gateways and ListenerSets *)

\* The references of a Gateway's TLS settings.
CertificateRefs(spec) == UNION {IF l.tls = None THEN {} ELSE Each(l.tls.certs) : l \in Each(spec.listeners)}
CaRefsOf(spec) == UNION {Each(spec.tls.frontend[p].refs) : p \in DOMAIN spec.tls.frontend}
ClientCertRef(spec) == {spec.tls.clientCert} \ {None}

\* A reference that leaves its namespace out is in the Gateway's own, which
\* no grant is needed for.
gateway_references_namespace(k, spec, ns) ==
  ns # k.ns /\ \E r \in CertificateRefs(spec) \cup CaRefsOf(spec) \cup ClientCertRef(spec) : r.ns = ns

gateway_uses_selectors(spec) ==
  spec.allowed.from = "Selector" \/ \E l \in Each(spec.listeners) : l.from = "Selector"

\* Mutant: Gateways do not follow their routes.
RoutesIgnored(event, objs, st) ==
  Keys \cap
     CASE event.type = "GatewayClass" -> {g \in Objects(objs, "Gateway") : objs[g].spec.class = event.key.name}
       [] event.type = "Programmed" -> {event.key}
       [] event.type = "ListenerSet" -> {event.parent}
       [] OTHER -> {}

\* A ListenerSet among a route's parents stands for its Gateway, as stored.
gateways_for(event, objs, st) ==
  LET gateways == Objects(objs, "Gateway")
      GatewayOf(p) == IF p.kind = "Gateway" THEN {p} ELSE IF Has(st, p) THEN {st[p].parent} ELSE {}
  IN Keys \cap
     CASE event.type = "GatewayClass" -> {g \in gateways : objs[g].spec.class = event.key.name}
       [] event.type = "Programmed" -> {event.key}
       [] event.type = "ListenerSet" -> {event.parent}
       [] event.type = "Route" -> UNION {GatewayOf(p) : p \in event.parents}
       [] event.type = "ReferenceGrant" -> {g \in gateways : gateway_references_namespace(g, objs[g].spec, event.ns)}
       [] event.type = "Namespace" -> {g \in gateways : gateway_uses_selectors(objs[g].spec)}
       [] OTHER -> {}

listener_sets_for(event, objs) ==
  LET Affected(k) ==
        CASE event.type \in {"Gateway", "Programmed"} -> objs[k].spec.parent = event.key
          [] event.type = "ListenerSet" -> objs[k].spec.parent = event.parent /\ k # event.key
          [] event.type = "Route" -> k \in event.parents
          [] event.type = "Namespace" -> TRUE
          [] OTHER -> FALSE
  IN {k \in Objects(objs, "ListenerSet") : Affected(k)}

----------------------------------------------------------------------------
(* Policies *)

\* Mutants: policies do not follow their siblings, or the data planes' acks.
SiblingsIgnored(event, kind, objs) == {k \in Objects(objs, kind) : event.type = "Programmed"}
AcksIgnored(event, kind, objs) ==
  {k \in Objects(objs, kind) :
     event.type = "Policy" /\ event.key.kind = kind /\ event.key # k /\ event.target = objs[k].spec.target}

\* The policy that published is left out, so that none re-runs itself.
policies_for(event, kind, objs) ==
  {k \in Objects(objs, kind) :
     \/ event.type = "Programmed"
     \/ /\ event.type = "Policy" /\ event.key.kind = kind /\ event.key # k
        /\ event.target = objs[k].spec.target}

backend_tls_policies_for(event, objs) ==
  LET Services(k) == {Key("Service", k.ns, t.name) : t \in Each(objs[k].spec.targets)}
      Affected(k) ==
        CASE event.type = "Programmed" -> TRUE
          [] event.type = "Policy" ->
               /\ event.key.kind = "BackendTLSPolicy" /\ event.key # k
               /\ \E s \in Services(k) : s.ns = event.target.ns /\ s.name = event.target.name
          [] event.type = "Route" -> Services(k) \cap event.backends # {}
          [] OTHER -> FALSE
  IN {k \in Objects(objs, "BackendTLSPolicy") : Affected(k)}

----------------------------------------------------------------------------
(* on_events: the controllers of a kind, their subscription and a lag *)

Lagged == [type |-> "Lagged"]

AffectedBy(event, kind, objs, st) ==
  CASE event = Lagged -> Objects(objs, kind)
    [] event # Lagged /\ kind \in RouteKinds -> routes_for(event, kind, objs)
    [] event # Lagged /\ kind = "Gateway" -> gateways_for(event, objs, st)
    [] event # Lagged /\ kind = "ListenerSet" -> listener_sets_for(event, objs)
    [] event # Lagged /\ kind = "BackendTLSPolicy" -> backend_tls_policies_for(event, objs)
    [] OTHER -> policies_for(event, kind, objs)

\* The events a kind's mapping does not answer with nobody outright.
Listens(kind) ==
  CASE kind \in RouteKinds -> {"Gateway", "ListenerSet", "Service", "ReferenceGrant", "Namespace"}
    [] kind = "Gateway" -> {"GatewayClass", "Programmed", "ListenerSet", "Route", "ReferenceGrant", "Namespace"}
    [] kind = "ListenerSet" -> {"Gateway", "Programmed", "ListenerSet", "Route", "Namespace"}
    [] kind = "BackendTLSPolicy" -> {"Programmed", "Policy", "Route"}
    [] kind \in PolicyKinds -> {"Programmed", "Policy"}
    [] OTHER -> {}

----------------------------------------------------------------------------
(* Watches of another kind: the Gateways whose client certificate or CA, the *)
(* BackendTLSPolicies whose CA an object is.  A Secret that a listener's     *)
(* certificateRefs name is not among them.                                   *)

gateway_references_ca_config_map(spec, k) == k \in CaRefsOf(spec)
gateway_references_client_cert_secret(spec, k) == k \in ClientCertRef(spec)

Dependents(watcher, k, objs) ==
  {g \in Objects(objs, watcher) :
     CASE watcher = "BackendTLSPolicy" -> k.kind = "ConfigMap" /\ k \in Each(objs[g].spec.refs)
       [] watcher = "Gateway" /\ k.kind = "ConfigMap" -> gateway_references_ca_config_map(objs[g].spec, k)
       [] OTHER -> gateway_references_client_cert_secret(objs[g].spec, k)}
=============================================================================
