---------------------------- MODULE RouteStatus ----------------------------
(* What the route reconcilers make of a route (portus-controller/src/        *)
(* reconcilers/http_route.rs, grpc_route.rs, tls_route.rs, l4_route.rs,      *)
(* ai_route.rs): which of its parents take it, whether its backends resolve, *)
(* the state they store and the status they write.  Matches and filters are  *)
(* RouteCompiler's; here a match only has a regex that compiles or not.      *)
(*                                                                           *)
(* A route's spec is [parents, hostnames, rules]; a parentRef is [kind, ns,  *)
(* name, section, port], a rule [regexOk, backends] with Service keys.       *)
(*                                                                           *)
(* What all reconcilers share (reconcilers/mod.rs) comes first.  An object,  *)
(* and a reference to one, is a key [kind, ns, name]; a reference of a group *)
(* or kind nobody supports has a kind outside the known ones.  st stands for *)
(* the ConfigStore's maps: st[k] is what was stored for k.                   *)
EXTENDS Integers, Sequences, FiniteSets, SequencesExt, Hostnames

CONSTANTS
  Keys,  \* the objects of the cluster
  None   \* an Option that is not there

Key(kind, ns, name) == [kind |-> kind, ns |-> ns, name |-> name]

Has(st, k) == k \in Keys /\ st[k] # None

Stored(st, kind) == {k \in Keys : k.kind = kind /\ st[k] # None}

\* The labels of a namespace; none until its reconciler has seen it.
Labels(st, ns) == LET k == Key("Namespace", "", ns) IN IF Has(st, k) THEN st[k].labels ELSE {}

\* A ReferenceGrant of the target's namespace lets objects of this kind and
\* namespace name the target.
reference_grant_allows(st, kind, ns, ref) ==
  \E g \in Stored(st, "ReferenceGrant") :
    /\ g.ns = ref.ns
    /\ [kind |-> kind, ns |-> ns] \in st[g].from
    /\ \E t \in st[g].to : t.kind = ref.kind /\ t.name \in {None, ref.name}

is_reference_allowed(st, kind, ns, ref) ==
  ns = ref.ns \/ reference_grant_allows(st, kind, ns, ref)

\* A Service is there once its own reconciler has stored its ports or the
\* EndpointSlice reconciler its ready endpoints, each a map of the store.
svc_exists(st, ref) ==
  Has(st, Key("Service", ref.ns, ref.name)) \/ Has(st, Key("Endpoints", ref.ns, ref.name))

\* A Gateway or ListenerSet of ours.
parent_known(st, p) == p.kind \in {"Gateway", "ListenerSet"} /\ Has(st, Key(p.kind, p.ns, p.name))

any_parent_known(st, prefs) == \E i \in DOMAIN prefs : parent_known(st, prefs[i])

\* The first reason that is not fine, or fine.
FirstReason(reasons, fine) ==
  LET failed == SelectSeq(reasons, LAMBDA r : r # fine)
  IN IF failed = <<>> THEN fine ELSE Head(failed)

\* A sequence's elements, one by one.
Each(s) == {s[i] : i \in DOMAIN s}

\* conditions_equal: the diff before a status write compares what a condition
\* says (here the entry without what it is about), in order.
Conditions(status) == [i \in DOMAIN status |-> status[i].conditions]

----------------------------------------------------------------------------
(* Routes *)

HTTPProtocols == {"HTTP", "HTTPS"}

\* The listener's hostname meets one of the route's, if both name any.
hostnames_compatible(hostname, hostnames) ==
  \/ hostname = AnyHost
  \/ hostnames = {}
  \/ \E h \in hostnames : hostname_matches(hostname, h)

\* allowedRoutes.namespaces; an empty selector takes every namespace, a
\* missing one none.
namespace_allowed(l, ns, parentNs, labels) ==
  CASE l.from = "Same" -> ns = parentNs
    [] l.from = "All" -> TRUE
    [] l.from = "Selector" -> l.selector # None /\ l.selector \subseteq labels
    [] OTHER -> FALSE

Verdict(p, accepted, resolved, reason) ==
  [kind |-> p.kind, ns |-> p.ns, name |-> p.name, section |-> p.section, port |-> p.port,
   accepted |-> accepted, resolved |-> resolved, reason |-> reason]

Accept(p) == Verdict(p, TRUE, TRUE, None)
Reject(p, reason) == Verdict(p, FALSE, TRUE, reason)

\* The parent's listeners a parentRef points at by section name.
Section(st, p) ==
  {l \in Each(st[Key(p.kind, p.ns, p.name)].listeners) : p.section \in {None, l.name}}

OnPort(ls, p) == {l \in ls : p.port \in {None, l.port}}

----------------------------------------------------------------------------
(* Binding to parents, one verdict per parentRef of a kind that is known *)

BindHTTP(st, p, ns, hostnames) ==
  LET parent == Key(p.kind, p.ns, p.name)
      ported == OnPort(Section(st, p), p)
      spoken == {l \in ported : l.protocol \in HTTPProtocols}
      hosted == {l \in spoken : hostnames_compatible(l.hostname, hostnames)}
      open == {l \in hosted : namespace_allowed(l, ns, p.ns, Labels(st, ns))}
  IN CASE ~Has(st, parent) -> Verdict(p, FALSE, FALSE, "NoMatchingParent")
       [] Has(st, parent) /\ p.kind = "ListenerSet" /\ ~st[parent].accepted -> Reject(p, st[parent].reason)
       [] OTHER -> CASE p.section # None /\ Section(st, p) = {} -> Reject(p, "NoMatchingParent")
                     [] p.port # None /\ ported = {} -> Reject(p, "NoMatchingParent")
                     [] open # {} -> Accept(p)
                     [] spoken # {} /\ hosted = {} -> Reject(p, "NoMatchingListenerHostname")
                     [] OTHER -> Reject(p, "NotAllowedByListeners")

bind_to_parents(st, prefs, ns, hostnames) ==
  LET known == SelectSeq(prefs, LAMBDA p : p.kind \in {"Gateway", "ListenerSet"})
  IN [i \in DOMAIN known |-> BindHTTP(st, known[i], ns, hostnames)]

GatewayRefs(prefs) == SelectSeq(prefs, LAMBDA p : p.kind = "Gateway")

\* A GRPCRoute asks only for an accepted HTTP listener of the section: neither
\* hostnames nor namespaces nor ports.
bind_grpc_to_parents(st, prefs) ==
  LET known == GatewayRefs(prefs)
      Takes(p) == /\ parent_known(st, p)
                  /\ \E l \in Section(st, p) : l.protocol \in HTTPProtocols /\ l.accepted
  IN [i \in DOMAIN known |-> Verdict(known[i], Takes(known[i]), TRUE, None)]

\* A TLSRoute passes no namespace labels.
BindTLS(st, p, ns, hostnames) ==
  LET spoken == {l \in Section(st, p) : l.protocol = "TLS"}
      hosted == {l \in spoken : hostnames_compatible(l.hostname, hostnames)}
      open == {l \in hosted : namespace_allowed(l, ns, p.ns, {})}
  IN CASE ~parent_known(st, p) -> Verdict(p, FALSE, FALSE, "NoMatchingParent")
       [] OTHER -> CASE p.section # None /\ Section(st, p) = {} -> Reject(p, "NoMatchingParent")
                     [] \E l \in open : l.accepted -> Accept(p)
                     [] spoken # {} /\ hosted = {} -> Reject(p, "NoMatchingListenerHostname")
                     [] OTHER -> Reject(p, "NotAllowedByListeners")

bind_to_parents_tls(st, prefs, ns, hostnames) ==
  LET known == GatewayRefs(prefs) IN [i \in DOMAIN known |-> BindTLS(st, known[i], ns, hostnames)]

BindL4(st, p, ns, protocol) ==
  LET candidates == OnPort(Section(st, p), p)
      open == {l \in candidates :
                 l.protocol = protocol /\ namespace_allowed(l, ns, p.ns, Labels(st, ns))}
  IN CASE ~parent_known(st, p) -> Verdict(p, FALSE, FALSE, None)
       [] OTHER -> CASE candidates = {} -> Reject(p, "NoMatchingParent")
                     [] open = {} -> Reject(p, "NotAllowedByListeners")
                     [] \E l \in open : l.accepted -> Accept(p)
                     [] OTHER -> Reject(p, "NoMatchingParent")

bind_to_parents_l4(st, prefs, ns, protocol) ==
  LET known == GatewayRefs(prefs) IN [i \in DOMAIN known |-> BindL4(st, known[i], ns, protocol)]

----------------------------------------------------------------------------
(* Resolving backends *)

Fine == "ResolvedRefs"

\* What is wrong with one backendRef of an HTTPRoute.
BackendReason(st, kind, ns, b) ==
  CASE b.kind # "Service" -> "InvalidKind"
    [] ~is_reference_allowed(st, kind, ns, b) -> "RefNotPermitted"
    [] ~svc_exists(st, b) -> "BackendNotFound"
    [] OTHER -> Fine

\* A rule's backends that are kept (a Service not found yet is), whether all
\* resolve, and why not: an invalid kind overrides what was found before it.
resolve_backend_refs(st, kind, ns, backends) ==
  LET why == [i \in DOMAIN backends |-> BackendReason(st, kind, ns, backends[i])]
  IN [backends |-> SelectSeq(backends, LAMBDA b : BackendReason(st, kind, ns, b) \in {Fine, "BackendNotFound"}),
      resolved |-> \A i \in DOMAIN why : why[i] = Fine,
      reason |-> IF "InvalidKind" \in Each(why) THEN "InvalidKind" ELSE FirstReason(why, Fine)]

\* A GRPCRoute's backends are not looked up.
resolve_grpc_backend_refs(st, ns, backends) ==
  LET kept == SelectSeq(backends, LAMBDA b : b.kind = "Service" /\ is_reference_allowed(st, "GRPCRoute", ns, b))
  IN [backends |-> kept, resolved |-> Len(kept) = Len(backends), reason |-> "BackendNotFound"]

\* A TCPRoute's or UDPRoute's backend is a Service whatever its kind says.
resolve_l4_backend_refs(st, kind, ns, backends) ==
  resolve_backend_refs(st, kind, ns, [i \in DOMAIN backends |-> [backends[i] EXCEPT !.kind = "Service"]])

\* Only the first rule of a TLS, TCP or UDP route counts.
FirstBackends(rules) == IF rules = <<>> THEN <<>> ELSE rules[1].backends

\* The resolution of the rules is the accepted parents' ResolvedRefs.
Resolved(verdicts, resolved) ==
  [i \in DOMAIN verdicts |->
     IF verdicts[i].accepted THEN [verdicts[i] EXCEPT !.resolved = resolved] ELSE verdicts[i]]

----------------------------------------------------------------------------
(* The states the reconcilers store; None: no parent of ours, so it is removed *)

IfKnown(st, state) == IF any_parent_known(st, state.parents) THEN state ELSE None

HTTPRouteState(st, k, obj) ==
  LET spec == obj.spec
      rules == [i \in DOMAIN spec.rules |-> resolve_backend_refs(st, "HTTPRoute", k.ns, spec.rules[i].backends)]
      resolved == \A i \in DOMAIN rules : rules[i].resolved /\ spec.rules[i].regexOk
      bound == bind_to_parents(st, spec.parents, k.ns, spec.hostnames)
  IN IfKnown(st, [parents |-> Resolved(bound, resolved), hostnames |-> spec.hostnames, gen |-> obj.gen,
                  backends |-> [i \in DOMAIN rules |-> rules[i].backends],
                  reason |-> FirstReason([i \in DOMAIN rules |-> rules[i].reason], Fine)])

GRPCRouteState(st, k, obj) ==
  LET spec == obj.spec
      rules == [i \in DOMAIN spec.rules |-> resolve_grpc_backend_refs(st, k.ns, spec.rules[i].backends)]
      resolved == \A i \in DOMAIN rules : rules[i].resolved
      bound == bind_grpc_to_parents(st, spec.parents)
  IN IfKnown(st, [parents |-> [i \in DOMAIN bound |-> [bound[i] EXCEPT !.resolved = resolved]],
                  hostnames |-> spec.hostnames, gen |-> obj.gen,
                  backends |-> [i \in DOMAIN rules |-> rules[i].backends], reason |-> "BackendNotFound"])

TLSRouteState(st, k, obj) ==
  LET spec == obj.spec
      rule == resolve_backend_refs(st, "TLSRoute", k.ns, FirstBackends(spec.rules))
      bound == bind_to_parents_tls(st, spec.parents, k.ns, spec.hostnames)
  IN IfKnown(st, [parents |-> Resolved(bound, rule.resolved), hostnames |-> spec.hostnames, gen |-> obj.gen,
                  backends |-> <<rule.backends>>, reason |-> rule.reason])

L4RouteState(st, k, obj) ==
  LET spec == obj.spec
      rule == resolve_l4_backend_refs(st, k.kind, k.ns, FirstBackends(spec.rules))
      bound == bind_to_parents_l4(st, spec.parents, k.ns, IF k.kind = "TCPRoute" THEN "TCP" ELSE "UDP")
  IN IfKnown(st, [parents |-> Resolved(bound, rule.resolved), hostnames |-> {}, gen |-> obj.gen,
                  backends |-> <<rule.backends>>, reason |-> rule.reason])

----------------------------------------------------------------------------
(* The status: one entry per parent of ours *)

\* The reason a rejection is reported with when the binding gave none.
DefaultReject(kind) == IF kind \in {"TCPRoute", "UDPRoute"} THEN "NoMatchingParent" ELSE "NotAllowedByListeners"

RouteStatusOf(st, kind, state) ==
  LET ours == SelectSeq(state.parents, LAMBDA p : parent_known(st, p))
      Entry(p) ==
        [parent |-> [kind |-> p.kind, ns |-> p.ns, name |-> p.name, section |-> p.section, port |-> p.port],
         conditions |->
           [accepted |-> p.accepted, resolved |-> p.resolved, gen |-> state.gen,
            acceptReason |-> IF p.accepted THEN "Accepted"
                             ELSE IF p.reason = None THEN DefaultReject(kind) ELSE p.reason,
            resolveReason |-> IF p.resolved THEN Fine ELSE state.reason]]
  IN [i \in DOMAIN ours |-> Entry(ours[i])]

----------------------------------------------------------------------------
(* AIRoutes: bound like HTTPRoutes, to AIProviders of their own namespace *)

\* Problems of one rule, each as what the message names: a match that does not
\* convert, not exactly one provider, a provider not stored, a bad rewrite.
AIRuleProblems(st, ns, rule) ==
  LET provider == Key("AIProvider", ns, rule.providers[1])
  IN (IF rule.matchOk THEN {} ELSE {"match"})
     \cup (IF Len(rule.providers) # 1 THEN {"providerRefs"}
           ELSE IF Has(st, provider) THEN {} ELSE {"provider"})
     \cup (IF rule.rewriteOk THEN {} ELSE {"urlRewrite"})

AIProblems(st, ns, spec) ==
  UNION {{<<i, p>> : p \in AIRuleProblems(st, ns, spec.rules[i])} : i \in DOMAIN spec.rules}
  \cup (IF spec.authOk THEN {} ELSE {<<0, "auth">>})

\* The backend of a rule is the Service made up for its provider, here the
\* provider's key.
AIRouteState(st, k, obj) ==
  LET spec == obj.spec
      Backends(rule) ==
        IF Len(rule.providers) # 1 THEN <<>>
        ELSE SelectSeq(<<Key("AIProvider", k.ns, rule.providers[1])>>, LAMBDA p : Has(st, p))
  IN [parents |-> bind_to_parents(st, spec.parents, k.ns, spec.hostnames), hostnames |-> spec.hostnames,
      gen |-> obj.gen, backends |-> [i \in DOMAIN spec.rules |-> Backends(spec.rules[i])], reason |-> None]

AIRouteStatus(st, k, obj, state, programmed) ==
  LET accepted == \E i \in DOMAIN state.parents : state.parents[i].accepted
      problems == AIProblems(st, k.ns, obj.spec)
      reasons == [i \in DOMAIN state.parents |-> state.parents[i].reason]
      why == FirstReason(reasons, None)
  IN <<[parent |-> None,
        conditions |->
          [accepted |-> accepted, gen |-> obj.gen, problems |-> problems,
           acceptReason |-> IF accepted THEN "Accepted" ELSE IF why = None THEN "NoMatchingParent" ELSE why,
           programmed |-> accepted /\ problems = {} /\ programmed]]>>
=============================================================================
