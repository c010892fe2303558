---------------------------- MODULE PolicyStatus ----------------------------
(* What the policy reconcilers make of a policy (portus-controller/src/      *)
(* reconcilers/policy_common.rs and one file per kind): whether it is valid, *)
(* who wins among the policies of one kind on one target, what the store     *)
(* keeps and the conditions that are written.  AIProviders, which AIRoutes   *)
(* name, are here too (ai_provider.rs).                                      *)
(*                                                                           *)
(* A policy's spec is [target, age, rank, ...] and what its kind validates;  *)
(* age orders creation times, rank the keys (namespace, name).               *)
(*                                                                           *)
(* The last part is the shape of the objects and of what the ConfigStore     *)
(* keeps of them (gateway_types.rs, policy_types.rs, ai_types.rs, store.rs), *)
(* reduced to the fields the reconcilers read.  Text that is parsed is here  *)
(* what it parses to; names are strings.                                     *)
EXTENDS GatewayStatus

SecretPolicies == {"BasicAuthPolicy", "APIKeyAuthPolicy"}
PolicyKinds ==
  {"RateLimitPolicy", "CircuitBreakerPolicy", "ConnectionPolicy", "CORSPolicy", "TimeoutPolicy",
   "RequestBodySizeLimitPolicy", "HealthCheckPolicy", "RetryPolicy", "IPAllowlistPolicy", "JWTAuthPolicy",
   "ExtAuthPolicy", "AIUsagePolicy"} \cup SecretPolicies

----------------------------------------------------------------------------
(* Conflicts: the oldest policy of a target wins, then the first by key *)

Contenders(st, kind, target) == {p \in Stored(st, kind) : st[p].target = target}

Beats(a, b) == a.age < b.age \/ (a.age = b.age /\ a.rank < b.rank)

\* Every policy of the target contends, those refused as invalid too.
resolve_conflicts(st, k, target) ==
  LET all == Contenders(st, k.kind, target)
      Wins(p) == \A q \in all \ {p} : Beats(st[p], st[q])
  IN [p \in Keys |-> IF p \in all THEN [st[p] EXCEPT !.accepted = Wins(p)] ELSE st[p]]

\* The winner a conflict's message names.
find_winner_key(st, k, target) == {p \in Contenders(st, k.kind, target) \ {k} : st[p].accepted}

----------------------------------------------------------------------------
(* The reconcilers, one per kind: what they find of a spec, as [kept, refused, *)
(* refs], where kept is what the stored state keeps of it, refused the reason *)
(* why it is not valid, and refs the ResolvedRefs condition, if there is one. *)

Kept(spec, fields) == [f \in fields |-> spec[f]]
Judge(kept, reason, refs) == [kept |-> kept, refused |-> reason, refs |-> refs]
Admit(kept, refs) == Judge(kept, Fine, refs)
Refuse(kept, reason) == Judge(kept, reason, None)

\* These take whatever the schema lets through.
reconcile_rate_limit_policy(spec) == Admit(Kept(spec, {"requestsPerSecond", "perClient"}), None)
reconcile_circuit_breaker_policy(spec) ==
  Admit(Kept(spec, {"failureThreshold", "successThreshold", "timeoutSecs"}), None)
reconcile_connection_policy(spec) == Admit(Kept(spec, {"maxConnections"}), None)
reconcile_cors_policy(spec) ==
  Admit(Kept(spec, {"origins", "methods", "headers", "exposed", "credentials", "maxAge"}), None)
reconcile_timeout_policy(spec) == Admit(Kept(spec, {"request", "backendRequest", "connect"}), None)
reconcile_request_body_size_limit_policy(spec) == Admit(Kept(spec, {"maxBytes"}), None)
reconcile_health_check_policy(spec) == Admit(Kept(spec, {"path", "interval", "timeout", "healthy", "unhealthy"}), None)

reconcile_retry_policy(spec) ==
  LET kept == Kept(spec, {"maxRetries", "retryOn"})
  IN IF spec.retryOn \subseteq {"connect-failure", "gateway-error"} THEN Admit(kept, None)
     ELSE Refuse(kept, "InvalidRetryCondition")

\* An address or a network; anything else does not parse.
reconcile_ip_allowlist_policy(spec) ==
  LET lists == {"allow", "deny", "trusted"}
  IN IF \A l \in lists : spec[l] \subseteq {"address", "network"} THEN Admit(Kept(spec, lists), None)
     ELSE Refuse(Kept(spec, lists), "InvalidCIDR")

\* The Secret with the credentials may be named and is there.
ValidSecret(st, k, spec) ==
  CASE ~is_reference_allowed(st, k.kind, k.ns, spec.secret) -> "RefNotPermitted"
    [] ~Has(st, spec.secret) -> "InvalidSecret"
    [] OTHER -> Fine

reconcile_basic_auth_policy(st, k, spec) == Judge(Kept(spec, {"secret", "realm"}), ValidSecret(st, k, spec), None)
reconcile_api_key_auth_policy(st, k, spec) == Judge(Kept(spec, {"secret", "header"}), ValidSecret(st, k, spec), None)

\* validate of jwt_auth_policy: at least one provider, its URLs are URLs, and
\* no header is reserved, malformed or set from two claims or from none.
ValidJwt(spec) ==
  LET Good(p) == /\ p.urlsOk
                 /\ \A h \in Each(p.headers) : h \notin {"reserved", "invalid", "no claim"}
                 /\ Cardinality(Each(p.headers)) = Len(p.headers)
  IN spec.providers # <<>> /\ \A p \in Each(spec.providers) : Good(p)

IssuerKeys(p) == Key("IssuerKeys", "", p.issuer)

\* refresh_issuer_keys, which runs first: the stores the fetches may leave.  A
\* fetch that fails keeps the keys that came from the same URI; one made less
\* than MIN_REFETCH ago is not repeated.
refresh_issuer_keys(st, spec) ==
  LET held(p) == IF Has(st, IssuerKeys(p)) /\ st[IssuerKeys(p)].uri = p.uri THEN st[IssuerKeys(p)].keys ELSE None
      After(s, p, keys) == [s EXCEPT ![IssuerKeys(p)] = [uri |-> p.uri, keys |-> keys]]
      fetched[i \in 0 .. Len(spec.providers)] ==
        IF i = 0 THEN {st}
        ELSE LET p == spec.providers[i] IN {After(s, p, keys) : s \in fetched[i - 1], keys \in {held(p), "keys"}}
  IN fetched[Len(spec.providers)]

\* Whether every issuer has keys (ResolvedRefs).
keys_condition(st, spec) ==
  IF \A p \in Each(spec.providers) : Has(st, IssuerKeys(p)) /\ st[IssuerKeys(p)].keys # None THEN Fine ELSE "JWKSUnavailable"

\* A refused JWTAuthPolicy or ExtAuthPolicy keeps nothing of its spec.
reconcile_jwt_auth_policy(st, k, spec) ==
  IF ValidJwt(spec) THEN Admit(Kept(spec, {"providers"}), keys_condition(st, spec)) ELSE Refuse(None, "Invalid")

\* validate of ext_auth_policy: a Service and port, a path, a timeout in range,
\* header names, and none that is reserved taken from the answer.
MaxTimeout == 60000
ValidExtAuth(spec) ==
  /\ spec.service.name # "" /\ spec.port > 0 /\ spec.pathOk /\ spec.timeout \in 1 .. MaxTimeout
  /\ "invalid" \notin spec.requestHeaders \cup spec.responseHeaders /\ "reserved" \notin spec.responseHeaders

reference_permitted(st, k, spec) ==
  IF is_reference_allowed(st, "ExtAuthPolicy", k.ns, spec.service) THEN Fine ELSE "RefNotPermitted"

reconcile_ext_auth_policy(st, k, spec) ==
  IF ValidExtAuth(spec)
  THEN Admit(Kept(spec, {"service", "port", "timeout", "failOpen", "requestHeaders", "responseHeaders"}),
             reference_permitted(st, k, spec))
  ELSE Refuse(None, "Invalid")

\* normalise of ai_usage_policy: one of tokens and calls, at least 1, in words
\* that are known; only a token budget can fall back to another model, which
\* has a name, and gives it at least one token.
normalise(spec) ==
  /\ spec.target.kind = "AIRoute" /\ spec.wordsOk
  /\ (spec.tokens = None) # (spec.calls = None)
  /\ (IF spec.tokens = None THEN spec.calls ELSE spec.tokens) > 0
  /\ spec.fallback # None => spec.tokens # None /\ spec.fallback # "" /\ spec.overflow # 0

reconcile_ai_usage_policy(spec) ==
  IF normalise(spec) THEN Admit(Kept(spec, {"tokens", "calls", "fallback", "overflow"}), None) ELSE Refuse(None, "Invalid")

PolicyVerdict(st, k, spec) ==
  CASE k.kind = "RateLimitPolicy" -> reconcile_rate_limit_policy(spec)
    [] k.kind = "CircuitBreakerPolicy" -> reconcile_circuit_breaker_policy(spec)
    [] k.kind = "ConnectionPolicy" -> reconcile_connection_policy(spec)
    [] k.kind = "CORSPolicy" -> reconcile_cors_policy(spec)
    [] k.kind = "TimeoutPolicy" -> reconcile_timeout_policy(spec)
    [] k.kind = "RequestBodySizeLimitPolicy" -> reconcile_request_body_size_limit_policy(spec)
    [] k.kind = "HealthCheckPolicy" -> reconcile_health_check_policy(spec)
    [] k.kind = "RetryPolicy" -> reconcile_retry_policy(spec)
    [] k.kind = "IPAllowlistPolicy" -> reconcile_ip_allowlist_policy(spec)
    [] k.kind = "BasicAuthPolicy" -> reconcile_basic_auth_policy(st, k, spec)
    [] k.kind = "APIKeyAuthPolicy" -> reconcile_api_key_auth_policy(st, k, spec)
    [] k.kind = "JWTAuthPolicy" -> reconcile_jwt_auth_policy(st, k, spec)
    [] k.kind = "ExtAuthPolicy" -> reconcile_ext_auth_policy(st, k, spec)
    [] k.kind = "AIUsagePolicy" -> reconcile_ai_usage_policy(spec)

\* The tail the reconcilers share.  A valid policy is stored and contends; one
\* that is not is stored unaccepted, and nobody else is told.  An invalid
\* AIUsagePolicy is the only one that is removed.
Settle(st, k, obj, verdict) ==
  LET state == [target |-> obj.spec.target, spec |-> verdict.kept, gen |-> obj.gen, age |-> obj.spec.age,
                rank |-> obj.spec.rank, accepted |-> verdict.refused = Fine]
      stored == [st EXCEPT ![k] = IF verdict.refused # Fine /\ k.kind = "AIUsagePolicy" THEN None ELSE state]
  IN IF verdict.refused = Fine THEN resolve_conflicts(stored, k, obj.spec.target) ELSE stored

ReconcilePolicy(st, k, obj) == Settle(st, k, obj, PolicyVerdict(st, k, obj.spec))

\* The conditions, from the store Settle left; only an AIUsagePolicy that is
\* not accepted is never Programmed.
PolicyConditions(st, k, obj, verdict, programmed) ==
  LET reason == CASE verdict.refused # Fine -> verdict.refused
                  [] verdict.refused = Fine -> IF st[k].accepted THEN "Accepted" ELSE "Conflicted"
  IN [accepted |-> reason, winner |-> IF reason = "Conflicted" THEN find_winner_key(st, k, obj.spec.target) ELSE {},
      refs |-> verdict.refs, programmed |-> programmed /\ (k.kind = "AIUsagePolicy" => reason = "Accepted"),
      gen |-> obj.gen]

PolicyStatusOf(st, k, obj, programmed) ==
  <<[parent |-> None, conditions |-> PolicyConditions(st, k, obj, PolicyVerdict(st, k, obj.spec), programmed)]>>

----------------------------------------------------------------------------
(* BackendTLSPolicies: several targets, one stored entry *)

\* One caCertificateRef: a ConfigMap of the policy's namespace with a ca.crt.
resolve_ca_cert(st, ref) ==
  CASE ref.kind # "ConfigMap" -> "InvalidKind"
    [] ~Has(st, ref) -> "InvalidCACertificateRef"
    [] OTHER -> IF st[ref].pem THEN Fine ELSE "InvalidCACertificateRef"

\* One good reference is enough; with none the last one's failure is told.
CaRefs(st, refs) ==
  LET why == [i \in DOMAIN refs |-> resolve_ca_cert(st, refs[i])]
  IN CASE refs = <<>> -> "InvalidCACertificateRef"
       [] Fine \in Each(why) -> Fine
       [] OTHER -> why[Len(why)]

\* Each target is stored under the policy's own key, over the one before it.
ReconcileBackendTLS(st, k, obj) ==
  LET ok == CaRefs(st, obj.spec.refs) = Fine
      targets == obj.spec.targets
      State(t) == [target |-> t, spec |-> obj.spec, gen |-> obj.gen, age |-> obj.spec.age, rank |-> obj.spec.rank,
                   accepted |-> ok]
      after[i \in 0 .. Len(targets)] ==
        IF i = 0 THEN st
        ELSE LET s == [after[i - 1] EXCEPT ![k] = State(targets[i])]
             IN IF ok THEN resolve_conflicts(s, k, targets[i]) ELSE s
  IN after[Len(targets)]

\* Gateways whose accepted HTTPRoutes use a target, else those of the policy's
\* namespace; MaxAncestors of them.
find_ancestor_gateways(st, k, spec) ==
  LET services == {Key("Service", k.ns, t.name) : t \in Each(spec.targets)}
      users == {r \in Stored(st, "HTTPRoute") : \E b \in Each(st[r].backends) : Each(b) \cap services # {}}
      used == UNION {{Key(p.kind, p.ns, p.name) : p \in {q \in Each(st[r].parents) : q.accepted}} : r \in users}
  IN IF used # {} THEN used ELSE {g \in Stored(st, "Gateway") : g.ns = k.ns}

\* An entry per ancestor, all alike; the diff before the write looks at the
\* first one's conditions only.
BackendTLSStatusOf(st, k, obj) ==
  LET refs == CaRefs(st, obj.spec.refs)
      won == Has(st, k) /\ st[k].accepted
      conditions ==
        [accepted |-> IF refs # Fine THEN "NoValidCACertificate" ELSE IF won THEN "Accepted" ELSE "Conflicted",
         winner |-> IF refs = Fine /\ ~won THEN find_winner_key(st, k, obj.spec.targets[1]) ELSE {},
         refs |-> refs, gen |-> obj.gen]
  IN SetToSeq({[parent |-> g, conditions |-> conditions] : g \in find_ancestor_gateways(st, k, obj.spec)})

----------------------------------------------------------------------------
(* AIProviders *)

\* Every member of a federation is a stored provider of kind mcp, and no two
\* have one name.
FederationOk(st, k, spec) ==
  /\ spec.members # <<>>
  /\ Cardinality(Each(spec.members)) = Len(spec.members)
  /\ \A m \in Each(spec.members) : Has(st, Key("AIProvider", k.ns, m)) /\ st[Key("AIProvider", k.ns, m)].kind = "mcp"

\* What a provider's Accepted message names.
ProviderProblems(st, k, spec) ==
  (IF spec.kind \in {"openai", "anthropic", "mcp", "mcp-federation"} THEN {} ELSE {"kind"})
  \cup (IF spec.kind = "mcp-federation"
        THEN IF FederationOk(st, k, spec) THEN {} ELSE {"members"}
        ELSE (IF spec.host # None THEN {} ELSE {"url"}) \cup (IF spec.members = <<>> THEN {} ELSE {"members"}))
  \cup (IF spec.secret = None \/ Has(st, spec.secret) THEN {} ELSE {"credential"})

\* A provider's endpoints are stored under the Service made up for it.
OwnEndpoints(k) == Key("ProviderEndpoints", k.ns, k.name)

\* forget: a provider goes with its endpoints.
ForgetProvider(st, k) ==
  [q \in Keys |-> IF q = k \/ (Has(st, k) /\ q = OwnEndpoints(k)) THEN None ELSE st[q]]

\* An accepted provider is stored; one that is not is removed with its
\* endpoints.
ReconcileProvider(st, k, obj) ==
  IF ProviderProblems(st, k, obj.spec) = {}
  THEN [st EXCEPT ![k] = [kind |-> obj.spec.kind, host |-> obj.spec.host, members |-> obj.spec.members, gen |-> obj.gen]]
  ELSE ForgetProvider(st, k)

ProviderStatusOf(st, k, obj, programmed) ==
  LET problems == ProviderProblems(st, k, obj.spec)
  IN <<[parent |-> None, conditions |-> [problems |-> problems, programmed |-> problems = {} /\ programmed, gen |-> obj.gen]]>>

\* A host that is a Service of the cluster lends its providers its endpoints;
\* one with none keeps them on the last good set.
cluster_local_service(st, k) == IF st[k].host.kind = "Service" THEN {Key("Endpoints", st[k].host.ns, st[k].host.name)} ELSE {}

sync_cluster_local(st, providers) ==
  [q \in Keys |->
     LET lent == {e \in UNION {cluster_local_service(st, p) : p \in {r \in providers : OwnEndpoints(r) = q}} : Has(st, e)}
     IN IF lent = {} THEN st[q] ELSE st[CHOOSE e \in lent : TRUE]]

\* refresh_for_service: only those in front of the Service that changed.
Fronting(st, ns, service) == {p \in Stored(st, "AIProvider") : Key("Endpoints", ns, service) \in cluster_local_service(st, p)}

----------------------------------------------------------------------------
(* The shape of objects *)

Option(S) == S \cup {None}
NamespacedName == [kind : STRING, ns : STRING, name : STRING]
Pattern == Patterns(STRING)
LabelSelector == SUBSET STRING

----------------------------------------------------------------------------
(* Gateway API *)

GatewayClassSpec == [ours : BOOLEAN]

GatewayAddress == [type : STRING, value : STRING]
FrontendTLSValidation == [mode : STRING, refs : Seq(NamespacedName)]
\* Port 0 is the default block.
GatewayTLS(tls) ==
  /\ \A p \in DOMAIN tls.frontend : p \in 0 .. 65535 /\ tls.frontend[p] \in FrontendTLSValidation
  /\ tls.clientCert \in Option(NamespacedName)
AllowedListeners == [from : STRING, labels : LabelSelector]
GatewayTLSConfig == [mode : STRING, certs : Seq(NamespacedName)]
Listener == [name : STRING, port : 1 .. 65535, protocol : STRING, hostname : Pattern, kinds : SUBSET STRING,
             from : STRING, selector : Option(LabelSelector), tls : Option(GatewayTLSConfig)]
GatewaySpec(spec) ==
  /\ DOMAIN spec = {"class", "params", "addresses", "listeners", "tls", "allowed"}
  /\ spec.class \in STRING /\ spec.params \in BOOLEAN
  /\ spec.addresses \in Seq(GatewayAddress) /\ spec.listeners \in Seq(Listener)
  /\ GatewayTLS(spec.tls) /\ spec.allowed \in AllowedListeners

ListenerSetSpec == [parent : NamespacedName, age : Nat, rank : Nat, listeners : Seq(Listener)]

ParentReference == [kind : STRING, ns : STRING, name : STRING, section : Option(STRING), port : Option(1 .. 65535)]
HTTPRouteRule == [regexOk : BOOLEAN, backends : Seq(NamespacedName)]
HTTPRouteSpec == [parents : Seq(ParentReference), hostnames : SUBSET Pattern, rules : Seq(HTTPRouteRule)]
\* The other kinds have the same parts; only an HTTPRoute's matches can fail.
GRPCRouteSpec == HTTPRouteSpec
TLSRouteSpec == HTTPRouteSpec
L4RouteSpec == {spec \in HTTPRouteSpec : spec.hostnames = {}}

BackendTLSPolicySpec == [targets : Seq(NamespacedName), refs : Seq(NamespacedName), age : Nat, rank : Nat]

ReferenceGrantSpec == [from : SUBSET [kind : STRING, ns : STRING], to : SUBSET [kind : STRING, name : Option(STRING)]]

----------------------------------------------------------------------------
(* portus-gateway.dev *)

\* Every policy names its target; what else it holds is its kind's.
PolicySpec(spec) == {"target", "age", "rank"} \subseteq DOMAIN spec /\ spec.target \in NamespacedName

AIProviderSpec == [kind : STRING, host : Option(NamespacedName), members : Seq(STRING), secret : Option(NamespacedName)]
AIRouteRule == [matchOk : BOOLEAN, providers : Seq(STRING), rewriteOk : BOOLEAN]
AIRouteSpec == [parents : Seq(ParentReference), hostnames : SUBSET Pattern, authOk : BOOLEAN, rules : Seq(AIRouteRule)]

SpecOf(kind, spec) ==
  CASE kind = "GatewayClass" -> spec \in GatewayClassSpec
    [] kind = "Gateway" -> GatewaySpec(spec)
    [] kind = "ListenerSet" -> spec \in ListenerSetSpec
    [] kind = "HTTPRoute" -> spec \in HTTPRouteSpec
    [] kind = "GRPCRoute" -> spec \in GRPCRouteSpec
    [] kind = "TLSRoute" -> spec \in TLSRouteSpec
    [] kind \in {"TCPRoute", "UDPRoute"} -> spec \in L4RouteSpec
    [] kind = "AIRoute" -> spec \in AIRouteSpec
    [] kind = "AIProvider" -> spec \in AIProviderSpec
    [] kind = "BackendTLSPolicy" -> spec \in BackendTLSPolicySpec
    [] kind = "ReferenceGrant" -> spec \in ReferenceGrantSpec
    [] kind \in PolicyKinds -> PolicySpec(spec)
    [] OTHER -> TRUE

----------------------------------------------------------------------------
(* The ConfigStore *)

ListenerStates ==
  [name : STRING, port : 1 .. 65535, protocol : STRING, hostname : Pattern, from : STRING,
   selector : Option(LabelSelector), mode : Option(STRING), accepted : BOOLEAN, conflicted : BOOLEAN,
   resolved : BOOLEAN, certs : Seq(NamespacedName)]
ClientValidationOutcome == [valid : BOOLEAN, cas : Seq(NamespacedName), mode : STRING, error : STRING]
ParentRefState ==
  [kind : STRING, ns : STRING, name : STRING, section : Option(STRING), port : Option(1 .. 65535),
   accepted : BOOLEAN, resolved : BOOLEAN, reason : Option(STRING)]
RouteState ==
  [parents : Seq(ParentRefState), hostnames : SUBSET Pattern, gen : Nat, backends : Seq(Seq(NamespacedName)),
   reason : Option(STRING)]

GatewayStates(state) ==
  /\ state.listeners \in Seq(ListenerStates) /\ state.gen \in Nat /\ state.allowed \in AllowedListeners
  /\ \A p \in DOMAIN state.tls.frontend : state.tls.frontend[p] \in ClientValidationOutcome
ListenerSetStates ==
  [parent : NamespacedName, listeners : Seq(ListenerStates), accepted : BOOLEAN, gen : Nat, reason : STRING,
   age : Nat, rank : Nat]

\* A policy or BackendTLSPolicy that is stored knows its target and its place
\* among that target's policies.
PolicyStates(state) == state.target \in NamespacedName /\ state.age \in Nat /\ state.rank \in Nat /\ state.accepted \in BOOLEAN

StateOf(kind, state) ==
  CASE kind = "Gateway" -> GatewayStates(state)
    [] kind = "ListenerSet" -> state \in ListenerSetStates
    [] kind \in {"HTTPRoute", "GRPCRoute", "TLSRoute", "TCPRoute", "UDPRoute", "AIRoute"} -> state \in RouteState
    [] kind \in PolicyKinds \cup {"BackendTLSPolicy"} -> PolicyStates(state)
    [] OTHER -> TRUE
=============================================================================
