----------------------------- MODULE Reconcile -----------------------------
(* The controllers of portus-controller: registry.rs runs one per kind, each *)
(* with a watch that fills its reflector, a queue in which an object is at   *)
(* most once and runs at most once at a time, and the eviction of what is    *)
(* gone; triggers.rs re-runs dependents on the events of the ConfigStore.    *)
(* What a reconcile makes of its object is in RouteStatus, GatewayStatus and *)
(* PolicyStatus.                                                             *)
(*                                                                           *)
(* A reconcile works on the object and the status its reflector held when it *)
(* began.  It writes the store and publishes in one go; the calls to the API *)
(* server, the provisioner's and the status write, come after and can fail.  *)
EXTENDS Triggers

CONSTANTS
  Worlds,      \* by name: the objects' specs and reachable data planes at the start, the edits that may be
               \* made, and the bounds maxEdits and maxFailures on edits and on failing calls
  BusCapacity  \* EVENT_CAPACITY: the events the broadcast channel holds for a receiver

ASSUME CapacityAssumption == BusCapacity \in Nat \ {0}

VARIABLES
  world,       \* the world this behaviour is in
  cluster,     \* API server: the objects
  status,      \* API server: their status
  cache,       \* reflectors: object and status as last watched
  seen,        \* watches of another kind: the object last delivered
  store,       \* the ConfigStore
  bus,         \* per subscribed kind: events not received yet
  queue,       \* objects whose reconcile is due
  timers,      \* objects to reconcile again after a while
  job,         \* reconciles waiting for the API server
  programmed,  \* Gateways whose data plane runs their slice (ConfigDelivery)
  up,          \* Gateways whose data plane has an endpoint that is ready and reachable
  edits, failures,
  raced,       \* history: objects whose last diff was with a status since replaced
  pruned       \* history: objects the periodic prune removed

vars == <<world, cluster, status, cache, seen, store, bus, queue, timers, job, programmed, up, edits, failures,
          raced, pruned>>
api == <<world, cluster, seen, programmed, up, edits>>

\* Kinds with a generation, whose status echo is filtered (spec_controller);
\* the others' controllers run on every event.
StatusKinds == RouteKinds \cup PolicyKinds \cup {"GatewayClass", "Gateway", "ListenerSet", "BackendTLSPolicy", "AIProvider"}
MadeKinds == {"Endpoints", "ProviderEndpoints", "IssuerKeys"}  \* entries of the store that are no object's
SpecKinds == StatusKinds \cup {"ReferenceGrant"}
Subscribers == {k.kind : k \in {q \in Keys : Listens(q.kind) # {}}}

\* A kind with no object in the world receives nothing that matters.
Edits == Worlds[world].edits  \* of <<key, what, spec>>
Populated(s) == \E k \in DOMAIN Worlds[world].objects \cup {e[1] : e \in Edits} : k.kind = s

\* The watches with cache_then: Gateways follow Secrets, ConfigMaps and
\* EndpointSlices, BackendTLSPolicies ConfigMaps.
Watches ==
  {<<w, k>> \in {"Gateway", "BackendTLSPolicy"} \X Keys :
     k.kind = "ConfigMap" \/ (w = "Gateway" /\ k.kind \in {"Secret", "EndpointSlice"})}

objs == [k \in Keys |-> IF cache[k] = None THEN None ELSE cache[k].object]

----------------------------------------------------------------------------
(* The synchronous half of a reconcile: the store after it *)

RouteStateOf(st, k, obj) ==
  CASE k.kind = "HTTPRoute" -> HTTPRouteState(st, k, obj)
    [] k.kind = "GRPCRoute" -> GRPCRouteState(st, k, obj)
    [] k.kind = "TLSRoute" -> TLSRouteState(st, k, obj)
    [] k.kind = "AIRoute" -> AIRouteState(st, k, obj)
    [] OTHER -> L4RouteState(st, k, obj)

OurClass(st, spec) == Has(st, Key("GatewayClass", "", spec.class))

\* A slice's ready addresses become its Service's; AIProviders in front of the
\* Service follow.
ReconcileSlice(st, k, obj) ==
  LET s == [st EXCEPT ![Key("Endpoints", k.ns, obj.spec.service)] =
                        IF obj.spec.ready = {} THEN None ELSE [ready |-> obj.spec.ready]]
  IN sync_cluster_local(s, Fronting(s, k.ns, obj.spec.service))

\* An AIProvider's reconcile goes on to resolve every provider (resolve_all);
\* hosts outside the cluster, which DNS resolves, are not modelled.
ReconcileAndResolve(st, k, obj) ==
  LET s == ReconcileProvider(st, k, obj) IN sync_cluster_local(s, Stored(s, "AIProvider"))

\* Deletion hooks: what is evicted besides the object's own entry.
Evict(st, k) == IF k.kind = "AIProvider" THEN ForgetProvider(st, k) ELSE [st EXCEPT ![k] = None]

\* Policies and EndpointSlices with a deletionTimestamp carry on; the rest
\* remove the object from the store.
Deletes(k) == k.kind \notin PolicyKinds \cup {"BackendTLSPolicy", "EndpointSlice"}

\* What is kept of the kinds others only refer to.
SecretState(spec) == [pem |-> spec.pem]
ConfigMapState(spec) == [pem |-> spec.pem]
NamespaceLabels(spec) == [labels |-> spec.labels]
ReferenceGrantState(spec) == [from |-> spec.from, to |-> spec.to]
ServicePorts(spec) == [ports |-> spec.ports]

StoreAfter(st, k, obj) ==
  CASE obj.deleting /\ Deletes(k) -> Evict(st, k)
    [] k.kind = "GatewayClass" -> [st EXCEPT ![k] = evaluate_gateway_class(obj)]
    [] k.kind = "Gateway" -> IF OurClass(st, obj.spec) THEN [st EXCEPT ![k] = GatewayState(st, k, obj, programmed)] ELSE st
    [] k.kind = "ListenerSet" -> [st EXCEPT ![k] = evaluate_listener_set(st, k, obj).state]
    [] k.kind \in RouteKinds -> [st EXCEPT ![k] = RouteStateOf(st, k, obj)]
    [] k.kind \in PolicyKinds -> ReconcilePolicy(st, k, obj)
    [] k.kind = "BackendTLSPolicy" -> ReconcileBackendTLS(st, k, obj)
    [] k.kind = "AIProvider" -> ReconcileAndResolve(st, k, obj)
    [] k.kind = "EndpointSlice" -> ReconcileSlice(st, k, obj)
    [] k.kind = "Secret" -> [st EXCEPT ![k] = SecretState(obj.spec)]
    [] k.kind = "ConfigMap" -> [st EXCEPT ![k] = ConfigMapState(obj.spec)]
    [] k.kind = "Namespace" -> [st EXCEPT ![k] = NamespaceLabels(obj.spec)]
    [] k.kind = "ReferenceGrant" -> [st EXCEPT ![k] = ReferenceGrantState(obj.spec)]
    [] k.kind = "Service" -> [st EXCEPT ![k] = ServicePorts(obj.spec)]

\* What a change of an object's own entry publishes: Secrets, ConfigMaps,
\* EndpointSlices and AIProviders nothing.  A route's event names the parents
\* and backends it had and has, a ListenerSet's only the parent it has.
RouteParents(state) == IF state = None THEN {} ELSE {Key(p.kind, p.ns, p.name) : p \in Each(state.parents)}
RouteBackends(state) == IF state = None THEN {} ELSE UNION {Each(b) : b \in Each(state.backends)}

EventOf(old, new, k) ==
  LET last == IF new[k] = None THEN old[k] ELSE new[k]
  IN CASE old[k] = new[k] \/ k.kind \in {"Secret", "ConfigMap", "EndpointSlice", "AIProvider"} -> <<>>
       [] old[k] # new[k] /\ k.kind \in {"GatewayClass", "Gateway", "Service"} -> <<[type |-> k.kind, key |-> k]>>
       [] old[k] # new[k] /\ k.kind = "ListenerSet" -> <<[type |-> "ListenerSet", key |-> k, parent |-> last.parent]>>
       [] old[k] # new[k] /\ k.kind \in RouteKinds ->
            <<[type |-> "Route", key |-> k, parents |-> RouteParents(old[k]) \cup RouteParents(new[k]),
               backends |-> RouteBackends(old[k]) \cup RouteBackends(new[k])]>>
       [] old[k] # new[k] /\ k.kind = "ReferenceGrant" -> <<[type |-> "ReferenceGrant", ns |-> k.ns]>>
       [] old[k] # new[k] /\ k.kind = "Namespace" -> <<[type |-> "Namespace", ns |-> k.name]>>
       [] old[k] # new[k] /\ k.kind \in PolicyKinds \cup {"BackendTLSPolicy"} ->
            <<[type |-> "Policy", key |-> k, target |-> last.target]>>

\* Mutant: routes and Gateways publish whether or not their state changed.
EventsAlways(old, new, k, obj) ==
  IF k.kind \in RouteKinds \cup {"Gateway"} /\ old[k] = new[k] THEN EventOf([old EXCEPT ![k] = None], new, k)
  ELSE EventOf(old, new, k)

\* A Gateway with a deletionTimestamp is removed without an event.
EventsOf(old, new, k, obj) ==
  IF k.kind = "Gateway" /\ obj # None /\ obj.deleting THEN <<>> ELSE EventOf(old, new, k)

\* Mutant: a channel that never drops.
PublishUnbounded(b, events) ==
  [s \in Subscribers |-> b[s] \o SelectSeq(events, LAMBDA e : e.type \in Listens(s) /\ Populated(s))]

\* publish: every subscriber gets the event; one that is full loses its
\* oldest and is told that it lagged.
Publish(b, events) ==
  IF events = <<>> THEN b
  ELSE LET e == Head(events)
           Received(q) == SelectSeq(q, LAMBDA x : x # Lagged)
           Add(q) == IF Len(Received(q)) < BusCapacity THEN Append(q, e)
                     ELSE <<Lagged>> \o Tail(Received(q)) \o <<e>>
       IN [s \in Subscribers |-> IF e.type \in Listens(s) /\ Populated(s) THEN Add(b[s]) ELSE b[s]]

----------------------------------------------------------------------------
(* The status: what is desired, and the part of it the diff compares *)

\* None: no status is written (another controller's object, or no parent).
StatusAfter(st, k, obj) ==
  CASE obj.deleting /\ Deletes(k) -> None
    [] k.kind = "GatewayClass" -> IF st[k] = None THEN None ELSE <<[parent |-> None, conditions |-> st[k]]>>
    [] k.kind = "Gateway" -> IF OurClass(st, obj.spec) THEN GatewayStatusOf(st, k, obj, programmed) ELSE None
    [] k.kind = "ListenerSet" -> ListenerSetStatusOf(st, k, obj, evaluate_listener_set(st, k, obj))
    [] k.kind = "AIRoute" -> AIRouteStatus(st, k, obj, st[k], programmed # {})
    [] k.kind \in RouteKinds \ {"AIRoute"} -> IF st[k] = None THEN None ELSE RouteStatusOf(st, k.kind, st[k])
    [] k.kind \in PolicyKinds -> PolicyStatusOf(st, k, obj, programmed # {})
    [] k.kind = "BackendTLSPolicy" -> BackendTLSStatusOf(st, k, obj)
    [] k.kind = "AIProvider" -> ProviderStatusOf(st, k, obj, programmed # {})
    [] OTHER -> None

\* An address is reported for an accepted Gateway whose data plane is reached,
\* and the accepted ListenerSets are counted once the provisioner is back.
Addressed(st, k, s, reached) ==
  [listeners |-> s.listeners, accepted |-> s.accepted, programmed |-> s.programmed, gen |-> s.gen,
   clientCert |-> s.clientCert, insecure |-> s.insecure,
   sets |-> attached_listener_sets(st, k), address |-> s.accepted.status /\ reached]

\* The status that is written in the end.
Finished(st, k, s, reached) == IF k.kind = "Gateway" /\ s # None THEN Addressed(st, k, s, reached) ELSE s

\* What is compared: not which listener or parent a condition is about, nor
\* the supported kinds; of a BackendTLSPolicy the first ancestor alone; of a
\* ListenerSet's listener not the generation.
Shown(k, s) ==
  CASE s = None -> None
    [] s # None /\ k.kind = "Gateway" ->
         [s EXCEPT !.listeners = [i \in DOMAIN s.listeners |->
                                    <<s.listeners[i].conditions, s.listeners[i].attached>>]]
    [] s # None /\ k.kind = "ListenerSet" ->
         [s EXCEPT !.listeners = [i \in DOMAIN s.listeners |->
                                    <<[s.listeners[i].conditions EXCEPT !.gen = 0], s.listeners[i].attached>>]]
    [] s # None /\ k.kind = "BackendTLSPolicy" -> IF s = <<>> THEN <<>> ELSE s[1].conditions
    [] OTHER -> Conditions(s)

\* A controller that polls until what it misses arrives, or for keys that may
\* have been rotated.
Polls(k, s) ==
  \/ k.kind = "JWTAuthPolicy"
  \/ k.kind = "AIRoute" /\ s[1].conditions.problems # {}
  \/ k.kind = "AIProvider" /\ s[1].conditions.problems # {}

----------------------------------------------------------------------------
(* The cluster *)

Nothing == [k \in Keys |-> None]

\* Either a cold start, or the controllers have already run over the objects
\* in the order of boot and the data planes are up.
Init ==
  /\ world \in DOMAIN Worlds
  /\ programmed = {} /\ up = Worlds[world].up
  /\ cluster = [k \in Keys |-> IF k \in DOMAIN Worlds[world].objects
                               THEN [gen |-> 1, spec |-> Worlds[world].objects[k], deleting |-> FALSE] ELSE None]
  /\ store = FoldLeft(LAMBDA st, k : StoreAfter(st, k, cluster[k]), Nothing, Worlds[world].boot)
  /\ status = [k \in Keys |->
                 IF k \notin Each(Worlds[world].boot) THEN None
                 ELSE Finished(store, k, StatusAfter(store, k, cluster[k]), k \in up)]
  /\ cache = [k \in Keys |-> IF k \in Each(Worlds[world].boot) THEN [object |-> cluster[k], status |-> status[k]] ELSE None]
  /\ seen = [w \in Watches |-> IF w[2] \in Each(Worlds[world].boot) THEN cluster[w[2]] ELSE None]
  /\ job = Nothing /\ bus = [s \in Subscribers |-> <<>>]
  /\ queue = {} /\ timers = {k \in Keys : status[k] # None /\ Polls(k, status[k])}
  /\ edits = 0 /\ failures = 0 /\ raced = {} /\ pruned = {}

\* A user creates or changes an object; a new one has no status.
Edit(k, spec) ==
  /\ edits < Worlds[world].maxEdits /\ edits' = edits + 1
  /\ <<k, "apply", spec>> \in Edits
  /\ IF cluster[k] = None THEN TRUE ELSE ~cluster[k].deleting /\ cluster[k].spec # spec
  /\ cluster' = [cluster EXCEPT ![k] = [gen |-> edits + 2, spec |-> spec, deleting |-> FALSE]]
  /\ UNCHANGED <<world, status, cache, seen, store, bus, queue, timers, job, programmed, up, failures, raced, pruned>>

\* An object is deleted, or only marked when something still holds it.
Delete(k) ==
  /\ edits < Worlds[world].maxEdits /\ edits' = edits + 1
  /\ cluster[k] # None
  /\ \/ /\ <<k, "delete", None>> \in Edits
        /\ cluster' = [cluster EXCEPT ![k] = None] /\ status' = [status EXCEPT ![k] = None]
     \/ /\ <<k, "terminate", None>> \in Edits
        /\ cluster' = [cluster EXCEPT ![k].deleting = TRUE] /\ UNCHANGED status
  /\ UNCHANGED <<world, cache, seen, store, bus, queue, timers, job, programmed, up, failures, raced, pruned>>

\* A data plane acks a Gateway's slice or falls behind (ConfigDelivery has how).
notify_programmed(k) ==
  /\ edits < Worlds[world].maxEdits /\ edits' = edits + 1
  /\ <<k, "programmed", None>> \in Edits
  /\ programmed' = IF k \in programmed THEN programmed \ {k} ELSE programmed \cup {k}
  /\ bus' = Publish(bus, <<[type |-> "Programmed", key |-> k]>>)
  /\ UNCHANGED <<world, cluster, status, cache, seen, store, queue, timers, job, up, failures, raced, pruned>>

\* The EndpointSlice of a Gateway's data plane changes, which re-runs it.
DataPlaneReady(k) ==
  /\ edits < Worlds[world].maxEdits /\ edits' = edits + 1
  /\ <<k, "ready", None>> \in Edits
  /\ up' = IF k \in up THEN up \ {k} ELSE up \cup {k}
  /\ queue' = queue \cup {k}
  /\ UNCHANGED <<world, cluster, status, cache, seen, store, bus, timers, job, programmed, failures, raced, pruned>>

----------------------------------------------------------------------------
(* The controllers *)

\* An object as the API server has it.
Current(k) == IF cluster[k] = None THEN None ELSE [object |-> cluster[k], status |-> status[k]]

\* A kind's own watch: the reflector sees every event, the queue only those
\* whose spec_change_key moved (kinds that are filtered).
Watch(k) ==
  /\ cache[k] # Current(k)
  /\ cache' = [cache EXCEPT ![k] = Current(k)]
  /\ LET same == cache[k] # None /\ cluster[k] # None /\ cache[k].object = cluster[k]
     IN queue' = IF same /\ k.kind \in SpecKinds THEN queue ELSE queue \cup {k}
  /\ UNCHANGED <<api, status, store, bus, timers, job, failures, raced, pruned>>

\* cache_then: the object is stored before its dependents are named.
cache_then(w) ==
  LET k == w[2]
  IN /\ cluster[k] # None /\ seen[w] # cluster[k]
     /\ seen' = [seen EXCEPT ![w] = cluster[k]]
     /\ store' = StoreAfter(store, k, cluster[k])
     /\ queue' = queue \cup Dependents(w[1], k, objs)
     /\ UNCHANGED <<world, cluster, status, cache, bus, timers, job, programmed, up, edits, failures, raced, pruned>>

\* A controller receives the next event, or learns that it lagged.
on_events(s) ==
  /\ bus[s] # <<>>
  /\ bus' = [bus EXCEPT ![s] = Tail(@)]
  /\ queue' = queue \cup AffectedBy(Head(bus[s]), s, objs, store)
  /\ UNCHANGED <<api, status, cache, store, timers, job, failures, raced, pruned>>

Due(k) == k \in queue /\ job[k] = None

\* ObjectNotFound: the Gone hook evicts the object, and says so if it was there.
\* EndpointSlices have none.
Gone(k) ==
  /\ Due(k) /\ cache[k] = None
  /\ queue' = queue \ {k} /\ timers' = timers \ {k}
  /\ store' = IF k.kind = "EndpointSlice" THEN store ELSE Evict(store, k)
  /\ bus' = Publish(bus, EventsOf(store, store', k, None))
  /\ UNCHANGED <<api, status, cache, job, failures, raced, pruned>>

\* The diff before the write: with the status the reflector had.
Diff(k, desired, known) ==
  IF desired # None /\ Shown(k, desired) # Shown(k, known)
  THEN [stage |-> "patch", desired |-> desired] ELSE None

\* The diff found nothing to write although the status is not the one it saw.
Missed(k, desired, known) == desired # None /\ Diff(k, desired, known) = None /\ status[k] # known

\* Only a JWTAuthPolicy's reconcile starts with calls to other hosts.
Refreshed(st, k, obj) == IF k.kind = "JWTAuthPolicy" /\ ValidJwt(obj.spec) THEN refresh_issuer_keys(st, obj.spec) ELSE {st}

Reconcile(k) ==
  /\ Due(k) /\ cache[k] # None
  /\ \E first \in Refreshed(store, k, cache[k].object) :
     \E st \in {StoreAfter(first, k, cache[k].object)} : \E desired \in {StatusAfter(st, k, cache[k].object)} :
       LET known == cache[k].status
           provisions == k.kind = "Gateway" /\ desired # None
       IN /\ store' = st
          /\ bus' = Publish(bus, EventsOf(store, st, k, cache[k].object))
          /\ job' = [job EXCEPT ![k] = IF provisions THEN [stage |-> "provision", desired |-> desired, known |-> known]
                                       ELSE Diff(k, desired, known)]
          /\ timers' = IF desired # None /\ Polls(k, desired) THEN timers \cup {k} ELSE timers \ {k}
          /\ raced' = IF provisions THEN raced
                      ELSE IF Missed(k, desired, known) THEN raced \cup {k} ELSE raced \ {k}
  /\ queue' = queue \ {k}
  /\ UNCHANGED <<api, status, cache, failures, pruned>>

\* A Gateway's second half: the provisioner, the address, the diff.  While the
\* address of an accepted Gateway is withheld it is tried again.
Provision(k) ==
  /\ job[k] # None /\ job[k].stage = "provision"
  /\ LET desired == Addressed(store, k, job[k].desired, k \in up)
     IN /\ job' = [job EXCEPT ![k] = Diff(k, desired, job[k].known)]
        /\ timers' = IF desired.accepted.status /\ k \notin up THEN timers \cup {k} ELSE timers \ {k}
        /\ raced' = IF Missed(k, desired, job[k].known) THEN raced \cup {k} ELSE raced \ {k}
  /\ UNCHANGED <<api, status, cache, store, bus, queue, failures, pruned>>

\* The status is written, whatever it was; 404 means that the object is gone,
\* which evicts it.
Patch(k) ==
  /\ job[k] # None /\ job[k].stage = "patch"
  /\ job' = [job EXCEPT ![k] = None]
  /\ \/ /\ cluster[k] # None
        /\ status' = [status EXCEPT ![k] = job[k].desired]
        /\ UNCHANGED <<store, bus, timers>>
     \/ /\ cluster[k] = None
        /\ store' = Evict(store, k) /\ bus' = Publish(bus, EventsOf(store, store', k, None))
        /\ timers' = timers \ {k} /\ UNCHANGED status
  /\ UNCHANGED <<api, cache, queue, failures, raced, pruned>>

\* error_policy: a call that failed is tried again after ERROR_REQUEUE.
Fail(k) ==
  /\ job[k] # None /\ failures < Worlds[world].maxFailures /\ failures' = failures + 1
  /\ job' = [job EXCEPT ![k] = None] /\ timers' = timers \cup {k}
  /\ UNCHANGED <<api, status, cache, store, bus, queue, raced, pruned>>

Requeue(k) ==
  /\ k \in timers /\ k \notin queue /\ job[k] = None
  /\ timers' = timers \ {k} /\ queue' = queue \cup {k}
  /\ UNCHANGED <<api, status, cache, store, bus, job, failures, raced, pruned>>

\* Every two minutes: what the reflectors no longer hold goes, without an
\* event.  Services, Namespaces and endpoints are not pruned.
prune ==
  LET stale == {k \in Keys : /\ k.kind \notin {"Service", "Namespace"} \cup MadeKinds
                             /\ store[k] # None /\ cache[k] = None}
  IN /\ stale # {}
     /\ pruned' = pruned \cup stale
     /\ store' = [k \in Keys |-> IF k \in stale THEN None ELSE store[k]]
     /\ UNCHANGED <<api, status, cache, bus, queue, timers, job, failures, raced>>

Busy == {k \in Keys : job[k] # None}

Next ==
  \/ \E e \in Edits : Edit(e[1], e[3])
  \/ \E e \in Edits : Delete(e[1])
  \/ \E e \in Edits : notify_programmed(e[1])
  \/ \E e \in Edits : DataPlaneReady(e[1])
  \/ \E k \in Keys : Watch(k)
  \/ \E w \in DOMAIN seen : cache_then(w)
  \/ \E s \in DOMAIN bus : on_events(s)
  \/ \E k \in queue : Gone(k)
  \/ \E k \in queue : Reconcile(k)
  \/ \E k \in Busy : Provision(k)
  \/ \E k \in Busy : Patch(k)
  \/ \E k \in Busy : Fail(k)
  \/ \E k \in timers : Requeue(k)
  \/ prune

\* A due object is taken from the queue: a step of Gone or Reconcile.
Taken == \E k \in queue : Due(k) /\ queue' = queue \ {k}

\* The runtime goes on as long as a watch, an event, a reconcile or an answer
\* of the API server is due, in whatever order among objects; nobody has to
\* edit, fail or prune, and no timer is awaited.
Fairness ==
  /\ \A k \in Keys : WF_vars(Watch(k))
  /\ WF_vars(\E w \in Watches : cache_then(w))
  /\ WF_vars(\E s \in Subscribers : on_events(s))
  /\ WF_queue(Taken)
  /\ WF_vars(\E k \in Keys : Provision(k) \/ Patch(k))

Spec == Init /\ [][Next]_vars /\ Fairness

----------------------------------------------------------------------------
(* Properties *)

\* Objects and stored states have their shape, no receiver holds more events
\* than its channel, and only Gateways wait for the provisioner.
TypeOK ==
  /\ queue \subseteq Keys /\ timers \subseteq Keys /\ up \subseteq Keys /\ programmed \subseteq Keys
  /\ edits \in 0 .. Worlds[world].maxEdits /\ failures \in 0 .. Worlds[world].maxFailures
  /\ \A s \in Subscribers : Len(bus[s]) <= BusCapacity + 1
  /\ \A k \in Keys :
       /\ cluster[k] # None => SpecOf(k.kind, cluster[k].spec)
       /\ store[k] # None => StateOf(k.kind, store[k])
       /\ job[k] # None => job[k].stage = "patch" \/ (job[k].stage = "provision" /\ k.kind = "Gateway")

\* Nothing is on its way: watches delivered, events received, reconciles done.
Quiet ==
  /\ \A k \in Keys : cache[k] = Current(k) /\ job[k] = None
  /\ \A w \in Watches : cluster[w[2]] # None => seen[w] = cluster[w[2]]
  /\ \A s \in Subscribers : bus[s] = <<>>
  /\ queue = {}

\* What one more reconcile, or eviction, would make of the store.
Redone(k) == IF cache[k] = None THEN (IF k.kind = "EndpointSlice" THEN store ELSE Evict(store, k))
             ELSE StoreAfter(store, k, cache[k].object)

\* Once nothing is on its way every object's entry in the store, and with it
\* what is compiled for the data planes, is what its reconciler would make of
\* the cluster and the other entries: no change of a parent, class, Service,
\* grant, label, sibling or certificate is missed by the objects derived from
\* it (the contract of triggers.rs).  Objects waiting for a timer are due, and
\* a prune that got ahead of the eviction hook (which then publishes nothing)
\* is left out.
StoreIsCurrent ==
  Quiet /\ pruned = {} => \A k \in {q \in Keys : q.kind \notin MadeKinds} \ timers : Redone(k) = store

\* Then too every status says what its reconciler would write, unless the last
\* diff of the object was with a status the reflector had not caught up with.
StatusIsCurrent ==
  Quiet /\ pruned = {} =>
    \A k \in {q \in Keys : q.kind \in StatusKinds /\ cache[q] # None} \ (timers \cup raced) :
      Finished(store, k, StatusAfter(store, k, cache[k].object), k \in up) \in {None, status[k]}

\* A Gateway counts a route on one of its listeners exactly when the route's
\* own status says that the Gateway took it: two reconcilers, each with its
\* own reading of sections, ports, hostnames and namespaces, agree.
RoutesSeeingGateway(g) ==
  {r \in Keys : /\ r.kind \in RouteKinds \ {"AIRoute"} /\ status[r] # None /\ store[r] # None
                /\ \E e \in Each(status[r]) : /\ Key(e.parent.kind, e.parent.ns, e.parent.name) = g
                                              /\ e.conditions.accepted}

AttachedAgrees ==
  Quiet /\ pruned \cup timers \cup raced = {} =>
    \A g \in {q \in Keys : q.kind = "Gateway" /\ status[q] # None /\ store[q] # None /\ OurClass(store, cluster[q].spec)} :
      LET counts == {l.attached : l \in Each(status[g].listeners)}
          n == Cardinality(RoutesSeeingGateway(g))
      IN (\A c \in counts : c <= n) /\ (n > 0 => \E c \in counts : c > 0)

\* What the statuses announce is what is compiled: once nothing is on its way a
\* policy says Accepted exactly when the store has it as the accepted one, and
\* one that says Conflicted names that one (resolve_conflicts, which also
\* writes the siblings' entries, and the events that re-run the siblings).
AnnouncedIsApplied ==
  Quiet /\ pruned = {} =>
    \A k \in {q \in Keys : q.kind \in PolicyKinds /\ cache[q] # None}
            \ (raced \cup {q \in timers : q.kind # "JWTAuthPolicy"}) :
      LET told == status[k][1].conditions
          rivals == Contenders(store, k.kind, cache[k].object.spec.target)
          ahead == {p \in rivals : store[p].accepted}
      IN /\ told.accepted = "Accepted" <=> ahead = {k}
         /\ told.accepted = "Conflicted" => told.winner = ahead
         /\ Cardinality(ahead) <= 1

\* The events die out: whatever the edits and failures, the controllers come to
\* rest again, though each re-runs others that re-run it, or one of them is
\* polling for what it misses or retrying a failed call.
AlwaysSettles == []<>(Quiet \/ timers # {})

\* At rest nothing is left to do: one more run of any reconciler would store and
\* write what is there, and the policies in force are the ones that say so
\* (registry.rs, triggers.rs, status.rs, policy_common.rs).
AtRestIsCurrent == TypeOK /\ StoreIsCurrent /\ StatusIsCurrent /\ AnnouncedIsApplied
=============================================================================
