------------------------------ MODULE Frontend ------------------------------
(* A data plane around its request path (portus-dataplane-core): bootstrap,  *)
(* apply_config on the thread that received a config, the listener manager,  *)
(* frontend TLS and, in standalone mode, the reloader and the ACME client.   *)
(*                                                                           *)
(* A world is a scenario: the mode, the configs the controller pushes in     *)
(* turn, what changes on disk and in DNS in turn, the connections and        *)
(* datagrams clients send, and which faults happen.                          *)
EXTENDS Listeners, FrontendTls, Standalone, Acme

CONSTANTS Worlds

ASSUME WorldsAssumption == \A w \in Worlds : w.datagrams \subseteq Ports \X Peers

VARIABLES
  world,
  up,           \* boot, configured (the first config is in), up, draining or exited
  received,     \* configs received from the controller
  changed,      \* changes made to the world
  applying      \* apply_config: the next store, and the config

own == <<world, up, received, changed, applying>>
vars == <<own, listenerVars, tlsVars, reloadVars, acmeVars>>

Idle == [stage |-> "none", config |-> <<>>]

Init ==
  /\ world \in Worlds
  /\ up = "boot" /\ received = 0 /\ changed = 0 /\ applying = Idle
  /\ ListenersInit(world.held) /\ TlsInit /\ AcmeInit
  /\ ReloadInit(world.yaml, world.files, world.lookup)

Can(fault) == fault \in world.faults
Running == up # "exited"
InStandalone == world.mode = "standalone"

----------------------------------------------------------------------------
(* apply_config, one thread at a time: the slots are stored one by one *)

ReceiveConfig ==
  /\ Running /\ ~InStandalone /\ applying.stage = "none" /\ received < Len(world.configs)
  /\ received' = received + 1
  /\ applying' = [stage |-> "tls", config |-> world.configs[received']]
  /\ UNCHANGED <<world, up, changed, listenerVars, tlsVars, reloadVars, acmeVars>>

ApplyTls ==
  /\ Running /\ applying.stage = "tls"
  /\ StoreTls(applying.config)
  /\ applying' = [applying EXCEPT !.stage = "lbs"]
  /\ UNCHANGED <<world, up, received, changed, listenerVars, reloadVars, acmeVars>>

ApplyLbs ==
  /\ Running /\ applying.stage = "lbs"
  /\ StoreLbs(applying.config.pools)
  /\ applying' = [applying EXCEPT !.stage = "l4"]
  /\ UNCHANGED <<world, up, received, changed, tlsVars, reloadVars, acmeVars>>

\* The last store; a config from the controller then marks the data plane as
\* configured.
ApplyL4 ==
  /\ Running /\ applying.stage = "l4"
  /\ StoreL4(applying.config)
  /\ applying' = Idle
  /\ up' = IF up = "boot" /\ ~InStandalone THEN "configured" ELSE up
  /\ reloader' = IF InStandalone THEN [reloader EXCEPT !.pc = "finish"] ELSE reloader
  /\ UNCHANGED <<world, received, changed, tlsVars, acmeVars>>
  /\ UNCHANGED <<disk, lookup, triggers, watching, last, dns, seen, lost>>

----------------------------------------------------------------------------
(* bootstrap *)

\* FIRST_CONFIG_TIMEOUT
GiveUp ==
  /\ up = "boot" /\ ~InStandalone /\ Can("silent")
  /\ up' = "exited"
  /\ UNCHANGED <<world, received, changed, applying, listenerVars, tlsVars, reloadVars, acmeVars>>

frontend_tls ==
  /\ up = "configured"
  /\ IF FirstCert.loads THEN up' = "up" /\ BootTls ELSE up' = "exited" /\ UNCHANGED tlsVars
  /\ UNCHANGED <<world, received, changed, applying, listenerVars, reloadVars, acmeVars>>

start_draining ==
  /\ up = "up" /\ Can("drain")
  /\ up' = "draining"
  /\ UNCHANGED <<world, received, changed, applying, listenerVars, tlsVars, reloadVars, acmeVars>>

----------------------------------------------------------------------------
(* The listener manager, started before frontend_tls *)

Listens == up \in {"configured", "up", "draining"}
Serves == up \in {"up", "draining"}

Manager ==
  /\ Listens
  /\ ManagerPass
  /\ UNCHANGED <<own, tlsVars, reloadVars, acmeVars>>

Connection ==
  /\ Listens
  /\ \E c \in Conns :
       \/ \E t \in world.traffic : Accept(c, t[1], t[2])
       \/ Start(c)
       \/ Peek(c, "hello")
       \/ Handshake(c, TRUE)
       \/ Connect(c, TRUE)
       \/ HandOff(c, up = "draining")
       \/ Serves /\ Leave(c)
  /\ UNCHANGED <<own, tlsVars, reloadVars, acmeVars>>

Handoffs ==
  /\ Serves
  /\ \E s \in Stacks : Receive(s, up = "draining")
  /\ UNCHANGED <<own, tlsVars, reloadVars, acmeVars>>

Failure ==
  /\ Listens /\ Can("refuse")
  /\ \E c \in Conns :
       \/ Peek(c, "none")
       \/ Peek(c, "eof")
       \/ Handshake(c, FALSE)
       \/ Connect(c, FALSE)
  /\ UNCHANGED <<own, tlsVars, reloadVars, acmeVars>>

Pump ==
  /\ Listens
  /\ \E c \in Conns, d \in Dirs : Bytes(c, d) \/ TimedOut(c, d)
  /\ UNCHANGED <<own, tlsVars, reloadVars, acmeVars>>

HangUp ==
  /\ Listens /\ Can("hangup")
  /\ \E c \in Conns : Reset(c) \/ \E d \in Dirs : Eof(c, d)
  /\ UNCHANGED <<own, tlsVars, reloadVars, acmeVars>>

Datagram ==
  /\ Listens
  /\ \E t \in world.datagrams : ForwardOn(t[1], t[2], TRUE) \/ ForwardNew(t[1], t[2], TRUE) \/ Reply(t[1], t[2], TRUE)
  /\ UNCHANGED <<own, tlsVars, reloadVars, acmeVars>>

Unreachable ==
  /\ Listens /\ Can("unreachable")
  /\ \E t \in world.datagrams : ForwardNew(t[1], t[2], FALSE) \/ Reply(t[1], t[2], FALSE)
  /\ UNCHANGED <<own, tlsVars, reloadVars, acmeVars>>

Reap ==
  /\ Listens
  /\ \E q \in Ports : reap(q)
  /\ UNCHANGED <<own, tlsVars, reloadVars, acmeVars>>

Time ==
  /\ Listens /\ Can("time")
  /\ Tick
  /\ UNCHANGED <<own, tlsVars, reloadVars, acmeVars>>

PortFault ==
  /\ Running
  /\ \/ Can("panic") /\ \E p \in Protos : \E q \in bound[p] : TaskEnds(p, q)
     \/ Can("occupy") /\ \E p \in Protos : \E q \in Desired(slot.l4)[p] : Occupy(p, q)
     \/ \E p \in Protos : \E q \in taken[p] \cap world.held : Occupy(p, q)
  /\ UNCHANGED <<own, tlsVars, reloadVars, acmeVars>>

----------------------------------------------------------------------------
(* The hot-reload thread of frontend TLS *)

HotReload ==
  /\ Serves
  /\ Wake \/ LoadSlot \/ InstallCerts \/ InstallPorts
  /\ UNCHANGED <<own, listenerVars, reloadVars, acmeVars>>

----------------------------------------------------------------------------
(* Standalone mode *)

\* A change on disk or in DNS, the next of the world's.
Change ==
  /\ InStandalone /\ Running /\ changed < Len(world.changes)
  /\ changed' = changed + 1
  /\ \E c \in {world.changes[changed']} :
       \/ c.kind = "yaml" /\ Edit(c.yaml)
       \/ c.kind = "file" /\ EditFile(c.file, c.cert)
       \/ c.kind = "dns" /\ DnsChanges(c.host, c.addresses)
  /\ UNCHANGED <<world, up, received, applying, listenerVars, tlsVars, acmeVars>>

Disturb ==
  /\ InStandalone /\ Running /\ Can("touch")
  /\ Touch
  /\ UNCHANGED <<own, listenerVars, tlsVars, acmeVars>>

ReloadStep ==
  /\ InStandalone /\ Running
  /\ TakeTrigger \/ SettleEnds \/ CheckInputs \/ refresh_dns \/ sync_watches
  /\ UNCHANGED <<own, listenerVars, tlsVars, acmeVars>>

Settle ==
  /\ InStandalone /\ Running
  /\ settle
  /\ UNCHANGED <<own, listenerVars, tlsVars, acmeVars>>

\* start: an error in the first load ends the process.
ReadYaml ==
  /\ InStandalone /\ Running
  /\ reload_from_disk
  /\ up' = IF up = "boot" /\ reloader'.pc = "sync" THEN "exited" ELSE up
  /\ UNCHANGED <<world, received, changed, applying, listenerVars, tlsVars, acmeVars>>

\* to_compiled_config reads the ACME cache, and apply_config begins.
CompileYaml ==
  /\ InStandalone /\ Running
  /\ CompileStep
  /\ applying' = IF reloader'.pc # "apply" THEN Idle
                 ELSE [stage |-> "tls", config |-> to_compiled_config(reloader.yaml, disk.files, cache)]
  /\ up' = IF up = "boot" /\ reloader'.pc = "sync" THEN "exited" ELSE up
  /\ UNCHANGED <<world, received, changed, listenerVars, tlsVars, acmeVars>>

Applied ==
  /\ InStandalone /\ Running
  /\ FinishApply
  /\ update(PlanOf(reloader.yaml))
  /\ up' = IF up = "boot" THEN "configured" ELSE up
  /\ UNCHANGED <<world, received, changed, applying, listenerVars, tlsVars>>

\* The ACME client; the reloader is told of a certificate.
AcmeStep ==
  /\ InStandalone /\ Running
  /\ Begin \/ Consider \/ Order(FALSE) \/ Answer \/ SetReady \/ CaValidated \/ Finalize
  /\ UNCHANGED <<own, listenerVars, tlsVars, reloadVars>>

AcmeFault ==
  /\ InStandalone /\ Running /\ Can("acme")
  /\ Fail \/ Order(TRUE) \/ AcmeTick
  /\ UNCHANGED <<own, listenerVars, tlsVars, reloadVars>>

Renewal ==
  /\ InStandalone /\ Running /\ Can("renew")
  /\ \E d \in plan : FallDue(d)
  /\ UNCHANGED <<own, listenerVars, tlsVars, reloadVars>>

Issued ==
  /\ InStandalone /\ Running
  /\ Save
  /\ Raise("cert")
  /\ UNCHANGED <<own, listenerVars, tlsVars, disk, lookup, watching, reloader, last, dns, seen, lost>>

----------------------------------------------------------------------------
Next ==
  \/ ReceiveConfig \/ ApplyTls \/ ApplyLbs \/ ApplyL4
  \/ GiveUp \/ frontend_tls \/ start_draining
  \/ Manager \/ Connection \/ Handoffs \/ Failure \/ Pump \/ HangUp \/ PortFault
  \/ Datagram \/ Unreachable \/ Reap \/ Time
  \/ HotReload
  \/ Change \/ Disturb \/ Settle \/ ReloadStep \/ ReadYaml \/ CompileYaml \/ Applied
  \/ AcmeStep \/ AcmeFault \/ Renewal \/ Issued

\* Each thread goes on while it has something to do.
Fairness ==
  /\ WF_vars(ReceiveConfig) /\ WF_vars(ApplyTls) /\ WF_vars(ApplyLbs) /\ WF_vars(ApplyL4)
  /\ WF_vars(frontend_tls) /\ WF_vars(Manager) /\ WF_vars(HotReload)
  /\ WF_vars(ReloadStep) /\ WF_vars(ReadYaml) /\ WF_vars(CompileYaml) /\ WF_vars(Applied)

Spec == Init /\ [][Next]_vars /\ Fairness

----------------------------------------------------------------------------
\* The state is well formed.
TypeOK ==
  /\ up \in {"boot", "configured", "up", "draining", "exited"}
  /\ applying.stage \in {"none", "tls", "lbs", "l4"}
  /\ ListenersTypeOK /\ TlsTypeOK /\ ReloadTypeOK /\ AcmeTypeOK

\* A connection sent to a backend by its SNI goes where a route says that is
\* under the most specific listener of its port that claims the name: no
\* other listener claims it with a narrower hostname (handle_l4_connection).
Narrower(a, b) ==
  \/ a.kind = "exact" /\ b.kind # "exact"
  \/ a.kind = "wild" /\ b.kind = "any"
  \/ a.kind = "wild" /\ b.kind = "wild" /\ Below(a.name, b.name)

SniRouted ==
  \A c \in Conns :
    conn[c].decision.kind \in {"Passthrough", "TlsTerminate"} =>
      \E l \in OnPort(conn[c].l4, conn[c].port) :
        /\ listener_hostname_claims(l.hostname, conn[c].sni)
        /\ \E p \in DOMAIN l.routes : l.routes[p] = conn[c].decision.service /\ listener_hostname_claims(p, conn[c].sni)
        /\ \A k \in OnPort(conn[c].l4, conn[c].port) :
             listener_hostname_claims(k.hostname, conn[c].sni) => ~Narrower(k.hostname, l.hostname)

\* Each time the counter of a target comes round, every backend was chosen as
\* often as its weight says (L4RouteTarget::select).
SharesExact ==
  \A q \in Ports :
    LET shares(p, backends) ==
          turn[p][q] = 0 /\ round[p][q] # <<>> =>
            \A i \in DOMAIN backends : Len(SelectSeq(round[p][q], LAMBDA x : x = i)) = backends[i].weight
    IN /\ q \in DOMAIN slot.l4.tcp_proxy => shares("tcp", slot.l4.tcp_proxy[q])
       /\ q \in DOMAIN slot.l4.udp_proxy => shares("udp", slot.l4.udp_proxy[q])

\* Every connection a task of the L4 runtime holds has one permit, and a
\* connection that ended or went over to the stack has none (accept_loop).
PermitsExact ==
  permits + Cardinality({c \in Conns : conn[c].pc \notin {"free", "queued", "stack"}}) = MaxConnections

\* A session no byte crossed is over before twice the idle timeout, although
\* each direction waits on its own (copy_bidirectional_idle).
QuietSessionsEnd == \A c \in Conns : conn[c].pc = "proxy" => conn[c].quiet < 2 * L4Idle

\* While neither side hangs up, a session with traffic in one direction is
\* not ended by the other's silence.
BusySessionsStay ==
  \A c \in Conns :
    conn[c].pc = "proxy" /\ ~Can("hangup") /\ conn'[c].pc # "proxy" => conn[c].quiet >= L4Idle

\* Ports the config in force does not want are given up, with their sessions,
\* once the manager has seen it (run_l4_proxy).
StalePortsReleased ==
  slot.n = last_cfg =>
    \A p \in Protos : bound[p] \subseteq Desired(slot.l4)[p]
                        /\ \A q \in Ports, x \in Peers : session[q][x].open => q \in Listening("udp")

\* A port's session table never holds more than its bound, dead sessions
\* counted (udp_listener_loop).
UdpBounded == \A q \in Ports : Size(q) <= MaxUdpSessions

\* No datagram keeps a session alive whose reply pump has ended.
DeadSessionsUnused ==
  \A q \in Ports, p \in Peers :
    session[q][p].dead /\ session'[q][p].dead => session'[q][p].quiet >= session[q][p].quiet

\* When the hot-reload thread waits and was not told of anything more, every
\* name of the slot is answered with its certificate, and exactly the ports
\* with strict validation turn away a client without one, unless no
\* certificate of the slot loads (start_tls_cert_hot_reload).
CertsSettle ==
  Serves /\ reloading.pc = "wait" /\ ~permit =>
    \A data \in tls_slot :
      Loading(data) # <<>> =>
        /\ \A i \in DOMAIN Loading(data) :
             LET e == Loading(data)[i] IN
             e.hostname.kind = "exact" /\ (\A j \in DOMAIN Loading(data) : Loading(data)[j].hostname = e.hostname => i = j)
               => resolve(e.hostname.name) = e.cert
        /\ \A q \in Ports :
             Accepts(q, "none") <=> (q \in DOMAIN data.validation => data.validation[q].mode # "strict")

\* Between two reloads the YAML to reapply is the one whose config was applied
\* last, whatever failed since (Reloader::apply).
LastIsServed ==
  InStandalone /\ Listens /\ reloader.pc \in {"wait", "settle", "check", "read"} =>
    \E yaml \in last : slot.l4 = build_l4_config_from_proto(to_compiled_config(yaml, disk.files, cache))

\* A backend host that once had addresses never loses them to a lookup that
\* fails (resolve_backend_hosts).
PoolsSurviveDns == \A h \in DOMAIN dns \cap DOMAIN dns' : dns[h] # {} => dns'[h] # {}

\* Changes of watched files are never lost: in the end the reloader has seen
\* the YAML on disk and, unless it refused it or a file cannot be read, every
\* certificate file (settle, inputs_unchanged, sync_watches).
ChangesAreSeen ==
  <>[](InStandalone /\ Running =>
         /\ Yaml \in watching \ lost => seen[Yaml] = disk.yaml
         /\ last = {disk.yaml} /\ (\A f \in watching : Content(f) # Unreadable) =>
              \A f \in watching \ lost : seen[f] = Content(f))

\* An issued certificate is served in the end, unless the YAML on disk was
\* refused (settle, reapply, and the whole way to the resolver).
IssuedIsServed ==
  <>[](InStandalone /\ Serves /\ last = {disk.yaml} =>
         \A d \in plan : cache[d] # NoPem => resolve(d.name) = cache[d])

\* The CA never asks for a challenge before its response can be given (order).
ChallengeAnswered == client.pc = "validate" => client.domain \subseteq challenges

\* Failed orders of a domain stay below what the CA allows in an hour, from
\* the time its listener was configured (manage).
OrdersSpaced == \A d \in Domains : Cardinality(failed[d]) <= MaxFailed

\* Connections go where their SNI and the weights say (l4_proxy.rs).
L4Routed == TypeOK /\ SniRouted /\ SharesExact

\* Ports, permits and sessions are those of the config and the traffic: none
\* leaks, none is kept for ever, none beyond its bound (l4_proxy.rs,
\* udp_proxy.rs).
SessionsExact == PermitsExact /\ QuietSessionsEnd /\ StalePortsReleased /\ UdpBounded

\* No step ends what is in use or keeps what is dead: sessions, and the
\* addresses of a backend.
StepsKeepLive == [][BusySessionsStay /\ DeadSessionsUnused /\ PoolsSurviveDns]_vars

\* Standalone mode goes back to what it served, orders no more than the CA
\* allows and answers what the CA asks (reload.rs, acme.rs).
StandaloneSound == LastIsServed /\ ChallengeAnswered /\ OrdersSpaced

\* What changed on disk, and what was issued, is served in the end.
ChangesAreServed == ChangesAreSeen /\ IssuedIsServed
=============================================================================
