----------------------------- MODULE Listeners -----------------------------
(* The listener manager and the L4 proxies of the data plane (l4_proxy.rs,   *)
(* udp_proxy.rs): ports bound as the config slot changes, connections sent   *)
(* to a backend or handed to the network stack, UDP sessions.                *)
(*                                                                           *)
(* All of it runs on one single-threaded runtime: a task runs from one await *)
(* to the next without a break.  Configs are stored by another thread.       *)
EXTENDS Integers, L4

CONSTANTS
  Ports, Services, Addrs,
  Conns,              \* connections alive at a time
  Peers,              \* UDP clients
  MaxConnections,     \* L4_CONNECTION_SEMAPHORE
  HandoffQueue,       \* HANDOFF_QUEUE, one for HTTP and one for HTTPS
  MaxUdpSessions,     \* MAX_UDP_SESSIONS, per port
  L4Idle, UdpIdle     \* idle timeouts, in ticks

ASSUME ListenersAssumption ==
  /\ IsFiniteSet(Conns) /\ IsFiniteSet(Peers) /\ Ports \subseteq Nat
  /\ {MaxConnections, HandoffQueue, MaxUdpSessions, L4Idle, UdpIdle} \subseteq Nat \ {0}

Dirs == {"up", "down"}
Stages == {"free", "start", "peek", "handshake", "connect", "proxy", "handoff", "queued", "stack"}

VARIABLES
  slot,        \* L4ConfigSlot: the L4 config and the number of its Arc
  lbs,         \* lbs[s]: the endpoints of a Service
  turn,        \* turn[proto][port]: the counter of the target in the slot, modulo its weight
  round,       \* history: round[proto][port], the backends chosen since the counter was last 0
  last_cfg,    \* the number of the config of the last pass
  bound,       \* bound[proto]: ports whose task is in the table
  dead,        \* dead[proto]: those whose task has ended
  taken,       \* taken[proto]: ports another process holds
  conn,        \* conn[c]: a connection's task
  permits,     \* free permits of the semaphore
  handoff,     \* handoff[stack]: connections sent and not yet received
  session      \* session[port][peer]: the UDP session table of a port

listenerVars == <<slot, lbs, turn, round, last_cfg, bound, dead, taken, conn, permits, handoff, session>>

Protos == {"tcp", "udp"}
Stacks == {"http", "https"}

\* l4: the config its handler loaded; sni: the name in its ClientHello; quiet:
\* ticks since bytes went either way; wait: ticks since a direction's read
\* began; done: directions that saw the end.
Free == [pc |-> "free", port |-> 0, l4 |-> NoL4, sni |-> <<>>, stack |-> "http", decision |-> Decision("Terminate", NoService, NoCert),
         addr |-> "none", quiet |-> 0, wait |-> [d \in Dirs |-> 0], done |-> {}]

NoSession == [open |-> FALSE, service |-> NoService, addr |-> "none", quiet |-> 0, dead |-> FALSE]

ListenersInit(held) ==
  /\ slot = [n |-> 0, l4 |-> NoL4]
  /\ lbs = [s \in Services |-> {}]
  /\ turn = [p \in Protos |-> [q \in Ports |-> 0]]
  /\ round = [p \in Protos |-> [q \in Ports |-> <<>>]]
  /\ last_cfg = -1
  /\ bound = [p \in Protos |-> {}]
  /\ dead = [p \in Protos |-> {}]
  /\ taken = [p \in Protos |-> held]
  /\ conn = [c \in Conns |-> Free]
  /\ permits = MaxConnections
  /\ handoff = [s \in Stacks |-> <<>>]
  /\ session = [q \in Ports |-> [p \in Peers |-> NoSession]]

ListenersTypeOK ==
  /\ slot.n \in Nat /\ last_cfg \in Nat \cup {-1}
  /\ lbs \in [Services -> SUBSET Addrs]
  /\ turn \in [Protos -> [Ports -> Nat]]
  /\ {bound, dead, taken} \subseteq [Protos -> SUBSET Ports]
  /\ \A c \in Conns : conn[c].pc \in Stages /\ conn[c].wait \in [Dirs -> 0 .. L4Idle] /\ conn[c].quiet \in Nat
  /\ permits \in 0 .. MaxConnections
  /\ \A s \in Stacks : Len(handoff[s]) <= HandoffQueue
  /\ \A q \in Ports, p \in Peers : session[q][p].quiet \in 0 .. UdpIdle

----------------------------------------------------------------------------
(* apply_config, the part that stores lbs and then the L4 config: a new Arc, *)
(* whose targets start to count anew.                                        *)

StoreLbs(pools) ==
  /\ lbs' = [s \in Services |-> IF s \in DOMAIN pools THEN pools[s] ELSE {}]
  /\ UNCHANGED <<slot, turn, round, last_cfg, bound, dead, taken, conn, permits, handoff, session>>

StoreL4(config) ==
  /\ slot' = [n |-> slot.n + 1, l4 |-> build_l4_config_from_proto(config)]
  /\ turn' = [p \in Protos |-> [q \in Ports |-> 0]]
  /\ round' = [p \in Protos |-> [q \in Ports |-> <<>>]]
  /\ UNCHANGED <<lbs, last_cfg, bound, dead, taken, conn, permits, handoff, session>>

----------------------------------------------------------------------------
(* run_l4_proxy *)

Desired(l4) == [p \in Protos |-> IF p = "tcp" THEN desired_l4_ports(l4) ELSE desired_udp_ports(l4)]

\* Mutant: ports that are no longer wanted stay.
KeepStale(want) == [p \in Protos |-> (bound[p] \ dead[p]) \cup (want[p] \ taken[p])]

\* Ports with a live task after a pass: the wanted ones, if another process
\* does not hold them.  A failed bind is only logged.
AfterPass(want) == [p \in Protos |-> ((bound[p] \ dead[p]) \cap want[p]) \cup (want[p] \ taken[p])]

\* Each second: a pass, if the slot holds another Arc or a task has ended.
\* The task of a port released or bound anew ends with its sessions; the
\* connections it accepted have tasks of their own.
ManagerPass ==
  /\ slot.n # last_cfg \/ \E p \in Protos : dead[p] # {}
  /\ bound' = AfterPass(Desired(slot.l4))
  /\ dead' = [p \in Protos |-> {q \in dead[p] : q \in Desired(slot.l4)[p] /\ q \notin bound'[p]}]
  /\ session' = [q \in Ports |-> IF q \in bound["udp"] \ dead["udp"] /\ q \in bound'["udp"] THEN session[q]
                                 ELSE [p \in Peers |-> NoSession]]
  /\ last_cfg' = slot.n
  /\ UNCHANGED <<slot, lbs, turn, round, taken, conn, permits, handoff>>

\* The task of a bound port ends (it panicked); its sockets close.
TaskEnds(p, q) ==
  /\ q \in bound[p] \ dead[p]
  /\ dead' = [dead EXCEPT ![p] = @ \cup {q}]
  /\ session' = IF p = "udp" THEN [session EXCEPT ![q] = [x \in Peers |-> NoSession]] ELSE session
  /\ UNCHANGED <<slot, lbs, turn, round, last_cfg, bound, taken, conn, permits, handoff>>

\* Another process takes a port nobody listens on, or gives it up.
Occupy(p, q) ==
  /\ taken' = [taken EXCEPT ![p] = IF q \in @ THEN @ \ {q} ELSE @ \cup {q}]
  /\ q \in taken[p] \/ q \notin bound[p] \ dead[p]
  /\ UNCHANGED <<slot, lbs, turn, round, last_cfg, bound, dead, conn, permits, handoff, session>>

Listening(p) == bound[p] \ dead[p]

turns == <<turn, round>>

\* L4RouteTarget::select on the target of a port, which it counts up.
Selected(p, q, backends) == select(backends, turn[p][q])
Count(p, q, backends) ==
  /\ turn' = [turn EXCEPT ![p][q] = (@ + 1) % total_weight(backends)]
  /\ round' = [round EXCEPT ![p][q] = Append(IF turn[p][q] = 0 THEN <<>> ELSE @, Selected(p, q, backends))]

----------------------------------------------------------------------------
(* accept_loop and handle_l4_connection *)

Others == <<slot, lbs, last_cfg, bound, dead, taken, session>>

\* Mutant: the permit is dropped as soon as it is taken.
AcceptFree(c, q, sni) ==
  /\ conn[c].pc = "free" /\ q \in Listening("tcp") /\ permits > 0
  /\ conn' = [conn EXCEPT ![c] = [Free EXCEPT !.pc = "start", !.port = q, !.sni = sni]]
  /\ UNCHANGED <<turns, handoff, permits, Others>>

\* Without a permit the connection is dropped at once.
Accept(c, q, sni) ==
  /\ conn[c].pc = "free" /\ q \in Listening("tcp") /\ permits > 0
  /\ conn' = [conn EXCEPT ![c] = [Free EXCEPT !.pc = "start", !.port = q, !.sni = sni]]
  /\ permits' = permits - 1
  /\ UNCHANGED <<turns, handoff, Others>>

\* Mutant: a connection the stack has holds a permit still.
ReleaseTwice(c) == conn' = [conn EXCEPT ![c] = Free] /\ permits' = permits + 1

\* The task of a connection ends and drops its permit.
Close(c) ==
  /\ conn' = [conn EXCEPT ![c] = Free]
  /\ permits' = IF conn[c].pc \in {"queued", "stack"} THEN permits ELSE permits + 1

Close0(c) == Close(c) /\ UNCHANGED <<turns, handoff, Others>>

\* resolve_backend, on the endpoints in force now.
Resolve(c, decision, l4, next) ==
  \E found \in {lbs[decision.service]} :
    IF found = {} THEN Close(c)
    ELSE /\ \E a \in found : conn' = [conn EXCEPT ![c] = [@ EXCEPT !.pc = next, !.decision = decision, !.l4 = l4, !.addr = a]]
         /\ UNCHANGED permits

Start(c) ==
  /\ conn[c].pc = "start"
  /\ \E q \in {conn[c].port}, l4 \in {slot.l4} :
       CASE port_role(l4, q) = "Tcp" ->
              IF q \notin DOMAIN l4.tcp_proxy \/ total_weight(l4.tcp_proxy[q]) = 0
              THEN Close(c) /\ UNCHANGED turns
              ELSE \E backends \in {l4.tcp_proxy[q]} :
                     /\ Resolve(c, Decision("Tcp", backends[Selected("tcp", q, backends)].service, NoCert), l4, "connect")
                     /\ Count("tcp", q, backends)
         [] port_role(l4, q) = "Http" ->
              conn' = [conn EXCEPT ![c].pc = "handoff", ![c].l4 = l4, ![c].stack = "http"] /\ UNCHANGED <<turns, permits>>
         [] OTHER ->
              conn' = [conn EXCEPT ![c].pc = "peek", ![c].l4 = l4] /\ UNCHANGED <<turns, permits>>
  /\ UNCHANGED <<handoff, Others>>

\* peek_client_hello returns: the whole ClientHello, no TLS or only a part of
\* it at the deadline (no name), or the client hung up.
Peek(c, outcome) ==
  /\ conn[c].pc = "peek"
  /\ \E d \in {sni_mux_decision(conn[c].l4, conn[c].port, IF outcome = "hello" THEN conn[c].sni ELSE <<>>)} :
       CASE outcome = "eof" \/ d.kind = "Reject" \/ (d.kind = "Terminate" /\ conn[c].port \notin conn[c].l4.https_ports) ->
              Close(c)
         [] d.kind = "Terminate" /\ outcome # "eof" /\ conn[c].port \in conn[c].l4.https_ports ->
              conn' = [conn EXCEPT ![c].pc = "handoff", ![c].stack = "https"] /\ UNCHANGED permits
         [] d.kind \in {"Passthrough", "TlsTerminate"} /\ outcome # "eof" ->
              Resolve(c, d, conn[c].l4, IF d.kind = "Passthrough" THEN "connect" ELSE "handshake")
  /\ UNCHANGED <<turns, handoff, Others>>

\* handle_tls_terminate: the handshake before the backend is dialled.
Handshake(c, ok) ==
  /\ conn[c].pc = "handshake"
  /\ IF ok THEN conn' = [conn EXCEPT ![c].pc = "connect"] /\ UNCHANGED permits ELSE Close(c)
  /\ UNCHANGED <<turns, handoff, Others>>

\* connect_upstream, refused or timed out if not ok.
Connect(c, ok) ==
  /\ conn[c].pc = "connect"
  /\ IF ok THEN conn' = [conn EXCEPT ![c].pc = "proxy"] /\ UNCHANGED permits ELSE Close(c)
  /\ UNCHANGED <<turns, handoff, Others>>

\* hand_off_to_stack: the send waits for room, and fails once the stack drains.
HandOff(c, draining) ==
  /\ conn[c].pc = "handoff"
  /\ IF draining THEN Close(c) /\ UNCHANGED handoff
     ELSE /\ Len(handoff[conn[c].stack]) < HandoffQueue
          /\ handoff' = [handoff EXCEPT ![conn[c].stack] = Append(@, c)]
          /\ conn' = [conn EXCEPT ![c].pc = "queued"]
          /\ permits' = permits + 1
  /\ UNCHANGED <<turns, Others>>

\* handoff_loop; once the stack drains, what is queued is dropped with the queue.
Receive(s, draining) ==
  /\ handoff[s] # <<>>
  /\ IF draining
     THEN /\ conn' = [c \in Conns |-> IF c \in ToSet(handoff[s]) THEN Free ELSE conn[c]]
          /\ handoff' = [handoff EXCEPT ![s] = <<>>]
     ELSE /\ conn' = [conn EXCEPT ![Head(handoff[s])].pc = "stack"]
          /\ handoff' = [handoff EXCEPT ![s] = Tail(@)]
  /\ UNCHANGED <<turns, permits, Others>>

Leave(c) == conn[c].pc = "stack" /\ Close0(c)

----------------------------------------------------------------------------
(* pump, one per direction of a proxied connection *)

Pumping(c, d) == conn[c].pc = "proxy" /\ d \notin conn[c].done

\* Bytes read in one direction and written in the other.
Bytes(c, d) ==
  /\ Pumping(c, d)
  /\ conn' = [conn EXCEPT ![c].quiet = 0, ![c].wait[d] = 0]
  /\ UNCHANGED <<turns, permits, handoff, Others>>

\* The end of one direction; the other goes on until it ends too.
Eof(c, d) ==
  /\ Pumping(c, d)
  /\ IF conn[c].done = {} THEN conn' = [conn EXCEPT ![c].done = {d}] /\ UNCHANGED permits ELSE Close(c)
  /\ UNCHANGED <<turns, handoff, Others>>

Reset(c) == conn[c].pc = "proxy" /\ Close0(c)

\* Mutant: each direction on its own.
TimedOutAlone(c, d) ==
  /\ Pumping(c, d) /\ conn[c].wait[d] = L4Idle
  /\ Close0(c)

\* Mutant: the direction that timed out waits for the other to do so.
KeepWaiting(c, d) ==
  /\ Pumping(c, d) /\ conn[c].wait[d] = L4Idle
  /\ IF conn[c].quiet >= 2 * L4Idle THEN Close(c) ELSE conn' = [conn EXCEPT ![c].wait[d] = 0] /\ UNCHANGED permits
  /\ UNCHANGED <<turns, handoff, Others>>

\* A read has waited for the idle timeout: the session ends if the other
\* direction was quiet as long.
TimedOut(c, d) ==
  /\ Pumping(c, d) /\ conn[c].wait[d] = L4Idle
  /\ IF conn[c].quiet >= L4Idle THEN Close(c) ELSE conn' = [conn EXCEPT ![c].wait[d] = 0] /\ UNCHANGED permits
  /\ UNCHANGED <<turns, handoff, Others>>

----------------------------------------------------------------------------
(* udp_proxy.rs *)

NotUdp == <<slot, lbs, last_cfg, bound, dead, taken, conn, permits, handoff>>

Live(q, p) == session[q][p].open /\ ~session[q][p].dead
Size(q) == Cardinality({p \in Peers : session[q][p].open})

\* Mutant: a dead session is kept and used.
ForwardDead(q, p, ok) ==
  /\ q \in Listening("udp") /\ q \in DOMAIN slot.l4.udp_proxy /\ session[q][p].open
  /\ session' = [session EXCEPT ![q][p].quiet = 0]
  /\ UNCHANGED <<turns, NotUdp>>

\* A datagram of a peer with a session: sent on its socket, whether that
\* succeeds or not.
ForwardOn(q, p, ok) ==
  /\ q \in Listening("udp") /\ q \in DOMAIN slot.l4.udp_proxy /\ Live(q, p)
  /\ session' = [session EXCEPT ![q][p].quiet = 0]
  /\ UNCHANGED <<turns, NotUdp>>

\* Mutant: the bound is on the sessions that are alive.
RoomAlive(q, p) == Cardinality({x \in Peers : Live(q, x)}) < MaxUdpSessions

\* The table has room for one more, once the peer's own dead session is out.
Room(q, p) == Size(q) - (IF session[q][p].open THEN 1 ELSE 0) < MaxUdpSessions

\* A datagram of a peer without one, or with a dead one, which is removed: a
\* session is opened once the first send on its socket succeeded.
ForwardNew(q, p, ok) ==
  /\ q \in Listening("udp") /\ q \in DOMAIN slot.l4.udp_proxy /\ ~Live(q, p)
  /\ \E backends \in {slot.l4.udp_proxy[q]} :
       IF ~Room(q, p) \/ total_weight(backends) = 0
       THEN session' = [session EXCEPT ![q][p] = NoSession] /\ UNCHANGED turns
       ELSE \E s \in {backends[Selected("udp", q, backends)].service} :
              /\ Count("udp", q, backends)
              /\ IF lbs[s] = {} \/ ~ok THEN session' = [session EXCEPT ![q][p] = NoSession]
                 ELSE \E a \in lbs[s] :
                        session' = [session EXCEPT ![q][p] = [NoSession EXCEPT !.open = TRUE, !.service = s, !.addr = a]]
  /\ UNCHANGED NotUdp

\* reply_pump: a reply, or an error of either socket, which ends the pump.
Reply(q, p, ok) ==
  /\ Live(q, p)
  /\ session' = [session EXCEPT ![q][p] = IF ok THEN [@ EXCEPT !.quiet = 0] ELSE [@ EXCEPT !.dead = TRUE]]
  /\ UNCHANGED <<turns, NotUdp>>

Reaped(s) == s.open /\ (s.dead \/ s.quiet >= UdpIdle)

reap(q) ==
  /\ q \in Listening("udp")
  /\ \E p \in Peers : Reaped(session[q][p])
  /\ session' = [session EXCEPT ![q] = [p \in Peers |-> IF Reaped(session[q][p]) THEN NoSession ELSE session[q][p]]]
  /\ UNCHANGED <<turns, NotUdp>>

----------------------------------------------------------------------------
\* A tick of the clock, once every timer that is due has fired.
Tick ==
  /\ \A c \in Conns, d \in Dirs : Pumping(c, d) => conn[c].wait[d] < L4Idle
  /\ \A q \in Listening("udp"), p \in Peers : ~Reaped(session[q][p])
  /\ conn' = [c \in Conns |-> IF conn[c].pc # "proxy" THEN conn[c]
                ELSE [conn[c] EXCEPT !.quiet = @ + 1, !.wait = [d \in Dirs |-> IF d \in conn[c].done THEN 0 ELSE @[d] + 1]]]
  /\ session' = [q \in Ports |-> [p \in Peers |->
                  IF session[q][p].open THEN [session[q][p] EXCEPT !.quiet = @ + 1] ELSE session[q][p]]]
  /\ UNCHANGED <<slot, lbs, turn, round, last_cfg, bound, dead, taken, permits, handoff>>
=============================================================================
