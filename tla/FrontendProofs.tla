--------------------------- MODULE FrontendProofs ---------------------------
(* Proofs about Frontend: the permits, the sessions and the ports of the L4  *)
(* proxies, and what no step of the data plane takes away.                   *)
EXTENDS Frontend, FiniteSetTheorems, TLAPS

----------------------------------------------------------------------------
(* Connections *)

\* The fields of a connection, whatever they hold.
ConnFields == {"pc", "port", "l4", "sni", "stack", "decision", "addr", "quiet", "wait", "done"}
ConnShape(x) == x = [f \in ConnFields |-> x[f]]

\* A direction that still reads began its read less than an idle timeout after
\* the last byte went either way; nothing is counted before the session.
Timers(x) ==
  /\ x.quiet \in Nat /\ x.done \in {{}, {"up"}, {"down"}} /\ x.wait \in [Dirs -> Nat]
  /\ x.pc # "proxy" => x.quiet = 0 /\ x.done = {} /\ \A d \in Dirs : x.wait[d] = 0
  /\ x.pc = "proxy" => \A d \in Dirs : d \notin x.done => x.wait[d] <= L4Idle /\ x.quiet < x.wait[d] + L4Idle

ConnOK(x) == ConnShape(x) /\ x.stack \in Stacks /\ Timers(x)

ConnsOK == conn = [c \in Conns |-> conn[c]] /\ \A c \in Conns : ConnOK(conn[c])

\* What waits in a queue of the stack was queued, and is there once.
QueuesOK ==
  /\ handoff = [s \in Stacks |-> handoff[s]]
  /\ \A s \in Stacks : handoff[s] \in Seq(Conns)
  /\ \A s \in Stacks : \A i \in 1 .. Len(handoff[s]) : conn[handoff[s][i]].pc = "queued"
  /\ \A s, t \in Stacks : \A i \in 1 .. Len(handoff[s]), j \in 1 .. Len(handoff[t]) :
       handoff[s][i] = handoff[t][j] => s = t /\ i = j

\* A connection in this state holds a permit.
Holds(x) == x.pc \notin {"free", "queued", "stack"}

PermitsOK == permits \in Nat /\ PermitsExact

ConnPart == ConnsOK /\ QueuesOK /\ PermitsOK

LEMMA Limits ==
  /\ L4Idle \in Nat \ {0} /\ UdpIdle \in Nat \ {0} /\ MaxConnections \in Nat \ {0}
  /\ HandoffQueue \in Nat \ {0} /\ MaxUdpSessions \in Nat \ {0}
  /\ IsFiniteSet(Conns) /\ IsFiniteSet(Peers)
BY ListenersAssumption

LEMMA FreeOK == ConnOK(Free) /\ ~Holds(Free) /\ Free.pc = "free"
BY Limits DEF ConnOK, ConnShape, ConnFields, Timers, Free, Dirs, Stacks, Holds

Holders(f) == {k \in Conns : f[k].pc \notin {"free", "queued", "stack"}}

\* The connections that hold a permit when one of them changes.
LEMMA HoldersChange ==
  ASSUME NEW f, f = [c \in Conns |-> f[c]], NEW g, NEW c \in Conns, NEW x, g = [f EXCEPT ![c] = x]
  PROVE  /\ Cardinality(Holders(f)) \in Nat
         /\ Cardinality(Holders(g)) =
              Cardinality(Holders(f)) + (IF Holds(x) THEN 1 ELSE 0) - (IF Holds(f[c]) THEN 1 ELSE 0)
<1> DEFINE A == Holders(f)
           B == Holders(g)
<1>1. IsFiniteSet(A) /\ IsFiniteSet(B)
  BY Limits, FS_Subset DEF Holders
<1>2. Cardinality(A) \in Nat /\ Cardinality(B) \in Nat
  BY <1>1, FS_CardinalityType
<1>3. g[c] = x /\ \A k \in Conns : k # c => g[k] = f[k]
  OBVIOUS
<1>4. /\ c \in A <=> Holds(f[c])
      /\ c \in B <=> Holds(x)
      /\ \A k \in Conns : k # c => (k \in A <=> k \in B)
      /\ A \subseteq Conns /\ B \subseteq Conns
  BY <1>3 DEF Holds, Holders
<1> HIDE DEF A, B
<1>5. CASE Holds(f[c]) /\ Holds(x)
  <2>1. A = B
    BY <1>4, <1>5
  <2> QED
    BY <1>2, <1>5, <2>1 DEF A, B
<1>6. CASE ~Holds(f[c]) /\ ~Holds(x)
  <2>1. A = B
    BY <1>4, <1>6
  <2> QED
    BY <1>2, <1>6, <2>1 DEF A, B
<1>7. CASE Holds(f[c]) /\ ~Holds(x)
  <2>1. B = A \ {c} /\ c \in A
    BY <1>4, <1>7
  <2>2. Cardinality(B) = Cardinality(A) - 1
    BY <1>1, <2>1, FS_RemoveElement
  <2> QED
    BY <1>2, <1>7, <2>2 DEF A, B
<1>8. CASE ~Holds(f[c]) /\ Holds(x)
  <2>1. B = A \cup {c} /\ c \notin A
    BY <1>4, <1>8
  <2>2. Cardinality(B) = Cardinality(A) + 1
    BY <1>1, <2>1, FS_AddElement
  <2> QED
    BY <1>2, <1>8, <2>2 DEF A, B
<1> QED
  BY <1>5, <1>6, <1>7, <1>8

\* One connection goes on, without the queues: it takes or gives back the
\* permit its state asks for, and a session ends only if it was idle or a side
\* hung up.
Moves(c, x) ==
  /\ c \in Conns /\ ConnOK(x) /\ conn' = [conn EXCEPT ![c] = x] /\ handoff' = handoff
  /\ conn[c].pc # "queued" /\ x.pc # "queued"
  /\ permits' = permits + (IF Holds(conn[c]) THEN 1 ELSE 0) - (IF Holds(x) THEN 1 ELSE 0)
  /\ Holds(x) /\ ~Holds(conn[c]) => permits > 0
  /\ conn[c].pc = "proxy" /\ x.pc # "proxy" => conn[c].quiet >= L4Idle \/ Can("hangup")

LEMMA MovesKeep ==
  ASSUME ConnPart, NEW c, NEW x, Moves(c, x)
  PROVE  ConnPart'
<1>0. c \in Conns /\ conn' = [conn EXCEPT ![c] = x] /\ conn = [k \in Conns |-> conn[k]]
  BY DEF Moves, ConnPart, ConnsOK
<1>1. /\ conn' = [k \in Conns |-> conn'[k]] /\ conn'[c] = x
      /\ \A k \in Conns : k # c => conn'[k] = conn[k]
  BY <1>0
<1>2. ConnsOK'
  BY <1>1 DEF Moves, ConnPart, ConnsOK
<1>3. QueuesOK'
  <2>1. handoff' = handoff
    BY DEF Moves
  <2>2. ASSUME NEW s \in Stacks, NEW i \in 1 .. Len(handoff[s]) PROVE conn'[handoff[s][i]].pc = "queued"
    <3>1. handoff[s][i] \in Conns /\ conn[handoff[s][i]].pc = "queued"
      BY DEF ConnPart, QueuesOK
    <3> QED
      BY <1>1, <3>1 DEF Moves
  <2> QED
    BY <2>1, <2>2 DEF ConnPart, QueuesOK
<1>4. PermitsOK'
  <2> DEFINE n == Cardinality(Holders(conn))
             m == Cardinality(Holders(conn'))
  <2>1. n \in Nat /\ m = n + (IF Holds(x) THEN 1 ELSE 0) - (IF Holds(conn[c]) THEN 1 ELSE 0)
    BY <1>0, HoldersChange
  <2>2. permits \in Nat /\ permits + n = MaxConnections
    BY DEF ConnPart, PermitsOK, PermitsExact, Holders
  <2> HIDE DEF n, m
  <2>3. permits' \in Nat /\ permits' + m = MaxConnections
    BY <2>1, <2>2 DEF Moves
  <2> QED
    BY <2>3 DEF PermitsOK, PermitsExact, Holders, m
<1> QED
  BY <1>2, <1>3, <1>4 DEF ConnPart

\* A task ends.
LEMMA CloseMoves ==
  ASSUME ConnPart, NEW c \in Conns, Close(c), handoff' = handoff, conn[c].pc \notin {"free", "queued"},
         conn[c].pc = "proxy" => conn[c].quiet >= L4Idle \/ Can("hangup")
  PROVE  Moves(c, Free)
<1>1. conn' = [conn EXCEPT ![c] = Free] /\ permits' = permits + (IF Holds(conn[c]) THEN 1 ELSE 0)
  BY DEF Close, Holds, ConnPart, PermitsOK
<1>2. permits' = permits + (IF Holds(conn[c]) THEN 1 ELSE 0) - (IF Holds(Free) THEN 1 ELSE 0)
  BY <1>1, FreeOK DEF ConnPart, PermitsOK
<1> QED
  BY <1>1, <1>2, FreeOK DEF Moves

\* A task goes on before its session.
LEMMA GotoMoves ==
  ASSUME ConnPart, NEW c \in Conns, NEW x, ConnShape(x), x.stack \in Stacks,
         x.quiet = conn[c].quiet, x.wait = conn[c].wait, x.done = conn[c].done,
         conn' = [conn EXCEPT ![c] = x], permits' = permits, handoff' = handoff,
         conn[c].pc \notin {"proxy", "free", "queued", "stack"}, x.pc \notin {"free", "queued", "stack"}
  PROVE  Moves(c, x)
<1>1. ConnOK(conn[c])
  BY DEF ConnPart, ConnsOK
<1>2. ConnOK(x)
  BY <1>1, Limits DEF ConnOK, Timers
<1>3. permits' = permits + (IF Holds(conn[c]) THEN 1 ELSE 0) - (IF Holds(x) THEN 1 ELSE 0)
  BY DEF ConnPart, PermitsOK, Holds
<1> QED
  BY <1>2, <1>3 DEF Moves, Holds

\* resolve_backend: the backend is dialled, or the task ends.
LEMMA ResolveMoves ==
  ASSUME ConnPart, NEW c \in Conns, NEW decision, NEW l4, NEW next, Resolve(c, decision, l4, next),
         conn[c].pc \notin {"proxy", "free", "queued", "stack"}, next \notin {"free", "queued", "stack"},
         handoff' = handoff
  PROVE  \E x : Moves(c, x)
<1>1. CASE lbs[decision.service] = {}
  <2>1. Close(c)
    BY <1>1 DEF Resolve
  <2> QED
    BY <2>1, CloseMoves
<1>2. CASE lbs[decision.service] # {}
  <2>1. PICK a : conn' = [conn EXCEPT ![c] = [conn[c] EXCEPT !.pc = next, !.decision = decision, !.l4 = l4, !.addr = a]]
    BY <1>2 DEF Resolve
  <2>2. permits' = permits
    BY <1>2 DEF Resolve
  <2> DEFINE x == [conn[c] EXCEPT !.pc = next, !.decision = decision, !.l4 = l4, !.addr = a]
  <2>3. ConnShape(conn[c]) /\ conn[c].stack \in Stacks
    BY DEF ConnPart, ConnsOK, ConnOK
  <2>4. /\ ConnShape(x) /\ x.stack = conn[c].stack /\ x.quiet = conn[c].quiet
        /\ x.wait = conn[c].wait /\ x.done = conn[c].done /\ x.pc = next
    BY <2>3 DEF ConnShape, ConnFields
  <2> HIDE DEF x
  <2>5. conn' = [conn EXCEPT ![c] = x]
    BY <2>1 DEF x
  <2>6. Moves(c, x)
    BY <2>2, <2>3, <2>4, <2>5, GotoMoves
  <2> QED
    BY <2>6
<1> QED
  BY <1>1, <1>2

\* accept_loop
LEMMA AcceptMoves ==
  ASSUME ConnPart, NEW c \in Conns, NEW q, NEW sni, Accept(c, q, sni)
  PROVE  \E x : Moves(c, x)
<1> DEFINE x == [Free EXCEPT !.pc = "start", !.port = q, !.sni = sni]
<1>1. /\ conn' = [conn EXCEPT ![c] = x] /\ conn[c].pc = "free" /\ permits > 0
      /\ permits' = permits - 1 /\ handoff' = handoff
  BY DEF Accept
<1>2. ConnShape(Free) /\ Free.stack \in Stacks /\ Timers(Free) /\ Free.pc = "free"
  BY FreeOK DEF ConnOK
<1>3. /\ ConnShape(x) /\ x.stack = Free.stack /\ x.quiet = Free.quiet /\ x.wait = Free.wait
      /\ x.done = Free.done /\ x.pc = "start"
  BY <1>2 DEF ConnShape, ConnFields
<1> HIDE DEF x
<1>4. ConnOK(x)
  BY <1>2, <1>3 DEF ConnOK, Timers
<1>5. permits' = permits + (IF Holds(conn[c]) THEN 1 ELSE 0) - (IF Holds(x) THEN 1 ELSE 0)
  BY <1>1, <1>3 DEF Holds, ConnPart, PermitsOK
<1>6. Moves(c, x)
  BY <1>1, <1>3, <1>4, <1>5 DEF Moves
<1> QED
  BY <1>6

\* A task whose next stage is the only thing that changes, but for the config
\* it loaded and the stack it goes to.
Staged(c, x, next) ==
  \/ x = [conn[c] EXCEPT !.pc = next]
  \/ \E l4 : x = [conn[c] EXCEPT !.pc = next, !.l4 = l4]
  \/ \E l4 : \E s \in Stacks : x = [conn[c] EXCEPT !.pc = next, !.l4 = l4, !.stack = s]
  \/ \E s \in Stacks : x = [conn[c] EXCEPT !.pc = next, !.stack = s]

LEMMA StageMoves ==
  ASSUME ConnPart, NEW c \in Conns, NEW x, NEW next, Staged(c, x, next),
         conn' = [conn EXCEPT ![c] = x], permits' = permits, handoff' = handoff,
         conn[c].pc \notin {"proxy", "free", "queued", "stack"}, next \notin {"free", "queued", "stack"}
  PROVE  Moves(c, x)
<1>1. ConnShape(conn[c]) /\ conn[c].stack \in Stacks
  BY DEF ConnPart, ConnsOK, ConnOK
<1> DEFINE Kept == /\ ConnShape(x) /\ x.stack \in Stacks /\ x.quiet = conn[c].quiet
                   /\ x.wait = conn[c].wait /\ x.done = conn[c].done /\ x.pc = next
<1>2. ASSUME x = [conn[c] EXCEPT !.pc = next] PROVE Kept
  BY <1>1, <1>2 DEF ConnShape, ConnFields
<1>3. ASSUME NEW l4, x = [conn[c] EXCEPT !.pc = next, !.l4 = l4] PROVE Kept
  BY <1>1, <1>3 DEF ConnShape, ConnFields
<1>4. ASSUME NEW l4, NEW s \in Stacks, x = [conn[c] EXCEPT !.pc = next, !.l4 = l4, !.stack = s] PROVE Kept
  BY <1>1, <1>4 DEF ConnShape, ConnFields
<1>5. ASSUME NEW s \in Stacks, x = [conn[c] EXCEPT !.pc = next, !.stack = s] PROVE Kept
  BY <1>1, <1>5 DEF ConnShape, ConnFields
<1> HIDE DEF Kept
<1>6. Kept
  BY <1>2, <1>3, <1>4, <1>5, Zenon DEF Staged
<1> QED
  BY <1>6, GotoMoves DEF Kept

\* One field, or several, of one connection.
LEMMA OneConn ==
  ASSUME ConnsOK, NEW c \in Conns, NEW pc, NEW l4, NEW s
  PROVE  /\ [conn EXCEPT ![c].pc = pc] = [conn EXCEPT ![c] = [conn[c] EXCEPT !.pc = pc]]
         /\ [conn EXCEPT ![c].pc = pc, ![c].l4 = l4] = [conn EXCEPT ![c] = [conn[c] EXCEPT !.pc = pc, !.l4 = l4]]
         /\ [conn EXCEPT ![c].pc = pc, ![c].stack = s] = [conn EXCEPT ![c] = [conn[c] EXCEPT !.pc = pc, !.stack = s]]
         /\ [conn EXCEPT ![c].pc = pc, ![c].l4 = l4, ![c].stack = s] =
              [conn EXCEPT ![c] = [conn[c] EXCEPT !.pc = pc, !.l4 = l4, !.stack = s]]
BY DEF ConnsOK

\* handle_l4_connection, as far as it decides.
LEMMA StartMoves ==
  ASSUME ConnPart, NEW c \in Conns, Start(c)
  PROVE  \E x : Moves(c, x)
<1> DEFINE q == conn[c].port
           l4 == slot.l4
<1>1. conn[c].pc = "start" /\ handoff' = handoff /\ ConnsOK
  BY DEF Start, ConnPart
<1>2. \/ Close(c)
      \/ \E d : Resolve(c, d, l4, "connect")
      \/ conn' = [conn EXCEPT ![c].pc = "handoff", ![c].l4 = l4, ![c].stack = "http"] /\ permits' = permits
      \/ conn' = [conn EXCEPT ![c].pc = "peek", ![c].l4 = l4] /\ permits' = permits
  <2>1. CASE port_role(l4, q) = "Tcp"
    BY <2>1, Zenon DEF Start
  <2>2. CASE port_role(l4, q) = "Http"
    BY <2>2 DEF Start
  <2>3. CASE port_role(l4, q) # "Tcp" /\ port_role(l4, q) # "Http"
    BY <2>3 DEF Start
  <2> QED
    BY <2>1, <2>2, <2>3
<1> HIDE DEF l4
<1>3. CASE Close(c)
  BY <1>1, <1>3, CloseMoves
<1>4. ASSUME NEW d, Resolve(c, d, l4, "connect") PROVE \E x : Moves(c, x)
  BY <1>1, <1>4, ResolveMoves
<1>5. CASE conn' = [conn EXCEPT ![c].pc = "handoff", ![c].l4 = l4, ![c].stack = "http"] /\ permits' = permits
  <2> DEFINE x == [conn[c] EXCEPT !.pc = "handoff", !.l4 = l4, !.stack = "http"]
  <2>1. conn' = [conn EXCEPT ![c] = x]
    BY <1>1, <1>5, OneConn
  <2>2. "http" \in Stacks
    BY DEF Stacks
  <2>3. Staged(c, x, "handoff")
    BY <2>2, Zenon DEF Staged
  <2> HIDE DEF x
  <2>4. Moves(c, x)
    BY <1>1, <1>5, <2>1, <2>3, StageMoves
  <2> QED
    BY <2>4, Zenon
<1>6. CASE conn' = [conn EXCEPT ![c].pc = "peek", ![c].l4 = l4] /\ permits' = permits
  <2> DEFINE x == [conn[c] EXCEPT !.pc = "peek", !.l4 = l4]
  <2>1. conn' = [conn EXCEPT ![c] = x]
    BY <1>1, <1>6, OneConn
  <2>3. Staged(c, x, "peek")
    BY Zenon DEF Staged
  <2> HIDE DEF x
  <2>4. Moves(c, x)
    BY <1>1, <1>6, <2>1, <2>3, StageMoves
  <2> QED
    BY <2>4, Zenon
<1> QED
  BY <1>2, <1>3, <1>4, <1>5, <1>6

LEMMA PeekMoves ==
  ASSUME ConnPart, NEW c \in Conns, NEW outcome, Peek(c, outcome)
  PROVE  \E x : Moves(c, x)
<1>1. conn[c].pc = "peek" /\ handoff' = handoff /\ ConnsOK
  BY DEF Peek, ConnPart
<1> DEFINE d == sni_mux_decision(conn[c].l4, conn[c].port, IF outcome = "hello" THEN conn[c].sni ELSE <<>>)
           next == IF d.kind = "Passthrough" THEN "connect" ELSE "handshake"
<1>2. \/ Close(c)
      \/ conn' = [conn EXCEPT ![c].pc = "handoff", ![c].stack = "https"] /\ permits' = permits
      \/ Resolve(c, d, conn[c].l4, next)
      \/ d.kind \notin {"Reject", "Terminate", "Passthrough", "TlsTerminate"}
  BY DEF Peek
<1>3. d.kind \in {"Reject", "Terminate", "Passthrough", "TlsTerminate"}
  BY DEF sni_mux_decision, Decision
<1>4. next \notin {"free", "queued", "stack"}
  OBVIOUS
<1> HIDE DEF d, next
<1>5. CASE Close(c)
  BY <1>1, <1>5, CloseMoves
<1>6. CASE conn' = [conn EXCEPT ![c].pc = "handoff", ![c].stack = "https"] /\ permits' = permits
  <2> DEFINE x == [conn[c] EXCEPT !.pc = "handoff", !.stack = "https"]
  <2>1. conn' = [conn EXCEPT ![c] = x]
    BY <1>1, <1>6, OneConn
  <2>2. "https" \in Stacks
    BY DEF Stacks
  <2>3. Staged(c, x, "handoff")
    BY <2>2, Zenon DEF Staged
  <2> HIDE DEF x
  <2>4. Moves(c, x)
    BY <1>1, <1>6, <2>1, <2>3, StageMoves
  <2> QED
    BY <2>4, Zenon
<1>7. CASE Resolve(c, d, conn[c].l4, next)
  BY <1>1, <1>4, <1>7, ResolveMoves
<1> QED
  BY <1>2, <1>3, <1>5, <1>6, <1>7

\* handle_tls_terminate and connect_upstream.
LEMMA DialMoves ==
  ASSUME ConnPart, NEW c \in Conns, NEW ok, Handshake(c, ok) \/ Connect(c, ok)
  PROVE  \E x : Moves(c, x)
<1>1. conn[c].pc \in {"handshake", "connect"} /\ handoff' = handoff /\ ConnsOK
  BY DEF Handshake, Connect, ConnPart
<1>2. Close(c) \/ \E next \in {"connect", "proxy"} : conn' = [conn EXCEPT ![c].pc = next] /\ permits' = permits
  BY DEF Handshake, Connect
<1>3. CASE Close(c)
  BY <1>1, <1>3, CloseMoves
<1>4. ASSUME NEW next \in {"connect", "proxy"}, conn' = [conn EXCEPT ![c].pc = next], permits' = permits
      PROVE  \E x : Moves(c, x)
  <2> DEFINE x == [conn[c] EXCEPT !.pc = next]
  <2>1. conn' = [conn EXCEPT ![c] = x]
    BY <1>1, <1>4, OneConn
  <2>3. Staged(c, x, next)
    BY Zenon DEF Staged
  <2> HIDE DEF x
  <2>4. Moves(c, x)
    BY <1>1, <1>4, <2>1, <2>3, StageMoves
  <2> QED
    BY <2>4, Zenon
<1> QED
  BY <1>2, <1>3, <1>4

\* A session goes on with other timers.
LEMMA SessionMoves ==
  ASSUME ConnPart, NEW c \in Conns, NEW x, ConnShape(x), x.stack = conn[c].stack, Timers(x),
         conn[c].pc = "proxy", x.pc = "proxy",
         conn' = [conn EXCEPT ![c] = x], permits' = permits, handoff' = handoff
  PROVE  Moves(c, x)
<1>1. ConnOK(x)
  BY DEF ConnOK, ConnPart, ConnsOK
<1>2. permits' = permits + (IF Holds(conn[c]) THEN 1 ELSE 0) - (IF Holds(x) THEN 1 ELSE 0)
  BY DEF ConnPart, PermitsOK, Holds
<1> QED
  BY <1>1, <1>2 DEF Moves, Holds

\* pump: bytes in a direction, or none for the idle timeout.
LEMMA PumpMoves ==
  ASSUME ConnPart, NEW c \in Conns, NEW d \in Dirs, Bytes(c, d) \/ TimedOut(c, d)
  PROVE  \E x : Moves(c, x)
<1>1. /\ conn[c].pc = "proxy" /\ d \notin conn[c].done /\ handoff' = handoff /\ ConnsOK
      /\ ConnShape(conn[c]) /\ Timers(conn[c]) /\ conn[c].quiet \in Nat
      /\ conn[c].wait \in [Dirs -> Nat]
  BY DEF Bytes, TimedOut, Pumping, ConnPart, ConnsOK, ConnOK, Timers
<1> DEFINE w == [conn[c].wait EXCEPT ![d] = 0]
<1>2. w \in [Dirs -> Nat] /\ w[d] = 0 /\ \A e \in Dirs : e # d => w[e] = conn[c].wait[e]
  BY <1>1
<1>3. CASE Bytes(c, d)
  <2> DEFINE x == [conn[c] EXCEPT !.quiet = 0, !.wait = w]
  <2>1. conn' = [conn EXCEPT ![c] = x] /\ permits' = permits
    BY <1>1, <1>3 DEF Bytes, ConnsOK, ConnShape, ConnFields
  <2>2. /\ ConnShape(x) /\ x.stack = conn[c].stack /\ x.pc = "proxy" /\ x.quiet = 0 /\ x.wait = w
        /\ x.done = conn[c].done
    BY <1>1 DEF ConnShape, ConnFields
  <2> HIDE DEF x, w
  <2>3. Timers(x)
    BY <1>1, <1>2, <2>2, Limits DEF Timers
  <2>4. Moves(c, x)
    BY <1>1, <2>1, <2>2, <2>3, SessionMoves
  <2> QED
    BY <2>4, Zenon
<1>4. CASE TimedOut(c, d) /\ conn[c].quiet >= L4Idle
  <2>1. Close(c)
    BY <1>4 DEF TimedOut
  <2> QED
    BY <1>1, <1>4, <2>1, CloseMoves
<1>5. CASE TimedOut(c, d) /\ ~(conn[c].quiet >= L4Idle)
  <2> DEFINE x == [conn[c] EXCEPT !.wait = w]
  <2>1. conn' = [conn EXCEPT ![c] = x] /\ permits' = permits
    BY <1>1, <1>5 DEF TimedOut, ConnsOK, ConnShape, ConnFields
  <2>2. /\ ConnShape(x) /\ x.stack = conn[c].stack /\ x.pc = "proxy" /\ x.quiet = conn[c].quiet
        /\ x.wait = w /\ x.done = conn[c].done
    BY <1>1 DEF ConnShape, ConnFields
  <2> HIDE DEF x, w
  <2>3. Timers(x)
    BY <1>1, <1>2, <1>5, <2>2, Limits DEF Timers
  <2>4. Moves(c, x)
    BY <1>1, <2>1, <2>2, <2>3, SessionMoves
  <2> QED
    BY <2>4, Zenon
<1> QED
  BY <1>3, <1>4, <1>5

\* A side hangs up: in one direction, or altogether.
LEMMA HangUpMoves ==
  ASSUME ConnPart, NEW c \in Conns, Can("hangup"), Reset(c) \/ \E d \in Dirs : Eof(c, d)
  PROVE  \E x : Moves(c, x)
<1>1. /\ conn[c].pc = "proxy" /\ handoff' = handoff /\ ConnsOK
      /\ ConnShape(conn[c]) /\ Timers(conn[c])
  BY DEF Reset, Close0, Eof, Pumping, ConnPart, ConnsOK, ConnOK
<1>2. Close(c) \/ \E d \in Dirs : /\ conn' = [conn EXCEPT ![c].done = {d}] /\ permits' = permits
                                  /\ conn[c].done = {}
  BY DEF Reset, Close0, Eof
<1>3. CASE Close(c)
  BY <1>1, <1>3, CloseMoves
<1>4. ASSUME NEW d \in Dirs, conn' = [conn EXCEPT ![c].done = {d}], permits' = permits, conn[c].done = {}
      PROVE  \E x : Moves(c, x)
  <2> DEFINE x == [conn[c] EXCEPT !.done = {d}]
  <2>1. conn' = [conn EXCEPT ![c] = x]
    BY <1>1, <1>4 DEF ConnsOK
  <2>2. /\ ConnShape(x) /\ x.stack = conn[c].stack /\ x.pc = "proxy" /\ x.quiet = conn[c].quiet
        /\ x.wait = conn[c].wait /\ x.done = {d}
    BY <1>1 DEF ConnShape, ConnFields
  <2> HIDE DEF x
  <2>3. Timers(x)
    BY <1>1, <1>4, <2>2 DEF Timers, Dirs
  <2>4. Moves(c, x)
    BY <1>1, <1>4, <2>1, <2>2, <2>3, SessionMoves
  <2> QED
    BY <2>4, Zenon
<1> QED
  BY <1>2, <1>3, <1>4

\* The stack is done with a connection.
LEMMA LeaveMoves ==
  ASSUME ConnPart, NEW c \in Conns, Leave(c)
  PROVE  \E x : Moves(c, x)
<1>1. conn[c].pc = "stack" /\ Close(c) /\ handoff' = handoff
  BY DEF Leave, Close0
<1> QED
  BY <1>1, CloseMoves

LEMMA MovesBusy ==
  ASSUME ConnPart, NEW c, NEW x, Moves(c, x)
  PROVE  BusySessionsStay
<1>1. c \in Conns /\ conn' = [conn EXCEPT ![c] = x] /\ conn = [k \in Conns |-> conn[k]]
  BY DEF Moves, ConnPart, ConnsOK
<1>2. conn'[c] = x /\ \A k \in Conns : k # c => conn'[k] = conn[k]
  BY <1>1
<1>3. conn[c].pc = "proxy" /\ x.pc # "proxy" => conn[c].quiet >= L4Idle \/ Can("hangup")
  BY DEF Moves
<1> QED
  BY <1>2, <1>3 DEF BusySessionsStay

\* hand_off_to_stack: the connection waits in the queue, its permit given back.
LEMMA HandOffKeeps ==
  ASSUME ConnPart, NEW c \in Conns, NEW draining \in BOOLEAN, HandOff(c, draining)
  PROVE  ConnPart' /\ BusySessionsStay
<1>1. CASE draining
  <2>1. Close(c) /\ handoff' = handoff /\ conn[c].pc = "handoff"
    BY <1>1 DEF HandOff
  <2>2. Moves(c, Free)
    BY <2>1, CloseMoves
  <2> QED
    BY <2>2, MovesKeep, MovesBusy
<1>2. CASE ~draining
  <2> DEFINE s == conn[c].stack
             x == [conn[c] EXCEPT !.pc = "queued"]
  <2>1. /\ conn[c].pc = "handoff" /\ ConnShape(conn[c]) /\ s \in Stacks /\ Timers(conn[c])
        /\ conn = [k \in Conns |-> conn[k]]
    BY DEF HandOff, ConnPart, ConnsOK, ConnOK
  <2>2. /\ handoff' = [handoff EXCEPT ![s] = Append(handoff[s], c)]
        /\ conn' = [conn EXCEPT ![c] = x] /\ permits' = permits + 1
    BY <1>2, <2>1 DEF HandOff
  <2>3. /\ ConnShape(x) /\ x.stack = s /\ x.quiet = conn[c].quiet /\ x.wait = conn[c].wait
        /\ x.done = conn[c].done /\ x.pc = "queued"
    BY <2>1 DEF ConnShape, ConnFields
  <2> HIDE DEF x
  <2>4. ConnOK(x)
    BY <2>1, <2>3 DEF ConnOK, Timers
  <2>5. /\ conn' = [k \in Conns |-> conn'[k]] /\ conn'[c] = x
        /\ \A k \in Conns : k # c => conn'[k] = conn[k]
    BY <2>1, <2>2
  <2>6. ConnsOK'
    BY <2>4, <2>5 DEF ConnPart, ConnsOK
  <2>7. QueuesOK'
    <3>1. /\ handoff[s] \in Seq(Conns) /\ Append(handoff[s], c) \in Seq(Conns)
          /\ Len(Append(handoff[s], c)) = Len(handoff[s]) + 1 /\ Len(handoff[s]) \in Nat
          /\ \A i \in 1 .. Len(handoff[s]) : Append(handoff[s], c)[i] = handoff[s][i]
          /\ Append(handoff[s], c)[Len(handoff[s]) + 1] = c
      BY <2>1 DEF ConnPart, QueuesOK
    <3>2. /\ handoff' = [t \in Stacks |-> handoff'[t]] /\ handoff'[s] = Append(handoff[s], c)
          /\ \A t \in Stacks : t # s => handoff'[t] = handoff[t]
      BY <2>1, <2>2 DEF ConnPart, QueuesOK
    <3>3. \A t \in Stacks : handoff'[t] \in Seq(Conns)
      BY <3>1, <3>2 DEF ConnPart, QueuesOK
    <3>4. ASSUME NEW t \in Stacks, NEW i \in 1 .. Len(handoff'[t])
          PROVE  \/ /\ i \in 1 .. Len(handoff[t]) /\ handoff'[t][i] = handoff[t][i]
                    /\ handoff[t][i] \in Conns /\ conn[handoff[t][i]].pc = "queued"
                 \/ t = s /\ i = Len(handoff[s]) + 1 /\ handoff'[t][i] = c
      <4>1. CASE i \in 1 .. Len(handoff[t])
        <5>1. handoff'[t][i] = handoff[t][i]
          BY <3>1, <3>2, <4>1
        <5> QED
          BY <4>1, <5>1 DEF ConnPart, QueuesOK
      <4>2. CASE i \notin 1 .. Len(handoff[t])
        <5>1. t = s
          BY <3>2, <4>2
        <5> QED
          BY <3>1, <3>2, <4>2, <5>1
      <4> QED
        BY <4>1, <4>2
    <3>5. ASSUME NEW t \in Stacks, NEW i \in 1 .. Len(handoff'[t]) PROVE conn'[handoff'[t][i]].pc = "queued"
      BY <2>3, <2>5, <3>4
    <3>6. ASSUME NEW t \in Stacks, NEW u \in Stacks, NEW i \in 1 .. Len(handoff'[t]),
                 NEW j \in 1 .. Len(handoff'[u]), handoff'[t][i] = handoff'[u][j]
          PROVE  t = u /\ i = j
      <4>1. CASE handoff'[t][i] = c
        BY <2>1, <3>4, <3>6, <4>1
      <4>2. CASE handoff'[t][i] # c
        <5>1. /\ i \in 1 .. Len(handoff[t]) /\ j \in 1 .. Len(handoff[u])
              /\ handoff[t][i] = handoff[u][j]
          BY <3>4, <3>6, <4>2
        <5> QED
          BY <5>1 DEF ConnPart, QueuesOK
      <4> QED
        BY <4>1, <4>2
    <3> QED
      BY <3>2, <3>3, <3>5, <3>6 DEF QueuesOK
  <2>8. PermitsOK'
    <3> DEFINE n == Cardinality(Holders(conn))
               m == Cardinality(Holders(conn'))
    <3>1. n \in Nat /\ m = n + (IF Holds(x) THEN 1 ELSE 0) - (IF Holds(conn[c]) THEN 1 ELSE 0)
      BY <2>1, <2>2, HoldersChange
    <3>2. permits \in Nat /\ permits + n = MaxConnections
      BY DEF ConnPart, PermitsOK, PermitsExact, Holders
    <3>3. ~Holds(x) /\ Holds(conn[c])
      BY <2>1, <2>3 DEF Holds
    <3> HIDE DEF n, m
    <3>4. permits' \in Nat /\ permits' + m = MaxConnections
      BY <2>2, <3>1, <3>2, <3>3
    <3> QED
      BY <3>4 DEF PermitsOK, PermitsExact, Holders, m
  <2>9. BusySessionsStay
    BY <2>1, <2>5 DEF BusySessionsStay
  <2> QED
    BY <2>6, <2>7, <2>8, <2>9 DEF ConnPart
<1> QED
  BY <1>1, <1>2

\* Connections that change without a permit's being taken or given back.
LEMMA SameHolders ==
  ASSUME ConnPart, permits' = permits, \A k \in Conns : Holds(conn'[k]) <=> Holds(conn[k])
  PROVE  PermitsOK'
<1>1. Holders(conn') = Holders(conn)
  BY DEF Holders, Holds
<1> QED
  BY <1>1 DEF ConnPart, PermitsOK, PermitsExact, Holders

\* handoff_loop: a connection goes over to the stack, or a queue is dropped.
LEMMA ReceiveKeeps ==
  ASSUME ConnPart, NEW s \in Stacks, NEW draining \in BOOLEAN, Receive(s, draining)
  PROVE  ConnPart' /\ BusySessionsStay
<1>1. /\ handoff[s] \in Seq(Conns) /\ handoff[s] # <<>> /\ permits' = permits
      /\ conn = [k \in Conns |-> conn[k]] /\ handoff = [t \in Stacks |-> handoff[t]]
  BY DEF Receive, ConnPart, ConnsOK, QueuesOK
<1>2. Len(handoff[s]) \in Nat \ {0}
  BY <1>1
<1>3. ASSUME NEW t \in Stacks, NEW i \in 1 .. Len(handoff[t])
      PROVE  handoff[t][i] \in Conns /\ conn[handoff[t][i]].pc = "queued"
  BY DEF ConnPart, QueuesOK
<1>4. CASE draining
  <2>1. /\ conn' = [c \in Conns |-> IF c \in ToSet(handoff[s]) THEN Free ELSE conn[c]]
        /\ handoff' = [handoff EXCEPT ![s] = <<>>]
    BY <1>4 DEF Receive
  <2>2. \A c \in ToSet(handoff[s]) : \E i \in 1 .. Len(handoff[s]) : c = handoff[s][i]
    BY <1>1 DEF ToSet
  <2>3. ASSUME NEW c \in Conns
        PROVE  \/ conn'[c] = conn[c] /\ c \notin ToSet(handoff[s])
               \/ conn'[c] = Free /\ conn[c].pc = "queued"
    BY <1>3, <2>1, <2>2
  <2>4. ConnsOK'
    <3>1. conn' = [c \in Conns |-> conn'[c]]
      BY <2>1
    <3> QED
      BY <2>3, <3>1, FreeOK DEF ConnPart, ConnsOK
  <2>5. QueuesOK'
    <3>1. /\ handoff' = [t \in Stacks |-> handoff'[t]] /\ handoff'[s] = <<>>
          /\ \A t \in Stacks : t # s => handoff'[t] = handoff[t]
      BY <1>1, <2>1
    <3>2. ASSUME NEW t \in Stacks, NEW i \in 1 .. Len(handoff'[t])
          PROVE  t # s /\ handoff'[t] = handoff[t] /\ i \in 1 .. Len(handoff[t])
      BY <3>1
    <3>3. ASSUME NEW t \in Stacks, NEW i \in 1 .. Len(handoff'[t]) PROVE conn'[handoff'[t][i]].pc = "queued"
      <4>1. t # s /\ handoff'[t] = handoff[t] /\ i \in 1 .. Len(handoff[t])
        BY <3>2
      <4>2. handoff[t][i] \notin ToSet(handoff[s])
        BY <2>2, <4>1 DEF ConnPart, QueuesOK
      <4> QED
        BY <1>3, <2>1, <4>1, <4>2
    <3>4. ASSUME NEW t \in Stacks PROVE handoff'[t] \in Seq(Conns)
      <4>1. <<>> \in Seq(Conns)
        OBVIOUS
      <4> QED
        BY <3>1, <4>1 DEF ConnPart, QueuesOK
    <3>5. ASSUME NEW t \in Stacks, NEW u \in Stacks, NEW i \in 1 .. Len(handoff'[t]),
                 NEW j \in 1 .. Len(handoff'[u]), handoff'[t][i] = handoff'[u][j]
          PROVE  t = u /\ i = j
      BY <3>2, <3>5 DEF ConnPart, QueuesOK
    <3> QED
      BY <3>1, <3>3, <3>4, <3>5 DEF QueuesOK
  <2>6. PermitsOK'
    <3>1. \A k \in Conns : Holds(conn'[k]) <=> Holds(conn[k])
      BY <2>3, FreeOK DEF Holds
    <3> QED
      BY <1>1, <3>1, SameHolders
  <2>7. BusySessionsStay
    BY <2>3 DEF BusySessionsStay
  <2> QED
    BY <2>4, <2>5, <2>6, <2>7 DEF ConnPart
<1>5. CASE ~draining
  <2> DEFINE c == handoff[s][1]
             x == [conn[c] EXCEPT !.pc = "stack"]
  <2>1. Head(handoff[s]) = c /\ c \in Conns /\ conn[c].pc = "queued"
    <3>1. 1 \in 1 .. Len(handoff[s])
      BY <1>2
    <3>2. c \in Conns /\ conn[c].pc = "queued"
      BY <1>3, <3>1
    <3> QED
      BY <1>1, <3>2
  <2>2. conn' = [conn EXCEPT ![c] = x] /\ handoff' = [handoff EXCEPT ![s] = Tail(handoff[s])]
    <3>1. conn' = [conn EXCEPT ![c].pc = "stack"]
      BY <1>5, <2>1 DEF Receive
    <3>2. conn' = [conn EXCEPT ![c] = x]
      BY <2>1, <3>1, OneConn DEF ConnPart
    <3> QED
      BY <1>1, <1>5, <3>2 DEF Receive
  <2>3. ConnShape(conn[c]) /\ conn[c].stack \in Stacks /\ Timers(conn[c])
    BY <2>1 DEF ConnPart, ConnsOK, ConnOK
  <2>4. /\ ConnShape(x) /\ x.stack = conn[c].stack /\ x.quiet = conn[c].quiet
        /\ x.wait = conn[c].wait /\ x.done = conn[c].done /\ x.pc = "stack"
    BY <2>3 DEF ConnShape, ConnFields
  <2> HIDE DEF x
  <2>5. ConnOK(x)
    BY <2>1, <2>3, <2>4 DEF ConnOK, Timers
  <2>6. /\ conn' = [k \in Conns |-> conn'[k]] /\ conn'[c] = x
        /\ \A k \in Conns : k # c => conn'[k] = conn[k]
    BY <1>1, <2>1, <2>2
  <2>7. ConnsOK'
    BY <2>5, <2>6 DEF ConnPart, ConnsOK
  <2>8. QueuesOK'
    <3>1. /\ Tail(handoff[s]) \in Seq(Conns) /\ Len(Tail(handoff[s])) = Len(handoff[s]) - 1
          /\ \A i \in 1 .. Len(handoff[s]) - 1 : Tail(handoff[s])[i] = handoff[s][i + 1]
      BY <1>1
    <3>2. /\ handoff' = [t \in Stacks |-> handoff'[t]] /\ handoff'[s] = Tail(handoff[s])
          /\ \A t \in Stacks : t # s => handoff'[t] = handoff[t]
      BY <1>1, <2>2
    <3>3. \A t \in Stacks : handoff'[t] \in Seq(Conns)
      BY <3>1, <3>2 DEF ConnPart, QueuesOK
    <3> DEFINE Old(t, i) == IF t = s THEN i + 1 ELSE i
    <3>4. ASSUME NEW t \in Stacks, NEW i \in 1 .. Len(handoff'[t])
          PROVE  /\ Old(t, i) \in 1 .. Len(handoff[t]) /\ handoff'[t][i] = handoff[t][Old(t, i)]
                 /\ i \in Int /\ (t = s => Old(t, i) # 1)
      BY <1>2, <3>1, <3>2
    <3>5. ASSUME NEW t \in Stacks, NEW i \in 1 .. Len(handoff'[t]) PROVE conn'[handoff'[t][i]].pc = "queued"
      <4>1. handoff'[t][i] # c
        <5>1. /\ Old(t, i) \in 1 .. Len(handoff[t]) /\ handoff'[t][i] = handoff[t][Old(t, i)]
              /\ (t = s => Old(t, i) # 1) /\ 1 \in 1 .. Len(handoff[s])
          BY <1>2, <3>4
        <5> HIDE DEF Old
        <5> QED
          BY <5>1 DEF ConnPart, QueuesOK
      <4>2. Old(t, i) \in 1 .. Len(handoff[t]) /\ handoff'[t][i] = handoff[t][Old(t, i)]
        BY <3>4
      <4> HIDE DEF Old, c
      <4> QED
        BY <1>3, <2>6, <4>1, <4>2
    <3>6. ASSUME NEW t \in Stacks, NEW u \in Stacks, NEW i \in 1 .. Len(handoff'[t]),
                 NEW j \in 1 .. Len(handoff'[u]), handoff'[t][i] = handoff'[u][j]
          PROVE  t = u /\ i = j
      <4>1. /\ Old(t, i) \in 1 .. Len(handoff[t]) /\ Old(u, j) \in 1 .. Len(handoff[u])
            /\ handoff[t][Old(t, i)] = handoff[u][Old(u, j)] /\ i \in Int /\ j \in Int
        <5>1. /\ Old(t, i) \in 1 .. Len(handoff[t]) /\ handoff'[t][i] = handoff[t][Old(t, i)] /\ i \in Int
          BY <3>4
        <5>2. /\ Old(u, j) \in 1 .. Len(handoff[u]) /\ handoff'[u][j] = handoff[u][Old(u, j)] /\ j \in Int
          BY <3>4
        <5> HIDE DEF Old
        <5> QED
          BY <3>6, <5>1, <5>2
      <4>2. t = u /\ Old(t, i) = Old(u, j)
        <5> HIDE DEF Old
        <5> QED
          BY <4>1 DEF ConnPart, QueuesOK
      <4> QED
        BY <4>1, <4>2
    <3> QED
      BY <3>2, <3>3, <3>5, <3>6 DEF QueuesOK
  <2>9. PermitsOK'
    <3>1. \A k \in Conns : Holds(conn'[k]) <=> Holds(conn[k])
      BY <2>1, <2>4, <2>6 DEF Holds
    <3> QED
      BY <1>1, <3>1, SameHolders
  <2>10. BusySessionsStay
    BY <2>1, <2>6 DEF BusySessionsStay
  <2> QED
    BY <2>7, <2>8, <2>9, <2>10 DEF ConnPart
<1> QED
  BY <1>4, <1>5

\* A tick: no direction that reads has waited for the idle timeout yet.
LEMMA TickKeepsConns ==
  ASSUME ConnPart, Tick
  PROVE  ConnPart' /\ BusySessionsStay
<1>1. conn' = [k \in Conns |-> conn'[k]] /\ permits' = permits /\ handoff' = handoff
  BY DEF Tick
<1>2. ASSUME NEW c \in Conns
      PROVE  ConnOK(conn'[c]) /\ conn'[c].pc = conn[c].pc
  <2>1. CASE conn[c].pc # "proxy"
    <3>1. conn'[c] = conn[c]
      BY <2>1 DEF Tick
    <3> QED
      BY <3>1 DEF ConnPart, ConnsOK
  <2>2. CASE conn[c].pc = "proxy"
    <3> DEFINE w == [d \in Dirs |-> IF d \in conn[c].done THEN 0 ELSE conn[c].wait[d] + 1]
               x == [conn[c] EXCEPT !.quiet = conn[c].quiet + 1, !.wait = w]
    <3>1. /\ ConnShape(conn[c]) /\ conn[c].stack \in Stacks /\ Timers(conn[c])
          /\ conn[c].quiet \in Nat /\ conn[c].wait \in [Dirs -> Nat]
      BY DEF ConnPart, ConnsOK, ConnOK, Timers
    <3>2. conn'[c] = x
      BY <2>2, <3>1 DEF Tick, ConnShape, ConnFields
    <3>3. /\ ConnShape(x) /\ x.stack = conn[c].stack /\ x.quiet = conn[c].quiet + 1
          /\ x.wait = w /\ x.done = conn[c].done /\ x.pc = "proxy"
      BY <2>2, <3>1 DEF ConnShape, ConnFields
    <3>4. w \in [Dirs -> Nat] /\ \A d \in Dirs : d \notin conn[c].done => w[d] = conn[c].wait[d] + 1
      BY <3>1
    <3>5. \A d \in Dirs : d \notin conn[c].done => conn[c].wait[d] < L4Idle
      BY <2>2 DEF Tick, Pumping
    <3> HIDE DEF x, w
    <3>6. Timers(x)
      <4>1. ASSUME NEW d \in Dirs, d \notin x.done PROVE x.wait[d] <= L4Idle /\ x.quiet < x.wait[d] + L4Idle
        <5>1. /\ conn[c].wait[d] \in Nat /\ conn[c].wait[d] < L4Idle
              /\ conn[c].quiet < conn[c].wait[d] + L4Idle
          BY <2>2, <3>1, <3>3, <3>5, <4>1 DEF Timers
        <5>2. x.wait[d] = conn[c].wait[d] + 1
          BY <3>3, <3>4, <4>1
        <5> QED
          BY <3>1, <3>3, <5>1, <5>2, Limits
      <4>2. x.quiet \in Nat /\ x.done \in {{}, {"up"}, {"down"}} /\ x.wait \in [Dirs -> Nat]
        BY <3>1, <3>3, <3>4 DEF Timers
      <4> QED
        BY <3>3, <4>1, <4>2 DEF Timers
    <3> QED
      BY <2>2, <3>1, <3>2, <3>3, <3>6 DEF ConnOK
  <2> QED
    BY <2>1, <2>2
<1>3. ConnsOK'
  BY <1>1, <1>2 DEF ConnsOK
<1>4. QueuesOK'
  <2>1. ASSUME NEW s \in Stacks, NEW i \in 1 .. Len(handoff[s]) PROVE conn'[handoff[s][i]].pc = "queued"
    <3>1. handoff[s][i] \in Conns /\ conn[handoff[s][i]].pc = "queued"
      BY DEF ConnPart, QueuesOK
    <3> QED
      BY <1>2, <3>1
  <2> QED
    BY <1>1, <2>1 DEF ConnPart, QueuesOK
<1>5. PermitsOK'
  BY <1>1, <1>2, SameHolders DEF Holds
<1>6. BusySessionsStay
  BY <1>2 DEF BusySessionsStay
<1> QED
  BY <1>3, <1>4, <1>5, <1>6 DEF ConnPart

\* Nothing of a connection changes.
LEMMA ConnFrame ==
  ASSUME ConnPart, conn' = conn, permits' = permits, handoff' = handoff
  PROVE  ConnPart' /\ BusySessionsStay
<1>1. PermitsOK'
  BY DEF ConnPart, PermitsOK, PermitsExact
<1>2. ConnsOK'
  BY DEF ConnPart, ConnsOK
<1>3. QueuesOK'
  BY DEF ConnPart, QueuesOK
<1> QED
  BY <1>1, <1>2, <1>3 DEF ConnPart, BusySessionsStay

----------------------------------------------------------------------------
(* Ports and UDP sessions *)

SessionFields == {"open", "service", "addr", "quiet", "dead"}
SessionShape(x) == x = [f \in SessionFields |-> x[f]]
SessionOK(x) == SessionShape(x) /\ x.quiet \in Nat

TableOK ==
  /\ session = [q \in Ports |-> session[q]]
  /\ \A q \in Ports : session[q] = [p \in Peers |-> session[q][p]]
  /\ \A q \in Ports, p \in Peers : SessionOK(session[q][p])

\* The ports of the table follow the config the manager saw last, which is
\* not ahead of the slot.
PortsOK ==
  /\ bound = [p \in Protos |-> bound[p]] /\ dead = [p \in Protos |-> dead[p]]
  /\ slot.n \in Int /\ last_cfg \in Int /\ last_cfg <= slot.n
  /\ slot.n = last_cfg => \A p \in Protos : bound[p] \subseteq Desired(slot.l4)[p]

\* A session is open only on a port whose task runs.
OpenListens == \A q \in Ports, x \in Peers : session[q][x].open => q \in Listening("udp")

PortPart == TableOK /\ PortsOK /\ OpenListens /\ UdpBounded

LEMMA NoSessionOK == SessionOK(NoSession) /\ ~NoSession.open /\ ~NoSession.dead
BY DEF SessionOK, SessionShape, SessionFields, NoSession

Opens(t) == {p \in Peers : t[p].open}

LEMMA OpensFinite == ASSUME NEW t PROVE IsFiniteSet(Opens(t)) /\ Cardinality(Opens(t)) \in Nat
<1>1. IsFiniteSet(Opens(t))
  BY Limits, FS_Subset DEF Opens
<1> QED
  BY <1>1, FS_CardinalityType

\* A table whose open sessions are among those of another is no larger.
LEMMA OpensLess ==
  ASSUME NEW t, NEW u, \A p \in Peers : u[p].open => t[p].open
  PROVE  Cardinality(Opens(u)) <= Cardinality(Opens(t))
<1>1. Opens(u) \subseteq Opens(t)
  BY DEF Opens
<1> QED
  BY <1>1, OpensFinite, FS_Subset

\* A peer's session is opened in a table that has room for it.
LEMMA OpensMore ==
  ASSUME NEW t, NEW u, NEW p \in Peers, \A x \in Peers : x # p => (u[x].open <=> t[x].open),
         Cardinality(Opens(t)) - (IF t[p].open THEN 1 ELSE 0) < MaxUdpSessions
  PROVE  Cardinality(Opens(u)) <= MaxUdpSessions
<1>1. CASE t[p].open
  <2>1. Opens(u) \subseteq Opens(t)
    BY <1>1 DEF Opens
  <2>2. Cardinality(Opens(u)) <= Cardinality(Opens(t))
    BY <2>1, OpensFinite, FS_Subset
  <2> QED
    BY <1>1, <2>2, OpensFinite, Limits
<1>2. CASE ~t[p].open
  <2>1. Opens(u) \subseteq Opens(t) \cup {p}
    BY <1>2 DEF Opens
  <2>2. p \notin Opens(t)
    BY <1>2 DEF Opens
  <2>3. IsFiniteSet(Opens(t) \cup {p}) /\ Cardinality(Opens(t) \cup {p}) = Cardinality(Opens(t)) + 1
    BY <2>2, OpensFinite, FS_AddElement
  <2>4. Cardinality(Opens(u)) <= Cardinality(Opens(t) \cup {p})
    BY <2>1, <2>3, FS_Subset
  <2> QED
    BY <1>2, <2>3, <2>4, OpensFinite, Limits
<1> QED
  BY <1>1, <1>2

\* What a pass of the manager, a config or a task leaves of the ports.
LEMMA PortsFrame ==
  ASSUME PortsOK, UNCHANGED <<slot, last_cfg, bound, dead>>
  PROVE  PortsOK' /\ Listening("udp")' = Listening("udp")
BY DEF PortsOK, Listening

\* One session changes.
Serve(q, p, x) ==
  /\ q \in Ports /\ p \in Peers /\ SessionOK(x) /\ session' = [session EXCEPT ![q][p] = x]
  /\ x.open => q \in Listening("udp") /\ (session[q][p].open \/ Room(q, p))
  /\ session[q][p].dead /\ x.dead => x.quiet >= session[q][p].quiet
  /\ UNCHANGED <<slot, last_cfg, bound, dead>>

LEMMA ServeKeeps ==
  ASSUME PortPart, NEW q, NEW p, NEW x, Serve(q, p, x)
  PROVE  PortPart' /\ DeadSessionsUnused
<1>0. /\ q \in Ports /\ p \in Peers /\ SessionOK(x) /\ session' = [session EXCEPT ![q][p] = x]
      /\ TableOK /\ Listening("udp")' = Listening("udp") /\ PortsOK'
  BY PortsFrame DEF Serve, PortPart
<1>1. /\ session' = [r \in Ports |-> session'[r]]
      /\ \A r \in Ports : r # q => session'[r] = session[r]
      /\ session'[q] = [session[q] EXCEPT ![p] = x]
  BY <1>0 DEF TableOK
<1>2. /\ session'[q] = [y \in Peers |-> session'[q][y]] /\ session'[q][p] = x
      /\ \A y \in Peers : y # p => session'[q][y] = session[q][y]
  BY <1>0, <1>1 DEF TableOK
<1>3. TableOK'
  <2>1. \A r \in Ports : session'[r] = [y \in Peers |-> session'[r][y]]
    BY <1>0, <1>1, <1>2 DEF TableOK
  <2>2. ASSUME NEW r \in Ports, NEW y \in Peers PROVE SessionOK(session'[r][y])
    <3>1. session'[r][y] = session[r][y] \/ session'[r][y] = x
      BY <1>1, <1>2
    <3> QED
      BY <1>0, <3>1 DEF TableOK
  <2> QED
    BY <1>1, <2>1, <2>2 DEF TableOK
<1>4. OpenListens'
  <2>1. ASSUME NEW r \in Ports, NEW y \in Peers, session'[r][y].open PROVE r \in Listening("udp")
    <3>1. CASE r = q /\ y = p
      BY <1>2, <2>1, <3>1 DEF Serve
    <3>2. CASE ~(r = q /\ y = p)
      <4>1. session'[r][y] = session[r][y]
        BY <1>1, <1>2, <3>2
      <4> QED
        BY <2>1, <4>1 DEF PortPart, OpenListens
    <3> QED
      BY <3>1, <3>2
  <2> QED
    BY <1>0, <2>1 DEF OpenListens
<1>5. UdpBounded'
  <2>1. ASSUME NEW r \in Ports PROVE Cardinality(Opens(session'[r])) <= MaxUdpSessions
    <3>0. Cardinality(Opens(session[r])) <= MaxUdpSessions
      BY DEF PortPart, UdpBounded, Size, Opens
    <3>1. CASE r # q
      BY <1>1, <3>0, <3>1
    <3>2. CASE r = q /\ (x.open => session[q][p].open)
      <4>1. \A y \in Peers : session'[q][y].open => session[q][y].open
        BY <1>2, <3>2
      <4>2. Cardinality(Opens(session'[q])) <= Cardinality(Opens(session[q]))
        BY <4>1, OpensLess
      <4> QED
        BY <3>0, <3>2, <4>2, OpensFinite, Limits
    <3>3. CASE r = q /\ x.open /\ ~session[q][p].open
      <4>1. Cardinality(Opens(session[q])) - (IF session[q][p].open THEN 1 ELSE 0) < MaxUdpSessions
        BY <3>3 DEF Serve, Room, Size, Opens
      <4>2. \A y \in Peers : y # p => (session'[q][y].open <=> session[q][y].open)
        BY <1>2
      <4> QED
        BY <1>0, <3>3, <4>1, <4>2, OpensMore
    <3> QED
      BY <3>1, <3>2, <3>3
  <2> QED
    BY <2>1 DEF UdpBounded, Size, Opens
<1>6. DeadSessionsUnused
  <2>1. ASSUME NEW r \in Ports, NEW y \in Peers, session[r][y].dead, session'[r][y].dead
        PROVE  session'[r][y].quiet >= session[r][y].quiet
    <3>1. CASE r = q /\ y = p
      BY <1>2, <2>1, <3>1 DEF Serve
    <3>2. CASE ~(r = q /\ y = p)
      <4>1. session'[r][y] = session[r][y] /\ session[r][y].quiet \in Nat
        BY <1>0, <1>1, <1>2, <3>2 DEF TableOK, SessionOK
      <4> QED
        BY <4>1
    <3> QED
      BY <3>1, <3>2
  <2> QED
    BY <2>1 DEF DeadSessionsUnused
<1> QED
  BY <1>0, <1>3, <1>4, <1>5, <1>6 DEF PortPart

\* One field of one session.
LEMMA OneSession ==
  ASSUME TableOK, NEW q \in Ports, NEW p \in Peers, NEW v
  PROVE  [session EXCEPT ![q][p].quiet = v] = [session EXCEPT ![q][p] = [session[q][p] EXCEPT !.quiet = v]]
BY DEF TableOK

\* udp_listener_loop and reply_pump: a datagram of a peer with a session, and
\* one back.
LEMMA ForwardServes ==
  ASSUME PortPart, NEW q \in Ports, NEW p \in Peers, NEW ok \in BOOLEAN, ForwardOn(q, p, ok) \/ Reply(q, p, ok)
  PROVE  \E x : Serve(q, p, x)
<1>1. /\ session[q][p].open /\ ~session[q][p].dead /\ SessionShape(session[q][p])
      /\ session[q][p].quiet \in Nat /\ UNCHANGED <<slot, last_cfg, bound, dead>> /\ TableOK
      /\ q \in Listening("udp")
  BY DEF ForwardOn, Reply, Live, NotUdp, PortPart, TableOK, SessionOK, OpenListens
<1>2. CASE session' = [session EXCEPT ![q][p] = [session[q][p] EXCEPT !.quiet = 0]]
  <2> DEFINE x == [session[q][p] EXCEPT !.quiet = 0]
  <2>1. SessionOK(x) /\ x.quiet = 0 /\ (x.open <=> session[q][p].open)
    BY <1>1 DEF SessionOK, SessionShape, SessionFields
  <2>2. session' = [session EXCEPT ![q][p] = x]
    BY <1>2
  <2> HIDE DEF x
  <2>3. Serve(q, p, x)
    BY <1>1, <2>1, <2>2 DEF Serve
  <2> QED
    BY <2>3, Zenon
<1>3. CASE session' = [session EXCEPT ![q][p] = [session[q][p] EXCEPT !.dead = TRUE]]
  <2> DEFINE x == [session[q][p] EXCEPT !.dead = TRUE]
  <2>1. SessionOK(x) /\ x.quiet = session[q][p].quiet
    BY <1>1 DEF SessionOK, SessionShape, SessionFields
  <2>2. session' = [session EXCEPT ![q][p] = x]
    BY <1>3
  <2> HIDE DEF x
  <2>3. Serve(q, p, x)
    BY <1>1, <2>1, <2>2 DEF Serve
  <2> QED
    BY <2>3, Zenon
<1>4. CASE ForwardOn(q, p, ok)
  <2>1. session' = [session EXCEPT ![q][p].quiet = 0]
    BY <1>4 DEF ForwardOn
  <2>2. session' = [session EXCEPT ![q][p] = [session[q][p] EXCEPT !.quiet = 0]]
    BY <1>1, <2>1, OneSession
  <2> QED
    BY <1>2, <2>2
<1>5. CASE Reply(q, p, ok)
  <2>1. \/ session' = [session EXCEPT ![q][p] = [session[q][p] EXCEPT !.quiet = 0]]
        \/ session' = [session EXCEPT ![q][p] = [session[q][p] EXCEPT !.dead = TRUE]]
    BY <1>1, <1>5 DEF Reply, TableOK
  <2> QED
    BY <1>2, <1>3, <2>1
<1> QED
  BY <1>4, <1>5

\* A datagram of a peer without a session, or with a dead one.
LEMMA ForwardNewServes ==
  ASSUME PortPart, NEW q \in Ports, NEW p \in Peers, NEW ok, ForwardNew(q, p, ok)
  PROVE  \E x : Serve(q, p, x)
<1>1. q \in Listening("udp") /\ UNCHANGED <<slot, last_cfg, bound, dead>>
  BY DEF ForwardNew, NotUdp
<1>2. \/ session' = [session EXCEPT ![q][p] = NoSession]
      \/ /\ Room(q, p)
         /\ \E s, a : session' = [session EXCEPT ![q][p] = [NoSession EXCEPT !.open = TRUE, !.service = s, !.addr = a]]
  <2> DEFINE b == slot.l4.udp_proxy[q]
  <2>1. CASE ~Room(q, p) \/ total_weight(b) = 0
    BY <2>1 DEF ForwardNew
  <2>2. CASE Room(q, p) /\ total_weight(b) # 0
    BY <2>2, Zenon DEF ForwardNew
  <2> QED
    BY <2>1, <2>2
<1>3. CASE session' = [session EXCEPT ![q][p] = NoSession]
  <2>1. Serve(q, p, NoSession)
    BY <1>1, <1>3, NoSessionOK DEF Serve
  <2> QED
    BY <2>1, Zenon
<1>4. ASSUME Room(q, p), NEW s, NEW a,
             session' = [session EXCEPT ![q][p] = [NoSession EXCEPT !.open = TRUE, !.service = s, !.addr = a]]
      PROVE  \E x : Serve(q, p, x)
  <2> DEFINE x == [NoSession EXCEPT !.open = TRUE, !.service = s, !.addr = a]
  <2>1. SessionShape(NoSession) /\ NoSession.quiet \in Nat /\ ~NoSession.dead
    BY NoSessionOK DEF SessionOK
  <2>2. SessionOK(x) /\ ~x.dead
    BY <2>1 DEF SessionOK, SessionShape, SessionFields
  <2>3. session' = [session EXCEPT ![q][p] = x]
    BY <1>4
  <2> HIDE DEF x
  <2>4. Serve(q, p, x)
    BY <1>1, <1>4, <2>2, <2>3 DEF Serve
  <2> QED
    BY <2>4, Zenon
<1> QED
  BY <1>2, <1>3, <1>4

\* A step that opens no session: each stays as it was, is closed, or is quiet
\* for longer.
Thins ==
  /\ session' = [q \in Ports |-> session'[q]]
  /\ \A q \in Ports : session'[q] = [p \in Peers |-> session'[q][p]]
  /\ \A q \in Ports, p \in Peers :
       /\ SessionOK(session'[q][p])
       /\ session'[q][p].open => session[q][p].open
       /\ session[q][p].dead /\ session'[q][p].dead => session'[q][p].quiet >= session[q][p].quiet

LEMMA ThinsKeep ==
  ASSUME PortPart, Thins
  PROVE  TableOK' /\ UdpBounded' /\ DeadSessionsUnused
<1>1. TableOK'
  BY DEF Thins, TableOK
<1>2. UdpBounded'
  <2>1. ASSUME NEW q \in Ports PROVE Cardinality(Opens(session'[q])) <= MaxUdpSessions
    <3>1. Cardinality(Opens(session[q])) <= MaxUdpSessions
      BY DEF PortPart, UdpBounded, Size, Opens
    <3>2. \A p \in Peers : session'[q][p].open => session[q][p].open
      BY DEF Thins
    <3>3. Cardinality(Opens(session'[q])) <= Cardinality(Opens(session[q]))
      BY <3>2, OpensLess
    <3> QED
      BY <3>1, <3>3, OpensFinite, Limits
  <2> QED
    BY <2>1 DEF UdpBounded, Size, Opens
<1>3. DeadSessionsUnused
  BY DEF Thins, DeadSessionsUnused
<1> QED
  BY <1>1, <1>2, <1>3

LEMMA SameThins ==
  ASSUME TableOK, session' = session
  PROVE  Thins
<1>1. ASSUME NEW q \in Ports, NEW p \in Peers
      PROVE  SessionOK(session[q][p]) /\ session[q][p].quiet >= session[q][p].quiet
  BY DEF TableOK, SessionOK
<1> QED
  BY <1>1 DEF Thins, TableOK

\* The reaper and the clock.
LEMMA TimeThins ==
  ASSUME TableOK, Tick \/ \E q \in Ports : reap(q)
  PROVE  Thins
<1>0. ASSUME NEW q \in Ports, NEW p \in Peers
      PROVE  SessionOK(session[q][p]) /\ session[q][p].quiet \in Nat /\ SessionShape(session[q][p])
  BY DEF TableOK, SessionOK
<1>1. CASE Tick
  <2>1. session' = [q \in Ports |-> [p \in Peers |->
                     IF session[q][p].open THEN [session[q][p] EXCEPT !.quiet = @ + 1] ELSE session[q][p]]]
    BY <1>1 DEF Tick
  <2>2. ASSUME NEW q \in Ports, NEW p \in Peers
        PROVE  /\ SessionOK(session'[q][p])
               /\ session'[q][p].open => session[q][p].open
               /\ session'[q][p].quiet >= session[q][p].quiet
    <3>1. CASE session[q][p].open
      <4>1. session'[q][p] = [session[q][p] EXCEPT !.quiet = session[q][p].quiet + 1]
        BY <2>1, <3>1
      <4> DEFINE y == session[q][p]
      <4> HIDE DEF y
      <4>2. ASSUME SessionShape(y), y.quiet \in Nat
            PROVE  SessionOK([y EXCEPT !.quiet = y.quiet + 1]) /\ [y EXCEPT !.quiet = y.quiet + 1].quiet = y.quiet + 1
        BY <4>2 DEF SessionOK, SessionShape, SessionFields
      <4> QED
        BY <1>0, <3>1, <4>1, <4>2 DEF y
    <3>2. CASE ~session[q][p].open
      <4>1. session'[q][p] = session[q][p]
        BY <2>1, <3>2
      <4> QED
        BY <1>0, <4>1
    <3> QED
      BY <3>1, <3>2
  <2>3. /\ session' = [q \in Ports |-> session'[q]]
        /\ \A q \in Ports : session'[q] = [p \in Peers |-> session'[q][p]]
    BY <2>1
  <2> QED
    BY <2>2, <2>3 DEF Thins
<1>2. ASSUME NEW r \in Ports, reap(r) PROVE Thins
  <2>1. session' = [session EXCEPT ![r] = [p \in Peers |-> IF Reaped(session[r][p]) THEN NoSession ELSE session[r][p]]]
    BY <1>2 DEF reap
  <2>2. /\ session' = [q \in Ports |-> session'[q]]
        /\ \A q \in Ports : session'[q] = [p \in Peers |-> session'[q][p]]
        /\ \A q \in Ports, p \in Peers : session'[q][p] = NoSession \/ session'[q][p] = session[q][p]
    BY <2>1 DEF TableOK
  <2> QED
    BY <1>0, <2>2, NoSessionOK DEF Thins
<1> QED
  BY <1>1, <1>2

\* The manager and the end of a task.
LEMMA ClosingThins ==
  ASSUME TableOK, ManagerPass \/ \E p, q : TaskEnds(p, q)
  PROVE  Thins
<1>0. ASSUME NEW q \in Ports, NEW p \in Peers
      PROVE  SessionOK(session[q][p]) /\ session[q][p].quiet \in Nat
  BY DEF TableOK, SessionOK
<1>1. /\ session' = [q \in Ports |-> session'[q]]
      /\ \A q \in Ports : session'[q] = [p \in Peers |-> session'[q][p]]
      /\ \A q \in Ports, p \in Peers : session'[q][p] = NoSession \/ session'[q][p] = session[q][p]
  <2>1. CASE ManagerPass
    <3>1. session' = [q \in Ports |-> IF q \in bound["udp"] \ dead["udp"] /\ q \in bound'["udp"] THEN session[q]
                                      ELSE [p \in Peers |-> NoSession]]
      BY <2>1 DEF ManagerPass
    <3> QED
      BY <3>1 DEF TableOK
  <2>2. ASSUME NEW p, NEW q, TaskEnds(p, q)
        PROVE  session' = session \/ session' = [session EXCEPT ![q] = [x \in Peers |-> NoSession]]
    BY <2>2 DEF TaskEnds
  <2>3. CASE session' = session
    BY <2>3 DEF TableOK
  <2>4. ASSUME NEW q, session' = [session EXCEPT ![q] = [x \in Peers |-> NoSession]]
        PROVE  /\ session' = [r \in Ports |-> session'[r]]
               /\ \A r \in Ports : session'[r] = [p \in Peers |-> session'[r][p]]
               /\ \A r \in Ports, p \in Peers : session'[r][p] = NoSession \/ session'[r][p] = session[r][p]
    BY <2>4 DEF TableOK
  <2> QED
    BY <2>1, <2>2, <2>3, <2>4
<1> QED
  BY <1>0, <1>1, NoSessionOK DEF Thins

\* Nothing is closed but by these, and the ports stay.
LEMMA PortFrame ==
  ASSUME PortPart, Thins, UNCHANGED <<slot, last_cfg, bound, dead>>
  PROVE  PortPart' /\ DeadSessionsUnused
<1>1. PortsOK' /\ Listening("udp")' = Listening("udp")
  BY PortsFrame DEF PortPart
<1>2. OpenListens'
  BY <1>1 DEF PortPart, OpenListens, Thins
<1> QED
  BY <1>1, <1>2, ThinsKeep DEF PortPart

\* run_l4_proxy: a pass.
LEMMA ManagerKeeps ==
  ASSUME PortPart, ManagerPass
  PROVE  PortPart' /\ DeadSessionsUnused
<1> DEFINE want == Desired(slot.l4)
<1>1. /\ bound' = [p \in Protos |-> ((bound[p] \ dead[p]) \cap want[p]) \cup (want[p] \ taken[p])]
      /\ dead' = [p \in Protos |-> {q \in dead[p] : q \in want[p] /\ q \notin bound'[p]}]
      /\ last_cfg' = slot.n /\ slot' = slot
  BY DEF ManagerPass, AfterPass
<1>2. session' = [q \in Ports |-> IF q \in bound["udp"] \ dead["udp"] /\ q \in bound'["udp"] THEN session[q]
                                  ELSE [p \in Peers |-> NoSession]]
  BY DEF ManagerPass
<1> HIDE DEF want
<1>3. \A p \in Protos : bound'[p] \subseteq want[p] /\ dead'[p] \cap bound'[p] = {}
  BY <1>1
<1>4. PortsOK'
  <2>1. \A p \in Protos : bound'[p] \subseteq Desired(slot'.l4)[p]
    BY <1>1, <1>3 DEF want
  <2>2. bound' = [p \in Protos |-> bound'[p]] /\ dead' = [p \in Protos |-> dead'[p]]
    BY <1>1
  <2>3. slot'.n \in Int /\ last_cfg' \in Int /\ last_cfg' <= slot'.n
    BY <1>1 DEF PortPart, PortsOK
  <2> QED
    BY <2>1, <2>2, <2>3 DEF PortsOK
<1>5. OpenListens'
  <2>1. ASSUME NEW q \in Ports, NEW x \in Peers, session'[q][x].open PROVE q \in bound'["udp"] \ dead'["udp"]
    <3>1. q \in bound'["udp"]
      BY <1>2, <2>1, NoSessionOK
    <3> QED
      BY <1>3, <3>1 DEF Protos
  <2> QED
    BY <2>1 DEF OpenListens, Listening
<1>6. Thins
  BY ClosingThins DEF PortPart
<1> QED
  BY <1>4, <1>5, <1>6, ThinsKeep DEF PortPart

\* A task ends by itself.
LEMMA TaskEndsKeeps ==
  ASSUME PortPart, NEW p \in Protos, NEW q, TaskEnds(p, q)
  PROVE  PortPart' /\ DeadSessionsUnused
<1>1. dead' = [dead EXCEPT ![p] = dead[p] \cup {q}] /\ UNCHANGED <<slot, last_cfg, bound>>
  BY DEF TaskEnds
<1>2. PortsOK'
  BY <1>1 DEF PortPart, PortsOK
<1>3. OpenListens'
  <2>1. ASSUME NEW r \in Ports, NEW x \in Peers, session'[r][x].open PROVE r \in bound'["udp"] \ dead'["udp"]
    <3>1. CASE p = "udp"
      <4>1. session' = [session EXCEPT ![q] = [y \in Peers |-> NoSession]]
        BY <3>1 DEF TaskEnds
      <4>2. r # q /\ session'[r] = session[r]
        <5>1. DOMAIN session = Ports
          BY DEF PortPart, TableOK
        <5>2. CASE r = q
          <6>1. session'[r][x] = NoSession
            BY <4>1, <5>1, <5>2
          <6> QED
            BY <2>1, <6>1, NoSessionOK
        <5> QED
          BY <4>1, <5>1, <5>2
      <4>3. r \in bound["udp"] \ dead["udp"]
        BY <2>1, <4>2 DEF PortPart, OpenListens, Listening
      <4>4. dead'["udp"] = dead["udp"] \cup {q} /\ bound' = bound
        BY <1>1, <3>1 DEF PortPart, PortsOK
      <4> QED
        BY <4>2, <4>3, <4>4
    <3>2. CASE p # "udp"
      <4>1. session' = session
        BY <3>2 DEF TaskEnds
      <4>2. r \in bound["udp"] \ dead["udp"]
        BY <2>1, <4>1 DEF PortPart, OpenListens, Listening
      <4>3. dead'["udp"] = dead["udp"] /\ bound' = bound
        <5>1. DOMAIN dead = Protos /\ "udp" \in Protos
          BY DEF PortPart, PortsOK, Protos
        <5> QED
          BY <1>1, <3>2, <5>1
      <4> QED
        BY <4>2, <4>3
    <3> QED
      BY <3>1, <3>2
  <2> QED
    BY <2>1 DEF OpenListens, Listening
<1>4. Thins
  BY ClosingThins DEF PortPart
<1> QED
  BY <1>2, <1>3, <1>4, ThinsKeep DEF PortPart

\* apply_config stores another Arc: the manager has yet to see it.
LEMMA StoreKeeps ==
  ASSUME PortPart, NEW config, StoreL4(config)
  PROVE  PortPart' /\ DeadSessionsUnused
<1>1. slot'.n = slot.n + 1 /\ UNCHANGED <<last_cfg, bound, dead, session>>
  BY DEF StoreL4
<1>2. PortsOK'
  BY <1>1 DEF PortPart, PortsOK
<1>3. OpenListens'
  BY <1>1 DEF PortPart, OpenListens, Listening
<1>4. Thins
  BY <1>1, SameThins DEF PortPart
<1> QED
  BY <1>2, <1>3, <1>4, ThinsKeep DEF PortPart

----------------------------------------------------------------------------
(* The addresses of backend hosts *)

\* No host loses all its addresses in going from one table to another.
Survives(table, next) == \A h \in DOMAIN table \cap DOMAIN next : table[h] # {} => next[h] # {}

ReloaderFields == {"pc", "yaml", "dns", "files", "cert"}
ReloaderOK == reloader = [f \in ReloaderFields |-> reloader[f]] /\ Survives(dns, reloader.dns)

LEMMA AtOK ==
  ASSUME NEW pc, NEW table
  PROVE  At(pc) = [f \in ReloaderFields |-> At(pc)[f]] /\ Survives(table, At(pc).dns)
<1>1. At(pc) = [f \in ReloaderFields |-> At(pc)[f]] /\ At(pc).dns = <<>>
  BY DEF At, ReloaderFields
<1>2. DOMAIN <<>> = {}
  OBVIOUS
<1> QED
  BY <1>1, <1>2 DEF Survives

LEMMA CompileOK ==
  ASSUME NEW config, NEW table
  PROVE  /\ Compile(config, table) = [f \in ReloaderFields |-> Compile(config, table)[f]]
         /\ Compile(config, table).dns = table
<1> DEFINE a == At("compile")
<1>1. a = [f \in ReloaderFields |-> a[f]]
  BY AtOK
<1> HIDE DEF a
<1>2. Compile(config, table) = [a EXCEPT !.yaml = config, !.dns = table]
  BY DEF Compile, a
<1> QED
  BY <1>1, <1>2 DEF ReloaderFields

LEMMA ResolvedSurvives ==
  ASSUME NEW hosts, NEW table, NEW answers
  PROVE  Survives(table, resolve_backend_hosts(hosts, table, answers))
BY DEF Survives, resolve_backend_hosts

LEMMA SameSurvives == ASSUME NEW table PROVE Survives(table, table)
BY DEF Survives

\* A step leaves the table alone or puts the reloader's in its place.
LEMMA ReloadKeeps ==
  ASSUME ReloaderOK, [Next]_vars
  PROVE  ReloaderOK' /\ PoolsSurviveDns
<1> DEFINE Goal == ReloaderOK' /\ PoolsSurviveDns
<1>1. ASSUME UNCHANGED reloader, UNCHANGED dns PROVE Goal
  BY <1>1 DEF ReloaderOK, PoolsSurviveDns
<1>2. ASSUME UNCHANGED dns, \E pc : reloader' = At(pc) PROVE Goal
  <2>1. PICK pc : reloader' = At(pc)
    BY <1>2
  <2> QED
    BY <1>2, <2>1, AtOK DEF ReloaderOK, PoolsSurviveDns
<1>3. ASSUME UNCHANGED dns, NEW config, NEW table, reloader' = Compile(config, table), Survives(dns, table)
      PROVE  Goal
  BY <1>3, CompileOK DEF ReloaderOK, PoolsSurviveDns
<1>4. ASSUME UNCHANGED dns, reloader' = [f \in ReloaderFields |-> reloader'[f]], reloader'.dns = reloader.dns PROVE Goal
  BY <1>4 DEF ReloaderOK, PoolsSurviveDns
<1> HIDE DEF Goal
<1>5. ASSUME Reapply PROVE Goal
  <2>1. PICK config \in last : reloader' = Compile(config, dns)
    BY <1>5 DEF Reapply
  <2>2. UNCHANGED dns
    BY <1>5 DEF Reapply
  <2> QED
    BY <1>3, <2>1, <2>2, SameSurvives
<1>6. ASSUME ReloadStep PROVE Goal
  <2>1. CASE TakeTrigger
    BY <1>2, <1>5, <2>1 DEF TakeTrigger, kept
  <2>2. CASE SettleEnds
    <3>1. reloader' = [reloader EXCEPT !.pc = "check"] /\ UNCHANGED dns
      BY <2>2 DEF SettleEnds, kept
    <3> QED
      BY <1>4, <3>1 DEF ReloaderOK, ReloaderFields
  <2>3. CASE CheckInputs
    <3>1. \/ UNCHANGED dns /\ \E pc : reloader' = At(pc)
          \/ Reapply
      BY <2>3 DEF CheckInputs, kept
    <3> QED
      BY <1>2, <1>5, <3>1
  <2>4. CASE refresh_dns
    <3>1. PICK config \in last :
            reloader' = Compile(config, resolve_backend_hosts(backend_hostnames(config, Hosts), dns, lookup))
      BY <2>4 DEF refresh_dns
    <3>2. UNCHANGED dns
      BY <2>4 DEF refresh_dns
    <3> QED
      BY <1>3, <3>1, <3>2, ResolvedSurvives
  <2>5. CASE sync_watches
    <3>1. UNCHANGED dns /\ reloader' = At("wait")
      BY <2>5 DEF sync_watches
    <3> QED
      BY <1>2, <3>1
  <2> QED
    BY <1>6, <2>1, <2>2, <2>3, <2>4, <2>5 DEF ReloadStep
<1>7. ASSUME ReadYaml PROVE Goal
  <2>1. CASE ~disk.yaml.parses
    <3>1. UNCHANGED dns /\ reloader' = At("sync")
      BY <1>7, <2>1 DEF ReadYaml, reload_from_disk
    <3> QED
      BY <1>2, <3>1
  <2>2. CASE disk.yaml.parses
    <3>1. /\ UNCHANGED dns
          /\ reloader' = Compile(disk.yaml, resolve_backend_hosts(backend_hostnames(disk.yaml, Hosts), dns, lookup))
      BY <1>7, <2>2 DEF ReadYaml, reload_from_disk
    <3> QED
      BY <1>3, <3>1, ResolvedSurvives
  <2> QED
    BY <2>1, <2>2
<1>8. ASSUME CompileYaml PROVE Goal
  <2>1. UNCHANGED dns
    BY <1>8 DEF CompileYaml, CompileStep
  <2>2. CASE Compiles(reloader.yaml, disk.files)
    <3>1. reloader' = [reloader EXCEPT !.pc = "apply", !.files = ReadFiles(reloader.yaml, disk.files)]
      BY <1>8, <2>2 DEF CompileYaml, CompileStep
    <3> QED
      BY <1>4, <2>1, <3>1 DEF ReloaderOK, ReloaderFields
  <2>3. CASE ~Compiles(reloader.yaml, disk.files)
    <3>1. reloader' = At("sync")
      BY <1>8, <2>3 DEF CompileYaml, CompileStep
    <3> QED
      BY <1>2, <2>1, <3>1
  <2> QED
    BY <2>2, <2>3
<1>9. ASSUME Applied PROVE Goal
  <2>1. dns' = reloader.dns /\ reloader' = At("sync")
    BY <1>9 DEF Applied, FinishApply
  <2> QED
    BY <2>1, AtOK DEF Goal, ReloaderOK, PoolsSurviveDns, Survives
<1>10. ASSUME ApplyL4 PROVE Goal
  <2>1. UNCHANGED dns /\ (UNCHANGED reloader \/ reloader' = [reloader EXCEPT !.pc = "finish"])
    BY <1>10 DEF ApplyL4
  <2>2. CASE reloader' = [reloader EXCEPT !.pc = "finish"]
    BY <1>4, <2>1, <2>2 DEF ReloaderOK, ReloaderFields
  <2> QED
    BY <1>1, <2>1, <2>2
<1>11. ASSUME Settle PROVE Goal
  <2>1. UNCHANGED dns /\ \E b : reloader' = [reloader EXCEPT !.cert = b]
    BY <1>11 DEF Settle, settle, kept
  <2>2. PICK b : reloader' = [reloader EXCEPT !.cert = b]
    BY <2>1
  <2> QED
    BY <1>4, <2>1, <2>2 DEF ReloaderOK, ReloaderFields
<1>12. ASSUME Change \/ Disturb \/ Issued PROVE UNCHANGED reloader /\ UNCHANGED dns
  BY <1>12 DEF Change, Edit, EditFile, DnsChanges, Disturb, Touch, Issued
<1>13. ASSUME \/ ReceiveConfig \/ ApplyTls \/ ApplyLbs \/ GiveUp \/ frontend_tls \/ start_draining
              \/ Manager \/ Connection \/ Handoffs \/ Failure \/ Pump \/ HangUp \/ PortFault
              \/ Datagram \/ Unreachable \/ Reap \/ Time \/ HotReload
              \/ AcmeStep \/ AcmeFault \/ Renewal \/ UNCHANGED vars
       PROVE  UNCHANGED reloader /\ UNCHANGED dns
  <2>1. UNCHANGED reloadVars
    BY <1>13, Zenon DEF ReceiveConfig, ApplyTls, ApplyLbs, GiveUp, frontend_tls, start_draining, Manager,
       Connection, Handoffs, Failure, Pump, HangUp, PortFault, Datagram, Unreachable, Reap, Time,
       HotReload, AcmeStep, AcmeFault, Renewal, vars
  <2> QED
    BY <2>1 DEF reloadVars
<1>14. Goal
  BY <1>1, <1>6, <1>7, <1>8, <1>9, <1>10, <1>11, <1>12, <1>13 DEF Next
<1> QED
  BY <1>14 DEF Goal

----------------------------------------------------------------------------
(* The whole data plane *)

\* The inductive invariant.
FrontendInv == world \in Worlds /\ ConnPart /\ PortPart /\ ReloaderOK

LEMMA FrontendInit == Init => FrontendInv
<1> SUFFICES ASSUME Init PROVE FrontendInv
  OBVIOUS
<1> USE DEF Init, ListenersInit
<1>1. ConnPart
  <2>1. ConnsOK
    BY FreeOK DEF ConnsOK
  <2>2. QueuesOK
    BY DEF QueuesOK
  <2>3. PermitsOK
    <3>1. Holders(conn) = {}
      BY FreeOK DEF Holders
    <3>2. Cardinality(Holders(conn)) = 0
      BY <3>1, FS_EmptySet, Zenon
    <3>3. permits \in Nat /\ permits + Cardinality(Holders(conn)) = MaxConnections
      BY <3>2, Limits
    <3> QED
      BY <3>3, Zenon DEF PermitsOK, PermitsExact, Holders
  <2> QED
    BY <2>1, <2>2, <2>3 DEF ConnPart
<1>2. PortPart
  <2>1. TableOK
    BY NoSessionOK DEF TableOK
  <2>2. PortsOK
    BY DEF PortsOK
  <2>3. OpenListens
    BY NoSessionOK DEF OpenListens
  <2>4. UdpBounded
    <3>1. ASSUME NEW q \in Ports PROVE Size(q) <= MaxUdpSessions
      <4>1. Opens(session[q]) = {}
        BY NoSessionOK DEF Opens
      <4>2. Cardinality(Opens(session[q])) = 0
        BY <4>1, FS_EmptySet, Zenon
      <4>3. Size(q) = 0
        BY <4>2, Zenon DEF Size, Opens
      <4> QED
        BY <4>3, Limits
    <3> QED
      BY <3>1, Zenon DEF UdpBounded
  <2> QED
    BY <2>1, <2>2, <2>3, <2>4 DEF PortPart
<1>3. ReloaderOK
  BY AtOK DEF ReloadInit, ReloaderOK
<1> QED
  BY <1>1, <1>2, <1>3 DEF FrontendInv

\* What the listener manager and the proxies did in a step: one connection, one
\* session, the clock, the ports, or nothing that the invariant is about.
LEMMA ListenerStep ==
  ASSUME FrontendInv, [Next]_vars
  PROVE  /\ ConnPart' /\ BusySessionsStay
         /\ PortPart' /\ DeadSessionsUnused
<1> DEFINE Goal == ConnPart' /\ BusySessionsStay /\ PortPart' /\ DeadSessionsUnused
<1>0. ConnPart /\ PortPart /\ TableOK
  BY DEF FrontendInv, PortPart
\* A step of connections alone.
<1>1. ASSUME UNCHANGED Others, ConnPart', BusySessionsStay PROVE Goal
  <2>1. UNCHANGED <<slot, last_cfg, bound, dead>> /\ session' = session
    BY <1>1 DEF Others
  <2>2. PortPart' /\ DeadSessionsUnused
    BY <1>0, <2>1, SameThins, PortFrame
  <2> QED
    BY <1>1, <2>2
<1>2. ASSUME UNCHANGED Others, NEW c \in Conns, \E x : Moves(c, x) PROVE Goal
  <2>1. PICK x : Moves(c, x)
    BY <1>2
  <2> QED
    BY <1>0, <1>1, <1>2, <2>1, MovesKeep, MovesBusy
\* A step of ports and sessions alone.
<1>3. ASSUME UNCHANGED <<conn, permits, handoff>>, PortPart', DeadSessionsUnused PROVE Goal
  BY <1>0, <1>3, ConnFrame
<1>4. ASSUME UNCHANGED NotUdp, NEW q, NEW p, \E x : Serve(q, p, x) PROVE Goal
  <2>1. PICK x : Serve(q, p, x)
    BY <1>4
  <2>2. UNCHANGED <<conn, permits, handoff>>
    BY <1>4 DEF NotUdp
  <2> QED
    BY <1>0, <1>3, <2>1, <2>2, ServeKeeps
<1>5. ASSUME UNCHANGED <<slot, last_cfg, bound, dead, session, conn, permits, handoff>> PROVE Goal
  BY <1>0, <1>3, <1>5, SameThins, PortFrame
<1> HIDE DEF Goal
<1>6. ASSUME Connection PROVE Goal
  <2>1. PICK c \in Conns :
          \/ \E t \in world.traffic : Accept(c, t[1], t[2])
          \/ Start(c)
          \/ Peek(c, "hello")
          \/ Handshake(c, TRUE)
          \/ Connect(c, TRUE)
          \/ HandOff(c, up = "draining")
          \/ Serves /\ Leave(c)
    BY <1>6, Zenon DEF Connection
  <2>2. UNCHANGED Others
    BY <2>1, Zenon DEF Accept, Start, Peek, Handshake, Connect, HandOff, Leave, Close0
  <2>3. CASE HandOff(c, up = "draining")
    <3>1. (up = "draining") \in BOOLEAN
      OBVIOUS
    <3> QED
      BY <1>0, <1>1, <2>2, <2>3, <3>1, HandOffKeeps
  <2>4. CASE ~HandOff(c, up = "draining")
    <3>1. \E x : Moves(c, x)
      BY <1>0, <2>1, <2>4, AcceptMoves, StartMoves, PeekMoves, DialMoves, LeaveMoves, Zenon
    <3> QED
      BY <1>2, <2>2, <3>1
  <2> QED
    BY <2>3, <2>4
<1>7. ASSUME Failure PROVE Goal
  <2>1. PICK c \in Conns : \/ Peek(c, "none") \/ Peek(c, "eof")
                           \/ Handshake(c, FALSE) \/ Connect(c, FALSE)
    BY <1>7, Zenon DEF Failure
  <2>2. UNCHANGED Others
    BY <2>1, Zenon DEF Peek, Handshake, Connect
  <2>3. \E x : Moves(c, x)
    BY <1>0, <2>1, PeekMoves, DialMoves, Zenon
  <2> QED
    BY <1>2, <2>2, <2>3
<1>8. ASSUME Pump PROVE Goal
  <2>1. PICK c \in Conns, d \in Dirs : Bytes(c, d) \/ TimedOut(c, d)
    BY <1>8, Zenon DEF Pump
  <2>2. UNCHANGED Others
    BY <2>1, Zenon DEF Bytes, TimedOut
  <2>3. \E x : Moves(c, x)
    BY <1>0, <2>1, PumpMoves, Zenon
  <2> QED
    BY <1>2, <2>2, <2>3
<1>9. ASSUME HangUp PROVE Goal
  <2>1. PICK c \in Conns : Reset(c) \/ \E d \in Dirs : Eof(c, d)
    BY <1>9, Zenon DEF HangUp
  <2>2. UNCHANGED Others
    BY <2>1, Zenon DEF Reset, Close0, Eof
  <2>3. \E x : Moves(c, x)
    BY <1>0, <1>9, <2>1, HangUpMoves, Zenon DEF HangUp
  <2> QED
    BY <1>2, <2>2, <2>3
<1>10. ASSUME Handoffs PROVE Goal
  <2>1. PICK s \in Stacks : Receive(s, up = "draining")
    BY <1>10, Zenon DEF Handoffs
  <2>2. UNCHANGED Others
    BY <2>1, Zenon DEF Receive
  <2>3. (up = "draining") \in BOOLEAN
    OBVIOUS
  <2> QED
    BY <1>0, <1>1, <2>1, <2>2, <2>3, ReceiveKeeps
<1>11. ASSUME Datagram \/ Unreachable PROVE Goal
  <2>1. PICK t \in world.datagrams, ok \in BOOLEAN :
          ForwardOn(t[1], t[2], ok) \/ ForwardNew(t[1], t[2], ok) \/ Reply(t[1], t[2], ok)
    BY <1>11, Zenon DEF Datagram, Unreachable
  <2>2. t[1] \in Ports /\ t[2] \in Peers
    BY WorldsAssumption DEF FrontendInv
  <2>3. UNCHANGED NotUdp
    BY <2>1, Zenon DEF ForwardOn, ForwardNew, Reply
  <2>4. \E x : Serve(t[1], t[2], x)
    BY <1>0, <2>1, <2>2, ForwardServes, ForwardNewServes, Zenon
  <2> QED
    BY <1>4, <2>3, <2>4
<1>12. ASSUME Reap PROVE Goal
  <2>1. PICK q \in Ports : reap(q)
    BY <1>12, Zenon DEF Reap
  <2>2. UNCHANGED NotUdp
    BY <2>1, Zenon DEF reap
  <2>3. UNCHANGED <<conn, permits, handoff>> /\ UNCHANGED <<slot, last_cfg, bound, dead>>
    BY <2>2 DEF NotUdp
  <2> QED
    BY <1>0, <1>3, <2>1, <2>3, TimeThins, PortFrame
<1>13. ASSUME Time PROVE Goal
  <2>1. Tick
    BY <1>13 DEF Time
  <2>2. UNCHANGED <<slot, last_cfg, bound, dead>>
    BY <2>1 DEF Tick
  <2>3. ConnPart' /\ BusySessionsStay
    BY <1>0, <2>1, TickKeepsConns
  <2>4. PortPart' /\ DeadSessionsUnused
    BY <1>0, <2>1, <2>2, TimeThins, PortFrame
  <2> QED
    BY <2>3, <2>4 DEF Goal
<1>14. ASSUME Manager PROVE Goal
  <2>1. ManagerPass /\ UNCHANGED <<conn, permits, handoff>>
    BY <1>14 DEF Manager, ManagerPass
  <2> QED
    BY <1>0, <1>3, <2>1, ManagerKeeps
<1>15. ASSUME PortFault PROVE Goal
  <2>1. CASE \E p \in Protos : \E q \in bound[p] : TaskEnds(p, q)
    <3>0. PICK p \in Protos : \E q \in bound[p] : TaskEnds(p, q)
      BY <2>1
    <3>1. PICK q \in bound[p] : TaskEnds(p, q)
      BY <3>0
    <3>2. UNCHANGED <<conn, permits, handoff>>
      BY <3>1 DEF TaskEnds
    <3> QED
      BY <1>0, <1>3, <3>1, <3>2, TaskEndsKeeps
  <2>2. CASE \E p, q : Occupy(p, q)
    <3>1. UNCHANGED <<slot, last_cfg, bound, dead, session, conn, permits, handoff>>
      BY <2>2 DEF Occupy
    <3> QED
      BY <1>5, <3>1
  <2> QED
    BY <1>15, <2>1, <2>2, Zenon DEF PortFault
<1>16. ASSUME ApplyL4 PROVE Goal
  <2>1. StoreL4(applying.config) /\ UNCHANGED <<conn, permits, handoff>>
    BY <1>16 DEF ApplyL4, StoreL4
  <2> QED
    BY <1>0, <1>3, <2>1, StoreKeeps
<1>17. ASSUME ApplyLbs PROVE Goal
  <2>1. UNCHANGED <<slot, last_cfg, bound, dead, session, conn, permits, handoff>>
    BY <1>17 DEF ApplyLbs, StoreLbs
  <2> QED
    BY <1>5, <2>1
<1>18. ASSUME \/ ReceiveConfig \/ ApplyTls \/ GiveUp \/ frontend_tls \/ start_draining
              \/ HotReload \/ Change \/ Disturb \/ Settle \/ ReloadStep \/ ReadYaml \/ CompileYaml \/ Applied
              \/ AcmeStep \/ AcmeFault \/ Renewal \/ Issued \/ UNCHANGED vars
       PROVE  Goal
  <2>1. UNCHANGED listenerVars
    BY <1>18, Zenon DEF ReceiveConfig, ApplyTls, GiveUp, frontend_tls, start_draining, HotReload, Change,
       Disturb, Settle, ReloadStep, ReadYaml, CompileYaml, Applied, AcmeStep, AcmeFault, Renewal, Issued, vars
  <2>2. UNCHANGED <<slot, last_cfg, bound, dead, session, conn, permits, handoff>>
    BY <2>1 DEF listenerVars
  <2> QED
    BY <1>5, <2>2
<1>19. Goal
  BY <1>6, <1>7, <1>8, <1>9, <1>10, <1>11, <1>12, <1>13, <1>14, <1>15, <1>16, <1>17, <1>18, Zenon DEF Next
<1> QED
  BY <1>19 DEF Goal

LEMMA FrontendNext == FrontendInv /\ [Next]_vars => FrontendInv'
<1> SUFFICES ASSUME FrontendInv, [Next]_vars PROVE FrontendInv'
  OBVIOUS
<1>1. world' = world
  BY Zenon DEF Next, ReceiveConfig, ApplyTls, ApplyLbs, ApplyL4, GiveUp, frontend_tls, start_draining,
     Manager, Connection, Handoffs, Failure, Pump, HangUp, PortFault, Datagram, Unreachable, Reap, Time,
     HotReload, Change, Disturb, Settle, ReloadStep, ReadYaml, CompileYaml, Applied, AcmeStep, AcmeFault,
     Renewal, Issued, vars, own
<1>2. ConnPart' /\ PortPart'
  BY ListenerStep
<1>3. ReloaderOK'
  BY ReloadKeeps DEF FrontendInv
<1> QED
  BY <1>1, <1>2, <1>3 DEF FrontendInv

\* Of the inductive invariant the four parts of SessionsExact are left: a
\* session is over before twice the idle timeout, for one of its directions
\* still reads.
LEMMA InvExact == FrontendInv => SessionsExact
<1> SUFFICES ASSUME FrontendInv PROVE SessionsExact
  OBVIOUS
<1>1. PermitsExact
  BY DEF FrontendInv, ConnPart, PermitsOK
<1>2. QuietSessionsEnd
  <2>1. ASSUME NEW c \in Conns, conn[c].pc = "proxy" PROVE conn[c].quiet < 2 * L4Idle
    <3>1. Timers(conn[c])
      BY DEF FrontendInv, ConnPart, ConnsOK, ConnOK
    <3>2. PICK d \in Dirs : d \notin conn[c].done
      BY <3>1 DEF Timers, Dirs
    <3>3. /\ conn[c].quiet \in Nat /\ conn[c].wait[d] \in Nat
          /\ conn[c].wait[d] <= L4Idle /\ conn[c].quiet < conn[c].wait[d] + L4Idle
      BY <2>1, <3>1, <3>2 DEF Timers
    <3> QED
      BY <3>3, Limits
  <2> QED
    BY <2>1 DEF QuietSessionsEnd
<1>3. StalePortsReleased
  BY DEF FrontendInv, PortPart, PortsOK, OpenListens, StalePortsReleased
<1>4. UdpBounded
  BY DEF FrontendInv, PortPart
<1> QED
  BY <1>1, <1>2, <1>3, <1>4 DEF SessionsExact

\* Permits, sessions and ports are those of the config and the traffic,
\* whatever the configs, the clients and the bounds: no permit leaks on any
\* way a connection's task may end, no quiet session outlives twice the idle
\* timeout, ports and UDP sessions the config does not want are given up, and
\* no session table outgrows its bound (l4_proxy.rs, udp_proxy.rs).
THEOREM SessionsAreExact == Spec => []SessionsExact
<1>1. Init => FrontendInv
  BY FrontendInit
<1>2. FrontendInv /\ [Next]_vars => FrontendInv'
  BY FrontendNext
<1>3. FrontendInv => SessionsExact
  BY InvExact
<1> QED
  BY <1>1, <1>2, <1>3, PTL DEF Spec

\* No step ends a session that is in use, keeps a dead one alive or takes the
\* last addresses of a backend host away (copy_bidirectional_idle,
\* udp_listener_loop, resolve_backend_hosts).
THEOREM LiveIsKept == Spec => StepsKeepLive
<1>1. Init => FrontendInv
  BY FrontendInit
<1>2. FrontendInv /\ [Next]_vars => FrontendInv'
  BY FrontendNext
<1>3. FrontendInv /\ [Next]_vars => BusySessionsStay /\ DeadSessionsUnused /\ PoolsSurviveDns
  BY ListenerStep, ReloadKeeps DEF FrontendInv
<1>4. FrontendInv /\ [Next]_vars => [BusySessionsStay /\ DeadSessionsUnused /\ PoolsSurviveDns]_vars
  BY <1>3
<1> QED
  BY <1>1, <1>2, <1>4, PTL DEF Spec, StepsKeepLive

----------------------------------------------------------------------------
(* Certificates *)

\* What the resolver and the ports use was loaded from a slot with the same
\* certificates and the same validation as the slot has now, in whatever order.
Installed(data) ==
  /\ port_configs = data.validation
  /\ \E d : ToBag(d.entries) = ToBag(data.entries) /\ resolver = Loading(d)

\* When the hot-reload thread waits and was told of nothing more, what it has
\* installed is what the slot holds, unless no certificate of the slot loads
\* (start_tls_cert_hot_reload).
CertsInForce ==
  Serves /\ reloading.pc = "wait" /\ ~permit =>
    \A data \in tls_slot : Loading(data) # <<>> => Installed(data)

ThreadOK ==
  /\ reloading = [pc |-> reloading.pc, data |-> reloading.data] /\ permit \in BOOLEAN
  /\ reloading.pc \in {"wait", "load", "install", "ports"}
  /\ \A a, b \in tls_slot : a = b
  /\ ~Serves => reloading.pc = "wait" /\ fingerprint = {}

\* A thread at work on what is not the slot's content any more has been told.
WorksOnSlot == reloading.pc \in {"install", "ports"} => permit \/ reloading.data = tls_slot

\* The last fingerprint is that of what is installed, except while the
\* certificates are already new and the ports are not.
PrintIsInstalled ==
  /\ reloading.pc # "ports" => \A f \in fingerprint : \E d :
       f = FingerprintOf(d) /\ resolver = Loading(d) /\ port_configs = d.validation
  /\ reloading.pc = "ports" => \A d \in reloading.data : resolver = Loading(d)
  /\ reloading.pc \in {"install", "ports"} => \A a, b \in reloading.data : a = b

\* A thread that waits without a permit has nothing left to install.
NothingMissed ==
  Serves /\ reloading.pc = "wait" /\ ~permit =>
    \A data \in tls_slot : Loading(data) = <<>> \/ fingerprint = {FingerprintOf(data)}

TlsInv == ThreadOK /\ WorksOnSlot /\ PrintIsInstalled /\ NothingMissed

LEMMA TlsFrame ==
  ASSUME TlsInv, UNCHANGED tlsVars, Serves' = Serves
  PROVE  TlsInv'
<1>1. UNCHANGED <<tls_slot, permit, reloading, fingerprint, resolver, port_configs>>
  BY DEF tlsVars
<1>2. ThreadOK' /\ WorksOnSlot'
  BY <1>1 DEF TlsInv, ThreadOK, WorksOnSlot
<1>3. PrintIsInstalled'
  BY <1>1, Zenon DEF TlsInv, PrintIsInstalled
<1>4. NothingMissed'
  BY <1>1 DEF TlsInv, NothingMissed
<1> QED
  BY <1>2, <1>3, <1>4 DEF TlsInv

LEMMA StoreTlsKeeps ==
  ASSUME TlsInv, NEW config, StoreTls(config), Serves' = Serves
  PROVE  TlsInv'
<1>1. CASE UNCHANGED <<tls_slot, permit>>
  BY <1>1, TlsFrame DEF StoreTls, tlsVars
<1>2. CASE \E x : tls_slot' = {x} /\ permit' = TRUE
  <2>1. UNCHANGED <<reloading, fingerprint, resolver, port_configs>>
    BY DEF StoreTls
  <2>2. ThreadOK' /\ WorksOnSlot' /\ NothingMissed'
    BY <1>2, <2>1 DEF TlsInv, ThreadOK, WorksOnSlot, NothingMissed
  <2>3. PrintIsInstalled'
    BY <2>1, Zenon DEF TlsInv, PrintIsInstalled
  <2> QED
    BY <2>2, <2>3 DEF TlsInv
<1> QED
  BY <1>1, <1>2, Zenon DEF StoreTls

LEMMA HotReloadKeeps ==
  ASSUME TlsInv, Wake \/ LoadSlot \/ InstallCerts \/ InstallPorts, Serves, Serves'
  PROVE  TlsInv'
<1> USE DEF TlsInv, ThreadOK
<1>1. CASE Wake
  <2>1. reloading'.pc = "load" /\ reloading' = [pc |-> reloading'.pc, data |-> reloading'.data]
    BY <1>1 DEF Wake
  <2>2. UNCHANGED <<tls_slot, fingerprint, resolver, port_configs>> /\ permit' = FALSE /\ reloading.pc = "wait"
    BY <1>1 DEF Wake
  <2>3. PrintIsInstalled'
    BY <2>1, <2>2, Zenon DEF PrintIsInstalled
  <2> QED
    BY <2>1, <2>2, <2>3 DEF WorksOnSlot, NothingMissed
<1>2. CASE LoadSlot
  <2>1. UNCHANGED <<tls_slot, permit, fingerprint, resolver, port_configs>> /\ reloading.pc = "load"
    BY <1>2 DEF LoadSlot
  <2>2. CASE reloading' = [pc |-> "install", data |-> tls_slot]
    <3>1. reloading'.pc = "install" /\ reloading'.data = tls_slot
      BY <2>2
    <3>2. PrintIsInstalled'
      BY <2>1, <3>1 DEF PrintIsInstalled
    <3> QED
      BY <2>1, <2>2, <3>1, <3>2 DEF WorksOnSlot, NothingMissed
  <2>3. CASE /\ reloading' = [pc |-> "wait", data |-> {}]
             /\ \A data \in tls_slot : fingerprint = {FingerprintOf(data)}
    <3>1. reloading'.pc = "wait"
      BY <2>3
    <3>2. PrintIsInstalled'
      BY <2>1, <3>1 DEF PrintIsInstalled
    <3> QED
      BY <2>1, <2>3, <3>1, <3>2 DEF WorksOnSlot, NothingMissed
  <2> QED
    BY <1>2, <2>2, <2>3 DEF LoadSlot
<1>3. CASE InstallCerts
  <2>1. UNCHANGED <<tls_slot, permit, fingerprint, port_configs>> /\ reloading.pc = "install"
    BY <1>3 DEF InstallCerts
  <2>2. PICK data \in reloading.data :
          IF Loading(data) = <<>>
          THEN reloading' = [pc |-> "wait", data |-> {}] /\ UNCHANGED resolver
          ELSE reloading' = [reloading EXCEPT !.pc = "ports"] /\ resolver' = Loading(data)
    BY <1>3, Zenon DEF InstallCerts
  <2>3. CASE Loading(data) = <<>>
    <3>1. reloading' = [pc |-> "wait", data |-> {}] /\ resolver' = resolver
      BY <2>2, <2>3
    <3>2. reloading'.pc = "wait"
      BY <3>1
    <3>3. PrintIsInstalled'
      BY <2>1, <3>1, <3>2 DEF PrintIsInstalled
    <3>4. NothingMissed'
      BY <2>1, <2>3 DEF WorksOnSlot, NothingMissed
    <3> QED
      BY <2>1, <3>1, <3>2, <3>3, <3>4 DEF WorksOnSlot
  <2>4. CASE Loading(data) # <<>>
    <3>1. reloading' = [reloading EXCEPT !.pc = "ports"] /\ resolver' = Loading(data)
      BY <2>2, <2>4
    <3>2. reloading'.pc = "ports" /\ reloading'.data = reloading.data
             /\ reloading' = [pc |-> reloading'.pc, data |-> reloading'.data]
      BY <3>1
    <3>3. \A d \in reloading.data : d = data
      BY <2>1 DEF PrintIsInstalled
    <3>4. PrintIsInstalled'
      BY <3>1, <3>2, <3>3 DEF PrintIsInstalled
    <3> QED
      BY <2>1, <3>2, <3>4 DEF WorksOnSlot, NothingMissed
  <2> QED
    BY <2>3, <2>4
<1>4. CASE InstallPorts
  <2>1. UNCHANGED <<tls_slot, permit, resolver>> /\ reloading.pc = "ports"
          /\ reloading' = [pc |-> "wait", data |-> {}]
    BY <1>4 DEF InstallPorts
  <2>2. PICK data \in reloading.data : port_configs' = data.validation /\ fingerprint' = {FingerprintOf(data)}
    BY <1>4, Zenon DEF InstallPorts
  <2>3. reloading'.pc = "wait"
    BY <2>1
  <2>4. resolver' = Loading(data)
    BY <2>1 DEF PrintIsInstalled
  <2>5. PrintIsInstalled'
    BY <2>2, <2>3, <2>4 DEF PrintIsInstalled
  <2>6. NothingMissed'
    BY <2>1, <2>2 DEF WorksOnSlot, NothingMissed
  <2> QED
    BY <2>1, <2>3, <2>5, <2>6 DEF WorksOnSlot
<1> QED
  BY <1>1, <1>2, <1>3, <1>4

LEMMA TlsNext == TlsInv /\ [Next]_vars => TlsInv'
<1> SUFFICES ASSUME TlsInv, [Next]_vars PROVE TlsInv'
  OBVIOUS
<1>1. CASE ApplyTls
  <2>1. StoreTls(applying.config) /\ Serves' = Serves
    BY <1>1 DEF ApplyTls, Serves
  <2> QED
    BY <2>1, StoreTlsKeeps
<1>2. CASE frontend_tls
  <2>1. CASE up' = "up" /\ BootTls
    <3>1. reloading' = [pc |-> "load", data |-> {}] /\ reloading'.pc = "load"
            /\ UNCHANGED <<tls_slot, permit, fingerprint>> /\ Serves'
      BY <2>1 DEF BootTls, Serves
    <3>2. fingerprint' = {}
      BY <1>2, <3>1 DEF frontend_tls, Serves, TlsInv, ThreadOK
    <3> QED
      BY <3>1, <3>2 DEF TlsInv, ThreadOK, WorksOnSlot, PrintIsInstalled, NothingMissed
  <2>2. CASE up' = "exited" /\ UNCHANGED tlsVars
    BY <1>2, <2>2, TlsFrame DEF frontend_tls, Serves
  <2> QED
    BY <1>2, <2>1, <2>2, Zenon DEF frontend_tls
<1>3. CASE HotReload
  <2>1. Serves /\ Serves' /\ (Wake \/ LoadSlot \/ InstallCerts \/ InstallPorts)
    BY <1>3 DEF HotReload, Serves, own
  <2> QED
    BY <2>1, HotReloadKeeps
<1>4. CASE start_draining \/ GiveUp \/ ReadYaml \/ CompileYaml \/ Applied \/ ApplyL4
  <2>1. UNCHANGED tlsVars
    BY <1>4, Zenon DEF start_draining, GiveUp, ReadYaml, CompileYaml, Applied, ApplyL4
  <2>2. Serves' = Serves
    <3>1. \/ up = "up" /\ up' = "draining"
          \/ up' = up
          \/ up = "boot" /\ up' \in {"exited", "configured"}
      BY <1>4, Zenon DEF start_draining, GiveUp, ReadYaml, CompileYaml, Applied, ApplyL4
    <3> QED
      BY <3>1 DEF Serves
  <2> QED
    BY <2>1, <2>2, TlsFrame
<1>5. CASE \/ ReceiveConfig \/ ApplyLbs \/ Manager \/ Connection \/ Handoffs \/ Failure \/ Pump \/ HangUp
           \/ PortFault \/ Datagram \/ Unreachable \/ Reap \/ Time \/ Change \/ Disturb \/ Settle
           \/ ReloadStep \/ AcmeStep \/ AcmeFault \/ Renewal \/ Issued \/ UNCHANGED vars
  <2>1. UNCHANGED tlsVars /\ up' = up
    BY <1>5, Zenon DEF ReceiveConfig, ApplyLbs, Manager, Connection, Handoffs, Failure, Pump, HangUp,
       PortFault, Datagram, Unreachable, Reap, Time, Change, Disturb, Settle, ReloadStep, AcmeStep,
       AcmeFault, Renewal, Issued, vars, own
  <2> QED
    BY <2>1, TlsFrame DEF Serves
<1> QED
  BY <1>1, <1>2, <1>3, <1>4, <1>5, Zenon DEF Next

\* No certificate is forgotten: once the hot-reload thread waits, and nothing
\* was announced since it looked, handshakes are answered from what the slot
\* holds and every port validates clients as the slot says, whatever configs
\* came while it worked (start_tls_cert_hot_reload, apply_config).
THEOREM CertsAreInForce == Spec => []CertsInForce
<1>1. Init => TlsInv
  <2>1. ASSUME Init PROVE TlsInit /\ ~Serves
    BY <2>1 DEF Init, Serves
  <2>2. ASSUME TlsInit, ~Serves PROVE TlsInv
    <3>1. reloading.pc = "wait" /\ reloading = [pc |-> "wait", data |-> {}]
            /\ tls_slot = {} /\ permit = FALSE /\ fingerprint = {}
      BY <2>2 DEF TlsInit
    <3> QED
      BY <2>2, <3>1 DEF TlsInv, ThreadOK, WorksOnSlot, PrintIsInstalled, NothingMissed
  <2> QED
    BY <2>1, <2>2
<1>2. TlsInv /\ [Next]_vars => TlsInv'
  BY TlsNext
<1>3. TlsInv => CertsInForce
  <2>1. ASSUME TlsInv, Serves, reloading.pc = "wait", ~permit, NEW data \in tls_slot, Loading(data) # <<>>
        PROVE  Installed(data)
    <3>1. fingerprint = {FingerprintOf(data)}
      BY <2>1 DEF TlsInv, NothingMissed
    <3>2. PICK d : FingerprintOf(data) = FingerprintOf(d) /\ resolver = Loading(d) /\ port_configs = d.validation
      BY <2>1, <3>1 DEF TlsInv, PrintIsInstalled
    <3>3. ToBag(d.entries) = ToBag(data.entries) /\ d.validation = data.validation
      BY <3>2 DEF FingerprintOf
    <3> QED
      BY <3>2, <3>3, Zenon DEF Installed
  <2> QED
    BY <2>1 DEF CertsInForce
<1> QED
  BY <1>1, <1>2, <1>3, PTL DEF Spec

----------------------------------------------------------------------------
(* Challenges *)

\* An order that was answered has its response in the tables until the order
\* goes on or fails.
OrderOK ==
  /\ client = [pc |-> client.pc, todo |-> client.todo, domain |-> client.domain]
  /\ client.pc \in {"ready", "validate"} => client.domain \subseteq challenges

LEMMA OrderNext == OrderOK /\ [Next]_vars => OrderOK'
<1> SUFFICES ASSUME OrderOK, [Next]_vars PROVE OrderOK'
  OBVIOUS
<1>1. CASE UNCHANGED <<client, challenges>>
  BY <1>1 DEF OrderOK
<1>2. ASSUME NEW pc, To(pc), pc \in {"ready", "validate"} => client.domain \subseteq challenges'
      PROVE  OrderOK'
  BY <1>2 DEF OrderOK, To
<1>3. CASE Begin \/ Consider
  BY <1>3 DEF OrderOK, Begin, Consider, Sleeping
<1>4. CASE Fail \/ Save
  BY <1>4 DEF OrderOK, Fail, Save
<1>5. CASE (\E valid \in BOOLEAN : Order(valid)) \/ Answer \/ SetReady \/ CaValidated \/ Finalize
  BY <1>2, <1>5 DEF OrderOK, Order, Answer, SetReady, CaValidated, Finalize
<1>6. CASE \/ ReceiveConfig \/ ApplyTls \/ ApplyLbs \/ ApplyL4 \/ GiveUp \/ frontend_tls \/ start_draining
           \/ Manager \/ Connection \/ Handoffs \/ Failure \/ Pump \/ HangUp \/ PortFault
           \/ Datagram \/ Unreachable \/ Reap \/ Time \/ HotReload
           \/ Change \/ Disturb \/ Settle \/ ReloadStep \/ ReadYaml \/ CompileYaml \/ UNCHANGED vars
  <2>1. UNCHANGED acmeVars
    BY <1>6, Zenon DEF ReceiveConfig, ApplyTls, ApplyLbs, ApplyL4, GiveUp, frontend_tls, start_draining,
       Manager, Connection, Handoffs, Failure, Pump, HangUp, PortFault, Datagram, Unreachable, Reap, Time,
       HotReload, Change, Disturb, Settle, ReloadStep, ReadYaml, CompileYaml, vars
  <2> QED
    BY <1>1, <2>1 DEF acmeVars
<1>7. CASE Applied \/ Renewal
  BY <1>1, <1>7 DEF Applied, update, Renewal, FallDue
<1>8. CASE AcmeStep \/ AcmeFault \/ Issued
  <2>1. CASE AcmeTick
    BY <1>1, <2>1 DEF AcmeTick
  <2> QED
    BY <1>3, <1>4, <1>5, <1>8, <2>1, Zenon DEF AcmeStep, AcmeFault, Issued
<1> QED
  BY <1>6, <1>7, <1>8, Zenon DEF Next

\* The CA never asks for a challenge before its response can be given,
\* whatever the plans, the renewals and the orders that fail (issue_one).
THEOREM ChallengesAreAnswered == Spec => []ChallengeAnswered
<1>1. Init => OrderOK
  BY DEF Init, AcmeInit, Sleeping, OrderOK
<1>2. OrderOK /\ [Next]_vars => OrderOK'
  BY OrderNext
<1>3. OrderOK => ChallengeAnswered
  BY DEF OrderOK, ChallengeAnswered
<1> QED
  BY <1>1, <1>2, <1>3, PTL DEF Spec
=============================================================================
