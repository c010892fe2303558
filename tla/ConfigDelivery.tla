--------------------------- MODULE ConfigDelivery ---------------------------
(* From a compiled configuration to a Gateway's Programmed condition: the    *)
(* tail of the compilation loop (portus-controller/src/compiler.rs), the     *)
(* Programmed bookkeeping of the store (store.rs), the streams that carry a  *)
(* Gateway's slice to its data planes (grpc_server.rs), and the data plane's *)
(* receiver (portus-dataplane-core/src/config_receiver.rs).                  *)
(*                                                                           *)
(* One Gateway is modelled: slices of different Gateways share nothing but   *)
(* the compile loop.  A slice is represented by its content fingerprint,     *)
(* which is 0 exactly for the slice with no element (config_fingerprint is a *)
(* sum over the elements).  What the controller holds in memory is the       *)
(* record ctl, so a restart is one assignment; want is the cluster's state.  *)
EXTENDS Integers, Sequences, FiniteSets

CONSTANTS
  Nodes,        \* data planes of the Gateway
  Fps,          \* fingerprints its slice may have
  None,         \* no fingerprint
  NodeCap,      \* MAX_DATA_PLANE_NODES
  Preempt,      \* may a thread be overtaken between is_programmed_for, the change and the second look?
  LateSessions, \* may a data plane reconnect before the server has dropped its old stream?
  LateReports,  \* may a report be handled after its caller gave up or lost the connection?
  MaxEvents     \* bound: changes, broken streams, lost reports and restarts together

ASSUME DeliveryAssumption ==
  /\ Fps \subseteq Nat /\ Fps \ {0} # {} /\ None \notin Nat /\ NodeCap \in Nat
  /\ {Preempt, LateSessions, LateReports} \subseteq BOOLEAN
  /\ MaxEvents \in Nat

VARIABLES
  want,      \* fingerprint of what the cluster's objects compile to
  ctl,       \* the controller's memory
  ops,       \* store operations under way: before, change, after
  status,    \* the Programmed condition written to the Gateway
  conn,      \* conn[n]: the data plane has a config stream
  ghosts,    \* ghosts[n]: streams the client lost and the server still holds
  msg,       \* msg[n]: config on its way to the data plane
  run,       \* run[n]: AppliedConfig, what the data plane runs
  reports,   \* AppliedReport calls on their way
  env        \* history: what the environment has done, by kind

vars == <<want, ctl, ops, status, conn, ghosts, msg, run, reports, env>>

Config == [version : Nat, fp : Fps \cup {0}]
NoConfig == [version |-> 0, fp |-> 0]

Controller ==
  [dirty : BOOLEAN, pc : {"idle", "slicing", "publish"}, content : Fps,
   slice : Fps \cup {None}, superseded : Seq(Fps), elapsed : Nat, due : Nat,
   applied : [Nodes -> Fps \cup {None}], compiled_fp : Fps \cup {0},
   version : Nat, watch : Config, seen : [Nodes -> Config \cup {None}], event : BOOLEAN]

Op == [kind : {"slice", "record", "forget"}, node : Nodes \cup {None}, fp : Fps \cup {None},
       before : BOOLEAN, stage : {"change", "after"}]

TypeOK ==
  /\ want \in Fps
  /\ ctl \in Controller
  /\ ops \subseteq Op
  /\ status \in BOOLEAN
  /\ conn \in [Nodes -> BOOLEAN]
  /\ ghosts \in [Nodes -> Nat]
  /\ msg \in [Nodes -> Config \cup {None}]
  /\ run \in [Nodes -> Config]
  /\ reports \subseteq [node : Nodes, fp : Fps]
  /\ env \in [changes : Nat, drops : Nat, lost : Nat, restarts : Nat]

\* A controller that just started: nothing compiled, nobody connected, the
\* stores about to be filled and the Gateway about to be reconciled.
Boot(c) ==
  [dirty |-> TRUE, pc |-> "idle", content |-> c, slice |-> None, superseded |-> <<>>, elapsed |-> 0, due |-> 0,
   applied |-> [n \in Nodes |-> None], compiled_fp |-> 0, version |-> 0, watch |-> NoConfig,
   seen |-> [n \in Nodes |-> None], event |-> TRUE]

\* The Gateway has some content at first; which one makes no difference.
Init ==
  /\ want = CHOOSE c \in Fps : c # 0
  /\ ctl = Boot(want)
  /\ ops = {}
  /\ status = FALSE
  /\ conn = [n \in Nodes |-> FALSE]
  /\ ghosts = [n \in Nodes |-> 0]
  /\ msg = [n \in Nodes |-> None]
  /\ run = [n \in Nodes |-> NoConfig]
  /\ reports = {}
  /\ env = [changes |-> 0, drops |-> 0, lost |-> 0, restarts |-> 0]

\* A thread that may not be overtaken finishes its operation first.
Free == Preempt \/ ops = {}

----------------------------------------------------------------------------
(* The store's Programmed bookkeeping *)

\* slice_is_current_or_in_grace.  Slices are superseded one after the other,
\* so the ones whose grace has elapsed are the first ones.
CurrentOrInGrace(k, fp) ==
  k.slice = fp \/ \E i \in k.elapsed + 1 .. Len(k.superseded) : k.superseded[i] = fp

\* is_programmed_for
Programmed(k) ==
  /\ k.compiled_fp # 0
  /\ k.slice # None
  /\ \E n \in Nodes : k.applied[n] # None /\ CurrentOrInGrace(k, k.applied[n])

\* The retain of set_compiled_slice and expire_programmed_grace.
Pruned(k) == [k EXCEPT !.superseded = SubSeq(@, k.elapsed + 1, Len(@)), !.elapsed = 0]

\* Mutant: the superseded slice is not kept.
SetSliceForgetful(k, fp) == [k EXCEPT !.slice = fp]

\* The body of set_compiled_slice.
SetSlice(k, fp) ==
  IF k.slice \in {None, fp} THEN [k EXCEPT !.slice = fp]
  ELSE [Pruned(k) EXCEPT !.slice = fp, !.superseded = Append(@, k.slice)]

\* What the operation o changes in the store.
Changed(k, o) ==
  CASE o.kind = "slice" -> SetSlice(k, o.fp)
    [] o.kind = "record" -> [k EXCEPT !.applied[o.node] = o.fp]
    [] o.kind = "forget" -> [k EXCEPT !.applied[o.node] = None]

\* with_programmed_change and record_applied: look, change, look again.
Start(kind, n, fp) ==
  ops' = ops \cup {[kind |-> kind, node |-> n, fp |-> fp, before |-> Programmed(ctl), stage |-> "change"]}

Change(o) ==
  /\ o.stage = "change"
  /\ ctl' = Changed(ctl, o)
  /\ ops' = (ops \ {o}) \cup {[o EXCEPT !.stage = "after"]}
  /\ UNCHANGED <<want, status, conn, ghosts, msg, run, reports, env>>

After(o) ==
  /\ o.stage = "after"
  /\ ctl' = [ctl EXCEPT !.event = @ \/ Programmed(ctl) # o.before,
                        !.pc = IF o.kind = "slice" THEN "publish" ELSE @]
  /\ ops' = ops \ {o}
  /\ UNCHANGED <<want, status, conn, ghosts, msg, run, reports, env>>

Recorded == {n \in Nodes : ctl.applied[n] # None}

\* Mutant: an unknown content is recorded.
RecordAnything(n, fp) ==
  IF n \in Recorded \/ Cardinality(Recorded) < NodeCap THEN Start("record", n, fp) ELSE UNCHANGED ops

\* record_applied refuses an unknown content and a node over the cap.
RecordApplied(n, fp) ==
  IF fp # 0 /\ (n \in Recorded \/ Cardinality(Recorded) < NodeCap)
  THEN Start("record", n, fp) ELSE UNCHANGED ops

\* The superseded slice's grace runs out, and its timer with it ...
GraceElapses ==
  /\ Free /\ ctl.elapsed < Len(ctl.superseded)
  /\ ctl' = [ctl EXCEPT !.elapsed = @ + 1, !.due = @ + 1]
  /\ UNCHANGED <<want, ops, status, conn, ghosts, msg, run, reports, env>>

\* Mutant: the expiry wakes nobody.
ExpireSilently ==
  /\ Free /\ ctl.due > 0
  /\ ctl' = [Pruned(ctl) EXCEPT !.due = @ - 1]
  /\ UNCHANGED <<want, ops, status, conn, ghosts, msg, run, reports, env>>

\* ... and expire_programmed_grace, when the timer's task is polled.
ExpireGrace == LET kept == [Pruned(ctl) EXCEPT !.due = @ - 1] IN
  /\ Free /\ ctl.due > 0
  /\ ctl' = [kept EXCEPT !.event = @ \/ (ctl.elapsed > 0 /\ ~Programmed(kept))]
  /\ UNCHANGED <<want, ops, status, conn, ghosts, msg, run, reports, env>>

----------------------------------------------------------------------------
(* The compilation loop *)

\* Take the dirty flag, compile, begin set_compiled_slice.
Compile ==
  /\ Free /\ ctl.pc = "idle" /\ ctl.dirty
  /\ ctl' = [ctl EXCEPT !.dirty = FALSE, !.pc = "slicing", !.content = want]
  /\ Start("slice", None, want)
  /\ UNCHANGED <<want, status, conn, ghosts, msg, run, reports, env>>

\* The rest of the iteration: unchanged content is not published again.
Publish ==
  /\ Free /\ ctl.pc = "publish"
  /\ ctl' = IF ctl.content = ctl.watch.fp /\ ctl.version > 0
            THEN [ctl EXCEPT !.pc = "idle"]
            ELSE [ctl EXCEPT !.pc = "idle", !.version = @ + 1, !.compiled_fp = ctl.content,
                             !.watch = [version |-> ctl.version + 1, fp |-> ctl.content]]
  /\ UNCHANGED <<want, ops, status, conn, ghosts, msg, run, reports, env>>

----------------------------------------------------------------------------
(* Streams and the data plane *)

\* Mutant: what a reconnecting node runs is not recorded.
ConnectUnrecorded(n) ==
  /\ Free /\ ~conn[n] /\ (LateSessions \/ ghosts[n] = 0)
  /\ conn' = [conn EXCEPT ![n] = TRUE]
  /\ ctl' = [ctl EXCEPT !.seen[n] = None]
  /\ UNCHANGED <<want, ops, status, ghosts, msg, run, reports, env>>

\* stream_config: what the node runs is an ack, then the stream starts with
\* the value of the watch.
Connect(n) ==
  /\ Free /\ ~conn[n] /\ (LateSessions \/ ghosts[n] = 0)
  /\ RecordApplied(n, run[n].fp)
  /\ conn' = [conn EXCEPT ![n] = TRUE]
  /\ ctl' = [ctl EXCEPT !.seen[n] = None]
  /\ UNCHANGED <<want, status, ghosts, msg, run, reports, env>>

\* The stream yields the latest value it has not yielded.
Send(n) ==
  /\ Free /\ conn[n] /\ msg[n] = None /\ ctl.seen[n] # ctl.watch
  /\ msg' = [msg EXCEPT ![n] = ctl.watch]
  /\ ctl' = [ctl EXCEPT !.seen[n] = ctl.watch]
  /\ UNCHANGED <<want, ops, status, conn, ghosts, run, reports, env>>

\* Mutant: an older version is stale whatever its content.
ApplyNewer(config, cur) ==
  IF config.version < cur.version THEN "stale"
  ELSE IF config.fp = cur.fp THEN "heartbeat" ELSE "apply"

\* Mutant: any other version is applied.
ApplyOther(config, cur) == IF config.version # cur.version THEN "apply" ELSE "heartbeat"

\* apply_decision
ApplyDecision(config, cur) ==
  IF config.fp # 0 THEN IF config.fp = cur.fp THEN "heartbeat" ELSE "apply"
  ELSE IF config.version = cur.version /\ cur.version > 0 THEN "heartbeat"
  ELSE IF config.version < cur.version THEN "stale" ELSE "apply"

\* One message of connect_and_stream: skipped, or applied and reported.  The
\* receiver waits for the report's answer, but no longer than a timeout.
Receive(n) ==
  /\ Free /\ msg[n] # None
  /\ LateReports \/ \A r \in reports : r.node # n
  /\ msg' = [msg EXCEPT ![n] = None]
  /\ IF msg[n].version > 0 /\ ApplyDecision(msg[n], run[n]) = "apply"
     THEN /\ run' = [run EXCEPT ![n] = msg[n]]
          /\ reports' = reports \cup {[node |-> m, fp |-> msg[n].fp] : m \in IF msg[n].fp # 0 THEN {n} ELSE {}}
     ELSE UNCHANGED <<run, reports>>
  /\ UNCHANGED <<want, ctl, ops, status, conn, ghosts, env>>

\* report_applied
ReportApplied(r) ==
  /\ Free
  /\ RecordApplied(r.node, r.fp)
  /\ reports' = reports \ {r}
  /\ UNCHANGED <<want, ctl, status, conn, ghosts, msg, run, env>>

\* Mutant: the session's end forgets nothing.
SessionLingers(n) ==
  /\ Free /\ ghosts[n] > 0
  /\ ghosts' = [ghosts EXCEPT ![n] = @ - 1]
  /\ UNCHANGED <<want, ctl, ops, status, conn, msg, run, reports, env>>

\* DataPlaneSession::drop, whenever the server notices: forget_data_plane.
SessionEnds(n) ==
  /\ Free /\ ghosts[n] > 0
  /\ ghosts' = [ghosts EXCEPT ![n] = @ - 1]
  /\ IF ctl.applied[n] # None THEN Start("forget", n, None) ELSE UNCHANGED ops
  /\ UNCHANGED <<want, ctl, status, conn, msg, run, reports, env>>

\* The Gateway's reconciler, woken by Event::Programmed.
Reconcile ==
  /\ Free /\ ctl.event
  /\ status' = Programmed(ctl)
  /\ ctl' = [ctl EXCEPT !.event = FALSE]
  /\ UNCHANGED <<want, ops, conn, ghosts, msg, run, reports, env>>

----------------------------------------------------------------------------
(* The environment *)

Happens(kind) ==
  /\ env.changes + env.drops + env.lost + env.restarts < MaxEvents
  /\ env' = [env EXCEPT ![kind] = @ + 1]

ClusterChanges(c) ==
  /\ Free /\ Happens("changes") /\ c # want
  /\ want' = c
  /\ ctl' = [ctl EXCEPT !.dirty = TRUE]
  /\ UNCHANGED <<ops, status, conn, ghosts, msg, run, reports>>

StreamBreaks(n) ==
  /\ Free /\ Happens("drops") /\ conn[n]
  /\ conn' = [conn EXCEPT ![n] = FALSE]
  /\ ghosts' = [ghosts EXCEPT ![n] = @ + 1]
  /\ msg' = [msg EXCEPT ![n] = None]
  /\ reports' = IF LateReports THEN reports ELSE {r \in reports : r.node # n}
  /\ UNCHANGED <<want, ctl, ops, status, run>>

ReportLost(r) ==
  /\ Free /\ Happens("lost")
  /\ reports' = reports \ {r}
  /\ UNCHANGED <<want, ctl, ops, status, conn, ghosts, msg, run>>

ControllerRestarts ==
  /\ Free /\ Happens("restarts")
  /\ ctl' = Boot(want)
  /\ ops' = {}
  /\ conn' = [n \in Nodes |-> FALSE]
  /\ ghosts' = [n \in Nodes |-> 0]
  /\ msg' = [n \in Nodes |-> None]
  /\ reports' = {}
  /\ UNCHANGED <<want, status, run>>

System ==
  \/ Compile \/ Publish \/ Reconcile \/ GraceElapses \/ ExpireGrace
  \/ \E o \in ops : Change(o) \/ After(o)
  \/ \E n \in Nodes : Connect(n) \/ Send(n) \/ Receive(n) \/ SessionEnds(n)
  \/ \E r \in reports : ReportApplied(r)

Environment ==
  \/ \E c \in Fps : ClusterChanges(c)
  \/ \E n \in Nodes : StreamBreaks(n)
  \/ \E r \in reports : ReportLost(r)
  \/ ControllerRestarts

Next == System \/ Environment

\* Runtimes poll their tasks, timers fire, the data plane reconnects after its
\* backoff, and keepalive ends a dead stream on the server; the environment
\* owes nothing.
Fairness ==
  /\ WF_vars(Compile \/ Publish) /\ WF_vars(Reconcile)
  /\ WF_vars(GraceElapses) /\ WF_vars(ExpireGrace)
  /\ WF_vars(\E o \in ops : Change(o) \/ After(o))
  /\ WF_vars(\E r \in reports : ReportApplied(r))
  /\ \A n \in Nodes : WF_vars(Connect(n)) /\ WF_vars(Send(n)) /\ WF_vars(Receive(n)) /\ WF_vars(SessionEnds(n))

Spec == Init /\ [][Next]_vars /\ Fairness

----------------------------------------------------------------------------
(* Properties *)

\* Nothing is under way that could still move the Programmed answer.
Quiet ==
  /\ ops = {} /\ ~ctl.dirty /\ ctl.pc = "idle" /\ ctl.superseded = <<>> /\ ctl.due = 0
  /\ ~ctl.event /\ reports = {}
  /\ \A n \in Nodes : ghosts[n] = 0 /\ msg[n] = None /\ (conn[n] => ctl.seen[n] = ctl.watch)

\* The condition on the Gateway is what the store answers once everything has
\* settled: "publishes only when that answer moves" never misses a move.  A
\* restarted controller is left out: it stores its slices before the
\* fingerprint that makes them count, and that store publishes nothing.
StatusIsCurrent == Quiet /\ env.restarts = 0 => status = Programmed(ctl)

\* A recompile never takes Programmed away by itself: the data planes are
\* given the grace period to follow (set_compiled_slice keeps the old slice).
RecompileKeepsProgrammed ==
  \A o \in ops : o.kind = "slice" /\ Programmed(ctl) /\ Change(o) => Programmed(ctl)'

\* A data plane never goes from one content to the same content again: a
\* reconnect or a restarted controller does not rebuild its pools and limiters.
NoReapply == \A n \in Nodes : run'[n] # run[n] /\ run'[n].fp # 0 => run'[n].fp # run[n].fp

\* Every data plane ends up running what the cluster asks for, whatever
\* streams broke, reports were lost or controllers restarted on the way.
Converges == <>[](\A n \in Nodes : run[n].fp = want)

\* Once everything has settled, a connected data plane that runs the current
\* slice counts: its Gateway is Programmed, whatever broke or restarted before
\* (a lost report is made good only by the next connect).
ServedIsProgrammed ==
  /\ Quiet /\ env.lost = 0
  /\ \E n \in Nodes : conn[n] /\ run[n].fp = ctl.slice /\ run[n].fp # 0
  => Programmed(ctl)

\* A data plane that is gone holds no place among the recorded ones (and
\* cannot keep its Gateway Programmed).
RecordedIsConnected == Quiet => \A n \in Recorded : conn[n]

\* Once all is quiet the written condition is the store's answer, and the
\* store's answer is what the data planes serve.
StatusHonest == TypeOK /\ StatusIsCurrent /\ ServedIsProgrammed

\* No recompile takes Programmed away and no data plane is disturbed by content
\* it already runs.
StepsDisturbNothing == [][RecompileKeepsProgrammed /\ NoReapply]_vars
=============================================================================
