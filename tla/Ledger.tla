------------------------------- MODULE Ledger -------------------------------
(* Usage on its way from a response to the operator and to the webhook: the  *)
(* bodies a data plane pod observes (portus-dataplane/src/rama/usage.rs),    *)
(* its ring and the tasks that ship records and declare policies             *)
(* (portus-dataplane-core/src/ai/ledger.rs), the ledger's queue of storage   *)
(* operations, its delivery task and its sweeper (portus-ledger/src/main.rs).*)
(*                                                                           *)
(* Every operation on the database is queued to one storage thread; whoever  *)
(* asked may have gone when it is done, and the operation is done all the    *)
(* same.  A crash of the ledger loses the queue, the answers and where the   *)
(* delivery task was; what a transaction committed stays.                    *)
EXTENDS LedgerStore, UsageTracker

CONSTANTS
  Requests,         \* requests of AI routes
  Dialect, Streaming, Body,   \* of each request's response
  Subjects, Policy, \* whom spend is synced for, and the policy
  RING_CAPACITY, BATCH_SIZE, RETAINED_BATCHES, OPS_CAPACITY,
  DUE_LIMIT,        \* events read per round (100 in the code)
  PAGE,             \* rows a reader of the export asks for
  Limits,           \* limits the pod's config may hold; 0 for no policy
  Columns,          \* ways to group the requests, as [Requests -> group]
  Scenarios,        \* which requests are made, which syncs come (deltas, limits;
                    \* limit 0 from a data plane that tells none), how the ledger
                    \* may be configured and how often each fault happens
  MaxEvents,        \* bound: events that are queued
  LastWindow        \* bound: windows that may begin

\* EventConfig::parse takes whole percents from 1.
ASSUME LedgerAssumption ==
  /\ {RING_CAPACITY, BATCH_SIZE, RETAINED_BATCHES, OPS_CAPACITY, DUE_LIMIT, PAGE, MaxEvents,
      LastWindow} \subseteq Nat
  /\ RETAINED_BATCHES > 0
  /\ \A r \in Requests : Len(Body[r]) \in Nat
  /\ \A w \in Scenarios :
       /\ w.deltas \subseteq Nat /\ w.shapes \subseteq Nat
       /\ \A c \in w.configs : IsFiniteSet(c.thresholds) /\ c.thresholds \subseteq Nat \ {0}

VARIABLES
  resp,     \* resp[r]: the body of a response and its observer
  pod,      \* the ring, the drain task's batches and its call to the ledger
  decl,     \* the task that declares policies
  calls,    \* sync requests in their handler, before they are queued
  ops,      \* the storage thread's queue
  db,       \* the database
  hook,     \* the delivery task
  ledger,   \* the process: up, the event configuration it was started with, and
            \* the ones it may be started with
  reader,   \* a reader of the export that follows the cursor
  world,    \* the clock's window, the pod's config, and what may still happen
  seen,     \* ids of the events the webhook has received
  hist      \* history: see NoHistory

vars == <<resp, pod, decl, calls, ops, db, hook, ledger, reader, world, seen, hist>>

Idle == [pc |-> "asleep", due |-> <<>>]

NoHistory ==
  [accepted |-> <<>>,      \* event of each id
   gone     |-> {},        \* ids dropped after MAX_ATTEMPTS
   settled  |-> [r \in Requests |-> <<>>],  \* tokens its reservation was settled with
   made     |-> 0,         \* records handed to the ring
   lost     |-> 0,         \* answers to a report that did not arrive
   synced   |-> {},        \* <<subject, window>> synced since the ledger started
   pruned   |-> {}]        \* <<subject, window>> whose row was pruned

\* main: one of the scenarios begins.
Init == \E w \in Scenarios :
  /\ resp = [r \in Requests |->
       [pc |-> IF r \in w.requests THEN "open" ELSE "none", at |-> 0, finished |-> FALSE,
        tracker |-> NewTracker(Dialect[r], Streaming[r])]]
  /\ pod = [ring |-> <<>>, dropped |-> 0, pending |-> <<>>, discarded |-> 0,
            client |-> FALSE, pc |-> "waiting", answer |-> "none"]
  /\ decl = [sent |-> None, client |-> FALSE, woke |-> FALSE, pc |-> "asleep", policies |-> 0]
  /\ calls = {} /\ ops = <<>> /\ db = EmptyDb /\ hook = Idle
  /\ ledger \in [up : {TRUE}, config : w.configs, configs : {w.configs}]
  /\ reader = [after |-> 0, got |-> <<>>]
  /\ world = [window |-> 0, held |-> w.held, changes |-> w.changes, syncs |-> w.syncs,
              crashes |-> w.crashes, faults |-> w.faults, reads |-> w.reads, declares |-> w.declares,
              deltas |-> w.deltas, shapes |-> w.shapes, builds |-> w.builds]
  /\ seen = {} /\ hist = NoHistory

Push(r, tokens) ==
  LET full == Len(pod.ring) >= RING_CAPACITY
  IN pod' = IF full THEN [pod EXCEPT !.dropped = @ + 1]
            ELSE [pod EXCEPT !.ring = Append(@, [req |-> r, tokens |-> tokens])]

(* The observed body. *)

\* Every end of the body finishes it.
FinishAlways(r) ==
  /\ Push(r, finish(resp[r].tracker))
  /\ hist' = [hist EXCEPT !.settled[r] = Append(@, finish(resp[r].tracker)), !.made = @ + 1]

\* Observed::finish: once; the reservation is settled with the tokens the
\* record carries.
Finish(r) ==
  IF resp[r].finished THEN UNCHANGED <<pod, hist>>
  ELSE /\ Push(r, finish(resp[r].tracker))
       /\ hist' = [hist EXCEPT !.settled[r] = Append(@, finish(resp[r].tracker)), !.made = @ + 1]

\* poll_frame: the next frame, of any length.
Frame(r) ==
  /\ resp[r].pc = "open" /\ Kind[r] = "" /\ resp[r].at < Len(Body[r])
  /\ \E n \in 1 .. Len(Body[r]) - resp[r].at :
       resp' = [resp EXCEPT ![r].at = @ + n,
                            ![r].tracker = feed(@, SubSeq(Body[r], resp[r].at + 1, resp[r].at + n))]
  /\ UNCHANGED <<pod, decl, calls, ops, db, hook, ledger, reader, world, seen, hist>>

\* poll_frame: the end of the body, or an error anywhere in it; it may be
\* polled again.
BodyOver(r) ==
  /\ resp[r].pc \in {"open", "over"} /\ Kind[r] = ""
  /\ Finish(r)
  /\ resp' = [resp EXCEPT ![r].pc = "over", ![r].finished = TRUE]
  /\ UNCHANGED <<decl, calls, ops, db, hook, ledger, reader, world, seen>>

\* Drop: after the end, or because the client went away in the middle.
BodyDropped(r) ==
  /\ resp[r].pc \in {"open", "over"} /\ Kind[r] = ""
  /\ Finish(r)
  /\ resp' = [resp EXCEPT ![r].pc = "gone", ![r].finished = TRUE]
  /\ UNCHANGED <<decl, calls, ops, db, hook, ledger, reader, world, seen>>

\* record_refusal: a request the gateway refuses itself.
Refuse(r) ==
  /\ resp[r].pc = "open" /\ Kind[r] # ""
  /\ Push(r, None)
  /\ hist' = [hist EXCEPT !.made = @ + 1]
  /\ resp' = [resp EXCEPT ![r].pc = "gone", ![r].finished = TRUE]
  /\ UNCHANGED <<decl, calls, ops, db, hook, ledger, reader, world, seen>>

(* drain_loop. *)

RecordsIn(batches) == FlattenSeq(batches)

\* The batches beyond RETAINED_BATCHES go uncounted.
TakenUncounted ==
  LET n == Min({BATCH_SIZE, Len(pod.ring)})
      pending == IF n = 0 THEN pod.pending ELSE Append(pod.pending, SubSeq(pod.ring, 1, n))
      excess == Max({0, Len(pending) - RETAINED_BATCHES})
  IN [pod EXCEPT !.ring = SubSeq(@, n + 1, Len(@)),
                 !.pending = SubSeq(pending, excess + 1, Len(pending)),
                 !.pc = IF pending = <<>> THEN "waiting" ELSE "sending"]

\* One batch more than RETAINED_BATCHES is kept.
TakenOneMore ==
  LET n == Min({BATCH_SIZE, Len(pod.ring)})
      pending == IF n = 0 THEN pod.pending ELSE Append(pod.pending, SubSeq(pod.ring, 1, n))
      excess == Max({0, Len(pending) - RETAINED_BATCHES - 1})
  IN [pod EXCEPT !.ring = SubSeq(@, n + 1, Len(@)),
                 !.pending = SubSeq(pending, excess + 1, Len(pending)),
                 !.discarded = @ + Len(RecordsIn(SubSeq(pending, 1, excess))),
                 !.pc = IF pending = <<>> THEN "waiting" ELSE "sending"]

\* A retained batch is sent only when the ring had something new.
TakenNew ==
  LET n == Min({BATCH_SIZE, Len(pod.ring)})
      pending == IF n = 0 THEN pod.pending ELSE Append(pod.pending, SubSeq(pod.ring, 1, n))
      excess == Max({0, Len(pending) - RETAINED_BATCHES})
  IN [pod EXCEPT !.ring = SubSeq(@, n + 1, Len(@)),
                 !.pending = SubSeq(pending, excess + 1, Len(pending)),
                 !.discarded = @ + Len(RecordsIn(SubSeq(pending, 1, excess))),
                 !.pc = IF n = 0 THEN "waiting" ELSE "sending"]

\* A batch, or what the interval left in the ring; beyond RETAINED_BATCHES the
\* oldest is discarded, whether the ledger has it or not.
Taken ==
  LET n == Min({BATCH_SIZE, Len(pod.ring)})
      pending == IF n = 0 THEN pod.pending ELSE Append(pod.pending, SubSeq(pod.ring, 1, n))
      excess == Max({0, Len(pending) - RETAINED_BATCHES})
  IN [pod EXCEPT !.ring = SubSeq(@, n + 1, Len(@)),
                 !.pending = SubSeq(pending, excess + 1, Len(pending)),
                 !.discarded = @ + Len(RecordsIn(SubSeq(pending, 1, excess))),
                 !.pc = IF pending = <<>> THEN "waiting" ELSE "sending"]

Take ==
  /\ pod.pc = "waiting" /\ (pod.ring # <<>> \/ pod.pending # <<>>)
  /\ pod' = Taken
  /\ UNCHANGED <<resp, decl, calls, ops, db, hook, ledger, reader, world, seen, hist>>

\* A failed connect or report: the batch stays in front, the next report
\* connects again.
Failed == [pod EXCEPT !.client = FALSE, !.pc = "waiting", !.answer = "none"]

Connect ==
  /\ pod.pc = "sending" /\ ~pod.client
  /\ pod' = IF ledger.up THEN [pod EXCEPT !.client = TRUE] ELSE Failed
  /\ UNCHANGED <<resp, decl, calls, ops, db, hook, ledger, reader, world, seen, hist>>

Queue(op) == Len(ops) < OPS_CAPACITY /\ ops' = Append(ops, op)

\* Ingest::report, up to its wait for the storage thread.
Report ==
  /\ pod.pc = "sending" /\ pod.client /\ ledger.up
  /\ Queue([op |-> "Write", records |-> Head(pod.pending), live |-> TRUE])
  /\ pod' = [pod EXCEPT !.pc = "called"]
  /\ UNCHANGED <<resp, decl, calls, db, hook, ledger, reader, world, seen, hist>>

\* A batch that was acknowledged stays in front.
AnsweredKeeping ==
  /\ pod.pc = "called" /\ pod.answer # "none"
  /\ pod' = Failed
  /\ UNCHANGED <<resp, decl, calls, ops, db, hook, ledger, reader, world, seen, hist>>

\* The answer arrives.
Answered ==
  /\ pod.pc = "called" /\ pod.answer # "none"
  /\ pod' = IF pod.answer = "ok"
              THEN [pod EXCEPT !.pending = Tail(@), !.pc = "waiting", !.answer = "none"]
              ELSE Failed
  /\ UNCHANGED <<resp, decl, calls, ops, db, hook, ledger, reader, world, seen, hist>>

Forsaken(op) == [i \in DOMAIN ops |-> IF ops[i].op = op THEN [ops[i] EXCEPT !.live = FALSE] ELSE ops[i]]

\* The connection breaks under the call; the operation stays queued, and its
\* answer has nowhere to go.
ReportBreaks ==
  /\ \/ ~ledger.up /\ pod.pc = "sending" /\ pod.client /\ UNCHANGED world
     \/ pod.pc = "called" /\ world.faults > 0 /\ world' = [world EXCEPT !.faults = @ - 1]
  /\ pod' = Failed /\ ops' = Forsaken("Write")
  /\ hist' = [hist EXCEPT !.lost = IF pod.pc = "called" THEN @ + 1 ELSE @]
  /\ UNCHANGED <<resp, decl, calls, db, hook, ledger, reader, seen>>

(* declare_policies_from. *)

Held == IF world.held = 0 THEN <<>> ELSE Policy :> world.held

Nothing == world.held = 0 /\ decl.sent = None
Changed == decl.sent # world.held

\* Only a change is told; a policy nobody tells is forgotten.
DeclareOnChange ==
  /\ world.declares /\ decl.pc = "asleep"
  /\ ~decl.woke \/ (Changed /\ ~Nothing)
  /\ decl' = IF ~Changed \/ Nothing
               THEN [decl EXCEPT !.woke = TRUE]
               ELSE [decl EXCEPT !.woke = TRUE, !.pc = "connecting", !.policies = world.held]
  /\ UNCHANGED <<resp, pod, calls, ops, db, hook, ledger, reader, world, seen, hist>>

\* Its interval: nothing to tell until a policy was ever held; then whenever
\* the config's policies changed, and every minute.
DeclareWakes ==
  /\ world.declares /\ decl.pc = "asleep"
  /\ ~decl.woke \/ (Changed /\ ~Nothing)
  /\ decl' = IF Nothing THEN [decl EXCEPT !.woke = TRUE]
             ELSE [decl EXCEPT !.woke = TRUE, !.pc = "connecting", !.policies = world.held]
  /\ UNCHANGED <<resp, pod, calls, ops, db, hook, ledger, reader, world, seen, hist>>

Declare ==
  /\ decl.pc = "connecting"
  /\ \/ /\ ledger.up
        /\ Queue([op |-> "Declare", policies |-> decl.policies, live |-> TRUE])
        /\ decl' = [decl EXCEPT !.client = TRUE, !.pc = "called"]
     \/ /\ ~ledger.up /\ UNCHANGED ops
        /\ decl' = [decl EXCEPT !.client = FALSE, !.pc = "asleep"]
  /\ UNCHANGED <<resp, pod, calls, db, hook, ledger, reader, world, seen, hist>>

DeclareBreaks ==
  /\ decl.pc = "called" /\ world.faults > 0
  /\ world' = [world EXCEPT !.faults = @ - 1]
  /\ decl' = [decl EXCEPT !.client = FALSE, !.pc = "asleep"] /\ ops' = Forsaken("Declare")
  /\ UNCHANGED <<resp, pod, calls, db, hook, ledger, reader, seen, hist>>

\* The pod's config changes.
ConfigChanges ==
  /\ world.changes > 0
  /\ \E l \in Limits \ {world.held} :
       world' = [world EXCEPT !.held = l, !.changes = @ - 1]
  /\ UNCHANGED <<resp, pod, decl, calls, ops, db, hook, ledger, reader, seen, hist>>

(* The Budget service, and the sweeper. *)

\* Spend::sync reads the clock when it is called and queues afterwards.
SyncCalled ==
  /\ ledger.up /\ world.syncs > 0
  /\ \E s \in Subjects, d \in world.deltas, l \in world.shapes :
       calls' = calls \cup {[op |-> "SyncSpend", subject |-> s, window |-> world.window,
                             delta |-> d, limit |-> l, nth |-> world.syncs]}
  /\ world' = [world EXCEPT !.syncs = @ - 1]
  /\ UNCHANGED <<resp, pod, decl, ops, db, hook, ledger, reader, seen, hist>>

SyncQueued ==
  /\ \E c \in calls : Queue(c) /\ calls' = calls \ {c}
  /\ UNCHANGED <<resp, pod, decl, db, hook, ledger, reader, world, seen, hist>>

\* The hourly sweep; it waits for its operation.
Sweep ==
  /\ ledger.up /\ \A i \in DOMAIN ops : ops[i].op # "PruneSpend"
  /\ \E k \in DOMAIN db.spend : k[2] < world.window
  /\ Queue([op |-> "PruneSpend", now |-> world.window])
  /\ UNCHANGED <<resp, pod, decl, calls, db, hook, ledger, reader, world, seen, hist>>

WindowEnds ==
  /\ world.syncs > 0 /\ world.window < LastWindow
  /\ world' = [world EXCEPT !.window = @ + 1]
  /\ UNCHANGED <<resp, pod, decl, calls, ops, db, hook, ledger, reader, seen, hist>>

(* deliver_events. *)

\* Only a ledger with a webhook delivers, and only when the HTTP client could
\* be built: the task ends otherwise.
Delivers == ledger.up /\ ledger.config.webhook /\ world.builds

ReadDue ==
  /\ Delivers /\ hook.pc = "asleep" /\ db.outbox # <<>>
  /\ Queue([op |-> "DueEvents"])
  /\ hook' = [hook EXCEPT !.pc = "reading"]
  /\ UNCHANGED <<resp, pod, decl, calls, db, ledger, reader, world, seen, hist>>

\* The event is cleared before it is sent.
PostUnsent ==
  /\ hook.pc = "posting" /\ Len(ops) < OPS_CAPACITY
  /\ LET e == Head(hook.due) IN
       /\ seen' \in {seen, seen \cup {e.id}}
       /\ ops' = Append(ops, [op |-> "EventDelivered", id |-> e.id])
       /\ hook' = [hook EXCEPT !.pc = "clearing", !.due = Tail(@)]
  /\ UNCHANGED <<resp, pod, decl, calls, db, ledger, reader, world, hist>>

\* The POST of the round's next event: received or not, and answered 2xx only
\* when it was; an answer may be lost after the receiver took the event.
Post ==
  /\ hook.pc = "posting" /\ Len(ops) < OPS_CAPACITY
  /\ LET e == Head(hook.due) IN
       \/ /\ seen' = seen \cup {e.id}
          /\ ops' = Append(ops, [op |-> "EventDelivered", id |-> e.id])
          /\ hook' = [hook EXCEPT !.pc = "clearing", !.due = Tail(@)]
       \/ /\ seen' \in {seen, seen \cup {e.id}}
          /\ ops' = Append(ops, [op |-> "EventFailed", id |-> e.id, attempts |-> e.attempts])
          /\ hook' = [pc |-> "clearing", due |-> <<>>]
  /\ UNCHANGED <<resp, pod, decl, calls, db, ledger, reader, world, hist>>

\* Where the round goes on: its next event, or the next tick.
NextInRound == IF hook.due = <<>> THEN Idle ELSE [hook EXCEPT !.pc = "posting"]

(* storage_thread. *)

\* The outbox grew by these events.
Accepted(new) ==
  hist.accepted \o [i \in 1 .. new.nextId - db.nextId |->
                      new.outbox[db.nextId + i - 1].event]

\* The head of the queue is done and answered.
Done(op) == ledger.up /\ ops # <<>> /\ Head(ops).op = op /\ ops' = Tail(ops)

StoreWrite ==
  /\ Done("Write")
  /\ \E new \in {insert_batch(db, Head(ops).records, ledger.config)} :
       /\ new.nextId - 1 <= MaxEvents
       /\ db' = new
       /\ hist' = [hist EXCEPT !.accepted = Accepted(new)]
  /\ pod' = IF Head(ops).live THEN [pod EXCEPT !.answer = "ok"] ELSE pod
  /\ UNCHANGED <<resp, decl, calls, hook, ledger, reader, world, seen>>

StoreSync ==
  /\ Done("SyncSpend")
  /\ LET c == Head(ops) IN
     \E new \in {sync_spend(db, Policy, c.subject, c.window, c.delta, c.limit, ledger.config)} :
       /\ new.nextId - 1 <= MaxEvents
       /\ db' = new
       /\ hist' = [hist EXCEPT !.accepted = Accepted(new), !.synced = @ \cup {<<c.subject, c.window>>}]
  /\ UNCHANGED <<resp, pod, decl, calls, hook, ledger, reader, world, seen>>

StorePrune ==
  /\ Done("PruneSpend")
  /\ db' = prune(db, Head(ops).now)
  /\ hist' = [hist EXCEPT !.pruned = @ \cup (DOMAIN db.spend \ DOMAIN db'.spend)]
  /\ UNCHANGED <<resp, pod, decl, calls, hook, ledger, reader, world, seen>>

StoreDeclare ==
  /\ Done("Declare")
  /\ db' = declare(db, IF Head(ops).policies = 0 THEN <<>> ELSE Policy :> Head(ops).policies)
  /\ decl' = IF Head(ops).live
               THEN [decl EXCEPT !.sent = Head(ops).policies, !.pc = "asleep"] ELSE decl
  /\ UNCHANGED <<resp, pod, calls, hook, ledger, reader, world, seen, hist>>

StoreDue ==
  /\ Done("DueEvents")
  /\ hook' = LET read == due(db, DUE_LIMIT)
             IN IF read = <<>> THEN Idle ELSE [pc |-> "posting", due |-> read]
  /\ UNCHANGED <<resp, pod, decl, calls, db, ledger, reader, world, seen, hist>>

StoreDelivered ==
  /\ Done("EventDelivered")
  /\ db' = delivered(db, Head(ops).id) /\ hook' = NextInRound
  /\ UNCHANGED <<resp, pod, decl, calls, ledger, reader, world, seen, hist>>

StoreFailed ==
  /\ Done("EventFailed")
  /\ db' = failed(db, Head(ops).id, Head(ops).attempts) /\ hook' = NextInRound
  /\ hist' = [hist EXCEPT !.gone = IF Drops(Head(ops).attempts) THEN @ \cup {Head(ops).id} ELSE @]
  /\ UNCHANGED <<resp, pod, decl, calls, ledger, reader, world, seen>>

\* SQLite refuses the transaction: nothing is stored and the caller is told;
\* the delivery task goes on with its round, the sweeper with its next hour.
StorageError ==
  /\ ledger.up /\ ops # <<>> /\ world.faults > 0
  /\ world' = [world EXCEPT !.faults = @ - 1] /\ ops' = Tail(ops)
  /\ LET c == Head(ops) IN
     /\ pod' = IF c.op = "Write" /\ c.live THEN [pod EXCEPT !.answer = "err"] ELSE pod
     /\ decl' = IF c.op = "Declare" /\ c.live
                  THEN [decl EXCEPT !.client = FALSE, !.pc = "asleep"] ELSE decl
     /\ hook' = CASE c.op = "DueEvents" -> Idle
                  [] c.op \in {"EventDelivered", "EventFailed"} -> NextInRound
                  [] OTHER -> hook
  /\ UNCHANGED <<resp, calls, db, ledger, reader, seen, hist>>

(* Reads, crashes and time. *)

\* The next page of /export.jsonl?after_id=
Export ==
  /\ ledger.up /\ world.reads /\ reader.after < Len(db.rows)
  /\ reader' = [after |-> NextAfter(db, reader.after, PAGE),
                got |-> reader.got \o [i \in DOMAIN export(db, reader.after, PAGE) |-> reader.after + i]]
  /\ UNCHANGED <<resp, pod, decl, calls, ops, db, hook, ledger, world, seen, hist>>

\* An answer on its way may still arrive; a call that has none fails.
Crash ==
  /\ ledger.up /\ world.crashes > 0
  /\ world' = [world EXCEPT !.crashes = @ - 1]
  /\ ledger' = [ledger EXCEPT !.up = FALSE]
  /\ ops' = <<>> /\ calls' = {} /\ hook' = Idle
  /\ decl' = IF decl.pc = "called" THEN [decl EXCEPT !.client = FALSE, !.pc = "asleep"] ELSE decl
  /\ \/ pod.pc = "called" /\ pod.answer # "err" /\ pod' = [pod EXCEPT !.answer = "err"]
        /\ hist' = [hist EXCEPT !.synced = {}, !.lost = @ + 1]
     \/ ~(pod.pc = "called" /\ pod.answer = "none") /\ UNCHANGED pod
        /\ hist' = [hist EXCEPT !.synced = {}]
  /\ UNCHANGED <<resp, db, reader, seen>>

\* main: the store as it was left, the event configuration of the environment.
Restart ==
  /\ ~ledger.up
  /\ \E c \in ledger.configs : ledger' = [ledger EXCEPT !.up = TRUE, !.config = c]
  /\ UNCHANGED <<resp, pod, decl, calls, ops, db, hook, reader, world, seen, hist>>

Tick ==
  /\ \E i \in DOMAIN db.outbox : db.outbox[i].wait > 0
  /\ db' = Waited(db)
  /\ UNCHANGED <<resp, pod, decl, calls, ops, hook, ledger, reader, world, seen, hist>>

\* DECLARE_CHECK is shorter than a minute: the declaring task woke in it.
Minute ==
  /\ decl.woke /\ decl.pc = "asleep"
  /\ decl' = [decl EXCEPT !.woke = FALSE]
  /\ db' = Aged(db)
  /\ UNCHANGED <<resp, pod, calls, ops, hook, ledger, reader, world, seen, hist>>

DrainStep == Take \/ Connect \/ Report \/ Answered
DeclareStep == DeclareWakes \/ Declare
StorageStep == \/ StoreWrite \/ StoreSync \/ StorePrune \/ StoreDeclare
               \/ StoreDue \/ StoreDelivered \/ StoreFailed
DeliveryStep == ReadDue \/ Post

Next ==
  \/ \E r \in Requests : Frame(r) \/ BodyOver(r) \/ BodyDropped(r) \/ Refuse(r)
  \/ DrainStep \/ ReportBreaks
  \/ DeclareStep \/ DeclareBreaks \/ ConfigChanges
  \/ SyncCalled \/ SyncQueued \/ Sweep \/ WindowEnds
  \/ DeliveryStep \/ StorageStep \/ StorageError
  \/ Export \/ Crash \/ Restart \/ Tick \/ Minute

\* The tasks keep running, a crashed ledger is started again, time passes.
Fairness ==
  /\ WF_vars(DrainStep) /\ WF_vars(ReportBreaks /\ ~ledger.up)
  /\ WF_vars(DeclareStep)
  /\ WF_vars(StorageStep) /\ WF_vars(DeliveryStep)
  /\ WF_vars(Restart) /\ WF_vars(Tick) /\ WF_vars(Minute)

Spec == Init /\ [][Next]_vars /\ Fairness

-----------------------------------------------------------------------------
(* Properties. *)

TypeOK ==
  /\ \A r \in Requests : resp[r].at \in 0 .. Len(Body[r])
  /\ Len(pod.ring) <= RING_CAPACITY /\ Len(pod.pending) <= RETAINED_BATCHES
  /\ pod.pc \in {"waiting", "sending", "called"} /\ (pod.pc # "waiting" => pod.pending # <<>>)
  /\ Len(ops) <= OPS_CAPACITY
  /\ hook.pc \in {"asleep", "reading", "posting", "clearing"}
  /\ Len(hist.accepted) = db.nextId - 1

\* A response is recorded once and its reservation settled once, with the
\* tokens the lines that arrived whole report, however the frames cut them and
\* whichever of end, error and drop came (rama/usage.rs finish, usage.rs feed).
\* Only a line longer than the tracker holds ends the reading early.
TokensFollowStream ==
  /\ hist.made = Cardinality({r \in Requests : resp[r].finished})
  /\ \A r \in Requests : resp[r].finished /\ Kind[r] = "" =>
       \/ resp[r].tracker.overflowed /\ Len(hist.settled[r]) = 1
       \/ hist.settled[r] =
            <<Reported(Dialect[r], Streaming[r], SubSeq(Body[r], 1, resp[r].at))>>

Finished == {r \in Requests : resp[r].finished}
InPod == {rec.req : rec \in Range(pod.ring) \cup Range(RecordsIn(pod.pending))}
Stored == {rec.req : rec \in Range(db.rows)}

Total(groups) == MapThenSumSet(LAMBDA g : groups[g].requests + groups[g].refusals, DOMAIN groups)

\* No request is lost without being counted, whichever way the operator groups
\* the totals: each one recorded is in the ring, in a retained batch or in the
\* summary, or the pod's own counters say how many are not (usage.rs push,
\* ledger.rs drain_loop, store.rs summary).
RecordsAccounted ==
  LET lost == Cardinality(Finished \ (InPod \cup Stored))
      again == Len(db.rows) - Cardinality(Stored)
  IN /\ lost <= pod.dropped + pod.discarded
     /\ \A column \in Columns :
          Total(summary(db.rows, column)) - again + Cardinality(InPod \ Stored) + lost
            = Cardinality(Finished)

\* A record is stored again only when the answer to a report was lost: rows
\* never outnumber the lost answers by more than the one (ledger.rs report).
DuplicatesExplained ==
  \A r \in Requests :
    Cardinality({i \in DOMAIN db.rows : db.rows[i].req = r}) <= 1 + hist.lost

\* A refusal of a kind every configuration names is announced once for each
\* row it has, and no event is queued for anything that is not a row
\* (store.rs insert_batch: rows and events in one transaction).
RefusalsAnnounced ==
  LET always == {k \in {Kind[r] : r \in Requests} : \A c \in ledger.configs : k \in c.refusals}
      about(i) == {k \in DOMAIN hist.accepted : hist.accepted[k] = RefusalEvent(i)}
  IN /\ \A i \in DOMAIN db.rows : /\ \A j, k \in about(i) : j = k
                                 /\ Kind[db.rows[i].req] \in always => about(i) # {}
     /\ \A k \in DOMAIN hist.accepted : hist.accepted[k].type = "refusal" =>
          hist.accepted[k].row \in DOMAIN db.rows

\* A threshold is announced once per subject and window, however many pods
\* sync, the limit moves and the ledger restarts; only a sync that read the
\* clock before its window ended and was stored after the sweep starts over
\* (budget.rs sync_alerting).
ThresholdOnce ==
  \A i, j \in DOMAIN hist.accepted :
    /\ i # j /\ hist.accepted[i] = hist.accepted[j] /\ hist.accepted[i].type = "threshold"
    => <<hist.accepted[i].subject, hist.accepted[i].window>> \in hist.pruned

\* A threshold the spend has reached was announced, itself or a higher one,
\* as soon as one sync was stored under the configuration that names it
\* (budget.rs sync_alerting, store.rs sync_spend).
ReachedIsAnnounced ==
  \A k \in DOMAIN db.spend \cap hist.synced :
    LET row == db.spend[k] IN
    \A t \in ledger.config.thresholds :
      row.limit > 0 /\ row.spent * 100 >= t * row.limit =>
        \E i \in DOMAIN hist.accepted :
          \E u \in t .. row.alerted : hist.accepted[i] = ThresholdEvent(k[1], k[2], u)

\* A reader that follows the cursor from 0 gets every row once, whatever is
\* stored between two pages (store.rs export: "never repeats or skips a row").
ExportExact ==
  /\ reader.got = [i \in 1 .. reader.after |-> i]
  /\ reader.after <= Len(db.rows)

\* The outbox keeps the promise made to the webhook's receiver (events.rs): see
\* EventPromise.
Promise == INSTANCE EventPromise WITH
  Ids <- 1 .. MaxEvents, Attempts <- MAX_ATTEMPTS,
  last <- db.nextId - 1, open <- DOMAIN db.outbox, gone <- hist.gone,
  refused <- [i \in 1 .. MaxEvents |->
                IF i \in DOMAIN db.outbox THEN db.outbox[i].attempts ELSE 0]

PromiseKept == Promise!Spec

\* While a webhook is configured every event leaves the outbox: a receiver that
\* is down delays the events behind one only until the round after, and one
\* that is refused for ever is dropped (main.rs deliver_events).
EventsEnd == <>[](ledger.config.webhook /\ world.builds) => []<>(db.outbox = <<>>)

\* What a pod recorded leaves the pod once the ledger can be reached: stored,
\* or counted as discarded (ledger.rs drain_loop).
RecordsArrive == <>[](pod.ring = <<>> /\ pod.pending = <<>>)

\* /v1/limits comes to list the policy the pod's config holds, with its limit,
\* and nothing the config no longer holds: a failed declaration is repeated, a
\* policy nobody declares goes stale (ledger.rs declare_policies_from,
\* budget.rs limits).
ListedIsHeld ==
  LET listed == limits(db, world.window)
  IN <>[](world.declares => /\ DOMAIN listed = DOMAIN Held
                            /\ \A p \in DOMAIN listed : listed[p].limit = Held[p])

\* Usage is counted as it was: tokens as the stream reported them, each record
\* kept or counted.
RecordsExact == TokensFollowStream /\ RecordsAccounted

\* What the ledger tells is what happened: a record twice only after a lost
\* answer, refusals with their rows, thresholds when they were reached, once,
\* and every row to a reader of the export.
ToldExactly ==
  /\ TypeOK /\ DuplicatesExplained /\ RefusalsAnnounced /\ ThresholdOnce /\ ReachedIsAnnounced
  /\ ExportExact

\* What is on its way arrives: events at the webhook or at their last attempt,
\* records in the ledger, policies in /v1/limits.
EverythingArrives == EventsEnd /\ RecordsArrive /\ ListedIsHeld
=============================================================================
