------------------------------- MODULE Budget -------------------------------
(* Token and call budgets of AI routes: the per-pod counters and their sync  *)
(* task (portus-dataplane-core/src/ai/budget.rs), the request path that      *)
(* reserves and settles against them (portus-dataplane/src/rama), and the    *)
(* ledger's spend table (portus-ledger/src/budget.rs).                       *)
(*                                                                           *)
(* A counter is a bundle of atomics that request handlers, the tick loop and *)
(* the sync task of one pod touch without a lock.  Every place where two     *)
(* threads can meet between two of those accesses is a step of its own:      *)
(* load window_end / roll over / forget synced / decide / reserve on the     *)
(* request path, release / spend in settle, swap / call / land in the sync.  *)
EXTENDS Integers, Sequences, FiniteSets, FiniteSetsExt

CONSTANTS
  Pods,         \* data plane pods
  Subjects,     \* (policy, subject) pairs; an overflow counter is one too
  Requests,     \* requests, each made once
  Estimates,    \* what a request may reserve
  Actuals,      \* what a response may turn out to cost
  Limit,        \* [Subjects -> Nat] the budget of each subject
  Overflow,     \* [Subjects -> Subjects \cup {NoSubject}] onExhausted fallback
  NoSubject,
  AskCapacity,  \* size of the channel to the sync task (4096 in the code)
  UrgentShare,  \* URGENT_SYNC_SHARE
  MaxNow,       \* bound: windows that may end
  MaxFailures   \* bound: syncs that may fail

ASSUME BudgetAssumption ==
  /\ IsFiniteSet(Pods) /\ IsFiniteSet(Requests)
  /\ Estimates \subseteq Nat /\ Actuals \subseteq Nat
  /\ Limit \in [Subjects -> Nat]
  /\ NoSubject \notin Subjects
  /\ Overflow \in [Subjects -> Subjects \cup {NoSubject}]
  /\ AskCapacity \in Nat /\ UrgentShare \in Nat
  /\ MaxNow \in Nat /\ MaxFailures \in Nat

VARIABLES
  now,       \* the wall clock, in windows: window_end(now) is now + 1
  ctr,       \* ctr[p][s]: one subject's Counter on one pod
  asks,      \* asks[p]: the channel of SyncAsk to the sync task
  task,      \* task[p]: where the sync task of the pod is
  client,    \* client[p]: the sync task holds a connection
  spend,     \* spend[s][w]: the ledger's row for the window ending at w
  req,       \* req[r]: where a request is
  spent,     \* history: spent[s], what settled requests really cost
  repeated,  \* history: repeated[s], deltas put back although the ledger had them
  failures   \* history: syncs that failed

vars == <<now, ctr, asks, task, client, spend, req, spent, repeated, failures>>

WindowEnds == 1 .. MaxNow + 1

\* Window::end_of / window_end: the end of the window the clock is in.
WindowEnd == now + 1

Counter ==
  [window_end : {0} \cup WindowEnds, global_spent : Nat, unsynced_spent : Nat,
   reserved : Nat, synced : BOOLEAN, syncing : BOOLEAN]

NewCounter ==
  [window_end |-> 0, global_spent |-> 0, unsynced_spent |-> 0,
   reserved |-> 0, synced |-> FALSE, syncing |-> FALSE]

Task == [pc : {"idle", "got", "called", "replied", "landing"}, subject : Subjects \cup {NoSubject},
         delta : Nat, total : Nat, window_end : {0} \cup WindowEnds]

IdleTask == [pc |-> "idle", subject |-> NoSubject, delta |-> 0, total |-> 0, window_end |-> 0]

Request ==
  [pc : {"idle", "check", "roll", "rolled", "decide", "reserve", "inflight",
         "settling", "refused", "unknown", "done"},
   pod : Pods, subject : Subjects, estimate : Estimates, actual : Actuals, tries : {1, 2}]

\* A request and its response, before it arrives: which pod serves it, whom it
\* spends for, what it will reserve and what it will turn out to cost.
Inputs == [pc : {"idle"}, pod : Pods, subject : Subjects \ {Overflow[s] : s \in Subjects},
           estimate : Estimates, actual : Actuals, tries : {1}]

TypeOK ==
  /\ now \in 0 .. MaxNow
  /\ ctr \in [Pods -> [Subjects -> Counter]]
  /\ asks \in [Pods -> Seq(Subjects)]
  /\ task \in [Pods -> Task]
  /\ client \in [Pods -> BOOLEAN]
  /\ spend \in [Subjects -> [WindowEnds -> Nat]]
  /\ req \in [Requests -> Request]
  /\ spent \in [Subjects -> Nat]
  /\ repeated \in [Subjects -> Nat]
  /\ failures \in Nat

Init ==
  /\ now = 0
  /\ ctr = [p \in Pods |-> [s \in Subjects |-> NewCounter]]
  /\ asks = [p \in Pods |-> <<>>]
  /\ task = [p \in Pods |-> IdleTask]
  /\ client = [p \in Pods |-> FALSE]
  /\ spend = [s \in Subjects |-> [w \in WindowEnds |-> 0]]
  /\ req \in [Requests -> Inputs]
  /\ spent = [s \in Subjects |-> 0]
  /\ repeated = [s \in Subjects |-> 0]
  /\ failures = 0

\* Mutant: saturating_sub written as a plain subtraction.
PlainSub(a, b) == a - b

SaturatingSub(a, b) == IF a >= b THEN a - b ELSE 0

----------------------------------------------------------------------------
(* Counter operations *)

Remaining(c, s) == Limit[s] - c.global_spent - c.unsynced_spent - c.reserved

SetCounter(p, s, c) == ctr' = [ctr EXCEPT ![p][s] = c]

\* Mutant: ask without the syncing flag's test.
AskAgain(p, s, c) ==
  IF Len(asks[p]) >= AskCapacity
  THEN SetCounter(p, s, c) /\ UNCHANGED asks
  ELSE /\ SetCounter(p, s, [c EXCEPT !.syncing = TRUE])
       /\ asks' = [asks EXCEPT ![p] = Append(@, s)]

\* ask, on a counter whose other fields this step leaves as c: at most one
\* SyncAsk per counter is under way, and a full channel drops the ask.
Ask(p, s, c) ==
  IF c.syncing \/ Len(asks[p]) >= AskCapacity
  THEN SetCounter(p, s, c) /\ UNCHANGED asks
  ELSE /\ SetCounter(p, s, [c EXCEPT !.syncing = TRUE])
       /\ asks' = [asks EXCEPT ![p] = Append(@, s)]

\* Mutant: roll_over also drops the reservations.
RolledOverAll(c) == [c EXCEPT !.window_end = 0, !.global_spent = 0, !.unsynced_spent = 0, !.reserved = 0]

\* The stores of roll_over before the last one, and the last one.
RolledOver(c) == [c EXCEPT !.window_end = 0, !.global_spent = 0, !.unsynced_spent = 0]

\* apply_sync up to the store of the total: the window, then the local delta.
Rebased(c, t) ==
  [c EXCEPT !.window_end = t.window_end,
            !.unsynced_spent = IF c.window_end = t.window_end THEN SaturatingSub(@, t.delta) ELSE 0]

\* Mutant: the reported delta added to a total that has it.
SyncedTwice(c, t) == [c EXCEPT !.global_spent = t.total + t.delta, !.synced = TRUE, !.syncing = FALSE]

\* The rest of apply_sync.
Synced(c, t) == [c EXCEPT !.global_spent = t.total, !.synced = TRUE, !.syncing = FALSE]


SyncFailed(c, reported) == [c EXCEPT !.unsynced_spent = @ + reported, !.syncing = FALSE]

----------------------------------------------------------------------------
(* The request path: budget_verdict, check, Reservation::settle *)

Goto(r, pc) == req' = [req EXCEPT ![r].pc = pc]

\* budget_verdict up to its first check.  How old the pod's total is, is left
\* open: a synced counter is refreshed first or it is not.  The bounded waits
\* of budget_verdict are the steps other processes take in between.
Arrive(r) == LET p == req[r].pod  s == req[r].subject IN
  /\ req[r].pc = "idle"
  /\ Goto(r, "check")
  /\ \/ ctr[p][s].synced /\ Ask(p, s, ctr[p][s])
     \/ UNCHANGED <<ctr, asks>>
  /\ UNCHANGED <<now, task, client, spend, spent, repeated, failures>>

\* check: load window_end and compare it with the clock.
LoadWindow(r) == LET c == ctr[req[r].pod][req[r].subject] IN
  /\ req[r].pc = "check"
  /\ Goto(r, IF c.window_end # 0 /\ c.window_end <= now THEN "roll" ELSE "decide")
  /\ UNCHANGED <<now, ctr, asks, task, client, spend, spent, repeated, failures>>

\* roll_over, its first three stores ...
RollOver(r) == LET p == req[r].pod  s == req[r].subject IN
  /\ req[r].pc = "roll"
  /\ SetCounter(p, s, RolledOver(ctr[p][s]))
  /\ Goto(r, "rolled")
  /\ UNCHANGED <<now, asks, task, client, spend, spent, repeated, failures>>

\* ... and its last.
ForgetSynced(r) == LET p == req[r].pod  s == req[r].subject IN
  /\ req[r].pc = "rolled"
  /\ SetCounter(p, s, [ctr[p][s] EXCEPT !.synced = FALSE])
  /\ Goto(r, "decide")
  /\ UNCHANGED <<now, asks, task, client, spend, spent, repeated, failures>>

\* check on a counter the ledger has not answered for: ask, and check once
\* more after the bounded wait; then failureMode decides without a reservation.
DecideUnknown(r) == LET p == req[r].pod  s == req[r].subject IN
  /\ req[r].pc = "decide" /\ ~ctr[p][s].synced
  /\ Ask(p, s, ctr[p][s])
  /\ req' = [req EXCEPT ![r] = IF @.tries = 1 THEN [@ EXCEPT !.pc = "check", !.tries = 2]
                                              ELSE [@ EXCEPT !.pc = "unknown"]]
  /\ UNCHANGED <<now, task, client, spend, spent, repeated, failures>>

\* check refuses; with an overflow allowance the verdict is asked again there.
DecideExhausted(r) == LET s == req[r].subject  left == Remaining(ctr[req[r].pod][s], s) IN
  /\ req[r].pc = "decide" /\ ctr[req[r].pod][s].synced
  /\ left <= 0 \/ left < req[r].estimate
  /\ \/ Goto(r, "refused")
     \/ /\ Overflow[s] # NoSubject
        /\ req' = [req EXCEPT ![r] = [@ EXCEPT !.pc = "check", !.subject = Overflow[s], !.tries = 1]]
  /\ UNCHANGED <<now, ctr, asks, task, client, spend, spent, repeated, failures>>

\* check allows: what is left was read, the estimate is not yet added.
DecideAllow(r) == LET s == req[r].subject  left == Remaining(ctr[req[r].pod][s], s) IN
  /\ req[r].pc = "decide" /\ ctr[req[r].pod][s].synced
  /\ left > 0 /\ left >= req[r].estimate
  /\ Goto(r, "reserve")
  /\ UNCHANGED <<now, ctr, asks, task, client, spend, spent, repeated, failures>>

\* check: the reservation, and the urgent sync.
Reserve(r) == LET p == req[r].pod  s == req[r].subject
                  c == [ctr[p][s] EXCEPT !.reserved = @ + req[r].estimate] IN
  /\ req[r].pc = "reserve"
  /\ IF c.unsynced_spent * UrgentShare > Limit[s] THEN Ask(p, s, c) ELSE SetCounter(p, s, c) /\ UNCHANGED asks
  /\ Goto(r, "inflight")
  /\ UNCHANGED <<now, task, client, spend, spent, repeated, failures>>

\* Reservation::settle, from the response's end or from Drop: the estimate goes ...
Release(r) == LET p == req[r].pod  s == req[r].subject IN
  /\ req[r].pc = "inflight"
  /\ SetCounter(p, s, [ctr[p][s] EXCEPT !.reserved = SaturatingSub(@, req[r].estimate)])
  /\ Goto(r, "settling")
  /\ UNCHANGED <<now, asks, task, client, spend, spent, repeated, failures>>

\* ... and the real cost comes.
Spend(r) == LET p == req[r].pod  s == req[r].subject IN
  /\ req[r].pc = "settling"
  /\ SetCounter(p, s, [ctr[p][s] EXCEPT !.unsynced_spent = @ + req[r].actual])
  /\ spent' = [spent EXCEPT ![s] = @ + req[r].actual]
  /\ Goto(r, "done")
  /\ UNCHANGED <<now, asks, task, client, spend, repeated, failures>>

----------------------------------------------------------------------------
(* The tick loop and the sync task of a pod *)

\* Mutant: sync_all that looks only at windows and reservations.
TickReservedOnly(p, s) == LET c == ctr[p][s] IN
  /\ c.reserved > 0 \/ (c.window_end # 0 /\ c.window_end <= now)
  /\ Ask(p, s, c)
  /\ UNCHANGED <<now, task, client, spend, req, spent, repeated, failures>>

\* sync_all, one counter of the pod.
Tick(p, s) == LET c == ctr[p][s] IN
  /\ \/ c.window_end # 0 /\ c.window_end <= now
     \/ c.unsynced_spent > 0
     \/ c.reserved > 0
  /\ Ask(p, s, c)
  /\ UNCHANGED <<now, task, client, spend, req, spent, repeated, failures>>

\* sync_loop: take the next ask.
Recv(p) ==
  /\ task[p].pc = "idle" /\ asks[p] # <<>>
  /\ task' = [task EXCEPT ![p] = [@ EXCEPT !.pc = "got", !.subject = Head(asks[p])]]
  /\ asks' = [asks EXCEPT ![p] = Tail(@)]
  /\ UNCHANGED <<now, ctr, client, spend, req, spent, repeated, failures>>

\* sync_loop without a connection that cannot make one.
ConnectFails(p) == LET s == task[p].subject IN
  /\ task[p].pc = "got" /\ ~client[p] /\ failures < MaxFailures
  /\ SetCounter(p, s, SyncFailed(ctr[p][s], 0))
  /\ task' = [task EXCEPT ![p] = IdleTask]
  /\ failures' = failures + 1
  /\ UNCHANGED <<now, asks, client, spend, req, spent, repeated>>

\* Mutant: the delta read instead of swapped out.
ShipByLoad(p) == LET s == task[p].subject IN
  /\ task[p].pc = "got"
  /\ client' = [client EXCEPT ![p] = TRUE]
  /\ task' = [task EXCEPT ![p] = [@ EXCEPT !.pc = "called", !.delta = ctr[p][s].unsynced_spent]]
  /\ UNCHANGED <<now, ctr, asks, spend, req, spent, repeated, failures>>

\* sync_loop: connect if needed, take the delta out of the counter and call.
Ship(p) == LET s == task[p].subject IN
  /\ task[p].pc = "got"
  /\ client' = [client EXCEPT ![p] = TRUE]
  /\ task' = [task EXCEPT ![p] = [@ EXCEPT !.pc = "called", !.delta = ctr[p][s].unsynced_spent]]
  /\ SetCounter(p, s, [ctr[p][s] EXCEPT !.unsynced_spent = 0])
  /\ UNCHANGED <<now, asks, spend, req, spent, repeated, failures>>

\* The ledger's sync: add the delta to the row of the ledger's own window.
LedgerSync(p) == LET s == task[p].subject IN
  /\ task[p].pc = "called"
  /\ spend' = [spend EXCEPT ![s][WindowEnd] = @ + task[p].delta]
  /\ task' = [task EXCEPT ![p] = [@ EXCEPT !.pc = "replied", !.window_end = WindowEnd,
                                           !.total = spend[s][WindowEnd] + task[p].delta]]
  /\ UNCHANGED <<now, ctr, asks, client, req, spent, repeated, failures>>

\* The call fails, before the ledger has applied it or after: the client
\* cannot tell, drops the connection and puts the delta back.
CallFails(p) == LET s == task[p].subject IN
  /\ task[p].pc \in {"called", "replied"} /\ failures < MaxFailures
  /\ SetCounter(p, s, SyncFailed(ctr[p][s], task[p].delta))
  /\ repeated' = [repeated EXCEPT ![s] = IF task[p].pc = "replied" THEN @ + task[p].delta ELSE @]
  /\ client' = [client EXCEPT ![p] = FALSE]
  /\ task' = [task EXCEPT ![p] = IdleTask]
  /\ failures' = failures + 1
  /\ UNCHANGED <<now, asks, spend, req, spent>>

\* apply_sync, in two steps.
Rebase(p) == LET s == task[p].subject IN
  /\ task[p].pc = "replied"
  /\ SetCounter(p, s, Rebased(ctr[p][s], task[p]))
  /\ task' = [task EXCEPT ![p].pc = "landing"]
  /\ UNCHANGED <<now, asks, client, spend, req, spent, repeated, failures>>

Land(p) == LET s == task[p].subject IN
  /\ task[p].pc = "landing"
  /\ SetCounter(p, s, Synced(ctr[p][s], task[p]))
  /\ task' = [task EXCEPT ![p] = IdleTask]
  /\ UNCHANGED <<now, asks, client, spend, req, spent, repeated, failures>>

----------------------------------------------------------------------------
(* Time and the ledger's housekeeping *)

NextWindow ==
  /\ now < MaxNow
  /\ now' = now + 1
  /\ UNCHANGED <<ctr, asks, task, client, spend, req, spent, repeated, failures>>

\* prune: rows of windows that have ended.
Prune ==
  /\ \E s \in Subjects, w \in WindowEnds : w <= now /\ spend[s][w] > 0
  /\ spend' = [s \in Subjects |-> [w \in WindowEnds |-> IF w <= now THEN 0 ELSE spend[s][w]]]
  /\ UNCHANGED <<now, ctr, asks, task, client, req, spent, repeated, failures>>

Serve(r) == \/ LoadWindow(r) \/ RollOver(r) \/ ForgetSynced(r) \/ DecideUnknown(r)
            \/ DecideExhausted(r) \/ DecideAllow(r) \/ Reserve(r) \/ Release(r) \/ Spend(r)

SyncTask(p) == Recv(p) \/ ConnectFails(p) \/ Ship(p) \/ LedgerSync(p) \/ CallFails(p) \/ Rebase(p) \/ Land(p)

Next ==
  \/ \E r \in Requests : Arrive(r) \/ Serve(r)
  \/ \E p \in Pods : SyncTask(p) \/ \E s \in Subjects : Tick(p, s)
  \/ NextWindow
  \/ Prune

\* The runtime keeps polling every task: handlers that were polled finish, the
\* sync task proceeds and the interval timer fires.  Arrivals, failures and
\* the clock owe nothing.
Fairness ==
  /\ \A r \in Requests : WF_vars(Serve(r))
  /\ \A p \in Pods : WF_vars(SyncTask(p)) /\ \A s \in Subjects : WF_vars(Tick(p, s))

Spec == Init /\ [][Next]_vars /\ Fairness

----------------------------------------------------------------------------
(* Properties *)

InFlight(p, s) == {r \in Requests : req[r].pc = "inflight" /\ req[r].pod = p /\ req[r].subject = s}

\* What a pod has reserved for a subject is exactly the estimates of its
\* requests in flight: no window end, sync or early drop of a response leaks
\* a reservation or gives one back twice (check, settle, roll_over).
ReservedIsInFlight == \A p \in Pods, s \in Subjects :
  ctr[p][s].reserved = SumFunctionOnSet([r \in Requests |-> req[r].estimate], InFlight(p, s))

\* The counters of a pod whose ask is queued or in the sync task's hands.
Queued(p) == {asks[p][i] : i \in 1 .. Len(asks[p])}
Held(p) == IF task[p].pc = "idle" THEN {} ELSE {task[p].subject}

\* A counter says a sync is under way exactly when one is, and there is only
\* one: no failure path leaves the flag up (the counter would never sync
\* again) and no counter is queued twice (its delta would be shipped twice).
OneSyncPerCounter == \A p \in Pods :
  /\ \A s \in Subjects : ctr[p][s].syncing <=> s \in Queued(p) \cup Held(p)
  /\ \A i, j \in 1 .. Len(asks[p]) : asks[p][i] = asks[p][j] => i = j
  /\ Held(p) \cap Queued(p) = {}

\* What a pod holds of a subject's spend: in its counter, or in a call the
\* ledger has not applied.
OnPod(p, s) ==
  ctr[p][s].unsynced_spent + IF task[p].pc = "called" /\ task[p].subject = s THEN task[p].delta ELSE 0

LedgerTotal(s) == SumFunctionOnSet(spend[s], WindowEnds)
LocalTotal(s) == SumFunctionOnSet([p \in Pods |-> OnPod(p, s)], Pods)

\* Whatever the interleaving of settles, rollovers and syncs, the ledger and the
\* pods together never hold more spend than requests caused, but for the
\* deltas put back after a call that failed although the ledger applied it.
NothingCountedTwice == \A s \in Subjects : LedgerTotal(s) + LocalTotal(s) <= spent[s] + repeated[s]

\* A pod never refuses because of spend nobody made: what it charges a subject
\* besides reservations is at most what was spent (and repeated).
NoPhantomSpend == \A p \in Pods, s \in Subjects :
  ctr[p][s].global_spent + ctr[p][s].unsynced_spent <= spent[s] + repeated[s]

\* Spend does not stay on a pod: whenever a subject has unsynced spend, the tick
\* and the sync task get it out of the counter, whatever failed before.
SpendShips == \A p \in Pods, s \in Subjects : []<>(ctr[p][s].unsynced_spent = 0)

\* The counters of all pods and the ledger's table tell the truth together:
\* reservations, what was counted, and what pods believe.
CountersHonest == TypeOK /\ ReservedIsInFlight /\ NothingCountedTwice /\ NoPhantomSpend
=============================================================================
