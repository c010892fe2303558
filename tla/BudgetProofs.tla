---------------------------- MODULE BudgetProofs ----------------------------
(* What the budget counters of all pods and the ledger's table are promised, *)
(* for any number of pods, requests, subjects and windows.                   *)
EXTENDS Budget, OperatorProofs, SequenceTheorems

----------------------------------------------------------------------------
(* Types *)

\* A sync task that is at work has a counter to work on.
TaskFits == \A p \in Pods : task[p].pc # "idle" => task[p].subject \in Subjects

\* The counters are finitely many, and the bounds are numbers.
LEMMA Finite ==
  /\ IsFiniteSet(Pods) /\ IsFiniteSet(Requests) /\ IsFiniteSet(WindowEnds)
  /\ MaxNow \in Nat /\ Estimates \subseteq Nat /\ Actuals \subseteq Nat
  /\ NoSubject \notin Subjects /\ Overflow \in [Subjects -> Subjects \cup {NoSubject}]
  /\ Limit \in [Subjects -> Nat]
<1>1. /\ IsFiniteSet(Pods) /\ IsFiniteSet(Requests) /\ MaxNow \in Nat
      /\ Estimates \subseteq Nat /\ Actuals \subseteq Nat
      /\ NoSubject \notin Subjects /\ Overflow \in [Subjects -> Subjects \cup {NoSubject}]
      /\ Limit \in [Subjects -> Nat]
  BY BudgetAssumption
<1>2. IsFiniteSet(1 .. MaxNow + 1)
  BY <1>1, FS_Interval
<1> QED
  BY <1>1, <1>2 DEF WindowEnds

\* Storing into a counter touches no other.
LEMMA CounterSet ==
  ASSUME TypeOK, NEW p \in Pods, NEW s \in Subjects, NEW c \in Counter, SetCounter(p, s, c)
  PROVE  /\ ctr' \in [Pods -> [Subjects -> Counter]]
         /\ ctr'[p][s] = c
         /\ \A q \in Pods, t \in Subjects : q # p \/ t # s => ctr'[q][t] = ctr[q][t]
BY DEF TypeOK, SetCounter

\* Two counters that differ in the syncing flag only.
SameBut(d, c) ==
  /\ d.window_end = c.window_end /\ d.global_spent = c.global_spent
  /\ d.unsynced_spent = c.unsynced_spent /\ d.reserved = c.reserved /\ d.synced = c.synced

\* ask queues a counter that is not being synced, or does nothing.
LEMMA AskIs ==
  ASSUME TypeOK, NEW p \in Pods, NEW s \in Subjects, NEW c \in Counter, Ask(p, s, c)
  PROVE  /\ asks' \in [Pods -> Seq(Subjects)]
         /\ ctr' \in [Pods -> [Subjects -> Counter]]
         /\ SameBut(ctr'[p][s], c)
         /\ \A q \in Pods, t \in Subjects : q # p \/ t # s => ctr'[q][t] = ctr[q][t]
         /\ \/ ctr'[p][s].syncing = c.syncing /\ asks' = asks
            \/ ~c.syncing /\ ctr'[p][s].syncing /\ asks' = [asks EXCEPT ![p] = Append(@, s)]
<1>1. CASE SetCounter(p, s, c) /\ asks' = asks
  BY <1>1, CounterSet DEF TypeOK, SameBut
<1>2. CASE /\ ~c.syncing /\ SetCounter(p, s, [c EXCEPT !.syncing = TRUE])
           /\ asks' = [asks EXCEPT ![p] = Append(@, s)]
  <2> DEFINE d == [c EXCEPT !.syncing = TRUE]
  <2>1. d \in Counter /\ d.syncing /\ SameBut(d, c)
    BY DEF Counter, SameBut
  <2>2. SetCounter(p, s, d)
    BY <1>2
  <2> HIDE DEF d
  <2>3. asks' \in [Pods -> Seq(Subjects)]
    <3>1. Append(asks[p], s) \in Seq(Subjects)
      BY DEF TypeOK
    <3> QED
      BY <1>2, <3>1 DEF TypeOK
  <2> QED
    BY <1>2, <2>1, <2>2, <2>3, CounterSet
<1> QED
  BY <1>1, <1>2 DEF Ask

\* A request moves on and keeps what it is.
LEMMA GotoIs ==
  ASSUME TypeOK, NEW r \in Requests,
         NEW pc \in {"check", "roll", "rolled", "decide", "reserve", "inflight", "settling", "refused",
                     "unknown", "done"},
         Goto(r, pc)
  PROVE  /\ req' \in [Requests -> Request]
         /\ req'[r] = [req[r] EXCEPT !.pc = pc]
         /\ \A u \in Requests \ {r} : req'[u] = req[u]
<1>1. [req[r] EXCEPT !.pc = pc] \in Request
  BY ZenonT(60) DEF TypeOK, Request
<1> QED
  BY <1>1 DEF TypeOK, Goto

\* What the operations on a counter leave is a counter.
LEMMA CounterOps ==
  ASSUME NEW c \in Counter, NEW n \in Nat
  PROVE  /\ RolledOver(c) \in Counter
         /\ \A t \in Task : Rebased(c, t) \in Counter /\ Synced(c, t) \in Counter
         /\ SyncFailed(c, n) \in Counter
         /\ [c EXCEPT !.synced = FALSE] \in Counter
         /\ [c EXCEPT !.unsynced_spent = 0] \in Counter
         /\ [c EXCEPT !.reserved = @ + n] \in Counter
         /\ [c EXCEPT !.reserved = SaturatingSub(@, n)] \in Counter
         /\ [c EXCEPT !.unsynced_spent = @ + n] \in Counter
<1>1. c.unsynced_spent \in Nat /\ c.reserved \in Nat
  BY DEF Counter
<1> DEFINE a == c.unsynced_spent + n
           b == c.reserved + n
           d == SaturatingSub(c.reserved, n)
<1>2. a \in Nat /\ b \in Nat /\ d \in Nat
  BY <1>1 DEF SaturatingSub
<1>3. /\ [c EXCEPT !.reserved = @ + n] = [c EXCEPT !.reserved = b]
      /\ [c EXCEPT !.reserved = SaturatingSub(@, n)] = [c EXCEPT !.reserved = d]
      /\ [c EXCEPT !.unsynced_spent = @ + n] = [c EXCEPT !.unsynced_spent = a]
      /\ SyncFailed(c, n) = [c EXCEPT !.unsynced_spent = a, !.syncing = FALSE]
  BY DEF SyncFailed
<1> HIDE DEF a, b, d
<1>4. /\ [c EXCEPT !.reserved = b] \in Counter /\ [c EXCEPT !.reserved = d] \in Counter
      /\ [c EXCEPT !.unsynced_spent = a] \in Counter
      /\ [c EXCEPT !.unsynced_spent = a, !.syncing = FALSE] \in Counter
  BY <1>2 DEF Counter
<1>5. /\ RolledOver(c) \in Counter
      /\ [c EXCEPT !.synced = FALSE] \in Counter /\ [c EXCEPT !.unsynced_spent = 0] \in Counter
  BY DEF Counter, RolledOver
<1>6. ASSUME NEW t \in Task PROVE Rebased(c, t) \in Counter /\ Synced(c, t) \in Counter
  <2> DEFINE e == IF c.window_end = t.window_end THEN SaturatingSub(c.unsynced_spent, t.delta) ELSE 0
  <2>1. t.delta \in Nat /\ t.total \in Nat /\ t.window_end \in {0} \cup WindowEnds
    BY DEF Task
  <2>2. e \in Nat
    BY <1>1, <2>1 DEF SaturatingSub
  <2>3. Rebased(c, t) = [c EXCEPT !.window_end = t.window_end, !.unsynced_spent = e]
    BY DEF Rebased
  <2> HIDE DEF e
  <2> QED
    BY <2>1, <2>2, <2>3 DEF Counter, Synced
<1> QED
  BY <1>3, <1>4, <1>5, <1>6

\* What the types say of the parts.
LEMMA Parts ==
  ASSUME TypeOK
  PROVE  /\ \A p \in Pods, s \in Subjects :
              /\ ctr[p][s] \in Counter /\ ctr[p][s].unsynced_spent \in Nat
              /\ ctr[p][s].global_spent \in Nat /\ ctr[p][s].reserved \in Nat
         /\ \A p \in Pods : task[p] \in Task /\ task[p].delta \in Nat /\ task[p].total \in Nat
         /\ \A r \in Requests : /\ req[r] \in Request /\ req[r].pod \in Pods /\ req[r].subject \in Subjects
                                /\ req[r].estimate \in Nat /\ req[r].actual \in Nat
<1>1. ASSUME NEW p \in Pods, NEW s \in Subjects
      PROVE  /\ ctr[p][s] \in Counter /\ ctr[p][s].unsynced_spent \in Nat
             /\ ctr[p][s].global_spent \in Nat /\ ctr[p][s].reserved \in Nat
  <2>1. ctr[p][s] \in Counter
    BY DEF TypeOK
  <2> QED
    BY <2>1 DEF Counter
<1>2. ASSUME NEW p \in Pods PROVE task[p] \in Task /\ task[p].delta \in Nat /\ task[p].total \in Nat
  BY DEF TypeOK, Task
<1>3. ASSUME NEW r \in Requests
      PROVE  /\ req[r] \in Request /\ req[r].pod \in Pods /\ req[r].subject \in Subjects
             /\ req[r].estimate \in Nat /\ req[r].actual \in Nat
  <2>1. req[r] \in Request
    BY DEF TypeOK
  <2>2. req[r].estimate \in Estimates /\ req[r].actual \in Actuals
    BY <2>1 DEF Request
  <2> QED
    BY <2>1, <2>2, Finite DEF Request
<1> QED
  BY <1>1, <1>2, <1>3

\* Every step keeps the types.
LEMMA Types == TypeOK /\ TaskFits /\ [Next]_vars => TypeOK' /\ TaskFits'
<1> SUFFICES ASSUME TypeOK, TaskFits, [Next]_vars PROVE TypeOK' /\ TaskFits'
  OBVIOUS
<1> USE DEF TypeOK
<1>0. /\ \A p \in Pods, s \in Subjects : ctr[p][s] \in Counter
      /\ \A p \in Pods : task[p] \in Task /\ task[p].delta \in Nat /\ task[p].total \in Nat
      /\ \A r \in Requests : /\ req[r] \in Request /\ req[r].pod \in Pods /\ req[r].subject \in Subjects
                             /\ req[r].estimate \in Nat /\ req[r].actual \in Nat
  BY Parts
<1>1. ASSUME NEW r \in Requests, Arrive(r) PROVE TypeOK' /\ TaskFits'
  <2>1. req' \in [Requests -> Request]
    BY <1>1, GotoIs DEF Arrive
  <2>2. ctr' \in [Pods -> [Subjects -> Counter]] /\ asks' \in [Pods -> Seq(Subjects)]
    BY <1>0, <1>1, AskIs DEF Arrive
  <2> QED
    BY <1>1, <2>1, <2>2 DEF Arrive, TaskFits
<1>2. ASSUME NEW r \in Requests, LoadWindow(r) \/ DecideAllow(r) PROVE TypeOK' /\ TaskFits'
  <2>1. req' \in [Requests -> Request]
    BY <1>2, GotoIs DEF LoadWindow, DecideAllow
  <2> QED
    BY <1>2, <2>1 DEF LoadWindow, DecideAllow, TaskFits
<1>3. ASSUME NEW r \in Requests, RollOver(r) \/ ForgetSynced(r) PROVE TypeOK' /\ TaskFits'
  <2>1. req' \in [Requests -> Request]
    BY <1>3, GotoIs DEF RollOver, ForgetSynced
  <2>0. ctr[req[r].pod][req[r].subject] \in Counter /\ 0 \in Nat
    BY <1>0
  <2>2. RolledOver(ctr[req[r].pod][req[r].subject]) \in Counter
    BY <2>0, CounterOps
  <2>3. [ctr[req[r].pod][req[r].subject] EXCEPT !.synced = FALSE] \in Counter
    BY <2>0, CounterOps
  <2>4. ctr' \in [Pods -> [Subjects -> Counter]]
    BY <1>0, <1>3, <2>2, <2>3, CounterSet DEF RollOver, ForgetSynced
  <2> QED
    BY <1>3, <2>1, <2>4 DEF RollOver, ForgetSynced, TaskFits
<1>4. ASSUME NEW r \in Requests, DecideUnknown(r) PROVE TypeOK' /\ TaskFits'
  <2>1. ctr' \in [Pods -> [Subjects -> Counter]] /\ asks' \in [Pods -> Seq(Subjects)]
    BY <1>0, <1>4, AskIs DEF DecideUnknown
  <2>2. [req[r] EXCEPT !.pc = "check", !.tries = 2] \in Request /\ [req[r] EXCEPT !.pc = "unknown"] \in Request
    BY <1>0 DEF Request
  <2>3. req' \in [Requests -> Request]
    BY <1>4, <2>2 DEF DecideUnknown
  <2> QED
    BY <1>4, <2>1, <2>3 DEF DecideUnknown, TaskFits
<1>5. ASSUME NEW r \in Requests, DecideExhausted(r) PROVE TypeOK' /\ TaskFits'
  <2> DEFINE o == Overflow[req[r].subject]
  <2>1. CASE Goto(r, "refused")
    BY <1>5, <2>1, GotoIs DEF DecideExhausted, TaskFits
  <2>2. CASE o # NoSubject /\ req' = [req EXCEPT ![r] = [@ EXCEPT !.pc = "check", !.subject = o, !.tries = 1]]
    <3>1. o \in Subjects
      BY <1>0, <2>2, Finite
    <3> HIDE DEF o
    <3>2. [req[r] EXCEPT !.pc = "check", !.subject = o, !.tries = 1] \in Request
      BY <1>0, <3>1, ZenonT(60) DEF Request
    <3> QED
      BY <1>5, <2>2, <3>2 DEF DecideExhausted, TaskFits
  <2> QED
    BY <1>5, <2>1, <2>2 DEF DecideExhausted
<1>6. ASSUME NEW r \in Requests, Reserve(r) PROVE TypeOK' /\ TaskFits'
  <2> DEFINE c == [ctr[req[r].pod][req[r].subject] EXCEPT !.reserved = @ + req[r].estimate]
  <2>1. c \in Counter
    BY <1>0, CounterOps
  <2>2. Ask(req[r].pod, req[r].subject, c) \/ (SetCounter(req[r].pod, req[r].subject, c) /\ UNCHANGED asks)
    BY <1>6 DEF Reserve
  <2> HIDE DEF c
  <2>3. ctr' \in [Pods -> [Subjects -> Counter]] /\ asks' \in [Pods -> Seq(Subjects)]
    BY <1>0, <2>1, <2>2, AskIs, CounterSet
  <2>4. req' \in [Requests -> Request]
    BY <1>6, GotoIs DEF Reserve
  <2> QED
    BY <1>6, <2>3, <2>4 DEF Reserve, TaskFits
<1>7. ASSUME NEW r \in Requests, Release(r) PROVE TypeOK' /\ TaskFits'
  <2>1. req' \in [Requests -> Request]
    BY <1>7, GotoIs DEF Release
  <2>2. [ctr[req[r].pod][req[r].subject] EXCEPT !.reserved = SaturatingSub(@, req[r].estimate)] \in Counter
    BY <1>0, CounterOps
  <2>3. ctr' \in [Pods -> [Subjects -> Counter]]
    BY <1>0, <1>7, <2>2, CounterSet DEF Release
  <2> QED
    BY <1>7, <2>1, <2>3 DEF Release, TaskFits
<1>8. ASSUME NEW r \in Requests, Spend(r) PROVE TypeOK' /\ TaskFits'
  <2>1. req' \in [Requests -> Request]
    BY <1>8, GotoIs DEF Spend
  <2>2. [ctr[req[r].pod][req[r].subject] EXCEPT !.unsynced_spent = @ + req[r].actual] \in Counter
    BY <1>0, CounterOps
  <2>3. ctr' \in [Pods -> [Subjects -> Counter]]
    BY <1>0, <1>8, <2>2, CounterSet DEF Spend
  <2>4. spent' \in [Subjects -> Nat]
    BY <1>0, <1>8 DEF Spend
  <2> QED
    BY <1>8, <2>1, <2>3, <2>4 DEF Spend, TaskFits
<1>9. ASSUME NEW p \in Pods, NEW s \in Subjects, Tick(p, s) PROVE TypeOK' /\ TaskFits'
  BY <1>0, <1>9, AskIs DEF Tick, TaskFits
<1>10. ASSUME NEW p \in Pods, Recv(p) PROVE TypeOK' /\ TaskFits'
  <2>1. asks[p] \in Seq(Subjects) /\ asks[p] # <<>>
    BY <1>10 DEF Recv
  <2>2. Head(asks[p]) \in Subjects /\ Tail(asks[p]) \in Seq(Subjects)
    BY <2>1, HeadTailProperties
  <2>3. [task[p] EXCEPT !.pc = "got", !.subject = Head(asks[p])] \in Task
    BY <1>0, <2>2 DEF Task
  <2>4. /\ task' = [task EXCEPT ![p] = [@ EXCEPT !.pc = "got", !.subject = Head(asks[p])]]
        /\ asks' = [asks EXCEPT ![p] = Tail(@)]
    BY <1>10 DEF Recv
  <2>5. task' \in [Pods -> Task] /\ asks' \in [Pods -> Seq(Subjects)]
    BY <2>2, <2>3, <2>4
  <2>6. TaskFits'
    <3>1. task'[p].subject = Head(asks[p])
      BY <1>0, <2>4 DEF Task
    <3> QED
      BY <2>2, <2>4, <3>1 DEF TaskFits
  <2> QED
    BY <1>10, <2>5, <2>6 DEF Recv
<1>11. ASSUME NEW p \in Pods, NEW c \in Counter, task[p].pc # "idle", SetCounter(p, task[p].subject, c),
              task' = [task EXCEPT ![p] = IdleTask]
       PROVE  /\ ctr' \in [Pods -> [Subjects -> Counter]] /\ task' \in [Pods -> Task] /\ TaskFits'
  <2>1. task[p].subject \in Subjects
    BY <1>11 DEF TaskFits
  <2>2. IdleTask \in Task /\ IdleTask.pc = "idle"
    BY DEF IdleTask, Task
  <2> QED
    BY <1>11, <2>1, <2>2, CounterSet DEF TaskFits
<1>12. ASSUME NEW p \in Pods, ConnectFails(p) \/ CallFails(p) \/ Land(p) PROVE TypeOK' /\ TaskFits'
  <2>1. task[p].pc # "idle" /\ task' = [task EXCEPT ![p] = IdleTask]
    BY <1>12 DEF ConnectFails, CallFails, Land
  <2>2. task[p].subject \in Subjects
    BY <2>1 DEF TaskFits
  <2>3. PICK c \in Counter : SetCounter(p, task[p].subject, c)
    <3>1. /\ SyncFailed(ctr[p][task[p].subject], 0) \in Counter
          /\ SyncFailed(ctr[p][task[p].subject], task[p].delta) \in Counter
          /\ Synced(ctr[p][task[p].subject], task[p]) \in Counter
      BY <1>0, <2>2, CounterOps
    <3> QED
      BY <1>12, <3>1 DEF ConnectFails, CallFails, Land
  <2>4. ctr' \in [Pods -> [Subjects -> Counter]] /\ task' \in [Pods -> Task] /\ TaskFits'
    BY <1>11, <2>1, <2>3
  <2>5. failures' \in Nat /\ repeated' \in [Subjects -> Nat]
    <3>1. CASE ConnectFails(p) \/ Land(p)
      BY <3>1 DEF ConnectFails, Land
    <3>2. CASE CallFails(p)
      <4>1. repeated' = [repeated EXCEPT ![task[p].subject] = IF task[p].pc = "replied" THEN @ + task[p].delta ELSE @]
        BY <3>2 DEF CallFails
      <4>2. repeated[task[p].subject] \in Nat /\ task[p].delta \in Nat
        BY <1>0, <2>2
      <4>3. repeated' \in [Subjects -> Nat]
        BY <2>2, <4>1, <4>2
      <4> QED
        BY <3>2, <4>3 DEF CallFails
    <3> QED
      BY <1>12, <3>1, <3>2
  <2>6. client' \in [Pods -> BOOLEAN]
    BY <1>12 DEF ConnectFails, CallFails, Land
  <2> QED
    BY <1>12, <2>4, <2>5, <2>6 DEF ConnectFails, CallFails, Land
<1>13. ASSUME NEW p \in Pods, Ship(p) PROVE TypeOK' /\ TaskFits'
  <2> DEFINE s == task[p].subject
             d == ctr[p][s].unsynced_spent
  <2>1. s \in Subjects
    BY <1>13 DEF Ship, TaskFits
  <2>2. d \in Nat
    BY <2>1, Parts
  <2>3. [ctr[p][s] EXCEPT !.unsynced_spent = 0] \in Counter
    <3>1. ctr[p][s] \in Counter /\ 0 \in Nat
      BY <1>0, <2>1
    <3> QED
      BY <3>1, CounterOps
  <2>4. SetCounter(p, s, [ctr[p][s] EXCEPT !.unsynced_spent = 0])
    BY <1>13 DEF Ship
  <2>5. task' = [task EXCEPT ![p] = [@ EXCEPT !.pc = "called", !.delta = d]]
    BY <1>13 DEF Ship
  <2>6. ctr' \in [Pods -> [Subjects -> Counter]]
    <3> HIDE DEF s
    <3> QED
      BY <2>1, <2>3, <2>4, CounterSet
  <2> HIDE DEF d
  <2>7. task' \in [Pods -> Task] /\ TaskFits'
    <3>1. [task[p] EXCEPT !.pc = "called", !.delta = d] \in Task
      BY <1>0, <2>2 DEF Task
    <3>2. task'[p].subject = s
      BY <1>0, <2>5 DEF Task
    <3> HIDE DEF s
    <3> QED
      BY <2>1, <2>5, <3>1, <3>2 DEF TaskFits
  <2> QED
    BY <1>13, <2>6, <2>7 DEF Ship
<1>14. ASSUME NEW p \in Pods, LedgerSync(p) PROVE TypeOK' /\ TaskFits'
  <2> DEFINE s == task[p].subject
             n == spend[s][WindowEnd] + task[p].delta
  <2>1. s \in Subjects
    BY <1>14 DEF LedgerSync, TaskFits
  <2>2. WindowEnd \in WindowEnds
    BY Finite DEF WindowEnd, WindowEnds
  <2>3. n \in Nat
    BY <1>0, <2>1, <2>2
  <2>4. /\ task' = [task EXCEPT ![p] = [@ EXCEPT !.pc = "replied", !.window_end = WindowEnd, !.total = n]]
        /\ spend' = [spend EXCEPT ![s] = [spend[s] EXCEPT ![WindowEnd] = n]]
    BY <1>14, <2>1, <2>2 DEF LedgerSync
  <2> HIDE DEF n
  <2>5. task' \in [Pods -> Task] /\ TaskFits'
    <3>1. [task[p] EXCEPT !.pc = "replied", !.window_end = WindowEnd, !.total = n] \in Task
      BY <1>0, <2>2, <2>3 DEF Task
    <3>2. task'[p].subject = s
      BY <1>0, <2>4 DEF Task
    <3> HIDE DEF s
    <3> QED
      BY <2>1, <2>4, <3>1, <3>2 DEF TaskFits
  <2>6. spend' \in [Subjects -> [WindowEnds -> Nat]]
    BY <2>1, <2>2, <2>3, <2>4
  <2> QED
    BY <1>14, <2>5, <2>6 DEF LedgerSync
<1>15. ASSUME NEW p \in Pods, Rebase(p) PROVE TypeOK' /\ TaskFits'
  <2>1. task[p].subject \in Subjects
    BY <1>15 DEF Rebase, TaskFits
  <2>2. Rebased(ctr[p][task[p].subject], task[p]) \in Counter
    BY <1>0, <2>1, CounterOps
  <2>3. ctr' \in [Pods -> [Subjects -> Counter]]
    BY <1>15, <2>1, <2>2, CounterSet DEF Rebase
  <2>4. [task[p] EXCEPT !.pc = "landing"] \in Task /\ [task[p] EXCEPT !.pc = "landing"].subject = task[p].subject
    BY <1>0 DEF Task
  <2>5. task' = [task EXCEPT ![p] = [task[p] EXCEPT !.pc = "landing"]]
    BY <1>15 DEF Rebase
  <2>6. task' \in [Pods -> Task] /\ TaskFits'
    BY <2>1, <2>4, <2>5 DEF TaskFits
  <2> QED
    BY <1>15, <2>3, <2>6 DEF Rebase
<1>16. CASE NextWindow
  BY <1>16, Finite DEF NextWindow, TaskFits
<1>17. CASE Prune
  <2>1. spend' \in [Subjects -> [WindowEnds -> Nat]]
    BY <1>17 DEF Prune
  <2> QED
    BY <1>17, <2>1 DEF Prune, TaskFits
<1>18. CASE UNCHANGED vars
  BY <1>18 DEF vars, TaskFits
<1> QED
  BY <1>1, <1>2, <1>3, <1>4, <1>5, <1>6, <1>7, <1>8, <1>9, <1>10, <1>12, <1>13, <1>14, <1>15, <1>16,
     <1>17, <1>18 DEF Next, Serve, SyncTask

\* The state has its type, whatever meets whatever.
THEOREM TypeCorrect == Spec => [](TypeOK /\ TaskFits)
<1>1. Init => TypeOK /\ TaskFits
  <2> SUFFICES ASSUME Init PROVE TypeOK /\ TaskFits
    OBVIOUS
  <2>1. NewCounter \in Counter /\ IdleTask \in Task /\ IdleTask.pc = "idle"
    BY DEF NewCounter, Counter, IdleTask, Task
  <2>2. Inputs \subseteq Request
    BY DEF Inputs, Request
  <2>3. now \in 0 .. MaxNow
    BY Finite DEF Init
  <2>4. asks \in [Pods -> Seq(Subjects)]
    BY DEF Init
  <2>5. req \in [Requests -> Request]
    BY <2>2 DEF Init
  <2> QED
    BY <2>1, <2>3, <2>4, <2>5 DEF Init, TypeOK, TaskFits
<1> QED
  BY <1>1, Types, PTL DEF Spec

----------------------------------------------------------------------------
(* One sync per counter *)

\* Nothing about syncing changes.
LEMMA SyncSame ==
  ASSUME OneSyncPerCounter, asks' = asks,
         \A p \in Pods : Held(p)' = Held(p),
         \A p \in Pods, s \in Subjects : ctr'[p][s].syncing = ctr[p][s].syncing
  PROVE  OneSyncPerCounter'
BY DEF OneSyncPerCounter, Queued

\* ask queues only a counter that nobody is syncing.
LEMMA SyncAsked ==
  ASSUME TypeOK, OneSyncPerCounter, NEW p \in Pods, NEW s \in Subjects, NEW c \in Counter, Ask(p, s, c),
         c.syncing = ctr[p][s].syncing, task' = task
  PROVE  OneSyncPerCounter'
<1>1. \A q \in Pods : Held(q)' = Held(q)
  BY DEF Held
<1>2. CASE ctr'[p][s].syncing = c.syncing /\ asks' = asks
  <2>1. \A q \in Pods, t \in Subjects : ctr'[q][t].syncing = ctr[q][t].syncing
    BY <1>2, AskIs, SMTT(30)
  <2> QED
    BY <1>1, <1>2, <2>1, SyncSame
<1>3. CASE ~c.syncing /\ ctr'[p][s].syncing /\ asks' = [asks EXCEPT ![p] = Append(@, s)]
  <2>0. asks[p] \in Seq(Subjects) /\ Len(asks[p]) \in Nat
    BY DEF TypeOK
  <2>1. asks'[p] = Append(asks[p], s)
    BY <1>3 DEF TypeOK
  <2>2. /\ Len(asks'[p]) = Len(asks[p]) + 1 /\ asks'[p][Len(asks[p]) + 1] = s
        /\ \A i \in 1 .. Len(asks[p]) : asks'[p][i] = asks[p][i]
    BY <2>0, <2>1, AppendProperties
  <2>3. s \notin Queued(p) /\ s \notin Held(p)
    BY <1>3 DEF OneSyncPerCounter
  <2>4. Queued(p)' = Queued(p) \cup {s}
    <3>1. 1 .. Len(asks[p]) + 1 = (1 .. Len(asks[p])) \cup {Len(asks[p]) + 1}
      BY <2>0
    <3> QED
      BY <2>2, <3>1, SMTT(30) DEF Queued
  <2>5. ASSUME NEW i \in 1 .. Len(asks'[p]), NEW j \in 1 .. Len(asks'[p]), asks'[p][i] = asks'[p][j]
        PROVE  i = j
    <3>1. CASE i \in 1 .. Len(asks[p]) /\ j \in 1 .. Len(asks[p])
      BY <2>2, <2>5, <3>1 DEF OneSyncPerCounter
    <3>2. CASE i = Len(asks[p]) + 1 /\ j \in 1 .. Len(asks[p])
      BY <2>2, <2>3, <2>5, <3>2 DEF Queued
    <3>3. CASE j = Len(asks[p]) + 1 /\ i \in 1 .. Len(asks[p])
      BY <2>2, <2>3, <2>5, <3>3 DEF Queued
    <3>4. i \in 1 .. Len(asks[p]) \/ i = Len(asks[p]) + 1
      BY <2>0, <2>2
    <3>5. j \in 1 .. Len(asks[p]) \/ j = Len(asks[p]) + 1
      BY <2>0, <2>2
    <3> QED
      BY <3>1, <3>2, <3>3, <3>4, <3>5
  <2>6. \A t \in Subjects : ctr'[p][t].syncing <=> t \in Queued(p)' \cup Held(p)'
    <3>1. \A t \in Subjects \ {s} : ctr'[p][t].syncing = ctr[p][t].syncing
      BY AskIs
    <3> QED
      BY <1>1, <1>3, <2>4, <3>1 DEF OneSyncPerCounter
  <2>7. ASSUME NEW q \in Pods, q # p
        PROVE  /\ \A t \in Subjects : ctr'[q][t].syncing = ctr[q][t].syncing
               /\ asks'[q] = asks[q] /\ Queued(q)' = Queued(q)
    <3>1. asks'[q] = asks[q]
      BY <1>3, <2>7 DEF TypeOK
    <3> QED
      BY <2>7, <3>1, AskIs DEF Queued
  <2>8. Held(p)' \cap Queued(p)' = {}
    BY <1>1, <2>3, <2>4 DEF OneSyncPerCounter
  <2> QED
    BY <1>1, <2>5, <2>6, <2>7, <2>8 DEF OneSyncPerCounter
<1> QED
  BY <1>2, <1>3, AskIs

\* A sync that is over frees its counter.
LEMMA SyncEnds ==
  ASSUME TypeOK, OneSyncPerCounter, NEW p \in Pods, task[p].pc # "idle", task[p].subject \in Subjects,
         NEW c \in Counter, SetCounter(p, task[p].subject, c), ~c.syncing,
         task' = [task EXCEPT ![p] = IdleTask], asks' = asks
  PROVE  OneSyncPerCounter'
<1> DEFINE s == task[p].subject
<1>1. Held(p) = {s} /\ Held(p)' = {}
  BY DEF Held, IdleTask, TypeOK
<1>2. \A q \in Pods \ {p} : Held(q)' = Held(q)
  BY DEF Held, TypeOK
<1>3. \A q \in Pods : Queued(q)' = Queued(q)
  BY DEF Queued
<1>4. /\ ctr'[p][s] = c
      /\ \A q \in Pods, t \in Subjects : q # p \/ t # s => ctr'[q][t] = ctr[q][t]
  BY CounterSet
<1> HIDE DEF s
<1>5. s \notin Queued(p)
  BY <1>1 DEF OneSyncPerCounter
<1> QED
  BY <1>1, <1>2, <1>3, <1>4, <1>5 DEF OneSyncPerCounter

\* The sync task takes the ask that waited longest.
LEMMA SyncTaken ==
  ASSUME TypeOK, OneSyncPerCounter, NEW p \in Pods, Recv(p)
  PROVE  OneSyncPerCounter'
<1> DEFINE s == Head(asks[p])
<1>0. asks[p] \in Seq(Subjects) /\ asks[p] # <<>> /\ Len(asks[p]) \in Nat /\ Len(asks[p]) # 0
  BY DEF TypeOK, Recv
<1>1. asks'[p] = Tail(asks[p]) /\ \A q \in Pods \ {p} : asks'[q] = asks[q]
  BY DEF TypeOK, Recv
<1>2. /\ Len(asks'[p]) = Len(asks[p]) - 1
      /\ \A i \in 1 .. Len(asks[p]) - 1 : asks'[p][i] = asks[p][i + 1]
      /\ s = asks[p][1]
  BY <1>0, <1>1, HeadTailProperties
<1>3. Held(p) = {} /\ Held(p)' = {s}
  <2>1. task'[p] = [task[p] EXCEPT !.pc = "got", !.subject = s] /\ task[p].pc = "idle"
    BY DEF TypeOK, Recv
  <2>2. task[p] \in Task
    BY Parts
  <2> HIDE DEF s
  <2>3. task'[p].pc = "got" /\ task'[p].subject = s
    BY <2>1, <2>2 DEF Task
  <2> QED
    BY <2>1, <2>3 DEF Held
<1>4. ASSUME NEW q \in Pods, q # p PROVE Held(q)' = Held(q) /\ Queued(q)' = Queued(q)
  <2>1. task'[q] = task[q]
    BY <1>4 DEF TypeOK, Recv
  <2> QED
    BY <1>1, <1>4, <2>1 DEF Held, Queued
<1> HIDE DEF s
<1>5. ASSUME NEW t PROVE t \in Queued(p) <=> t = s \/ t \in Queued(p)'
  <2>1. ASSUME NEW i \in 1 .. Len(asks[p]), t = asks[p][i], t # s PROVE t \in Queued(p)'
    <3>1. i - 1 \in 1 .. Len(asks[p]) - 1 /\ (i - 1) + 1 = i
      BY <1>0, <1>2, <2>1
    <3>2. asks'[p][i - 1] = t /\ i - 1 \in 1 .. Len(asks'[p])
      BY <1>2, <2>1, <3>1
    <3> QED
      BY <3>2 DEF Queued
  <2>2. ASSUME NEW i \in 1 .. Len(asks'[p]), t = asks'[p][i] PROVE t \in Queued(p)
    <3>1. i + 1 \in 1 .. Len(asks[p]) /\ t = asks[p][i + 1]
      BY <1>0, <1>2, <2>2
    <3> QED
      BY <3>1 DEF Queued
  <2>3. s \in Queued(p)
    <3>1. 1 \in 1 .. Len(asks[p])
      BY <1>0
    <3> QED
      BY <1>2, <3>1 DEF Queued
  <2> QED
    BY <2>1, <2>2, <2>3 DEF Queued
<1>6. s \notin Queued(p)'
  <2> SUFFICES ASSUME NEW i \in 1 .. Len(asks'[p]), s = asks'[p][i] PROVE FALSE
    BY DEF Queued
  <2>1. i + 1 \in 1 .. Len(asks[p]) /\ 1 \in 1 .. Len(asks[p]) /\ i + 1 # 1
    BY <1>0, <1>2
  <2>2. asks[p][i + 1] = asks[p][1]
    BY <1>0, <1>2
  <2> QED
    BY <2>1, <2>2 DEF OneSyncPerCounter
<1>7. ASSUME NEW i \in 1 .. Len(asks'[p]), NEW j \in 1 .. Len(asks'[p]), asks'[p][i] = asks'[p][j]
      PROVE  i = j
  <2>1. i + 1 \in 1 .. Len(asks[p]) /\ j + 1 \in 1 .. Len(asks[p]) /\ i \in Int /\ j \in Int
    BY <1>0, <1>2
  <2>2. asks[p][i + 1] = asks[p][j + 1]
    BY <1>0, <1>2, <1>7
  <2>3. i + 1 = j + 1
    BY <2>1, <2>2 DEF OneSyncPerCounter
  <2> QED
    BY <2>1, <2>3
<1>8. ctr' = ctr
  BY DEF Recv
<1>9. \A t \in Subjects : ctr'[p][t].syncing <=> t \in Queued(p)' \cup Held(p)'
  BY <1>3, <1>5, <1>8 DEF OneSyncPerCounter
<1>10. Held(p)' \cap Queued(p)' = {}
  BY <1>3, <1>6
<1>11. ASSUME NEW q \in Pods, q # p
       PROVE  /\ \A t \in Subjects : ctr'[q][t].syncing <=> t \in Queued(q)' \cup Held(q)'
              /\ \A i, j \in 1 .. Len(asks'[q]) : asks'[q][i] = asks'[q][j] => i = j
              /\ Held(q)' \cap Queued(q)' = {}
  BY <1>1, <1>4, <1>8, <1>11 DEF OneSyncPerCounter
<1>12. \A i, j \in 1 .. Len(asks'[p]) : asks'[p][i] = asks'[p][j] => i = j
  BY <1>7
<1> QED
  BY <1>9, <1>10, <1>11, <1>12 DEF OneSyncPerCounter

\* Every step keeps the flags true.
LEMMA SyncKept == TypeOK /\ TaskFits /\ OneSyncPerCounter /\ [Next]_vars => OneSyncPerCounter'
<1> SUFFICES ASSUME TypeOK, TaskFits, OneSyncPerCounter, [Next]_vars PROVE OneSyncPerCounter'
  OBVIOUS
<1>0. ASSUME NEW r \in Requests
      PROVE  /\ req[r].pod \in Pods /\ req[r].subject \in Subjects
             /\ ctr[req[r].pod][req[r].subject] \in Counter /\ req[r].estimate \in Nat /\ req[r].actual \in Nat
  <2>1. req[r].pod \in Pods /\ req[r].subject \in Subjects /\ req[r].estimate \in Nat /\ req[r].actual \in Nat
    BY Parts
  <2> QED
    BY <2>1, Parts
<1>1. ASSUME NEW p \in Pods, NEW s \in Subjects, NEW c \in Counter, SetCounter(p, s, c),
             c.syncing = ctr[p][s].syncing, UNCHANGED <<asks, task>>
      PROVE  OneSyncPerCounter'
  <2>1. \A q \in Pods, t \in Subjects : ctr'[q][t].syncing = ctr[q][t].syncing
    BY <1>1, CounterSet
  <2> QED
    BY <1>1, <2>1, SyncSame DEF Held
<1>2. ASSUME NEW r \in Requests, Arrive(r) PROVE OneSyncPerCounter'
  <2>1. CASE Ask(req[r].pod, req[r].subject, ctr[req[r].pod][req[r].subject])
    BY <1>0, <1>2, <2>1, SyncAsked DEF Arrive
  <2>2. CASE UNCHANGED <<ctr, asks>>
    BY <1>2, <2>2, SyncSame DEF Arrive, Held
  <2> QED
    BY <1>2, <2>1, <2>2 DEF Arrive
<1>3. ASSUME NEW r \in Requests, LoadWindow(r) \/ DecideExhausted(r) \/ DecideAllow(r) PROVE OneSyncPerCounter'
  BY <1>3, SyncSame DEF LoadWindow, DecideExhausted, DecideAllow, Held
<1>4. ASSUME NEW r \in Requests, RollOver(r) \/ ForgetSynced(r) \/ Release(r) \/ Spend(r) PROVE OneSyncPerCounter'
  <2> DEFINE p == req[r].pod
             s == req[r].subject
             c == ctr[p][s]
  <2>1. PICK d \in {RolledOver(c), [c EXCEPT !.synced = FALSE],
                    [c EXCEPT !.reserved = SaturatingSub(@, req[r].estimate)],
                    [c EXCEPT !.unsynced_spent = @ + req[r].actual]} : SetCounter(p, s, d)
    BY <1>4 DEF RollOver, ForgetSynced, Release, Spend
  <2>2. d \in Counter
    <3>1. c \in Counter /\ req[r].estimate \in Nat /\ req[r].actual \in Nat
      BY <1>0
    <3>2. /\ RolledOver(c) \in Counter /\ [c EXCEPT !.synced = FALSE] \in Counter
          /\ [c EXCEPT !.reserved = SaturatingSub(@, req[r].estimate)] \in Counter
          /\ [c EXCEPT !.unsynced_spent = @ + req[r].actual] \in Counter
      BY <3>1, CounterOps
    <3> QED
      BY <2>1, <3>2
  <2>3. d.syncing = c.syncing
    <3>1. c \in Counter
      BY <1>0
    <3> HIDE DEF c
    <3> DEFINE a == SaturatingSub(c.reserved, req[r].estimate)
               b == c.unsynced_spent + req[r].actual
    <3>2. d \in {RolledOver(c), [c EXCEPT !.synced = FALSE], [c EXCEPT !.reserved = a],
                 [c EXCEPT !.unsynced_spent = b]}
      BY <2>1
    <3> HIDE DEF a, b
    <3> QED
      BY <3>1, <3>2 DEF Counter, RolledOver
  <2>4. UNCHANGED <<asks, task>>
    BY <1>4 DEF RollOver, ForgetSynced, Release, Spend
  <2> QED
    BY <1>0, <1>1, <2>1, <2>2, <2>3, <2>4
<1>5. ASSUME NEW r \in Requests, DecideUnknown(r) PROVE OneSyncPerCounter'
  BY <1>0, <1>5, SyncAsked DEF DecideUnknown
<1>6. ASSUME NEW r \in Requests, Reserve(r) PROVE OneSyncPerCounter'
  <2> DEFINE p == req[r].pod
             s == req[r].subject
             c == [ctr[p][s] EXCEPT !.reserved = @ + req[r].estimate]
  <2>1. c \in Counter
    BY <1>0, CounterOps
  <2>2. c.syncing = ctr[p][s].syncing
    BY <1>0 DEF Counter
  <2>3. Ask(p, s, c) \/ (SetCounter(p, s, c) /\ UNCHANGED asks)
    BY <1>6 DEF Reserve
  <2>4. task' = task
    BY <1>6 DEF Reserve
  <2> HIDE DEF c
  <2> QED
    BY <1>0, <1>1, <2>1, <2>2, <2>3, <2>4, SyncAsked
<1>7. ASSUME NEW p \in Pods, NEW s \in Subjects, Tick(p, s) PROVE OneSyncPerCounter'
  <2>1. ctr[p][s] \in Counter
    BY Parts
  <2> QED
    BY <1>7, <2>1, SyncAsked DEF Tick
<1>8. ASSUME NEW p \in Pods, Recv(p) PROVE OneSyncPerCounter'
  BY <1>8, SyncTaken
<1>9. ASSUME NEW p \in Pods, ConnectFails(p) \/ CallFails(p) \/ Land(p) PROVE OneSyncPerCounter'
  <2> DEFINE s == task[p].subject
             c == ctr[p][s]
  <2>1. task[p].pc # "idle" /\ task' = [task EXCEPT ![p] = IdleTask] /\ asks' = asks
    BY <1>9 DEF ConnectFails, CallFails, Land
  <2>2. s \in Subjects
    BY <2>1 DEF TaskFits
  <2>3. c \in Counter /\ task[p] \in Task /\ task[p].delta \in Nat /\ 0 \in Nat
    BY <2>2, Parts
  <2>4. PICK d \in {SyncFailed(c, 0), SyncFailed(c, task[p].delta), Synced(c, task[p])} : SetCounter(p, s, d)
    BY <1>9 DEF ConnectFails, CallFails, Land
  <2>5. d \in Counter
    BY <2>3, CounterOps
  <2>6. ~d.syncing
    BY <2>3 DEF Counter, SyncFailed, Synced
  <2> QED
    BY <2>1, <2>2, <2>4, <2>5, <2>6, SyncEnds
<1>10. ASSUME NEW p \in Pods, Ship(p) \/ LedgerSync(p) \/ Rebase(p) PROVE OneSyncPerCounter'
  <2> DEFINE s == task[p].subject
             c == ctr[p][s]
  <2>1. task[p].pc # "idle" /\ asks' = asks
    BY <1>10 DEF Ship, LedgerSync, Rebase
  <2>2. s \in Subjects
    BY <2>1 DEF TaskFits
  <2>3. c \in Counter /\ task[p] \in Task /\ 0 \in Nat
    BY <2>2, Parts
  <2>4. ASSUME NEW q \in Pods PROVE Held(q)' = Held(q)
    <3>1. CASE q = p
      <4>1. task'[p].pc # "idle" /\ task'[p].subject = s
        <5>1. CASE Ship(p)
          <6>1. task'[p] = [task[p] EXCEPT !.pc = "called", !.delta = c.unsynced_spent]
            BY <5>1 DEF Ship, TypeOK
          <6> QED
            BY <2>3, <6>1 DEF Task
        <5>2. CASE LedgerSync(p)
          <6> DEFINE n == spend[s][WindowEnd] + task[p].delta
          <6>1. task'[p] = [task[p] EXCEPT !.pc = "replied", !.window_end = WindowEnd, !.total = n]
            BY <5>2 DEF LedgerSync, TypeOK
          <6> HIDE DEF n
          <6> QED
            BY <2>3, <6>1 DEF Task
        <5>3. CASE Rebase(p)
          <6>1. task'[p] = [task[p] EXCEPT !.pc = "landing"]
            BY <5>3 DEF Rebase, TypeOK
          <6> QED
            BY <2>3, <6>1 DEF Task
        <5> QED
          BY <1>10, <5>1, <5>2, <5>3
      <4> QED
        BY <2>1, <3>1, <4>1 DEF Held
    <3>2. CASE q # p
      BY <1>10, <3>2 DEF Held, Ship, LedgerSync, Rebase, TypeOK
    <3> QED
      BY <3>1, <3>2
  <2>5. \A q \in Pods, t \in Subjects : ctr'[q][t].syncing = ctr[q][t].syncing
    <3>1. CASE ctr' = ctr
      BY <3>1
    <3>2. ASSUME NEW d \in Counter, d.syncing = c.syncing, SetCounter(p, s, d)
          PROVE  \A q \in Pods, t \in Subjects : ctr'[q][t].syncing = ctr[q][t].syncing
      BY <2>2, <3>2, CounterSet
    <3>3. /\ [c EXCEPT !.unsynced_spent = 0] \in Counter /\ [c EXCEPT !.unsynced_spent = 0].syncing = c.syncing
          /\ Rebased(c, task[p]) \in Counter /\ Rebased(c, task[p]).syncing = c.syncing
      <4>1. [c EXCEPT !.unsynced_spent = 0] \in Counter /\ Rebased(c, task[p]) \in Counter
        BY <2>3, CounterOps
      <4> QED
        BY <2>3, <4>1 DEF Counter, Rebased
    <3> HIDE DEF c, s
    <3> QED
      BY <1>10, <3>1, <3>2, <3>3 DEF Ship, LedgerSync, Rebase, c, s
  <2> QED
    BY <2>1, <2>4, <2>5, SyncSame
<1>11. CASE NextWindow \/ Prune \/ UNCHANGED vars
  BY <1>11, SyncSame DEF NextWindow, Prune, vars, Held
<1> QED
  BY <1>2, <1>3, <1>4, <1>5, <1>6, <1>7, <1>8, <1>9, <1>10, <1>11 DEF Next, Serve, SyncTask

\* A counter says a sync is under way exactly when one is, and there is only
\* one, for any number of pods, subjects and requests and any channel size
\* (ask, sync_loop, apply_sync, sync_failed).
THEOREM OneSync == Spec => []OneSyncPerCounter
<1>1. Init => OneSyncPerCounter
  BY DEF Init, OneSyncPerCounter, Queued, Held, IdleTask, NewCounter
<1> QED
  BY <1>1, SyncKept, TypeCorrect, PTL DEF Spec

----------------------------------------------------------------------------
(* Reservations *)

\* The estimates, as the sums take them.
Estimated == [r \in Requests |-> req[r].estimate]

\* Requests in flight are finitely many, and their estimates are numbers.
LEMMA InFlightIs ==
  ASSUME TypeOK, NEW p, NEW s
  PROVE  /\ IsFiniteSet(InFlight(p, s)) /\ InFlight(p, s) \subseteq Requests
         /\ \A r \in InFlight(p, s) : Estimated[r] \in Nat /\ Estimated[r] = req[r].estimate
<1>1. InFlight(p, s) \subseteq Requests
  BY DEF InFlight
<1>2. IsFiniteSet(InFlight(p, s))
  BY <1>1, Finite, FS_Subset
<1> QED
  BY <1>1, <1>2, Parts DEF Estimated

\* Neither the requests in flight nor the reservations change.
LEMMA ReservedSame ==
  ASSUME TypeOK, ReservedIsInFlight, Estimated' = Estimated,
         \A p \in Pods, s \in Subjects :
           InFlight(p, s)' = InFlight(p, s) /\ ctr'[p][s].reserved = ctr[p][s].reserved
  PROVE  ReservedIsInFlight'
BY DEF ReservedIsInFlight, Estimated

\* A request that is not in flight moves on and is not in flight.
LEMMA MovesOn ==
  ASSUME TypeOK, NEW r \in Requests, req[r].pc # "inflight", req'[r].pc # "inflight",
         req'[r].estimate = req[r].estimate, \A u \in Requests \ {r} : req'[u] = req[u]
  PROVE  Estimated' = Estimated /\ \A p, s : InFlight(p, s)' = InFlight(p, s)
BY DEF Estimated, InFlight

\* Where a request can be after Goto.
LEMMA GotoMoves ==
  ASSUME TypeOK, NEW r \in Requests, req[r].pc # "inflight",
         NEW pc \in {"check", "roll", "rolled", "decide", "reserve", "settling", "refused", "unknown", "done"},
         Goto(r, pc)
  PROVE  Estimated' = Estimated /\ \A p, s : InFlight(p, s)' = InFlight(p, s)
<1>1. req'[r] = [req[r] EXCEPT !.pc = pc] /\ \A u \in Requests \ {r} : req'[u] = req[u]
  BY GotoIs, ZenonT(60)
<1>2. req[r] \in Request
  BY Parts
<1>3. req'[r].pc = pc /\ req'[r].estimate = req[r].estimate
  BY <1>1, <1>2 DEF Request
<1> QED
  BY <1>1, <1>3, MovesOn

\* Every step keeps the reservations equal to the requests in flight.
LEMMA ReservedKept ==
  ASSUME TypeOK, TaskFits, ReservedIsInFlight, [Next]_vars
  PROVE  ReservedIsInFlight'
<1>0. ASSUME NEW r \in Requests
      PROVE  /\ req[r].pod \in Pods /\ req[r].subject \in Subjects /\ req[r] \in Request
             /\ ctr[req[r].pod][req[r].subject] \in Counter /\ req[r].estimate \in Nat /\ req[r].actual \in Nat
  <2>1. /\ req[r].pod \in Pods /\ req[r].subject \in Subjects /\ req[r].estimate \in Nat
        /\ req[r].actual \in Nat /\ req[r] \in Request
    BY Parts
  <2> QED
    BY <2>1, Parts
<1>1. ASSUME NEW p \in Pods, NEW s \in Subjects, NEW c \in Counter, SetCounter(p, s, c) \/ Ask(p, s, c),
             c.reserved = ctr[p][s].reserved
      PROVE  \A q \in Pods, t \in Subjects : ctr'[q][t].reserved = ctr[q][t].reserved
  BY <1>1, CounterSet, AskIs DEF SameBut
<1>2. ASSUME req' = req PROVE Estimated' = Estimated /\ \A p, s : InFlight(p, s)' = InFlight(p, s)
  BY <1>2 DEF Estimated, InFlight
<1>3. ASSUME NEW r \in Requests, Arrive(r) PROVE ReservedIsInFlight'
  <2>1. \A q \in Pods, t \in Subjects : ctr'[q][t].reserved = ctr[q][t].reserved
    BY <1>0, <1>1, <1>3 DEF Arrive
  <2>2. Estimated' = Estimated /\ \A p, s : InFlight(p, s)' = InFlight(p, s)
    BY <1>3, GotoMoves DEF Arrive
  <2> QED
    BY <2>1, <2>2, ReservedSame
<1>4. ASSUME NEW r \in Requests, LoadWindow(r) \/ DecideAllow(r) PROVE ReservedIsInFlight'
  <2>1. Estimated' = Estimated /\ \A p, s : InFlight(p, s)' = InFlight(p, s)
    BY <1>4, GotoMoves DEF LoadWindow, DecideAllow
  <2> QED
    BY <1>4, <2>1, ReservedSame DEF LoadWindow, DecideAllow
<1>5. ASSUME NEW r \in Requests, RollOver(r) \/ ForgetSynced(r) \/ Spend(r) PROVE ReservedIsInFlight'
  <2> DEFINE p == req[r].pod
             s == req[r].subject
             c == ctr[p][s]
             b == c.unsynced_spent + req[r].actual
  <2>1. PICK d \in {RolledOver(c), [c EXCEPT !.synced = FALSE], [c EXCEPT !.unsynced_spent = b]} :
          SetCounter(p, s, d)
    BY <1>5 DEF RollOver, ForgetSynced, Spend
  <2>2. d \in Counter /\ d.reserved = c.reserved
    <3>1. c \in Counter /\ c.unsynced_spent \in Nat /\ req[r].actual \in Nat
      BY <1>0 DEF Counter
    <3>2. b \in Nat
      BY <3>1
    <3>3. d = RolledOver(c) \/ d = [c EXCEPT !.synced = FALSE] \/ d = [c EXCEPT !.unsynced_spent = b]
      BY <2>1
    <3> HIDE DEF b, c
    <3>4. CASE d = RolledOver(c)
      BY <3>1, <3>4 DEF Counter, RolledOver
    <3>5. CASE d = [c EXCEPT !.synced = FALSE]
      BY <3>1, <3>5 DEF Counter
    <3>6. CASE d = [c EXCEPT !.unsynced_spent = b]
      BY <3>1, <3>2, <3>6 DEF Counter
    <3> QED
      BY <3>3, <3>4, <3>5, <3>6
  <2>3. \A q \in Pods, t \in Subjects : ctr'[q][t].reserved = ctr[q][t].reserved
    BY <1>0, <1>1, <2>1, <2>2
  <2>4. Estimated' = Estimated /\ \A q, t : InFlight(q, t)' = InFlight(q, t)
    BY <1>5, GotoMoves DEF RollOver, ForgetSynced, Spend
  <2> QED
    BY <2>3, <2>4, ReservedSame
<1>6. ASSUME NEW r \in Requests, DecideUnknown(r) \/ DecideExhausted(r) PROVE ReservedIsInFlight'
  <2>1. \A q \in Pods, t \in Subjects : ctr'[q][t].reserved = ctr[q][t].reserved
    BY <1>0, <1>1, <1>6 DEF DecideUnknown, DecideExhausted
  <2>2. /\ req[r].pc # "inflight" /\ req'[r].pc # "inflight" /\ req'[r].estimate = req[r].estimate
        /\ \A u \in Requests \ {r} : req'[u] = req[u]
    <3>1. CASE DecideUnknown(r)
      BY <1>0, <3>1 DEF DecideUnknown, TypeOK, Request
    <3>2. CASE DecideExhausted(r)
      <4>1. CASE Goto(r, "refused")
        BY <1>0, <3>2, <4>1 DEF DecideExhausted, Goto, TypeOK, Request
      <4>2. CASE req' = [req EXCEPT ![r] = [@ EXCEPT !.pc = "check", !.subject = Overflow[req[r].subject], !.tries = 1]]
        <5> DEFINE o == Overflow[req[r].subject]
        <5>1. req' = [req EXCEPT ![r] = [req[r] EXCEPT !.pc = "check", !.subject = o, !.tries = 1]]
          BY <4>2
        <5> HIDE DEF o
        <5>2. /\ req'[r] = [req[r] EXCEPT !.pc = "check", !.subject = o, !.tries = 1]
              /\ \A u \in Requests \ {r} : req'[u] = req[u]
          BY <5>1 DEF TypeOK
        <5>3. req'[r].pc = "check" /\ req'[r].estimate = req[r].estimate
          BY <1>0, <5>2 DEF Request
        <5> QED
          BY <3>2, <5>2, <5>3 DEF DecideExhausted
      <4> QED
        BY <3>2, <4>1, <4>2 DEF DecideExhausted
    <3> QED
      BY <1>6, <3>1, <3>2
  <2>3. Estimated' = Estimated /\ \A q, t : InFlight(q, t)' = InFlight(q, t)
    BY <2>2, MovesOn
  <2> QED
    BY <2>1, <2>3, ReservedSame
<1>7. ASSUME NEW r \in Requests, Reserve(r) PROVE ReservedIsInFlight'
  <2>a. PICK p \in Pods, s \in Subjects : p = req[r].pod /\ s = req[r].subject
    BY <1>0
  <2> DEFINE n == ctr[p][s].reserved + req[r].estimate
             c == [ctr[p][s] EXCEPT !.reserved = n]
  <2>0. ctr[p][s] \in Counter /\ ctr[p][s].reserved \in Nat
    BY Parts
  <2>1. n \in Nat
    BY <1>0, <2>0
  <2>2. SetCounter(p, s, c) \/ Ask(p, s, c)
    BY <1>7, <2>a DEF Reserve
  <2>3. c \in Counter /\ c.reserved = n
    <3> HIDE DEF n
    <3> QED
      BY <2>0, <2>1 DEF Counter
  <2>4. /\ ctr'[p][s].reserved = n
        /\ \A q \in Pods, t \in Subjects : q # p \/ t # s => ctr'[q][t].reserved = ctr[q][t].reserved
    <3> HIDE DEF c, n
    <3> QED
      BY <2>0, <2>2, <2>3, CounterSet, AskIs DEF SameBut
  <2>5. req'[r] = [req[r] EXCEPT !.pc = "inflight"] /\ \A u \in Requests \ {r} : req'[u] = req[u]
    BY <1>7, GotoIs DEF Reserve
  <2>6. /\ req'[r].pc = "inflight" /\ req'[r].pod = p /\ req'[r].subject = s
        /\ req'[r].estimate = req[r].estimate /\ req[r].pc = "reserve"
    BY <1>0, <1>7, <2>a, <2>5 DEF Request, Reserve
  <2>7. Estimated' = Estimated
    BY <2>5, <2>6 DEF Estimated
  <2>8. /\ InFlight(p, s)' = InFlight(p, s) \cup {r} /\ r \notin InFlight(p, s)
        /\ \A q, t : q # p \/ t # s => InFlight(q, t)' = InFlight(q, t)
    <3>1. ASSUME NEW q, NEW t, NEW u \in Requests \ {r}
          PROVE  u \in InFlight(q, t)' <=> u \in InFlight(q, t)
      BY <2>5 DEF InFlight
    <3>2. \A q, t : r \in InFlight(q, t)' <=> req'[r].pc = "inflight" /\ q = p /\ t = s
      BY <2>6 DEF InFlight
    <3>3. \A q, t : r \in InFlight(q, t) <=> req[r].pc = "inflight" /\ q = p /\ t = s
      BY <2>a DEF InFlight
    <3>4. \A q, t : InFlight(q, t) \subseteq Requests /\ InFlight(q, t)' \subseteq Requests
      BY DEF InFlight
    <3> QED
      BY <2>6, <3>1, <3>2, <3>3, <3>4
  <2> DEFINE S == InFlight(p, s) \cup {r}
  <2>9. SumFunctionOnSet(Estimated, S) = req[r].estimate + SumFunctionOnSet(Estimated, InFlight(p, s))
    <3>1. IsFiniteSet(S) /\ \A u \in S : Estimated[u] \in Nat
      BY <1>0, InFlightIs, FS_AddElement DEF Estimated
    <3>2. S \ {r} = InFlight(p, s) /\ Estimated[r] = req[r].estimate /\ r \in S
      BY <2>8 DEF Estimated
    <3> HIDE DEF S
    <3>3. SumFunctionOnSet(Estimated, S) = Estimated[r] + SumFunctionOnSet(Estimated, S \ {r})
      BY <3>1, <3>2, SumRemove
    <3> QED
      BY <3>2, <3>3
  <2>10. ctr[p][s].reserved = SumFunctionOnSet(Estimated, InFlight(p, s))
    BY <2>0 DEF ReservedIsInFlight, Estimated
  <2>11. ctr'[p][s].reserved = SumFunctionOnSet(Estimated', InFlight(p, s)')
    BY <1>0, <2>0, <2>4, <2>7, <2>8, <2>9, <2>10
  <2> HIDE DEF n, c, S
  <2>12. ASSUME NEW q \in Pods, NEW t \in Subjects
         PROVE  ctr'[q][t].reserved = SumFunctionOnSet(Estimated', InFlight(q, t)')
    <3>1. ctr[q][t].reserved = SumFunctionOnSet(Estimated, InFlight(q, t))
      BY DEF ReservedIsInFlight, Estimated
    <3> QED
      BY <2>4, <2>7, <2>8, <2>11, <3>1
  <2> QED
    BY <2>12 DEF ReservedIsInFlight, Estimated
<1>8. ASSUME NEW r \in Requests, Release(r) PROVE ReservedIsInFlight'
  <2>a. PICK p \in Pods, s \in Subjects : p = req[r].pod /\ s = req[r].subject
    BY <1>0
  <2> DEFINE n == SaturatingSub(ctr[p][s].reserved, req[r].estimate)
             c == [ctr[p][s] EXCEPT !.reserved = n]
             S == InFlight(p, s)
  <2>0. ctr[p][s] \in Counter /\ ctr[p][s].reserved \in Nat
    BY Parts
  <2>1. n \in Nat
    BY <1>0, <2>0 DEF SaturatingSub
  <2>2. SetCounter(p, s, c)
    BY <1>8, <2>a DEF Release
  <2>3. c \in Counter /\ c.reserved = n
    <3> HIDE DEF n
    <3> QED
      BY <2>0, <2>1 DEF Counter
  <2>4. /\ ctr'[p][s].reserved = n
        /\ \A q \in Pods, t \in Subjects : q # p \/ t # s => ctr'[q][t].reserved = ctr[q][t].reserved
    <3> HIDE DEF c, n
    <3> QED
      BY <2>0, <2>2, <2>3, CounterSet
  <2>5. req'[r] = [req[r] EXCEPT !.pc = "settling"] /\ \A u \in Requests \ {r} : req'[u] = req[u]
    BY <1>8, GotoIs DEF Release
  <2>6. /\ req'[r].pc = "settling" /\ req'[r].pod = p /\ req'[r].subject = s
        /\ req'[r].estimate = req[r].estimate /\ req[r].pc = "inflight"
    BY <1>0, <1>8, <2>a, <2>5 DEF Request, Release
  <2>7. Estimated' = Estimated
    BY <2>5, <2>6 DEF Estimated
  <2>8. /\ InFlight(p, s)' = S \ {r} /\ r \in S
        /\ \A q, t : q # p \/ t # s => InFlight(q, t)' = InFlight(q, t)
    <3>1. ASSUME NEW q, NEW t, NEW u \in Requests \ {r}
          PROVE  u \in InFlight(q, t)' <=> u \in InFlight(q, t)
      BY <2>5 DEF InFlight
    <3>2. \A q, t : r \in InFlight(q, t)' <=> req'[r].pc = "inflight" /\ q = p /\ t = s
      BY <2>6 DEF InFlight
    <3>3. \A q, t : r \in InFlight(q, t) <=> req[r].pc = "inflight" /\ q = p /\ t = s
      BY <2>a DEF InFlight
    <3>4. \A q, t : InFlight(q, t) \subseteq Requests /\ InFlight(q, t)' \subseteq Requests
      BY DEF InFlight
    <3>5. InFlight(p, s)' = InFlight(p, s) \ {r} /\ r \in InFlight(p, s)
      BY <2>6, <3>1, <3>2, <3>3, <3>4
    <3>6. ASSUME NEW q, NEW t, q # p \/ t # s PROVE InFlight(q, t)' = InFlight(q, t)
      BY <3>1, <3>2, <3>3, <3>4, <3>6
    <3> QED
      BY <3>5, <3>6
  <2>9. /\ SumFunctionOnSet(Estimated, S) = req[r].estimate + SumFunctionOnSet(Estimated, S \ {r})
        /\ SumFunctionOnSet(Estimated, S \ {r}) \in Nat
    <3>1. IsFiniteSet(S) /\ \A u \in S : Estimated[u] \in Nat
      BY InFlightIs
    <3>2. Estimated[r] = req[r].estimate
      BY DEF Estimated
    <3> HIDE DEF S
    <3>3. SumFunctionOnSet(Estimated, S) = Estimated[r] + SumFunctionOnSet(Estimated, S \ {r})
      BY <2>8, <3>1, SumRemove
    <3>4. SumFunctionOnSet(Estimated, S \ {r}) \in Nat
      BY <3>1, FS_Subset, SumNat
    <3> QED
      BY <3>2, <3>3, <3>4
  <2>10. ctr[p][s].reserved = SumFunctionOnSet(Estimated, S)
    BY <2>0 DEF ReservedIsInFlight, Estimated
  <2>11. n = SumFunctionOnSet(Estimated, S \ {r})
    BY <1>0, <2>9, <2>10 DEF SaturatingSub
  <2>12. ctr'[p][s].reserved = SumFunctionOnSet(Estimated', InFlight(p, s)')
    BY <2>4, <2>7, <2>8, <2>11
  <2> HIDE DEF n, c, S
  <2>13. ASSUME NEW q \in Pods, NEW t \in Subjects
         PROVE  ctr'[q][t].reserved = SumFunctionOnSet(Estimated', InFlight(q, t)')
    <3>1. ctr[q][t].reserved = SumFunctionOnSet(Estimated, InFlight(q, t))
      BY DEF ReservedIsInFlight, Estimated
    <3> QED
      BY <2>4, <2>7, <2>8, <2>12, <3>1
  <2> QED
    BY <2>13 DEF ReservedIsInFlight, Estimated
<1>9. ASSUME NEW p \in Pods, NEW s \in Subjects, Tick(p, s) PROVE ReservedIsInFlight'
  <2>1. \A q \in Pods, t \in Subjects : ctr'[q][t].reserved = ctr[q][t].reserved
    BY <1>1, <1>9, Parts DEF Tick
  <2> QED
    BY <1>2, <1>9, <2>1, ReservedSame DEF Tick
<1>10. ASSUME NEW p \in Pods, SyncTask(p) PROVE ReservedIsInFlight'
  <2> DEFINE s == task[p].subject
             c == ctr[p][s]
  <2>1. req' = req
    BY <1>10 DEF SyncTask, Recv, ConnectFails, Ship, LedgerSync, CallFails, Rebase, Land
  <2>2. CASE ctr' = ctr
    BY <1>2, <2>1, <2>2, ReservedSame
  <2>3. CASE ConnectFails(p) \/ Ship(p) \/ CallFails(p) \/ Rebase(p) \/ Land(p)
    <3>1. s \in Subjects
      BY <2>3 DEF TaskFits, ConnectFails, Ship, CallFails, Rebase, Land
    <3>2. c \in Counter /\ task[p] \in Task /\ task[p].delta \in Nat /\ 0 \in Nat
      BY <3>1, Parts
    <3>3. PICK d \in {SyncFailed(c, 0), SyncFailed(c, task[p].delta), [c EXCEPT !.unsynced_spent = 0],
                      Rebased(c, task[p]), Synced(c, task[p])} : SetCounter(p, s, d)
      BY <2>3 DEF ConnectFails, Ship, CallFails, Rebase, Land
    <3>4. d \in Counter
      BY <3>2, <3>3, CounterOps
    <3>5. d.reserved = c.reserved
      BY <3>2, <3>3 DEF Counter, SyncFailed, Rebased, Synced
    <3>6. \A q \in Pods, t \in Subjects : ctr'[q][t].reserved = ctr[q][t].reserved
      BY <1>1, <3>1, <3>3, <3>4, <3>5
    <3> QED
      BY <1>2, <2>1, <3>6, ReservedSame
  <2> QED
    BY <1>10, <2>2, <2>3 DEF SyncTask, Recv, LedgerSync
<1>11. CASE NextWindow \/ Prune \/ UNCHANGED vars
  BY <1>2, <1>11, ReservedSame DEF NextWindow, Prune, vars
<1> QED
  BY <1>3, <1>4, <1>5, <1>6, <1>7, <1>8, <1>9, <1>10, <1>11 DEF Next, Serve

----------------------------------------------------------------------------
(* Spend *)

\* The ledger has answered the call the task is about to land.
Answered(p) == task[p].pc \in {"replied", "landing"}

\* What was spent, or put back after the ledger had it.
Caused(s) == spent[s] + repeated[s]

\* Whatever the ledger holds, a pod believes or an answer says, together with
\* what the pods have not shipped, was caused by requests.
Backed == \A s \in Subjects :
  /\ LedgerTotal(s) + LocalTotal(s) <= Caused(s)
  /\ \A p \in Pods :
       /\ ctr[p][s].global_spent + LocalTotal(s) <= Caused(s)
       /\ Answered(p) /\ task[p].subject = s => task[p].total + LocalTotal(s) <= Caused(s)

\* The totals are numbers, and no pod holds more than all of them.
LEMMA TotalsAre ==
  ASSUME TypeOK, NEW s \in Subjects
  PROVE  /\ LedgerTotal(s) \in Nat /\ LocalTotal(s) \in Nat /\ Caused(s) \in Nat
         /\ \A p \in Pods : OnPod(p, s) \in Nat /\ OnPod(p, s) <= LocalTotal(s)
         /\ \A p \in Pods : ctr[p][s].unsynced_spent <= OnPod(p, s)
<1>1. ASSUME NEW p \in Pods
      PROVE  OnPod(p, s) \in Nat /\ ctr[p][s].unsynced_spent \in Nat /\ ctr[p][s].unsynced_spent <= OnPod(p, s)
  BY Parts DEF OnPod
<1>2. Caused(s) \in Nat
  BY DEF TypeOK, Caused
<1>3. LedgerTotal(s) \in Nat
  BY Finite, SumNat DEF TypeOK, LedgerTotal
<1> DEFINE f == [p \in Pods |-> OnPod(p, s)]
<1>4. \A p \in Pods : f[p] \in Nat /\ f[p] = OnPod(p, s)
  BY <1>1
<1>5. LocalTotal(s) = SumFunctionOnSet(f, Pods)
  BY DEF LocalTotal
<1> HIDE DEF f
<1>6. SumFunctionOnSet(f, Pods) \in Nat /\ \A p \in Pods : f[p] <= SumFunctionOnSet(f, Pods)
  BY <1>4, Finite, SumNat, SumChanges
<1> QED
  BY <1>1, <1>2, <1>3, <1>4, <1>5, <1>6

\* They are numbers after a step too.
LEMMA TotalsNext ==
  ASSUME TypeOK', NEW s \in Subjects
  PROVE  LedgerTotal(s)' \in Nat /\ LocalTotal(s)' \in Nat /\ Caused(s)' \in Nat
<1>1. \A p \in Pods : OnPod(p, s)' \in Nat
  <2>1. \A p \in Pods : ctr'[p][s] \in Counter /\ task'[p] \in Task
    BY DEF TypeOK
  <2> QED
    BY <2>1 DEF OnPod, Counter, Task
<1>2. spent'[s] \in Nat /\ repeated'[s] \in Nat /\ \A w \in WindowEnds : spend'[s][w] \in Nat
  BY DEF TypeOK
<1>3. SumFunctionOnSet(spend'[s], WindowEnds) \in Nat
  BY <1>2, Finite, SumNat
<1> DEFINE g == [p \in Pods |-> OnPod(p, s)']
<1>4. \A p \in Pods : g[p] \in Nat
  BY <1>1
<1>5. LocalTotal(s)' = SumFunctionOnSet(g, Pods) /\ LedgerTotal(s)' = SumFunctionOnSet(spend'[s], WindowEnds)
  BY DEF LocalTotal, LedgerTotal, WindowEnds
<1> HIDE DEF g
<1>6. SumFunctionOnSet(g, Pods) \in Nat
  BY <1>4, Finite, SumNat
<1> QED
  BY <1>2, <1>3, <1>5, <1>6 DEF Caused

\* The total of a subject none of whose pods changes.
LEMMA LocalSame ==
  ASSUME NEW s, \A p \in Pods : OnPod(p, s)' = OnPod(p, s)
  PROVE  LocalTotal(s)' = LocalTotal(s)
BY DEF LocalTotal

\* The total of a subject one of whose pods changes.
LEMMA LocalMoves ==
  ASSUME TypeOK, TypeOK', NEW p \in Pods, NEW s \in Subjects,
         \A q \in Pods \ {p} : OnPod(q, s)' = OnPod(q, s)
  PROVE  LocalTotal(s)' = (LocalTotal(s) - OnPod(p, s)) + OnPod(p, s)'
<1> DEFINE f == [q \in Pods |-> OnPod(q, s)]
           g == [q \in Pods |-> OnPod(q, s)']
<1>1. \A q \in Pods : OnPod(q, s) \in Nat /\ OnPod(q, s)' \in Nat
  <2>1. \A q \in Pods : ctr[q][s].unsynced_spent \in Nat /\ task[q].delta \in Nat
    BY Parts
  <2>2. \A q \in Pods : ctr'[q][s].unsynced_spent \in Nat /\ task'[q].delta \in Nat
    <3>1. \A q \in Pods : ctr'[q][s] \in Counter /\ task'[q] \in Task
      BY DEF TypeOK
    <3> QED
      BY <3>1 DEF Counter, Task
  <2> QED
    BY <2>1, <2>2 DEF OnPod
<1>2. /\ \A q \in Pods : f[q] \in Nat /\ g[q] \in Nat
      /\ \A q \in Pods \ {p} : f[q] = g[q]
      /\ f[p] = OnPod(p, s) /\ g[p] = OnPod(p, s)'
  BY <1>1
<1>3. LocalTotal(s) = SumFunctionOnSet(f, Pods) /\ LocalTotal(s)' = SumFunctionOnSet(g, Pods)
  BY DEF LocalTotal
<1> HIDE DEF f, g
<1>4. SumFunctionOnSet(g, Pods) = (SumFunctionOnSet(f, Pods) - f[p]) + g[p]
  BY <1>2, Finite, SumChanges
<1> QED
  BY <1>2, <1>3, <1>4

\* What a step must not do, for everything to stay backed: the pods gain no
\* more than is caused, the ledger gains no more than is caused or leaves the
\* pods, a pod believes no more than it did or was answered, and an answer is
\* no more than the ledger holds.
LEMMA Carried ==
  ASSUME TypeOK, TypeOK', Backed,
         \A s \in Subjects :
           /\ LocalTotal(s)' + Caused(s) <= LocalTotal(s) + Caused(s)'
           /\ (LedgerTotal(s)' + LocalTotal(s)') + Caused(s) <= (LedgerTotal(s) + LocalTotal(s)) + Caused(s)',
         \A p \in Pods, s \in Subjects :
           \/ ctr'[p][s].global_spent <= ctr[p][s].global_spent
           \/ Answered(p) /\ task[p].subject = s /\ ctr'[p][s].global_spent = task[p].total,
         \A p \in Pods : Answered(p)' =>
           \/ Answered(p) /\ task'[p].subject = task[p].subject /\ task'[p].total = task[p].total
           \/ \A s \in Subjects : task'[p].subject = s => task'[p].total <= LedgerTotal(s)'
  PROVE  Backed'
<1> SUFFICES ASSUME NEW s \in Subjects
             PROVE  /\ LedgerTotal(s)' + LocalTotal(s)' <= Caused(s)'
                    /\ \A p \in Pods :
                         /\ ctr'[p][s].global_spent + LocalTotal(s)' <= Caused(s)'
                         /\ Answered(p)' /\ task'[p].subject = s => task'[p].total + LocalTotal(s)' <= Caused(s)'
  BY DEF Backed
<1>1. LedgerTotal(s) \in Nat /\ LocalTotal(s) \in Nat /\ Caused(s) \in Nat
  BY TotalsAre
<1>2. LedgerTotal(s)' \in Nat /\ LocalTotal(s)' \in Nat /\ Caused(s)' \in Nat
  BY TotalsNext
<1>3. LedgerTotal(s)' + LocalTotal(s)' <= Caused(s)'
  BY <1>1, <1>2 DEF Backed
<1>4. ASSUME NEW n \in Nat, n + LocalTotal(s) <= Caused(s) PROVE n + LocalTotal(s)' <= Caused(s)'
  BY <1>1, <1>2, <1>4
<1>5. ASSUME NEW p \in Pods
      PROVE  /\ ctr[p][s].global_spent \in Nat /\ ctr'[p][s].global_spent \in Nat
             /\ task[p].total \in Nat /\ task'[p].total \in Nat
  <2>1. ctr[p][s] \in Counter /\ ctr'[p][s] \in Counter /\ task[p] \in Task /\ task'[p] \in Task
    BY DEF TypeOK
  <2> QED
    BY <2>1 DEF Counter, Task
<1>6. ASSUME NEW p \in Pods PROVE ctr'[p][s].global_spent + LocalTotal(s)' <= Caused(s)'
  <2>1. CASE ctr'[p][s].global_spent <= ctr[p][s].global_spent
    <3>1. ctr[p][s].global_spent + LocalTotal(s)' <= Caused(s)'
      BY <1>4, <1>5 DEF Backed
    <3> QED
      BY <1>2, <1>5, <2>1, <3>1
  <2>2. CASE Answered(p) /\ task[p].subject = s /\ ctr'[p][s].global_spent = task[p].total
    BY <1>4, <1>5, <2>2 DEF Backed
  <2> QED
    BY <2>1, <2>2
<1>7. ASSUME NEW p \in Pods, Answered(p)', task'[p].subject = s
      PROVE  task'[p].total + LocalTotal(s)' <= Caused(s)'
  <2>1. CASE Answered(p) /\ task'[p].subject = task[p].subject /\ task'[p].total = task[p].total
    BY <1>4, <1>5, <1>7, <2>1 DEF Backed
  <2>2. CASE task'[p].total <= LedgerTotal(s)'
    BY <1>2, <1>3, <1>5, <2>2
  <2> QED
    BY <1>7, <2>1, <2>2
<1> QED
  BY <1>3, <1>6, <1>7

\* A step that touches one counter, the task of its pod and the ledger's rows of
\* its subject, and carries spend from one to another.
LEMMA OneMoves ==
  ASSUME TypeOK, TypeOK', Backed, NEW p \in Pods, NEW s \in Subjects,
         \A q \in Pods, t \in Subjects : q # p \/ t # s =>
           OnPod(q, t)' = OnPod(q, t) /\ ctr'[q][t].global_spent = ctr[q][t].global_spent,
         \A t \in Subjects \ {s} : LedgerTotal(t)' = LedgerTotal(t) /\ Caused(t)' = Caused(t),
         OnPod(p, s)' + Caused(s) <= OnPod(p, s) + Caused(s)',
         (LedgerTotal(s)' + OnPod(p, s)') + Caused(s) <= (LedgerTotal(s) + OnPod(p, s)) + Caused(s)',
         \/ ctr'[p][s].global_spent <= ctr[p][s].global_spent
         \/ Answered(p) /\ task[p].subject = s /\ ctr'[p][s].global_spent = task[p].total,
         \A q \in Pods : Answered(q)' =>
           \/ Answered(q) /\ task'[q].subject = task[q].subject /\ task'[q].total = task[q].total
           \/ \A t \in Subjects : task'[q].subject = t => task'[q].total <= LedgerTotal(t)'
  PROVE  Backed'
<1>1. ASSUME NEW t \in Subjects
      PROVE  /\ LedgerTotal(t) \in Nat /\ LocalTotal(t) \in Nat /\ Caused(t) \in Nat
             /\ LedgerTotal(t)' \in Nat /\ LocalTotal(t)' \in Nat /\ Caused(t)' \in Nat
  BY TotalsAre, TotalsNext
<1>2. LocalTotal(s)' = (LocalTotal(s) - OnPod(p, s)) + OnPod(p, s)'
  BY LocalMoves
<1>3. OnPod(p, s) \in Nat /\ OnPod(p, s)' \in Nat
  <2>1. OnPod(p, s) \in Nat
    BY TotalsAre
  <2>2. ctr'[p][s] \in Counter /\ task'[p] \in Task
    BY DEF TypeOK
  <2> QED
    BY <2>1, <2>2 DEF OnPod, Counter, Task
<1>4. \A t \in Subjects \ {s} : LocalTotal(t)' = LocalTotal(t)
  BY LocalSame
<1>5. ASSUME NEW t \in Subjects
      PROVE  /\ LocalTotal(t)' + Caused(t) <= LocalTotal(t) + Caused(t)'
             /\ (LedgerTotal(t)' + LocalTotal(t)') + Caused(t) <= (LedgerTotal(t) + LocalTotal(t)) + Caused(t)'
  <2>1. CASE t = s
    BY <1>1, <1>2, <1>3, <2>1
  <2>2. CASE t # s
    BY <1>1, <1>4, <2>2
  <2> QED
    BY <2>1, <2>2
<1>6. ASSUME NEW q \in Pods, NEW t \in Subjects
      PROVE  \/ ctr'[q][t].global_spent <= ctr[q][t].global_spent
             \/ Answered(q) /\ task[q].subject = t /\ ctr'[q][t].global_spent = task[q].total
  <2>1. CASE q = p /\ t = s
    BY <2>1
  <2>2. CASE q # p \/ t # s
    BY <2>2, Parts
  <2> QED
    BY <2>1, <2>2
<1> QED
  BY <1>5, <1>6, Carried

\* A step of a request or of the tick: one counter, to which spend is added only
\* as it is caused.
LEMMA CounterMoves ==
  ASSUME TypeOK, TypeOK', Backed, NEW p \in Pods, NEW s \in Subjects,
         \A q \in Pods, t \in Subjects : q # p \/ t # s => ctr'[q][t] = ctr[q][t],
         UNCHANGED <<task, spend, repeated>>,
         \A t \in Subjects \ {s} : spent'[t] = spent[t],
         ctr'[p][s].unsynced_spent + spent[s] <= ctr[p][s].unsynced_spent + spent'[s],
         ctr'[p][s].global_spent <= ctr[p][s].global_spent
  PROVE  Backed'
<1>1. \A q \in Pods, t \in Subjects : q # p \/ t # s =>
        OnPod(q, t)' = OnPod(q, t) /\ ctr'[q][t].global_spent = ctr[q][t].global_spent
  BY DEF OnPod
<1>2. /\ \A t \in Subjects : LedgerTotal(t)' = LedgerTotal(t)
      /\ \A t \in Subjects \ {s} : Caused(t)' = Caused(t)
  BY DEF LedgerTotal, Caused, WindowEnds
<1>3. /\ spent[s] \in Nat /\ spent'[s] \in Nat /\ repeated[s] \in Nat /\ task[p].delta \in Nat
      /\ ctr[p][s].unsynced_spent \in Nat /\ ctr'[p][s].unsynced_spent \in Nat
  <2>1. ctr[p][s] \in Counter /\ ctr'[p][s] \in Counter /\ task[p] \in Task
    BY DEF TypeOK
  <2>2. spent[s] \in Nat /\ spent'[s] \in Nat /\ repeated[s] \in Nat
    BY DEF TypeOK
  <2> QED
    BY <2>1, <2>2 DEF Counter, Task
<1>4. OnPod(p, s)' + Caused(s) <= OnPod(p, s) + Caused(s)'
  BY <1>3 DEF OnPod, Caused
<1>5. OnPod(p, s) \in Nat /\ OnPod(p, s)' \in Nat /\ LedgerTotal(s) \in Nat /\ Caused(s) \in Nat /\ Caused(s)' \in Nat
  BY <1>3, TotalsAre, TotalsNext DEF OnPod
<1>6. (LedgerTotal(s)' + OnPod(p, s)') + Caused(s) <= (LedgerTotal(s) + OnPod(p, s)) + Caused(s)'
  BY <1>2, <1>4, <1>5
<1>7. \A q \in Pods : Answered(q)' =>
           Answered(q) /\ task'[q].subject = task[q].subject /\ task'[q].total = task[q].total
  BY DEF Answered
<1> QED
  BY <1>1, <1>2, <1>4, <1>6, <1>7, OneMoves

\* A step that touches neither counters nor tasks nor the ledger.
LEMMA StillBacked ==
  ASSUME Backed, UNCHANGED <<ctr, task, spend, spent, repeated>>
  PROVE  Backed'
<1>1. \A s \in Subjects : LedgerTotal(s)' = LedgerTotal(s) /\ LocalTotal(s)' = LocalTotal(s) /\ Caused(s)' = Caused(s)
  BY DEF LedgerTotal, LocalTotal, OnPod, Caused, WindowEnds
<1>2. \A p \in Pods : Answered(p)' = Answered(p)
  BY DEF Answered
<1> QED
  BY <1>1, <1>2 DEF Backed

\* The steps of the requests and of the tick keep everything backed.
LEMMA RequestsBacked ==
  ASSUME TypeOK, TypeOK', Backed,
         \/ \E r \in Requests : Arrive(r) \/ Serve(r)
         \/ \E p \in Pods, s \in Subjects : Tick(p, s)
  PROVE  Backed'
<1>0. \A p \in Pods, s \in Subjects :
        /\ ctr[p][s] \in Counter /\ ctr[p][s].unsynced_spent \in Nat /\ ctr[p][s].global_spent \in Nat
        /\ spent[s] \in Nat
  BY Parts DEF TypeOK
<1>1. ASSUME NEW p \in Pods, NEW s \in Subjects, NEW c \in Counter, Ask(p, s, c) \/ SetCounter(p, s, c),
             c.unsynced_spent = ctr[p][s].unsynced_spent, c.global_spent = ctr[p][s].global_spent,
             UNCHANGED <<task, spend, spent, repeated>>
      PROVE  Backed'
  <2>1. /\ \A q \in Pods, t \in Subjects : q # p \/ t # s => ctr'[q][t] = ctr[q][t]
        /\ ctr'[p][s].unsynced_spent = ctr[p][s].unsynced_spent
        /\ ctr'[p][s].global_spent = ctr[p][s].global_spent
    BY <1>1, AskIs, CounterSet DEF SameBut
  <2>2. /\ ctr'[p][s].unsynced_spent + spent[s] <= ctr[p][s].unsynced_spent + spent'[s]
        /\ ctr'[p][s].global_spent <= ctr[p][s].global_spent
    BY <1>0, <1>1, <2>1
  <2> QED
    BY <1>1, <2>1, <2>2, CounterMoves
<1>2. ASSUME NEW p \in Pods, NEW s \in Subjects, Tick(p, s) PROVE Backed'
  BY <1>0, <1>1, <1>2 DEF Tick
<1>3. ASSUME NEW r \in Requests, Arrive(r) \/ Serve(r) PROVE Backed'
  <2>0. PICK p \in Pods, s \in Subjects : p = req[r].pod /\ s = req[r].subject
    BY Parts
  <2>1. CASE Arrive(r)
    <3>1. CASE UNCHANGED <<ctr, asks>>
      BY <2>1, <3>1, StillBacked DEF Arrive
    <3>2. CASE Ask(p, s, ctr[p][s])
      BY <1>0, <1>1, <2>1, <3>2 DEF Arrive
    <3> QED
      BY <2>0, <2>1, <3>1, <3>2 DEF Arrive
  <2>2. CASE LoadWindow(r) \/ DecideExhausted(r) \/ DecideAllow(r)
    BY <2>2, StillBacked DEF LoadWindow, DecideExhausted, DecideAllow
  <2>3. CASE RollOver(r)
    <3> DEFINE d == RolledOver(ctr[p][s])
    <3>1. d \in Counter /\ d.unsynced_spent = 0 /\ d.global_spent = 0
      BY <1>0 DEF RolledOver, Counter
    <3>2. SetCounter(p, s, d) /\ UNCHANGED <<task, spend, spent, repeated>>
      BY <2>0, <2>3 DEF RollOver
    <3> HIDE DEF d
    <3>3. /\ \A q \in Pods, t \in Subjects : q # p \/ t # s => ctr'[q][t] = ctr[q][t]
          /\ ctr'[p][s].unsynced_spent = 0 /\ ctr'[p][s].global_spent = 0
      BY <3>1, <3>2, CounterSet
    <3>4. /\ ctr'[p][s].unsynced_spent + spent[s] <= ctr[p][s].unsynced_spent + spent'[s]
          /\ ctr'[p][s].global_spent <= ctr[p][s].global_spent
      BY <1>0, <3>2, <3>3
    <3> QED
      BY <3>2, <3>3, <3>4, CounterMoves
  <2>4. CASE ForgetSynced(r)
    <3> DEFINE d == [ctr[p][s] EXCEPT !.synced = FALSE]
    <3>1. /\ d \in Counter /\ d.unsynced_spent = ctr[p][s].unsynced_spent
          /\ d.global_spent = ctr[p][s].global_spent
      BY <1>0 DEF Counter
    <3>2. SetCounter(p, s, d) /\ UNCHANGED <<task, spend, spent, repeated>>
      BY <2>0, <2>4 DEF ForgetSynced
    <3> HIDE DEF d
    <3> QED
      BY <1>1, <3>1, <3>2
  <2>5. CASE DecideUnknown(r)
    BY <1>0, <1>1, <2>0, <2>5 DEF DecideUnknown
  <2>6. CASE Reserve(r)
    <3> DEFINE n == ctr[p][s].reserved + req[r].estimate
               d == [ctr[p][s] EXCEPT !.reserved = n]
    <3>1. n \in Nat
      BY Parts
    <3>2. (Ask(p, s, d) \/ SetCounter(p, s, d)) /\ UNCHANGED <<task, spend, spent, repeated>>
      BY <2>0, <2>6 DEF Reserve
    <3>3. /\ d \in Counter /\ d.unsynced_spent = ctr[p][s].unsynced_spent
          /\ d.global_spent = ctr[p][s].global_spent
      <4> HIDE DEF n
      <4> QED
        BY <1>0, <3>1 DEF Counter
    <3> HIDE DEF d
    <3> QED
      BY <1>1, <3>2, <3>3
  <2>7. CASE Release(r)
    <3> DEFINE n == SaturatingSub(ctr[p][s].reserved, req[r].estimate)
               d == [ctr[p][s] EXCEPT !.reserved = n]
    <3>1. n \in Nat
      BY Parts DEF SaturatingSub
    <3>2. SetCounter(p, s, d) /\ UNCHANGED <<task, spend, spent, repeated>>
      BY <2>0, <2>7 DEF Release
    <3>3. /\ d \in Counter /\ d.unsynced_spent = ctr[p][s].unsynced_spent
          /\ d.global_spent = ctr[p][s].global_spent
      <4> HIDE DEF n
      <4> QED
        BY <1>0, <3>1 DEF Counter
    <3> HIDE DEF d
    <3> QED
      BY <1>1, <3>2, <3>3
  <2>8. CASE Spend(r)
    <3> DEFINE n == ctr[p][s].unsynced_spent + req[r].actual
               d == [ctr[p][s] EXCEPT !.unsynced_spent = n]
    <3>1. n \in Nat /\ req[r].actual \in Nat
      BY Parts
    <3>2. SetCounter(p, s, d) /\ UNCHANGED <<task, spend, repeated>>
      BY <2>0, <2>8 DEF Spend
    <3>3. d \in Counter /\ d.unsynced_spent = n /\ d.global_spent = ctr[p][s].global_spent
      <4> HIDE DEF n
      <4> QED
        BY <1>0, <3>1 DEF Counter
    <3>4. spent'[s] = spent[s] + req[r].actual /\ \A t \in Subjects \ {s} : spent'[t] = spent[t]
      BY <2>0, <2>8 DEF Spend, TypeOK
    <3>5. n + spent[s] <= ctr[p][s].unsynced_spent + spent'[s]
      BY <1>0, <3>1, <3>4
    <3> HIDE DEF d, n
    <3>6. /\ \A q \in Pods, t \in Subjects : q # p \/ t # s => ctr'[q][t] = ctr[q][t]
          /\ ctr'[p][s].unsynced_spent = n /\ ctr'[p][s].global_spent = ctr[p][s].global_spent
      BY <3>2, <3>3, CounterSet
    <3>7. ctr'[p][s].global_spent <= ctr[p][s].global_spent
      BY <1>0, <3>6
    <3> QED
      BY <3>2, <3>4, <3>5, <3>6, <3>7, CounterMoves
  <2> QED
    BY <1>3, <2>1, <2>2, <2>3, <2>4, <2>5, <2>6, <2>7, <2>8 DEF Serve
<1> QED
  BY <1>2, <1>3

\* A step of a pod's sync task concerns one counter and nothing elsewhere.
LEMMA Elsewhere ==
  ASSUME NEW p \in Pods, NEW s \in Subjects,
         \A q \in Pods \ {p} : task'[q] = task[q],
         \A q \in Pods, t \in Subjects : q # p \/ t # s => ctr'[q][t] = ctr[q][t],
         task[p].pc = "called" => task[p].subject = s, task'[p].pc = "called" => task'[p].subject = s
  PROVE  /\ \A q \in Pods, t \in Subjects : q # p \/ t # s =>
              OnPod(q, t)' = OnPod(q, t) /\ ctr'[q][t].global_spent = ctr[q][t].global_spent
         /\ \A q \in Pods \ {p} : Answered(q)' =>
              Answered(q) /\ task'[q].subject = task[q].subject /\ task'[q].total = task[q].total
<1>1. ASSUME NEW q \in Pods, NEW t \in Subjects, q # p \/ t # s PROVE OnPod(q, t)' = OnPod(q, t)
  <2>1. CASE q # p
    BY <2>1 DEF OnPod
  <2>2. CASE q = p /\ t # s
    BY <2>2 DEF OnPod
  <2> QED
    BY <1>1, <2>1, <2>2
<1>2. \A q \in Pods \ {p} : Answered(q)' =>
        Answered(q) /\ task'[q].subject = task[q].subject /\ task'[q].total = task[q].total
  BY DEF Answered
<1> QED
  BY <1>1, <1>2

\* A step of a sync task that moves no spend into the ledger: what leaves the
\* counter is dropped or in the call, and what comes back was caused again.
LEMMA TaskMoves ==
  ASSUME TypeOK, TypeOK', Backed, NEW p \in Pods, NEW s \in Subjects,
         \A q \in Pods \ {p} : task'[q] = task[q],
         \A q \in Pods, t \in Subjects : q # p \/ t # s => ctr'[q][t] = ctr[q][t],
         task[p].pc = "called" => task[p].subject = s, task'[p].pc = "called" => task'[p].subject = s,
         UNCHANGED <<spend, spent>>, \A t \in Subjects \ {s} : repeated'[t] = repeated[t],
         OnPod(p, s)' + repeated[s] <= OnPod(p, s) + repeated'[s],
         \/ ctr'[p][s].global_spent <= ctr[p][s].global_spent
         \/ Answered(p) /\ task[p].subject = s /\ ctr'[p][s].global_spent = task[p].total,
         Answered(p)' => Answered(p) /\ task'[p].subject = task[p].subject /\ task'[p].total = task[p].total
  PROVE  Backed'
<1>1. \A q \in Pods, t \in Subjects : q # p \/ t # s =>
        OnPod(q, t)' = OnPod(q, t) /\ ctr'[q][t].global_spent = ctr[q][t].global_spent
  BY Elsewhere
<1>2. \A q \in Pods : Answered(q)' =>
        Answered(q) /\ task'[q].subject = task[q].subject /\ task'[q].total = task[q].total
  BY Elsewhere
<1>3. /\ \A t \in Subjects : LedgerTotal(t)' = LedgerTotal(t)
      /\ \A t \in Subjects \ {s} : Caused(t)' = Caused(t)
  BY DEF LedgerTotal, Caused, WindowEnds
<1>4. /\ spent[s] \in Nat /\ repeated[s] \in Nat /\ repeated'[s] \in Nat
      /\ OnPod(p, s) \in Nat /\ OnPod(p, s)' \in Nat /\ LedgerTotal(s) \in Nat
  <2>1. spent[s] \in Nat /\ repeated[s] \in Nat /\ repeated'[s] \in Nat
    BY DEF TypeOK
  <2>2. ctr'[p][s] \in Counter /\ task'[p] \in Task
    BY DEF TypeOK
  <2>3. OnPod(p, s)' \in Nat
    BY <2>2 DEF OnPod, Counter, Task
  <2> QED
    BY <2>1, <2>3, TotalsAre
<1>5. OnPod(p, s)' + Caused(s) <= OnPod(p, s) + Caused(s)'
  BY <1>4 DEF Caused
<1>6. Caused(s) \in Nat /\ Caused(s)' \in Nat
  BY <1>4 DEF Caused
<1>7. (LedgerTotal(s)' + OnPod(p, s)') + Caused(s) <= (LedgerTotal(s) + OnPod(p, s)) + Caused(s)'
  BY <1>3, <1>4, <1>5, <1>6
<1> QED
  BY <1>1, <1>2, <1>3, <1>5, <1>7, OneMoves

\* The steps of a sync task keep everything backed.
LEMMA TasksBacked ==
  ASSUME TypeOK, TypeOK', TaskFits, Backed, NEW p \in Pods, SyncTask(p)
  PROVE  Backed'
<1>0. /\ \A s \in Subjects : /\ ctr[p][s] \in Counter /\ ctr[p][s].unsynced_spent \in Nat
                             /\ ctr[p][s].global_spent \in Nat /\ repeated[s] \in Nat
      /\ task[p] \in Task /\ task[p].delta \in Nat /\ task[p].total \in Nat
  BY Parts DEF TypeOK
<1>1. CASE Recv(p)
  <2>1. PICK s \in Subjects : s = Head(asks[p])
    BY <1>1 DEF Recv, TypeOK
  <2>2. task' = [task EXCEPT ![p] = [task[p] EXCEPT !.pc = "got", !.subject = s]]
    BY <1>1, <2>1 DEF Recv
  <2>3. /\ task'[p].pc = "got" /\ task[p].pc = "idle" /\ ctr' = ctr
        /\ \A q \in Pods \ {p} : task'[q] = task[q]
    BY <1>0, <1>1, <2>2 DEF Recv, TypeOK, Task
  <2>4. OnPod(p, s)' = OnPod(p, s) /\ ~ Answered(p)'
    BY <2>3 DEF OnPod, Answered
  <2>5. OnPod(p, s)' + repeated[s] <= OnPod(p, s) + repeated'[s] /\ ctr'[p][s].global_spent <= ctr[p][s].global_spent
    BY <1>0, <1>1, <2>3, <2>4, TotalsAre DEF Recv
  <2> QED
    BY <1>1, <2>3, <2>4, <2>5, TaskMoves DEF Recv
<1>2. ASSUME ~ Recv(p) PROVE \E s \in Subjects : s = task[p].subject
  BY <1>2 DEF SyncTask, TaskFits, ConnectFails, Ship, LedgerSync, CallFails, Rebase, Land
<1>3. ASSUME NEW s \in Subjects, s = task[p].subject, ConnectFails(p) \/ CallFails(p) PROVE Backed'
  <2> DEFINE e == IF CallFails(p) THEN task[p].delta ELSE 0
             n == ctr[p][s].unsynced_spent + e
             d == [ctr[p][s] EXCEPT !.unsynced_spent = n, !.syncing = FALSE]
  <2>0. ConnectFails(p) => ~ CallFails(p)
    BY DEF ConnectFails, CallFails
  <2>1. SetCounter(p, s, d)
    BY <1>3, <2>0 DEF ConnectFails, CallFails, SyncFailed
  <2>2. e \in Nat /\ n \in Nat
    BY <1>0
  <2>3. d \in Counter /\ d.unsynced_spent = n /\ d.global_spent = ctr[p][s].global_spent
    <3> HIDE DEF n
    <3> QED
      BY <1>0, <2>2 DEF Counter
  <2>4. /\ ctr'[p][s].unsynced_spent = n /\ ctr'[p][s].global_spent = ctr[p][s].global_spent
        /\ \A q \in Pods, t \in Subjects : q # p \/ t # s => ctr'[q][t] = ctr[q][t]
    <3> HIDE DEF d, n
    <3> QED
      BY <2>1, <2>3, CounterSet
  <2>5. task'[p].pc = "idle" /\ \A q \in Pods \ {p} : task'[q] = task[q]
    BY <1>3 DEF ConnectFails, CallFails, TypeOK, IdleTask
  <2>6. OnPod(p, s)' = n /\ ~ Answered(p)'
    BY <2>2, <2>4, <2>5 DEF OnPod, Answered
  <2>7. /\ UNCHANGED <<spend, spent>> /\ \A t \in Subjects \ {s} : repeated'[t] = repeated[t]
        /\ n + repeated[s] <= OnPod(p, s) + repeated'[s]
    <3>1. CASE ConnectFails(p)
      <4>1. OnPod(p, s) = ctr[p][s].unsynced_spent
        BY <1>0, <3>1 DEF OnPod, ConnectFails
      <4> QED
        BY <1>0, <2>0, <3>1, <4>1 DEF ConnectFails
    <3>2. CASE CallFails(p) /\ task[p].pc = "called"
      <4>1. OnPod(p, s) = ctr[p][s].unsynced_spent + task[p].delta
        BY <1>3, <3>2 DEF OnPod
      <4>2. UNCHANGED <<spend, spent>> /\ \A t \in Subjects : repeated'[t] = repeated[t]
        BY <1>3, <3>2 DEF CallFails, TypeOK
      <4> QED
        BY <1>0, <3>2, <4>1, <4>2
    <3>3. CASE CallFails(p) /\ task[p].pc = "replied"
      <4>1. OnPod(p, s) = ctr[p][s].unsynced_spent
        BY <1>0, <3>3 DEF OnPod
      <4>2. /\ UNCHANGED <<spend, spent>> /\ \A t \in Subjects \ {s} : repeated'[t] = repeated[t]
            /\ repeated'[s] = repeated[s] + task[p].delta
        BY <1>3, <3>3 DEF CallFails, TypeOK
      <4> QED
        BY <1>0, <3>3, <4>1, <4>2
    <3> QED
      BY <1>3, <3>1, <3>2, <3>3 DEF CallFails
  <2>8. ctr'[p][s].global_spent <= ctr[p][s].global_spent
    BY <1>0, <2>4
  <2> HIDE DEF n, d, e
  <2> QED
    BY <1>3, <2>4, <2>5, <2>6, <2>7, <2>8, TaskMoves
<1>4. ASSUME NEW s \in Subjects, s = task[p].subject, Ship(p) PROVE Backed'
  <2> DEFINE d == [ctr[p][s] EXCEPT !.unsynced_spent = 0]
             n == ctr[p][s].unsynced_spent
  <2>1. SetCounter(p, s, d) /\ task' = [task EXCEPT ![p] = [task[p] EXCEPT !.pc = "called", !.delta = n]]
    BY <1>4 DEF Ship
  <2>2. d \in Counter /\ d.unsynced_spent = 0 /\ d.global_spent = ctr[p][s].global_spent
    BY <1>0 DEF Counter
  <2>3. /\ ctr'[p][s].unsynced_spent = 0 /\ ctr'[p][s].global_spent = ctr[p][s].global_spent
        /\ \A q \in Pods, t \in Subjects : q # p \/ t # s => ctr'[q][t] = ctr[q][t]
    <3> HIDE DEF d
    <3> QED
      BY <2>1, <2>2, CounterSet
  <2>4. /\ task'[p].pc = "called" /\ task'[p].delta = n /\ task'[p].subject = s
        /\ \A q \in Pods \ {p} : task'[q] = task[q]
    <3> HIDE DEF n
    <3> QED
      BY <1>0, <1>4, <2>1 DEF TypeOK, Task
  <2>5. OnPod(p, s)' = n /\ ~ Answered(p)'
    BY <1>0, <2>3, <2>4 DEF OnPod, Answered
  <2>6. OnPod(p, s) = n
    BY <1>0, <1>4 DEF OnPod, Ship
  <2>7. OnPod(p, s)' + repeated[s] <= OnPod(p, s) + repeated'[s] /\ ctr'[p][s].global_spent <= ctr[p][s].global_spent
    BY <1>0, <1>4, <2>3, <2>5, <2>6 DEF Ship
  <2> HIDE DEF d, n
  <2> QED
    BY <1>4, <2>3, <2>4, <2>5, <2>7, TaskMoves DEF Ship
<1>5. ASSUME NEW s \in Subjects, s = task[p].subject, Rebase(p) PROVE Backed'
  <2> DEFINE d == Rebased(ctr[p][s], task[p])
  <2>1. SetCounter(p, s, d) /\ task' = [task EXCEPT ![p] = [task[p] EXCEPT !.pc = "landing"]]
    BY <1>5 DEF Rebase, TypeOK
  <2>2. d \in Counter /\ d.unsynced_spent <= ctr[p][s].unsynced_spent /\ d.global_spent = ctr[p][s].global_spent
    <3> DEFINE n == IF ctr[p][s].window_end = task[p].window_end
                    THEN SaturatingSub(ctr[p][s].unsynced_spent, task[p].delta) ELSE 0
    <3>1. n \in Nat /\ n <= ctr[p][s].unsynced_spent
      BY <1>0 DEF SaturatingSub
    <3>2. d = [ctr[p][s] EXCEPT !.window_end = task[p].window_end, !.unsynced_spent = n]
      BY DEF Rebased
    <3>3. d \in Counter
      BY <1>0, CounterOps
    <3> HIDE DEF n, d
    <3>4. d.unsynced_spent = n /\ d.global_spent = ctr[p][s].global_spent
      BY <1>0, <3>2 DEF Counter
    <3> QED
      BY <3>1, <3>3, <3>4
  <2>3. /\ ctr'[p][s] = d
        /\ \A q \in Pods, t \in Subjects : q # p \/ t # s => ctr'[q][t] = ctr[q][t]
    <3> HIDE DEF d
    <3> QED
      BY <2>1, <2>2, CounterSet
  <2>4. /\ task'[p].pc = "landing" /\ task'[p].total = task[p].total /\ task'[p].subject = task[p].subject
        /\ task[p].pc = "replied" /\ \A q \in Pods \ {p} : task'[q] = task[q]
    BY <1>0, <1>5, <2>1 DEF TypeOK, Task, Rebase
  <2> HIDE DEF d
  <2>5. OnPod(p, s)' = d.unsynced_spent /\ OnPod(p, s) = ctr[p][s].unsynced_spent /\ d.unsynced_spent \in Nat
    <3>1. d.unsynced_spent \in Nat
      BY <2>2 DEF Counter
    <3> QED
      BY <1>0, <2>3, <2>4, <3>1 DEF OnPod
  <2>6. Answered(p)
    BY <2>4 DEF Answered
  <2>7. OnPod(p, s)' + repeated[s] <= OnPod(p, s) + repeated'[s] /\ ctr'[p][s].global_spent <= ctr[p][s].global_spent
    BY <1>0, <1>5, <2>2, <2>3, <2>5 DEF Rebase
  <2> QED
    BY <1>5, <2>3, <2>4, <2>6, <2>7, TaskMoves DEF Rebase
<1>6. ASSUME NEW s \in Subjects, s = task[p].subject, Land(p) PROVE Backed'
  <2> DEFINE d == Synced(ctr[p][s], task[p])
  <2>1. SetCounter(p, s, d) /\ task' = [task EXCEPT ![p] = IdleTask]
    BY <1>6 DEF Land
  <2>2. d \in Counter /\ d.unsynced_spent = ctr[p][s].unsynced_spent /\ d.global_spent = task[p].total
    <3>1. d \in Counter
      BY <1>0, CounterOps
    <3> QED
      BY <1>0, <3>1 DEF Counter, Synced
  <2> HIDE DEF d
  <2>3. /\ ctr'[p][s] = d
        /\ \A q \in Pods, t \in Subjects : q # p \/ t # s => ctr'[q][t] = ctr[q][t]
    BY <2>1, <2>2, CounterSet
  <2>4. task'[p].pc = "idle" /\ task[p].pc = "landing" /\ \A q \in Pods \ {p} : task'[q] = task[q]
    BY <1>6, <2>1 DEF TypeOK, IdleTask, Land
  <2>5. OnPod(p, s)' = ctr[p][s].unsynced_spent /\ OnPod(p, s) = ctr[p][s].unsynced_spent
    BY <1>0, <2>2, <2>3, <2>4 DEF OnPod
  <2>6. Answered(p) /\ ~ Answered(p)'
    BY <2>4 DEF Answered
  <2>7. OnPod(p, s)' + repeated[s] <= OnPod(p, s) + repeated'[s]
    BY <1>0, <1>6, <2>5 DEF Land
  <2> QED
    BY <1>6, <2>2, <2>3, <2>4, <2>6, <2>7, TaskMoves DEF Land
<1>7. ASSUME NEW s \in Subjects, s = task[p].subject, LedgerSync(p) PROVE Backed'
  <2> DEFINE w == WindowEnd
             m == spend[s][w] + task[p].delta
  <2>0. w \in WindowEnds /\ spend[s][w] \in Nat /\ m \in Nat
    <3>1. w \in WindowEnds
      BY Finite DEF TypeOK, WindowEnd, WindowEnds
    <3> QED
      BY <1>0, <3>1 DEF TypeOK
  <2>1. /\ spend' = [spend EXCEPT ![s][w] = m] /\ ctr' = ctr /\ UNCHANGED <<spent, repeated>>
        /\ task' = [task EXCEPT ![p] = [task[p] EXCEPT !.pc = "replied", !.window_end = w, !.total = m]]
    BY <1>7 DEF LedgerSync
  <2> HIDE DEF m, w
  <2>2. /\ task'[p].pc = "replied" /\ task'[p].subject = s /\ task'[p].total = m
        /\ \A q \in Pods \ {p} : task'[q] = task[q]
    BY <1>0, <1>7, <2>1 DEF TypeOK, Task
  <2>3. task[p].pc = "called"
    BY <1>7 DEF LedgerSync
  <2>4. /\ spend'[s][w] = m /\ \A v \in WindowEnds \ {w} : spend'[s][v] = spend[s][v]
        /\ \A v \in WindowEnds : spend[s][v] \in Nat /\ spend'[s][v] \in Nat
        /\ \A t \in Subjects \ {s} : spend'[t] = spend[t]
    BY <2>0, <2>1 DEF TypeOK
  <2>5. /\ LedgerTotal(s)' = (LedgerTotal(s) - spend[s][w]) + m /\ LedgerTotal(s) \in Nat
        /\ LedgerTotal(s)' \in Nat /\ spend'[s][w] <= LedgerTotal(s)'
    <3> DEFINE f == spend[s]
               g == spend'[s]
    <3>1. LedgerTotal(s) = SumFunctionOnSet(f, WindowEnds) /\ LedgerTotal(s)' = SumFunctionOnSet(g, WindowEnds)
      BY DEF LedgerTotal, WindowEnds
    <3>2. /\ \A v \in WindowEnds : f[v] \in Nat /\ g[v] \in Nat
          /\ \A v \in WindowEnds \ {w} : f[v] = g[v]
          /\ f[w] = spend[s][w] /\ g[w] = m
      BY <2>4
    <3> HIDE DEF f, g
    <3>3. SumFunctionOnSet(g, WindowEnds) = (SumFunctionOnSet(f, WindowEnds) - f[w]) + g[w]
      BY <2>0, <3>2, Finite, SumChanges
    <3>4. \A v \in WindowEnds \ {w} : g[v] = f[v]
      BY <3>2
    <3>5. g[w] <= SumFunctionOnSet(g, WindowEnds)
      BY <2>0, <3>2, <3>4, Finite, SumChanges
    <3>6. SumFunctionOnSet(f, WindowEnds) \in Nat /\ SumFunctionOnSet(g, WindowEnds) \in Nat
      BY <3>2, Finite, SumNat
    <3> QED
      BY <2>4, <3>1, <3>2, <3>3, <3>5, <3>6
  <2>6. \A t \in Subjects \ {s} : LedgerTotal(t)' = LedgerTotal(t) /\ Caused(t)' = Caused(t)
    BY <2>1, <2>4 DEF LedgerTotal, WindowEnds, Caused
  <2>7. OnPod(p, s)' = ctr[p][s].unsynced_spent /\ OnPod(p, s) = ctr[p][s].unsynced_spent + task[p].delta
    BY <1>0, <1>7, <2>1, <2>2, <2>3 DEF OnPod
  <2>8. Caused(s)' = Caused(s) /\ Caused(s) \in Nat
    BY <2>1, TotalsAre DEF Caused
  <2>9. OnPod(p, s)' + Caused(s) <= OnPod(p, s) + Caused(s)'
    BY <1>0, <2>7, <2>8
  <2>10. (LedgerTotal(s)' + OnPod(p, s)') + Caused(s) <= (LedgerTotal(s) + OnPod(p, s)) + Caused(s)'
    <3>1. m = spend[s][w] + task[p].delta
      BY DEF m
    <3> QED
      BY <1>0, <2>0, <2>5, <2>7, <2>8, <3>1
  <2>11. \A t \in Subjects : task'[p].subject = t => task'[p].total <= LedgerTotal(t)'
    <3> SUFFICES ASSUME NEW t \in Subjects, task'[p].subject = t PROVE task'[p].total <= LedgerTotal(t)'
      OBVIOUS
    <3>1. LedgerTotal(t)' = LedgerTotal(s)'
      BY <2>2
    <3> QED
      BY <2>2, <2>4, <2>5, <3>1
  <2>12. \A q \in Pods, t \in Subjects : q # p \/ t # s =>
           OnPod(q, t)' = OnPod(q, t) /\ ctr'[q][t].global_spent = ctr[q][t].global_spent
    BY <1>7, <2>1, <2>2, Elsewhere
  <2>13. \A q \in Pods : Answered(q)' =>
           \/ Answered(q) /\ task'[q].subject = task[q].subject /\ task'[q].total = task[q].total
           \/ \A t \in Subjects : task'[q].subject = t => task'[q].total <= LedgerTotal(t)'
    BY <1>7, <2>1, <2>2, <2>11, Elsewhere
  <2>14. ctr'[p][s].global_spent <= ctr[p][s].global_spent
    BY <1>0, <2>1
  <2> QED
    BY <2>6, <2>9, <2>10, <2>12, <2>13, <2>14, OneMoves
<1> QED
  BY <1>1, <1>2, <1>3, <1>4, <1>5, <1>6, <1>7 DEF SyncTask

\* prune takes rows away, and nothing else.
LEMMA PruneBacked ==
  ASSUME TypeOK, TypeOK', Backed, Prune
  PROVE  Backed'
<1>1. UNCHANGED <<ctr, task, spent, repeated>>
  BY DEF Prune
<1>2. ASSUME NEW s \in Subjects
      PROVE  /\ LedgerTotal(s)' <= LedgerTotal(s) /\ LocalTotal(s)' = LocalTotal(s) /\ Caused(s)' = Caused(s)
             /\ LedgerTotal(s) \in Nat /\ LedgerTotal(s)' \in Nat /\ LocalTotal(s) \in Nat /\ Caused(s) \in Nat
  <2>1. \A w \in WindowEnds : spend[s][w] \in Nat /\ spend'[s][w] \in Nat /\ spend'[s][w] <= spend[s][w]
    BY DEF TypeOK, Prune
  <2>2. SumFunctionOnSet(spend'[s], WindowEnds) <= SumFunctionOnSet(spend[s], WindowEnds)
    BY <2>1, Finite, SumLess
  <2>3. LocalTotal(s)' = LocalTotal(s) /\ Caused(s)' = Caused(s)
    BY <1>1 DEF LocalTotal, OnPod, Caused
  <2> QED
    BY <2>2, <2>3, TotalsAre, TotalsNext DEF LedgerTotal, WindowEnds
<1>3. \A s \in Subjects :
        /\ LocalTotal(s)' + Caused(s) <= LocalTotal(s) + Caused(s)'
        /\ (LedgerTotal(s)' + LocalTotal(s)') + Caused(s) <= (LedgerTotal(s) + LocalTotal(s)) + Caused(s)'
  BY <1>2
<1>4. \A p \in Pods, s \in Subjects : ctr'[p][s].global_spent <= ctr[p][s].global_spent
  BY <1>1, Parts
<1>5. \A p \in Pods : Answered(p)' =>
        Answered(p) /\ task'[p].subject = task[p].subject /\ task'[p].total = task[p].total
  BY <1>1 DEF Answered
<1> QED
  BY <1>3, <1>4, <1>5, Carried

\* Every step keeps everything backed.
LEMMA BackedKept ==
  ASSUME TypeOK, TypeOK', TaskFits, Backed, [Next]_vars
  PROVE  Backed'
<1>1. CASE NextWindow \/ UNCHANGED vars
  BY <1>1, StillBacked DEF NextWindow, vars
<1> QED
  BY <1>1, RequestsBacked, TasksBacked, PruneBacked DEF Next

\* At the start nothing is reserved, spent or believed.
LEMMA StartsHonest == Init => ReservedIsInFlight /\ Backed
<1> SUFFICES ASSUME Init PROVE ReservedIsInFlight /\ Backed
  OBVIOUS
<1>1. \A p \in Pods, s \in Subjects :
        ctr[p][s].reserved = 0 /\ ctr[p][s].global_spent = 0 /\ ctr[p][s].unsynced_spent = 0
  BY DEF Init, NewCounter
<1>2. \A p \in Pods : task[p].pc = "idle"
  BY DEF Init, IdleTask
<1>3. ASSUME NEW p \in Pods, NEW s \in Subjects PROVE SumFunctionOnSet(Estimated, InFlight(p, s)) = 0
  <2>1. \A r \in Requests : req[r].pc = "idle"
    BY DEF Init, Inputs
  <2>2. InFlight(p, s) = {}
    BY <2>1 DEF InFlight
  <2>3. IsFiniteSet({}) /\ \A x \in {} : Estimated[x] = 0
    BY FS_EmptySet
  <2>4. SumFunctionOnSet(Estimated, {}) = 0
    BY <2>3, SumZero
  <2> QED
    BY <2>2, <2>4
<1>4. ReservedIsInFlight
  BY <1>1, <1>3 DEF ReservedIsInFlight, Estimated
<1>5. ASSUME NEW s \in Subjects PROVE LedgerTotal(s) = 0 /\ LocalTotal(s) = 0 /\ Caused(s) = 0
  <2>1. \A w \in WindowEnds : spend[s][w] = 0
    BY DEF Init
  <2>2. LedgerTotal(s) = 0
    BY <2>1, Finite, SumZero DEF LedgerTotal
  <2> DEFINE f == [p \in Pods |-> OnPod(p, s)]
  <2>3. \A p \in Pods : f[p] = 0
    BY <1>1, <1>2 DEF OnPod
  <2>4. LocalTotal(s) = SumFunctionOnSet(f, Pods)
    BY DEF LocalTotal
  <2> HIDE DEF f
  <2>5. LocalTotal(s) = 0
    BY <2>3, <2>4, Finite, SumZero
  <2> QED
    BY <2>2, <2>5 DEF Init, Caused
<1>6. \A p \in Pods : ~ Answered(p)
  BY <1>2 DEF Answered
<1> QED
  BY <1>1, <1>4, <1>5, <1>6 DEF Backed

\* CountersHonest, for any number of pods, subjects, requests and windows: for every
\* interleaving of check, settle, roll_over, sync_loop and the ledger's sync,
\* reservations are exactly the requests in flight, and neither the ledger and
\* the pods together nor what one pod believes ever exceeds what was spent, but
\* for deltas put back after a call the ledger had applied (ai/budget.rs).
THEOREM CountersAreHonest == Spec => []CountersHonest
<1>1. TypeOK /\ Backed => NothingCountedTwice /\ NoPhantomSpend
  <2> SUFFICES ASSUME TypeOK, Backed PROVE NothingCountedTwice /\ NoPhantomSpend
    OBVIOUS
  <2>1. NothingCountedTwice
    BY DEF Backed, NothingCountedTwice, Caused
  <2>2. ASSUME NEW p \in Pods, NEW s \in Subjects
        PROVE  ctr[p][s].global_spent + ctr[p][s].unsynced_spent <= spent[s] + repeated[s]
    <3>1. /\ ctr[p][s].global_spent \in Nat /\ ctr[p][s].unsynced_spent \in Nat
          /\ ctr[p][s].unsynced_spent <= OnPod(p, s) /\ OnPod(p, s) <= LocalTotal(s)
          /\ LocalTotal(s) \in Nat /\ OnPod(p, s) \in Nat /\ Caused(s) \in Nat
      BY Parts, TotalsAre
    <3>2. ctr[p][s].global_spent + LocalTotal(s) <= Caused(s)
      BY DEF Backed
    <3>3. ctr[p][s].global_spent + ctr[p][s].unsynced_spent <= Caused(s)
      BY <3>1, <3>2
    <3> QED
      BY <3>3 DEF Caused
  <2> QED
    BY <2>1, <2>2 DEF NoPhantomSpend
<1>2. TypeOK /\ TypeOK' /\ TaskFits /\ ReservedIsInFlight /\ Backed /\ [Next]_vars
        => ReservedIsInFlight' /\ Backed'
  BY ReservedKept, BackedKept
<1> QED
  BY <1>1, <1>2, StartsHonest, TypeCorrect, PTL DEF Spec, CountersHonest
=============================================================================
