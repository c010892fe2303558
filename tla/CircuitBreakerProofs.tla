------------------------ MODULE CircuitBreakerProofs ------------------------
(* Theorems about CircuitBreaker, for every number of requests, every        *)
(* threshold, cap and timeout, with refusals and cancellations allowed.      *)
EXTENDS CircuitBreaker, FiniteSetTheorems, TLAPS

\* Facts about the constants the provers need one by one.
LEMMA Widths ==
  /\ FailureThreshold \in Nat /\ SuccessThreshold \in Nat /\ Timeout \in Nat
  /\ MaxConn \in Nat /\ CounterMax \in Nat /\ MaxNow \in Nat /\ MaxReloads \in Nat
  /\ 0 \in Ids /\ 0 \in Counter /\ 0 \in 0 .. MaxNow
BY BreakerAssumption DEF BreakerAssumption, Ids, Counter

\* Every word a guard can be given is a word.
LEMMA PackType ==
  ASSUME NEW s \in {"Closed", "Open", "HalfOpen"}, NEW t \in 0 .. MaxNow, NEW f \in Counter, NEW n \in Counter
  PROVE  pack(s, t, f, n) \in Word
BY DEF pack, Word

\* A new breaker's word is a word.
LEMMA FreshType == Fresh \in Word
BY Widths, PackType DEF Fresh

\* A saturating counter keeps its width.
LEMMA SaturatingAddType ==
  ASSUME NEW n \in Counter
  PROVE  saturating_add(n) \in Counter
BY Widths DEF saturating_add, Counter

\* record_success and record_failure keep the word well formed.
LEMMA OutcomeType ==
  ASSUME NEW w \in Word, NEW ok \in BOOLEAN, NEW at \in 0 .. MaxNow, w.state # "Open"
  PROVE  Outcome(w, ok, at) \in Word
<1> DEFINE failures == saturating_add(w.failures)
           successes == saturating_add(w.successes)
<1>1. /\ w.state \in {"Closed", "HalfOpen"} /\ w.ts \in 0 .. MaxNow
      /\ w.failures \in Counter /\ w.successes \in Counter
  BY DEF Word
<1>2. failures \in Counter /\ successes \in Counter
  BY <1>1, SaturatingAddType
<1>3. 0 \in Counter
  BY Widths
<1> HIDE DEF failures, successes
<1>4. CASE ok /\ w.state = "Closed"
  <2>1. Outcome(w, ok, at) = pack("Closed", w.ts, 0, successes)
    BY <1>4 DEF Outcome, successes
  <2> QED BY <2>1, <1>1, <1>2, <1>3, PackType
<1>5. CASE ok /\ w.state = "HalfOpen"
  <2>1. Outcome(w, ok, at) = IF successes >= SuccessThreshold THEN pack("Closed", at, 0, 0)
                                                             ELSE pack("HalfOpen", w.ts, 0, successes)
    BY <1>5 DEF Outcome, successes
  <2> QED BY <2>1, <1>1, <1>2, <1>3, PackType
<1>6. CASE ~ok /\ w.state = "Closed"
  <2>1. Outcome(w, ok, at) = IF failures >= FailureThreshold THEN pack("Open", at, failures, 0)
                                                            ELSE pack("Closed", w.ts, failures, 0)
    BY <1>6 DEF Outcome, failures
  <2> QED BY <2>1, <1>1, <1>2, <1>3, PackType
<1>7. CASE ~ok /\ w.state = "HalfOpen"
  <2>1. Outcome(w, ok, at) = pack("Open", at, 0, 0)
    BY <1>7 DEF Outcome
  <2> QED BY <2>1, <1>3, PackType
<1> QED BY <1>1, <1>4, <1>5, <1>6, <1>7

\* A task without a request is a task.
LEMMA IdleType ==
  ASSUME NEW on \in [cb : Ids, cl : Ids]
  PROVE  Idle(on) \in Task
BY Widths, FreshType DEF Idle, Task, Steps

\* A request's next task is a task, whatever it has just loaded.
LEMMA LoadedType ==
  ASSUME NEW r \in Requests, task \in [Requests -> Task], NEW pc \in Steps, NEW seen \in Word,
         NEW at \in 0 .. MaxNow, NEW held \in Nat, Loaded(r, pc, seen, at, held)
  PROVE  task' \in [Requests -> Task]
BY DEF Loaded, Task

\* A task that goes on to its next step is a task.
LEMMA GotoType ==
  ASSUME NEW r \in Requests, task \in [Requests -> Task], NEW pc \in Steps, Goto(r, pc)
  PROVE  task' \in [Requests -> Task]
BY LoadedType, FreshType, Widths DEF Goto

\* A request that ends leaves the tasks well-formed.
LEMMA EndedType ==
  ASSUME NEW r \in Requests, task \in [Requests -> Task], Ended(r)
  PROVE  task' \in [Requests -> Task]
BY IdleType, Widths DEF Ended

\* The instances a request was planned on exist.
LEMMA Instances ==
  ASSUME TypeOK, NEW r \in Requests
  PROVE  /\ task[r] \in Task /\ task[r].on \in [cb : Ids, cl : Ids]
         /\ Breaker(r) \in Word /\ Active(r) \in Nat
BY DEF TypeOK, Task, Breaker, Active

\* What a request has loaded is a value its next swap may build on: a count
\* below the cap before an acquire, above zero before a release, a word that
\* is not open before an outcome, one that has timed out before a probe.
Ready(r) ==
  /\ task[r].pc = "acquire" => task[r].held < MaxConn
  /\ task[r].pc = "giveback" => task[r].held # 0
  /\ task[r].pc = "swap" => task[r].seen.state # "Open"
  /\ task[r].pc = "probe" => /\ task[r].seen.state = "Open" /\ task[r].at <= now
                             /\ task[r].at - task[r].seen.ts >= Timeout

Prepared == \A r \in Requests : Ready(r)

\* Every step keeps the types, since what is swapped was prepared.
LEMMA TypeStep == TypeOK /\ Prepared /\ [Next]_vars => TypeOK'
<1> SUFFICES ASSUME TypeOK, Prepared, [Next]_vars PROVE TypeOK'
  OBVIOUS
<1> USE DEF TypeOK
<1>1. ASSUME NEW r \in Requests, Arrive(r) PROVE TypeOK'
  BY <1>1, Widths, FreshType DEF Arrive, Idle, Task, Steps
<1>2. ASSUME NEW r \in Requests, AllowLoad(r) PROVE TypeOK'
  BY <1>2, Instances, LoadedType, GotoType, EndedType, Widths DEF AllowLoad, Steps
<1>3. ASSUME NEW r \in Requests, AllowCas(r) PROVE TypeOK'
  <2>1. task[r].on.cb \in Ids /\ task[r].at \in 0 .. MaxNow /\ task[r].on \in [cb : Ids, cl : Ids]
    BY Instances DEF Task
  <2>2. cb' \in [Ids -> Word]
    BY <1>3, <2>1, PackType, Widths DEF AllowCas
  <2>3. task' \in [Requests -> Task]
    <3>1. CASE Breaker(r) = task[r].seen
      <4>1. task' = [task EXCEPT ![r] = [Idle(task[r].on) EXCEPT !.pc = "limit", !.probing = TRUE]]
        BY <3>1, <1>3 DEF AllowCas
      <4> QED BY <4>1, <2>1, FreshType, Widths DEF Idle, Task, Steps
    <3>2. CASE Breaker(r) # task[r].seen
      BY <3>2, <1>3, GotoType DEF AllowCas, Steps
    <3> QED BY <3>1, <3>2
  <2> QED BY <1>3, <2>2, <2>3 DEF AllowCas
<1>4. ASSUME NEW r \in Requests, AcquireLoad(r) PROVE TypeOK'
  <2>1. task' \in [Requests -> Task]
    BY <1>4, Instances, LoadedType, EndedType, FreshType, Widths DEF AcquireLoad, Steps
  <2>2. lost' \in [slots : [Ids -> Nat], probes : SUBSET Ids]
    BY <1>4 DEF AcquireLoad, Probed
  <2> QED BY <1>4, <2>1, <2>2 DEF AcquireLoad
<1>5. ASSUME NEW r \in Requests, AcquireCas(r) PROVE TypeOK'
  <2>1. task[r].on.cl \in Ids
    BY Instances
  <2>2. task' \in [Requests -> Task]
    BY <1>5, GotoType DEF AcquireCas, Steps
  <2> QED BY <1>5, <2>1, <2>2 DEF AcquireCas
<1>6. ASSUME NEW r \in Requests, ReleaseLoad(r) PROVE TypeOK'
  BY <1>6, Instances, LoadedType, EndedType, FreshType, Widths DEF ReleaseLoad, Steps
<1>7. ASSUME NEW r \in Requests, ReleaseCas(r) PROVE TypeOK'
  <2>1. task[r].on.cl \in Ids
    BY Instances
  <2>2. task' \in [Requests -> Task]
    BY <1>7, GotoType, EndedType DEF ReleaseCas, Steps
  <2>3. task[r].held \in Nat /\ task[r].held # 0
    BY <1>7, Instances DEF ReleaseCas, Prepared, Ready, Task
  <2>4. cl' \in [Ids -> Nat]
    BY <1>7, <2>1, <2>3 DEF ReleaseCas, Active
  <2> QED BY <1>7, <2>2, <2>4 DEF ReleaseCas
<1>8. ASSUME NEW r \in Requests, Vanish(r) PROVE TypeOK'
  <2>1. task' \in [Requests -> Task]
    BY <1>8, EndedType DEF Vanish
  <2>2. lost' \in [slots : [Ids -> Nat], probes : SUBSET Ids]
    BY <1>8, Instances DEF Vanish, Probed
  <2> QED BY <1>8, <2>1, <2>2 DEF Vanish
<1>9. ASSUME NEW r \in Requests, NEW ok \in BOOLEAN, Respond(r, ok) PROVE TypeOK'
  <2>1. task[r].on \in [cb : Ids, cl : Ids] /\ task[r].probing \in BOOLEAN
    BY Instances DEF Task
  <2> QED BY <1>9, <2>1, FreshType, Widths DEF Respond, Idle, Task, Steps
<1>10. ASSUME NEW r \in Requests, RecordLoad(r) PROVE TypeOK'
  BY <1>10, Instances, LoadedType, GotoType, Widths DEF RecordLoad, Steps
<1>11. ASSUME NEW r \in Requests, RecordCas(r) PROVE TypeOK'
  <2>1. task[r].on.cb \in Ids /\ task[r].at \in 0 .. MaxNow /\ task[r].ok \in BOOLEAN
    BY Instances DEF Task
  <2>2. task' \in [Requests -> Task]
    BY <1>11, GotoType DEF RecordCas, Steps
  <2>3. task[r].seen \in Word /\ task[r].seen.state # "Open"
    BY <1>11, Instances DEF RecordCas, Prepared, Ready, Task
  <2>4. cb' \in [Ids -> Word]
    BY <1>11, <2>1, <2>3, OutcomeType DEF RecordCas, Breaker
  <2> QED BY <1>11, <2>2, <2>4 DEF RecordCas
<1>12. ASSUME ReloadBreaker \/ ReloadLimiter PROVE TypeOK'
  <2>0. cur \in [cb : 0 .. MaxReloads, cl : 0 .. MaxReloads] /\ MaxReloads \in Nat
    BY Widths DEF Ids
  <2>1. cur' \in [cb : Ids, cl : Ids]
    <3> HIDE DEF TypeOK
    <3> QED BY <1>12, <2>0 DEF ReloadBreaker, ReloadLimiter, Ids
  <2> QED BY <1>12, <2>1 DEF ReloadBreaker, ReloadLimiter
<1>13. ASSUME Tick PROVE TypeOK'
  BY <1>13, Widths DEF Tick
<1>14. ASSUME UNCHANGED vars PROVE TypeOK'
  BY <1>14 DEF vars
<1> QED BY <1>1, <1>2, <1>3, <1>4, <1>5, <1>6, <1>7, <1>8, <1>9, <1>10, <1>11, <1>12, <1>13, <1>14 DEF Next, Step, Refuse, Cancel

\* What a request loaded stays a value its swap may build on.
LEMMA PreparedStep == TypeOK /\ Prepared /\ [Next]_vars => Prepared'
<1> SUFFICES ASSUME TypeOK, Prepared, [Next]_vars, NEW q \in Requests
             PROVE  Ready(q)'
  BY DEF Prepared
<1>1. Ready(q)
  BY DEF Prepared
<1>2. task \in [Requests -> Task]
  BY DEF TypeOK
<1>3. ASSUME task'[q] = task[q], now' = now PROVE Ready(q)'
  BY <1>1, <1>3 DEF Ready
<1>4. ASSUME NEW r \in Requests, Arrive(r) PROVE Ready(q)'
  BY <1>2, <1>3, <1>4 DEF Arrive, Idle, Ready
<1>5. ASSUME NEW r \in Requests, AllowLoad(r) PROVE Ready(q)'
  <2>1. now \in Nat /\ Breaker(r) \in Word
    BY Instances, Widths DEF TypeOK
  <2>2. CASE r # q
    BY <2>2, <1>2, <1>3, <1>5 DEF AllowLoad, Loaded, Goto, Ended
  <2>3. CASE r = q /\ Goto(r, "limit")
    BY <2>3, <1>2 DEF Loaded, Goto, Ready
  <2>4. CASE r = q /\ TimedOut(Breaker(r)) /\ Loaded(r, "probe", Breaker(r), now, 0)
    <3>1. /\ task'[q].pc = "probe" /\ task'[q].seen = Breaker(r) /\ task'[q].at = now
      BY <2>4, <1>2 DEF Loaded
    <3>2. now' = now
      BY <1>5 DEF AllowLoad
    <3> QED BY <3>1, <3>2, <2>1, <2>4 DEF TimedOut, Ready
  <2>5. CASE r = q /\ Ended(r)
    BY <2>5, <1>2 DEF Ended, Idle, Ready
  <2> QED BY <2>2, <2>3, <2>4, <2>5, <1>5 DEF AllowLoad
<1>6. ASSUME NEW r \in Requests, AllowCas(r) PROVE Ready(q)'
  <2>1. CASE r # q
    BY <2>1, <1>2, <1>3, <1>6 DEF AllowCas, Loaded, Goto
  <2>2. CASE r = q /\ Goto(r, "allow")
    BY <2>2, <1>2 DEF Loaded, Goto, Ready
  <2>3. CASE r = q /\ task' = [task EXCEPT ![r] = [Idle(@.on) EXCEPT !.pc = "limit", !.probing = TRUE]]
    <3>1. task'[q].pc = "limit"
      BY <2>3, <1>2 DEF Idle
    <3> QED BY <3>1 DEF Ready
  <2> QED BY <2>1, <2>2, <2>3, <1>6 DEF AllowCas
<1>7. ASSUME NEW r \in Requests, AcquireLoad(r) PROVE Ready(q)'
  BY <1>2, <1>3, <1>7, Instances, Widths DEF AcquireLoad, Loaded, Ended, Idle, Ready
<1>8. ASSUME NEW r \in Requests, AcquireCas(r) PROVE Ready(q)'
  BY <1>2, <1>3, <1>8 DEF AcquireCas, Loaded, Goto, Ready
<1>9. ASSUME NEW r \in Requests, ReleaseLoad(r) PROVE Ready(q)'
  BY <1>2, <1>3, <1>9 DEF ReleaseLoad, Loaded, Ended, Idle, Ready
<1>10. ASSUME NEW r \in Requests, ReleaseCas(r) PROVE Ready(q)'
  BY <1>2, <1>3, <1>10 DEF ReleaseCas, Loaded, Goto, Ended, Idle, Ready
<1>11. ASSUME NEW r \in Requests, Vanish(r) PROVE Ready(q)'
  BY <1>2, <1>3, <1>11 DEF Vanish, Ended, Idle, Ready
<1>12. ASSUME NEW r \in Requests, NEW ok \in BOOLEAN, Respond(r, ok) PROVE Ready(q)'
  BY <1>2, <1>3, <1>12 DEF Respond, Idle, Ready
<1>13. ASSUME NEW r \in Requests, RecordLoad(r) PROVE Ready(q)'
  BY <1>2, <1>3, <1>13 DEF RecordLoad, Loaded, Goto, Ready
<1>14. ASSUME NEW r \in Requests, RecordCas(r) PROVE Ready(q)'
  BY <1>2, <1>3, <1>14 DEF RecordCas, Loaded, Goto, Ready
<1>15. ASSUME ReloadBreaker \/ ReloadLimiter PROVE Ready(q)'
  BY <1>3, <1>15 DEF ReloadBreaker, ReloadLimiter
<1>16. ASSUME Tick PROVE Ready(q)'
  <2>1. task[q].at \in Nat /\ now \in Nat
    BY Widths DEF TypeOK, Task
  <2> QED BY <1>1, <1>16, <2>1 DEF Tick, Ready
<1>17. ASSUME UNCHANGED vars PROVE Ready(q)'
  BY <1>3, <1>17 DEF vars
<1> QED BY <1>4, <1>5, <1>6, <1>7, <1>8, <1>9, <1>10, <1>11, <1>12, <1>13, <1>14, <1>15, <1>16, <1>17 DEF Next, Step, Refuse, Cancel

\* Every slot in use is counted once, and no count is over the cap.
Accounted == SlotsReturned /\ \A i \in Ids : cl[i] <= MaxConn

\* The holders of a limiter's slots can be counted.
LEMMA HoldersFinite == \A i \in Ids : IsFiniteSet(Holders(i)) /\ Cardinality(Holders(i)) \in Nat
<1> SUFFICES ASSUME NEW i \in Ids PROVE IsFiniteSet(Holders(i)) /\ Cardinality(Holders(i)) \in Nat
  OBVIOUS
<1>1. IsFiniteSet(Requests) /\ Holders(i) \subseteq Requests
  BY BreakerAssumption DEF BreakerAssumption, Holders
<1>2. IsFiniteSet(Holders(i))
  BY <1>1, FS_Subset
<1> QED BY <1>2, FS_CardinalityType

\* A step after which the same requests hold slots, none lost and none
\* counted, keeps the accounts.
LEMMA SameHolders ==
  ASSUME Accounted, cl' = cl, lost'.slots = lost.slots, \A i \in Ids : Holders(i)' = Holders(i)
  PROVE  Accounted'
BY DEF Accounted, SlotsReturned

\* Every step keeps a limiter's count the slots held and lost, within the cap.
LEMMA AccountedStep == TypeOK /\ Prepared /\ Accounted /\ [Next]_vars => Accounted'
<1> SUFFICES ASSUME TypeOK, Prepared, Accounted, [Next]_vars PROVE Accounted'
  OBVIOUS
<1>1. task \in [Requests -> Task] /\ cl \in [Ids -> Nat] /\ lost.slots \in [Ids -> Nat]
  BY DEF TypeOK
<1>2. ASSUME NEW r \in Requests, Arrive(r) \/ AllowLoad(r) \/ AllowCas(r) \/ AcquireLoad(r) PROVE Accounted'
  <2>1. cl' = cl /\ lost'.slots = lost.slots /\ \A q \in Requests : q # r => task'[q] = task[q]
    BY <1>1, <1>2 DEF Arrive, AllowLoad, AllowCas, AcquireLoad, Loaded, Goto, Ended
  <2>0. task[r].pc \notin Holding
    BY <1>2 DEF Arrive, AllowLoad, AllowCas, AcquireLoad, Holding
  <2>2. task'[r].pc \notin Holding
    <3>1. CASE Arrive(r)
      BY <1>1, <3>1 DEF Arrive, Idle, Holding
    <3>2. CASE AllowLoad(r)
      BY <1>1, <3>2 DEF AllowLoad, Loaded, Goto, Ended, Idle, Holding
    <3>3. CASE AllowCas(r)
      <4>1. CASE Goto(r, "allow")
        BY <1>1, <4>1 DEF Loaded, Goto, Holding
      <4>2. CASE task' = [task EXCEPT ![r] = [Idle(@.on) EXCEPT !.pc = "limit", !.probing = TRUE]]
        <5>1. task'[r].pc = "limit"
          BY <1>1, <4>2 DEF Idle
        <5> QED BY <5>1 DEF Holding
      <4> QED BY <3>3, <4>1, <4>2 DEF AllowCas
    <3>4. CASE AcquireLoad(r)
      BY <1>1, <3>4 DEF AcquireLoad, Loaded, Ended, Idle, Holding
    <3> QED BY <1>2, <3>1, <3>2, <3>3, <3>4
  <2> QED BY <2>0, <2>1, <2>2, SameHolders DEF Holders
<1>3. ASSUME NEW r \in Requests, NEW ok \in BOOLEAN, RecordLoad(r) \/ RecordCas(r) \/ Respond(r, ok) PROVE Accounted'
  <2>1. cl' = cl /\ lost'.slots = lost.slots /\ \A q \in Requests : q # r => task'[q] = task[q]
    BY <1>1, <1>3 DEF RecordLoad, RecordCas, Respond, Loaded, Goto
  <2>2. task[r].pc \in Holding /\ task'[r].pc \in Holding /\ task'[r].on = task[r].on
    <3>1. CASE RecordLoad(r) \/ RecordCas(r)
      BY <1>1, <3>1 DEF RecordLoad, RecordCas, Loaded, Goto, Holding
    <3>2. CASE Respond(r, ok)
      <4>1. task'[r].on = task[r].on /\ task'[r].pc = "record"
        BY <1>1, <3>2 DEF Respond, Idle
      <4> QED BY <3>2, <4>1 DEF Respond, Holding
    <3> QED BY <1>3, <3>1, <3>2
  <2> QED BY <2>1, <2>2, SameHolders DEF Holders
<1>4. ASSUME NEW r \in Requests, ReleaseLoad(r) PROVE Accounted'
  <2>1. task[r].pc = "release" /\ task[r].on.cl \in Ids
    BY <1>4, Instances DEF ReleaseLoad
  <2>2. Active(r) # 0
    <3>0. PICK k \in Ids : k = task[r].on.cl
      BY <2>1
    <3>1. r \in Holders(k)
      BY <2>1, <3>0 DEF Holders, Holding
    <3>2. Cardinality(Holders(k)) # 0
      BY <3>1, HoldersFinite, FS_EmptySet
    <3>3. cl[k] = Cardinality(Holders(k)) + lost.slots[k]
      BY DEF Accounted, SlotsReturned
    <3>4. cl[k] # 0
      BY <3>2, <3>3, <1>1, HoldersFinite
    <3> QED BY <3>0, <3>4 DEF Active
  <2>3. /\ cl' = cl /\ lost'.slots = lost.slots
        /\ \A q \in Requests : q # r => task'[q] = task[q]
        /\ task'[r].pc = "giveback" /\ task'[r].on = task[r].on
    BY <1>1, <1>4, <2>2 DEF ReleaseLoad, Loaded
  <2> QED BY <2>1, <2>3, SameHolders DEF Holders, Holding
<1>8. ASSUME NEW r \in Requests, Vanish(r) PROVE Accounted'
  <2>1. task[r].pc = "forward" /\ task[r].on.cl \in Ids
    BY <1>8, Instances DEF Vanish
  <2>2. PICK k \in Ids : k = task[r].on.cl
    BY <2>1
  <2>3. /\ cl' = cl /\ lost'.slots = [lost.slots EXCEPT ![k] = @ + 1]
        /\ \A q \in Requests : q # r => task'[q] = task[q]
        /\ task'[r].pc = "idle"
    BY <1>1, <1>8, <2>2 DEF Vanish, Ended, Idle
  <2>4. r \in Holders(k) /\ Holders(k)' = Holders(k) \ {r}
    BY <2>1, <2>2, <2>3 DEF Holders, Holding
  <2>5. \A i \in Ids : i # k => Holders(i)' = Holders(i)
    BY <2>1, <2>2, <2>3 DEF Holders, Holding
  <2>6. Cardinality(Holders(k)') = Cardinality(Holders(k)) - 1
    BY <2>4, HoldersFinite, FS_RemoveElement
  <2>7. ASSUME NEW i \in Ids PROVE cl'[i] = Cardinality(Holders(i)') + lost'.slots[i] /\ cl'[i] <= MaxConn
    <3>1. /\ Cardinality(Holders(i)) \in Nat /\ cl[i] \in Nat /\ lost.slots[i] \in Nat
          /\ cl[i] = Cardinality(Holders(i)) + lost.slots[i] /\ cl[i] <= MaxConn
      BY <1>1, HoldersFinite DEF Accounted, SlotsReturned
    <3>2. CASE i = k
      BY <3>1, <3>2, <1>1, <2>3, <2>6, Widths
    <3>3. CASE i # k
      BY <3>1, <3>3, <1>1, <2>3, <2>5
    <3> QED BY <3>2, <3>3
  <2> QED BY <2>7 DEF Accounted, SlotsReturned
<1>5. ASSUME NEW r \in Requests, AcquireCas(r) PROVE Accounted'
  <2>1. task[r].pc = "acquire" /\ task[r].on.cl \in Ids
    BY <1>5, Instances DEF AcquireCas
  <2>2. CASE Active(r) # task[r].held
    <3>1. /\ cl' = cl /\ lost'.slots = lost.slots
          /\ (\A q \in Requests : q # r => task'[q] = task[q]) /\ task'[r].pc = "limit"
      BY <1>1, <1>5, <2>2 DEF AcquireCas, Loaded, Goto
    <3> QED BY <2>1, <3>1, SameHolders DEF Holders, Holding
  <2>3. CASE Active(r) = task[r].held
    <3>0. PICK k \in Ids : k = task[r].on.cl
      BY <2>1
    <3>1. /\ cl' = [cl EXCEPT ![k] = @ + 1] /\ lost'.slots = lost.slots
          /\ \A q \in Requests : q # r => task'[q] = task[q]
          /\ task'[r].pc = "forward" /\ task'[r].on = task[r].on
      BY <1>1, <1>5, <2>3, <3>0 DEF AcquireCas, Loaded, Goto
    <3>2. cl[k] < MaxConn
      BY <2>1, <2>3, <3>0 DEF Prepared, Ready, Active
    <3>3. r \notin Holders(k) /\ Holders(k)' = Holders(k) \cup {r}
      BY <2>1, <3>0, <3>1 DEF Holders, Holding
    <3>4. \A i \in Ids : i # k => Holders(i)' = Holders(i)
      BY <2>1, <3>0, <3>1 DEF Holders, Holding
    <3>5. Cardinality(Holders(k)') = Cardinality(Holders(k)) + 1
      BY <2>1, <3>3, HoldersFinite, FS_AddElement
    <3>6. ASSUME NEW i \in Ids PROVE cl'[i] = Cardinality(Holders(i)') + lost'.slots[i] /\ cl'[i] <= MaxConn
      <4>1. /\ Cardinality(Holders(i)) \in Nat /\ cl[i] \in Nat /\ lost.slots[i] \in Nat
            /\ cl[i] = Cardinality(Holders(i)) + lost.slots[i] /\ cl[i] <= MaxConn
        BY <1>1, HoldersFinite DEF Accounted, SlotsReturned
      <4>2. CASE i = k
        BY <4>1, <4>2, <1>1, <3>1, <3>2, <3>5, Widths
      <4>3. CASE i # k
        BY <4>1, <4>3, <1>1, <3>1, <3>4
      <4> QED BY <4>2, <4>3
    <3> QED BY <3>6 DEF Accounted, SlotsReturned
  <2> QED BY <2>2, <2>3
<1>6. ASSUME NEW r \in Requests, ReleaseCas(r) PROVE Accounted'
  <2>1. task[r].pc = "giveback" /\ task[r].on.cl \in Ids
    BY <1>6, Instances DEF ReleaseCas
  <2>2. CASE Active(r) # task[r].held
    <3>1. /\ cl' = cl /\ lost'.slots = lost.slots /\ (\A q \in Requests : q # r => task'[q] = task[q])
          /\ task'[r].on = task[r].on /\ task'[r].pc = "release"
      BY <1>1, <1>6, <2>2 DEF ReleaseCas, Loaded, Goto
    <3> QED BY <2>1, <3>1, SameHolders DEF Holders, Holding
  <2>3. CASE Active(r) = task[r].held
    <3>0. PICK k \in Ids : k = task[r].on.cl
      BY <2>1
    <3>1. /\ cl' = [cl EXCEPT ![k] = @ - 1] /\ lost'.slots = lost.slots
          /\ \A q \in Requests : q # r => task'[q] = task[q]
          /\ task'[r].pc = "idle"
      BY <1>1, <1>6, <2>3, <3>0 DEF ReleaseCas, Ended, Idle
    <3>2. r \in Holders(k) /\ Holders(k)' = Holders(k) \ {r}
      BY <2>1, <3>0, <3>1 DEF Holders, Holding
    <3>3. \A i \in Ids : i # k => Holders(i)' = Holders(i)
      BY <2>1, <3>0, <3>1 DEF Holders, Holding
    <3>4. Cardinality(Holders(k)') = Cardinality(Holders(k)) - 1
      BY <2>1, <3>2, HoldersFinite, FS_RemoveElement
    <3>5. ASSUME NEW i \in Ids PROVE cl'[i] = Cardinality(Holders(i)') + lost'.slots[i] /\ cl'[i] <= MaxConn
      <4>1. /\ Cardinality(Holders(i)) \in Nat /\ cl[i] \in Nat /\ lost.slots[i] \in Nat
            /\ cl[i] = Cardinality(Holders(i)) + lost.slots[i] /\ cl[i] <= MaxConn
        BY <1>1, HoldersFinite DEF Accounted, SlotsReturned
      <4>2. CASE i = k
        BY <4>1, <4>2, <1>1, <3>1, <3>4, Widths
      <4>3. CASE i # k
        BY <4>1, <4>3, <1>1, <3>1, <3>3
      <4> QED BY <4>2, <4>3
    <3> QED BY <3>5 DEF Accounted, SlotsReturned
  <2> QED BY <2>2, <2>3
<1>7. ASSUME ReloadBreaker \/ ReloadLimiter \/ Tick \/ UNCHANGED vars PROVE Accounted'
  BY <1>7, SameHolders DEF ReloadBreaker, ReloadLimiter, Tick, vars, Holders
<1> QED BY <1>2, <1>3, <1>4, <1>5, <1>6, <1>7, <1>8 DEF Next, Step, Refuse, Cancel

\* The three parts hold at the start.
LEMMA InitiallyFine == Init => TypeOK /\ Prepared /\ Accounted
<1> SUFFICES ASSUME Init PROVE TypeOK /\ Prepared /\ Accounted
  OBVIOUS
<1>1. TypeOK /\ Prepared
  BY Widths, FreshType, IdleType DEF Init, TypeOK, Prepared, Ready, Idle
<1>2. \A i \in Ids : Holders(i) = {} /\ cl[i] = 0 /\ lost.slots[i] = 0
  BY DEF Init, Holders, Holding, Idle
<1> QED BY <1>1, <1>2, FS_EmptySet, Widths DEF Accounted, SlotsReturned

\* The connection cap holds: no limiter ever has more than MaxConn requests
\* between try_acquire and release, whatever swaps race and whichever
\* requests are refused or abandoned on the way.
THEOREM CapRespected == Spec => []CapHolds
<1>1. TypeOK /\ Accounted => CapHolds
  <2> SUFFICES ASSUME TypeOK, Accounted, NEW i \in Ids PROVE Cardinality(Holders(i)) <= MaxConn
    BY DEF CapHolds
  <2>1. /\ Cardinality(Holders(i)) \in Nat /\ lost.slots[i] \in Nat
        /\ cl[i] = Cardinality(Holders(i)) + lost.slots[i] /\ cl[i] <= MaxConn
    BY HoldersFinite DEF Accounted, SlotsReturned, TypeOK
  <2> QED BY <2>1, Widths
<1> QED BY <1>1, InitiallyFine, TypeStep, PreparedStep, AccountedStep, PTL DEF Spec

\* The count of a limiter is exact: what its holders took, and what refused
\* and abandoned requests took with them, however the swaps of acquire and
\* release race and whichever snapshot a request was planned on.
THEOREM SlotsAccounted == Spec => []SlotsReturned
<1>1. Accounted => SlotsReturned
  BY DEF Accounted
<1> QED BY <1>1, InitiallyFine, TypeStep, PreparedStep, AccountedStep, PTL DEF Spec

\* The type invariant of both guards and of every request's task: a release
\* never takes a count below zero and counters keep their width.
THEOREM TypeCorrect == Spec => []TypeOK
<1> QED BY InitiallyFine, TypeStep, PreparedStep, PTL DEF Spec

\* An open circuit is left only through a probe and only after its timeout,
\* however the compare-and-swap loops of the requests interleave.
THEOREM OpenPeriodRespected == Spec => OpenWaits
<1>1. TypeOK /\ Prepared /\ [Next]_vars =>
      [\A i \in Ids : cb[i].state = "Open" /\ cb'[i].state # "Open"
         => cb'[i].state = "HalfOpen" /\ now - cb[i].ts >= Timeout]_vars
  <2> SUFFICES ASSUME TypeOK, Prepared, [Next]_vars, NEW i \in Ids,
                      cb[i].state = "Open", cb'[i].state # "Open"
               PROVE  cb'[i].state = "HalfOpen" /\ now - cb[i].ts >= Timeout
    OBVIOUS
  <2>1. cb' # cb
    OBVIOUS
  <2>2. ASSUME NEW r \in Requests, AllowCas(r)
        PROVE  cb'[i].state = "HalfOpen" /\ now - cb[i].ts >= Timeout
    <3>1. /\ Breaker(r) = task[r].seen /\ task[r].pc = "probe"
          /\ cb' = [cb EXCEPT ![task[r].on.cb] = pack("HalfOpen", task[r].at, 0, 0)]
      BY <2>1, <2>2 DEF AllowCas
    <3>2. task[r].on.cb = i
      BY <3>1, <2>1 DEF TypeOK
    <3>3. /\ cb[i] = task[r].seen /\ cb'[i] = pack("HalfOpen", task[r].at, 0, 0)
      BY <3>1, <3>2 DEF Breaker, TypeOK
    <3>4. /\ task[r].at <= now /\ task[r].at - task[r].seen.ts >= Timeout
      BY <3>1 DEF Prepared, Ready
    <3>5. /\ task[r].at \in Nat /\ task[r].seen.ts \in Nat /\ now \in Nat
      BY Instances, Widths DEF TypeOK, Task, Word
    <3> QED BY <3>3, <3>4, <3>5, Widths DEF pack
  <2>3. ASSUME NEW r \in Requests, RecordCas(r) PROVE FALSE
    <3>1. /\ Breaker(r) = task[r].seen /\ task[r].pc = "swap"
          /\ cb' = [cb EXCEPT ![task[r].on.cb] = Outcome(@, task[r].ok, task[r].at)]
      BY <2>1, <2>3 DEF RecordCas
    <3>2. task[r].on.cb = i
      BY <3>1, <2>1 DEF TypeOK
    <3>3. cb[i].state # "Open"
      BY <3>1, <3>2 DEF Breaker, Prepared, Ready
    <3> QED BY <3>3
  <2> QED BY <2>1, <2>2, <2>3
          DEF Next, Step, vars, Arrive, AllowLoad, AcquireLoad, AcquireCas, RecordLoad, ReleaseLoad,
              ReleaseCas, Refuse, Cancel, Vanish, Respond, ReloadBreaker, ReloadLimiter, Tick
<1> QED BY <1>1, InitiallyFine, TypeStep, PreparedStep, PTL DEF Spec, OpenWaits
=============================================================================
