--------------------------- MODULE CircuitBreaker ---------------------------
(* The two lock-free guards of a service (portus-dataplane-core's            *)
(* circuit_breaker.rs) and the passage of a request between them: plan.rs    *)
(* asks the breaker and takes a connection slot, rama/proxy.rs forwards,     *)
(* records the outcome and gives the slot back.                              *)
(*                                                                           *)
(* Both guards are one atomic word changed by compare-and-swap loops.  A     *)
(* load of the word (with the clock read that goes with it) and the swap are *)
(* separate steps, so the steps of concurrent requests interleave; a weak    *)
(* swap that fails for no reason is a retry, as is one that lost a race.     *)
(* A configuration push keeps a guard whose policy is unchanged and replaces *)
(* it otherwise; requests under way keep the instance they were planned on.  *)
EXTENDS Integers, FiniteSets

CONSTANTS
  Requests,          \* request tasks; a finished one may carry another request
  FailureThreshold, SuccessThreshold, Timeout,   \* CircuitBreakerConfig
  MaxConn,           \* ConnectionLimiter.max
  CounterMax,        \* where the 16-bit counters saturate
  MaxNow,            \* bound on the clock
  MaxReloads         \* bound on policy edits

ASSUME BreakerAssumption ==
  /\ IsFiniteSet(Requests)
  /\ {FailureThreshold, SuccessThreshold, Timeout, MaxConn, CounterMax, MaxNow, MaxReloads} \subseteq Nat

VARIABLES
  now,    \* now_secs
  cb,     \* cb[i]: the packed word of breaker i
  cl,     \* cl[i]: active of limiter i
  cur,    \* the instances in the current snapshot
  task,   \* task[r]: where a request is and what it holds
  lost    \* history: slots and probes of requests that ended without giving them back

vars == <<now, cb, cl, cur, task, lost>>

Ids == 0 .. MaxReloads
Counter == 0 .. CounterMax
Word == [state : {"Closed", "Open", "HalfOpen"}, ts : 0 .. MaxNow, failures : Counter, successes : Counter]

pack(state, ts, failures, successes) ==
  [state |-> state, ts |-> ts, failures |-> failures, successes |-> successes]

Fresh == pack("Closed", 0, 0, 0)

Steps == {"idle", "allow", "probe", "limit", "acquire", "forward",
          "record", "swap", "release", "giveback"}

\* seen, at: the breaker's word and the clock as last loaded; held: the
\* limiter's count as last loaded; probing: this request opened the half-open
\* state; ok: the outcome, not a 5xx.
Task == [pc : Steps, on : [cb : Ids, cl : Ids], seen : Word, at : 0 .. MaxNow,
         held : Nat, probing : BOOLEAN, ok : BOOLEAN]

TypeOK ==
  /\ now \in 0 .. MaxNow
  /\ cb \in [Ids -> Word]
  /\ cl \in [Ids -> Nat]
  /\ cur \in [cb : Ids, cl : Ids]
  /\ task \in [Requests -> Task]
  /\ lost \in [slots : [Ids -> Nat], probes : SUBSET Ids]

Idle(on) == [pc |-> "idle", on |-> on, seen |-> Fresh, at |-> 0, held |-> 0, probing |-> FALSE, ok |-> FALSE]

Init ==
  /\ now = 0
  /\ cb = [i \in Ids |-> Fresh]
  /\ cl = [i \in Ids |-> 0]
  /\ cur = [cb |-> 0, cl |-> 0]
  /\ task = [r \in Requests |-> Idle(cur)]
  /\ lost = [slots |-> [i \in Ids |-> 0], probes |-> {}]

saturating_add(n) == IF n < CounterMax THEN n + 1 ELSE n

\* The request is over: nothing of it is left in its task.
Ended(r) == task' = [task EXCEPT ![r] = Idle([cb |-> 0, cl |-> 0])]

\* The breaker request r was to probe, if it was.
Probed(r) == {i \in Ids : task[r].probing /\ i = task[r].on.cb}

\* Request r goes on to pc with what it has just loaded.
Loaded(r, pc, seen, at, held) ==
  task' = [task EXCEPT ![r] = [pc |-> pc, on |-> @.on, seen |-> seen, at |-> at, held |-> held,
                               probing |-> @.probing, ok |-> @.ok]]

Goto(r, pc) == Loaded(r, pc, Fresh, 0, 0)

\* The instances request r was planned on.
Breaker(r) == cb[task[r].on.cb]
Active(r) == cl[task[r].on.cl]

----------------------------------------------------------------------------
(* allow_request *)

Arrive(r) ==
  /\ task[r].pc = "idle"
  /\ task' = [task EXCEPT ![r] = [Idle(cur) EXCEPT !.pc = "allow"]]
  /\ UNCHANGED <<now, cb, cl, cur, lost>>

\* The timeout of an open circuit, measured from the timestamp in the word.
TimedOut(w) == w.state = "Open" /\ now - w.ts >= Timeout

AllowLoad(r) == LET w == Breaker(r) IN
  /\ task[r].pc = "allow"
  /\ \/ /\ w.state = "Closed"
        /\ Goto(r, "limit")
     \/ /\ TimedOut(w)
        /\ Loaded(r, "probe", w, now, 0)
     \/ /\ w.state # "Closed" /\ ~TimedOut(w)   \* 503, circuit is open
        /\ Ended(r)
  /\ UNCHANGED <<now, cb, cl, cur, lost>>

\* Mutant: the word is stored without comparing it.
AllowStore(r) ==
  /\ task[r].pc = "probe"
  /\ cb' = [cb EXCEPT ![task[r].on.cb] = pack("HalfOpen", task[r].at, 0, 0)]
  /\ task' = [task EXCEPT ![r] = [Idle(@.on) EXCEPT !.pc = "limit", !.probing = TRUE]]
  /\ UNCHANGED <<now, cl, cur, lost>>

\* Open -> HalfOpen: whoever swaps the word is the probe.
AllowCas(r) ==
  /\ task[r].pc = "probe"
  /\ IF Breaker(r) = task[r].seen
     THEN /\ cb' = [cb EXCEPT ![task[r].on.cb] = pack("HalfOpen", task[r].at, 0, 0)]
          /\ task' = [task EXCEPT ![r] = [Idle(@.on) EXCEPT !.pc = "limit", !.probing = TRUE]]
     ELSE Goto(r, "allow") /\ UNCHANGED cb
  /\ UNCHANGED <<now, cl, cur, lost>>

----------------------------------------------------------------------------
(* ConnectionLimiter *)

\* try_acquire
AcquireLoad(r) ==
  /\ task[r].pc = "limit"
  /\ IF Active(r) >= MaxConn
     THEN /\ Ended(r)   \* 503, connection limit reached
          /\ lost' = [slots |-> lost.slots, probes |-> lost.probes \cup Probed(r)]
     ELSE /\ Loaded(r, "acquire", Fresh, 0, Active(r))
          /\ UNCHANGED lost
  /\ UNCHANGED <<now, cb, cl, cur>>

\* Mutant: the count is stored without comparing it.
AcquireStore(r) ==
  /\ task[r].pc = "acquire"
  /\ cl' = [cl EXCEPT ![task[r].on.cl] = task[r].held + 1]
  /\ Goto(r, "forward")
  /\ UNCHANGED <<now, cb, cur, lost>>

AcquireCas(r) ==
  /\ task[r].pc = "acquire"
  /\ IF Active(r) = task[r].held
     THEN /\ cl' = [cl EXCEPT ![task[r].on.cl] = @ + 1]
          /\ Goto(r, "forward")
     ELSE Goto(r, "limit") /\ UNCHANGED cl
  /\ UNCHANGED <<now, cb, cur, lost>>

\* release; a count of zero is left alone.
ReleaseLoad(r) ==
  /\ task[r].pc = "release"
  /\ IF Active(r) = 0 THEN Ended(r)
     ELSE Loaded(r, "giveback", Fresh, 0, Active(r))
  /\ UNCHANGED <<now, cb, cl, cur, lost>>

\* Mutant: the slot is given back to the limiter of the current snapshot.
ReleaseCurrent(r) ==
  /\ task[r].pc = "giveback"
  /\ IF Active(r) = task[r].held
     THEN cl' = [cl EXCEPT ![cur.cl] = IF @ = 0 THEN 0 ELSE @ - 1] /\ Ended(r)
     ELSE Goto(r, "release") /\ UNCHANGED cl
  /\ UNCHANGED <<now, cb, cur, lost>>

ReleaseCas(r) ==
  /\ task[r].pc = "giveback"
  /\ IF Active(r) = task[r].held
     THEN cl' = [cl EXCEPT ![task[r].on.cl] = @ - 1] /\ Ended(r)
     ELSE Goto(r, "release") /\ UNCHANGED cl
  /\ UNCHANGED <<now, cb, cur, lost>>

----------------------------------------------------------------------------
(* The request itself *)

\* The request's future ends before its outcome is recorded and its slot is
\* given back: neither is tied to the future.
Vanish(r) ==
  /\ task[r].pc = "forward"
  /\ Ended(r)
  /\ lost' = [slots |-> [lost.slots EXCEPT ![task[r].on.cl] = @ + 1],
              probes |-> lost.probes \cup Probed(r)]
  /\ UNCHANGED <<now, cb, cl, cur>>

\* A refusal on the way to the backend (key, access list, spent budget, a
\* body that cannot be rewritten) answers and returns.
Refuse(r) == Vanish(r)

\* The client goes away and the request's future is dropped.
Cancel(r) == Vanish(r)

Respond(r, ok) ==
  /\ task[r].pc = "forward"
  /\ task' = [task EXCEPT ![r] = [Idle(@.on) EXCEPT !.pc = "record", !.probing = task[r].probing, !.ok = ok]]
  /\ UNCHANGED <<now, cb, cl, cur, lost>>

\* Mutant: a failed probe leaves the circuit half open.
LenientOutcome(w, ok, at) ==
  LET failures == saturating_add(w.failures) IN
  IF ok THEN pack("Closed", at, 0, 0)
  ELSE IF w.state = "Closed" /\ failures >= FailureThreshold THEN pack("Open", at, failures, 0)
  ELSE pack(w.state, w.ts, failures, 0)

\* The word record_success or record_failure puts in the place of w.
Outcome(w, ok, at) ==
  LET failures == saturating_add(w.failures)
      successes == saturating_add(w.successes)
  IN CASE ok /\ w.state = "Closed" -> pack("Closed", w.ts, 0, successes)
       [] ok /\ w.state = "HalfOpen" ->
            IF successes >= SuccessThreshold THEN pack("Closed", at, 0, 0)
                                             ELSE pack("HalfOpen", w.ts, 0, successes)
       [] ~ok /\ w.state = "Closed" ->
            IF failures >= FailureThreshold THEN pack("Open", at, failures, 0)
                                            ELSE pack("Closed", w.ts, failures, 0)
       [] ~ok /\ w.state = "HalfOpen" -> pack("Open", at, 0, 0)

\* An open circuit ignores outcomes.
RecordLoad(r) == LET w == Breaker(r) IN
  /\ task[r].pc = "record"
  /\ IF w.state = "Open"
     THEN Goto(r, "release")
     ELSE Loaded(r, "swap", w, now, 0)
  /\ UNCHANGED <<now, cb, cl, cur, lost>>

RecordCas(r) ==
  /\ task[r].pc = "swap"
  /\ IF Breaker(r) = task[r].seen
     THEN /\ cb' = [cb EXCEPT ![task[r].on.cb] = Outcome(@, task[r].ok, task[r].at)]
          /\ Goto(r, "release")
     ELSE Goto(r, "record") /\ UNCHANGED cb
  /\ UNCHANGED <<now, cl, cur, lost>>

----------------------------------------------------------------------------
\* build_cb_cl_maps_from_proto after an edit of one policy: a fresh instance
\* of its guard in the next snapshot, the other guard kept.
ReloadBreaker ==
  /\ cur.cb < MaxReloads
  /\ cur' = [cb |-> cur.cb + 1, cl |-> cur.cl]
  /\ UNCHANGED <<now, cb, cl, task, lost>>

ReloadLimiter ==
  /\ cur.cl < MaxReloads
  /\ cur' = [cb |-> cur.cb, cl |-> cur.cl + 1]
  /\ UNCHANGED <<now, cb, cl, task, lost>>

Tick ==
  /\ now < MaxNow
  /\ now' = now + 1
  /\ UNCHANGED <<cb, cl, cur, task, lost>>

Step(r) ==
  \/ AllowLoad(r) \/ AllowCas(r) \/ AcquireLoad(r) \/ AcquireCas(r)
  \/ RecordLoad(r) \/ RecordCas(r) \/ ReleaseLoad(r) \/ ReleaseCas(r)

Next ==
  \/ \E r \in Requests : Step(r) \/ Arrive(r) \/ Refuse(r) \/ Cancel(r)
  \/ \E r \in Requests, ok \in BOOLEAN : Respond(r, ok)
  \/ ReloadBreaker \/ ReloadLimiter \/ Tick

\* A swap whose word or count is still the one that was loaded.
Swap(r) ==
  /\ task[r].pc \in {"probe", "swap"} => Breaker(r) = task[r].seen
  /\ task[r].pc \in {"acquire", "giveback"} => Active(r) = task[r].held
  /\ AllowCas(r) \/ AcquireCas(r) \/ RecordCas(r) \/ ReleaseCas(r)

\* A request's task is polled, the backend answers or its connection fails in
\* the end, and no request loses the race of a swap for ever; nobody has to
\* send a request.
Fairness == \A r \in Requests :
  WF_vars(Step(r)) /\ WF_vars(\E ok \in BOOLEAN : Respond(r, ok)) /\ SF_vars(Swap(r))

Spec == Init /\ [][Next]_vars /\ Fairness

----------------------------------------------------------------------------
(* Properties *)

\* Requests that hold a slot of limiter i.
Holding == {"forward", "record", "swap", "release", "giveback"}
Holders(i) == {r \in Requests : task[r].pc \in Holding /\ task[r].on.cl = i}

\* No limiter ever lets more than max requests through at once, whatever
\* swaps race, requests are refused or abandoned on the way.
CapHolds == \A i \in Ids : Cardinality(Holders(i)) <= MaxConn

\* The count of a limiter is what its holders took, and what refused and
\* abandoned requests took with them: no race of swaps loses or invents a slot.
SlotsReturned == \A i \in Ids : cl[i] = Cardinality(Holders(i)) + lost.slots[i]

\* An open circuit is left only by a probe, and not before its timeout: a
\* swap prepared on an older word never cuts a new open period short.
OpenWaits ==
  [][\A i \in Ids : cb[i].state = "Open" /\ cb'[i].state # "Open"
       => cb'[i].state = "HalfOpen" /\ now - cb[i].ts >= Timeout]_vars

\* A half-open circuit is decided, it closes or opens again, unless its probe
\* was refused or abandoned.  With SuccessThreshold > 1 it is not: the probe is
\* the only request that passes, so a second success never comes.
ProbeSettles == \A i \in Ids :
  cb[i].state = "HalfOpen" ~> cb[i].state # "HalfOpen" \/ i \in lost.probes
=============================================================================
