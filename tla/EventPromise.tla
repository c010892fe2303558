---------------------------- MODULE EventPromise ----------------------------
(* What the ledger promises the receiver of its webhook, whatever crashes    *)
(* (portus-ledger/src/events.rs, module comment): an event that was accepted *)
(* is in the outbox until the receiver has it or every attempt was refused;  *)
(* it may be received more than once, always under the same id, and a new    *)
(* event never takes an id that was used.                                    *)
EXTENDS Integers, FiniteSets

CONSTANTS
  Ids,       \* 1 .. n: ids events may get
  Attempts   \* deliveries before an event is given up

VARIABLES
  last,      \* the highest id used
  open,      \* ids in the outbox
  seen,      \* ids the receiver has got, once or more
  refused,   \* [open -> Nat] attempts that failed
  gone       \* ids given up

vars == <<last, open, seen, refused, gone>>

Init == last = 0 /\ open = {} /\ seen = {} /\ gone = {} /\ refused = [i \in Ids |-> 0]

\* New events, under ids nobody used.
Accept(n) ==
  /\ last + n \in Ids
  /\ last' = last + n /\ open' = open \cup (last + 1 .. last + n)
  /\ UNCHANGED <<seen, refused, gone>>

Receive(i) == i \in open /\ seen' = seen \cup {i} /\ UNCHANGED <<last, open, refused, gone>>

Refuse(i) ==
  /\ i \in open /\ refused[i] + 1 < Attempts
  /\ refused' = [refused EXCEPT ![i] = @ + 1]
  /\ UNCHANGED <<last, open, seen, gone>>

\* It leaves the outbox: received, or refused for the last time.
Close(i) ==
  /\ i \in open /\ UNCHANGED last /\ open' = open \ {i} /\ refused' = [refused EXCEPT ![i] = 0]
  /\ \/ i \in seen /\ UNCHANGED <<seen, gone>>
     \/ refused[i] + 1 >= Attempts /\ gone' = gone \cup {i} /\ UNCHANGED seen

Next == \/ \E n \in Ids : Accept(n)
        \/ \E i \in Ids : Receive(i) \/ Refuse(i) \/ Close(i)

Spec == Init /\ [][Next]_vars
=============================================================================
