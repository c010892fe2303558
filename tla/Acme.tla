-------------------------------- MODULE Acme --------------------------------
(* The ACME client of standalone mode (standalone/acme.rs) and the challenge *)
(* tables it fills (acme_challenge.rs): one order at a time, a retry delay   *)
(* per domain, certificates kept in the cache on disk.                       *)
(*                                                                           *)
(* A tick of its clock is RETRY_FIRST, five minutes.  A certificate's        *)
(* renewal falls due at some time; the CA accepts or refuses.                *)
EXTENDS Integers, FiniteSets, FiniteSetsExt, Sequences

CONSTANTS
  Domains,
  RetryMax,      \* RETRY_MAX, in ticks
  Window,        \* the hour of the CA's limit, in ticks
  MaxFailed,     \* failed validations the CA allows in it
  MaxSerial      \* bound: certificates issued

ASSUME AcmeAssumption == IsFiniteSet(Domains) /\ {RetryMax, Window, MaxFailed, MaxSerial} \subseteq Nat

VARIABLES
  plan,         \* what Manager::update sent: the domains
  unseen,       \* the watch channel holds a plan the client has not seen
  client,       \* the client's task: todo, the order under way and its stage
  retry,        \* retry[d]: ticks left and the delay they were part of
  cache,        \* cache[d]: the certificate on disk
  due,          \* domains whose certificate is due for renewal
  challenges,   \* domains with a response in the HTTP-01 or TLS-ALPN-01 table
  failed,       \* history: failed[d], the ages of the failed orders
  serial        \* the last certificate issued

acmeVars == <<plan, unseen, client, retry, cache, due, challenges, failed, serial>>

NoRetry == [left |-> 0, delay |-> 0]
NoPem == [id |-> 0, loads |-> FALSE]
Sleeping == [pc |-> "sleep", todo |-> {}, domain |-> {}]

AcmeInit ==
  /\ plan = {} /\ unseen = FALSE /\ client = Sleeping
  /\ retry = [d \in Domains |-> NoRetry]
  /\ cache = [d \in Domains |-> NoPem]
  /\ due = {} /\ challenges = {}
  /\ failed = [d \in Domains |-> {}]
  /\ serial = 0

AcmeTypeOK ==
  /\ plan \subseteq Domains /\ unseen \in BOOLEAN
  /\ client.pc \in {"sleep", "pass", "order", "answer", "ready", "validate", "finalize", "save"}
  /\ client.todo \subseteq Domains /\ Cardinality(client.domain) <= 1
  /\ retry \in [Domains -> [left : 0 .. RetryMax, delay : 0 .. RetryMax]]
  /\ due \subseteq Domains /\ challenges \subseteq Domains

\* Manager::update, with the plan of the config just applied.
update(domains) ==
  /\ plan' = domains
  /\ unseen' = (unseen \/ domains # plan)
  /\ UNCHANGED <<client, retry, cache, due, challenges, failed, serial>>

----------------------------------------------------------------------------
(* manage *)

Wants(d) == (cache[d] = NoPem \/ d \in due) /\ retry[d].left = 0

\* The sleep ends with a new plan, or when a domain of the plan is due.
Begin ==
  /\ client.pc = "sleep"
  /\ unseen \/ \E d \in plan : Wants(d)
  /\ client' = [pc |-> "pass", todo |-> plan, domain |-> {}]
  /\ unseen' = FALSE
  /\ retry' = [d \in Domains |-> IF d \in plan THEN retry[d] ELSE NoRetry]
  /\ failed' = [d \in Domains |-> IF d \in plan THEN failed[d] ELSE {}]
  /\ UNCHANGED <<plan, cache, due, challenges, serial>>

\* The next domain of the pass; the plan is the one the pass began with.
Consider ==
  /\ client.pc = "pass"
  /\ IF client.todo = {} THEN client' = Sleeping
     ELSE \E d \in client.todo :
            client' = [pc |-> IF Wants(d) THEN "order" ELSE "pass", todo |-> client.todo \ {d},
                       domain |-> IF Wants(d) THEN {d} ELSE {}]
  /\ UNCHANGED <<plan, unseen, retry, cache, due, challenges, failed, serial>>

Min2(a, b) == IF a < b THEN a ELSE b

\* Mutant: the delay stays what it was.
SameDelay(delay) == 1

\* RETRY_FIRST, doubled per failure up to RETRY_MAX
NextDelay(delay) == IF delay = 0 THEN 1 ELSE Min2(2 * delay, RetryMax)

\* issue_one returns an error at any stage: the order's responses are removed
\* and the domain waits.
Fail ==
  /\ client.pc \in {"order", "answer", "ready", "validate", "finalize", "save"}
  /\ \E d \in client.domain :
       /\ retry' = [retry EXCEPT ![d] = [left |-> NextDelay(@.delay), delay |-> NextDelay(@.delay)]]
       /\ failed' = [failed EXCEPT ![d] = @ \cup {0}]
  /\ challenges' = challenges \ client.domain
  /\ client' = [client EXCEPT !.pc = "pass", !.domain = {}]
  /\ UNCHANGED <<plan, unseen, cache, due, serial>>

To(pc) ==
  /\ client' = [client EXCEPT !.pc = pc]
  /\ UNCHANGED <<plan, unseen, retry, cache, due, failed, serial>>

\* The account and a new order, whose authorization may be valid still.
Order(valid) == client.pc = "order" /\ To(IF valid THEN "finalize" ELSE "answer") /\ UNCHANGED challenges

\* Mutant: the CA is told before the response is there.
AnswerLate == client.pc = "answer" /\ To("validate") /\ UNCHANGED challenges

\* set_http01 or set_tls_alpn01
Answer == client.pc = "answer" /\ To("ready") /\ challenges' = challenges \cup client.domain

\* set_ready: from here on the CA asks for the response.
SetReady == client.pc = "ready" /\ To("validate") /\ UNCHANGED challenges

\* poll_ready: the CA got the response.
CaValidated ==
  /\ client.pc = "validate" /\ client.domain \subseteq challenges
  /\ To("finalize") /\ challenges' = challenges \ client.domain

\* finalize_csr and poll_certificate
Finalize == client.pc = "finalize" /\ To("save") /\ UNCHANGED challenges

\* Store::save, a rename; issued() is the composition's part.
Save ==
  /\ client.pc = "save" /\ serial < MaxSerial
  /\ serial' = serial + 1
  /\ cache' = [d \in Domains |-> IF d \in client.domain THEN [id |-> 100 + serial', loads |-> TRUE] ELSE cache[d]]
  /\ retry' = [d \in Domains |-> IF d \in client.domain THEN NoRetry ELSE retry[d]]
  /\ failed' = [d \in Domains |-> IF d \in client.domain THEN {} ELSE failed[d]]
  /\ due' = due \ client.domain
  /\ client' = [client EXCEPT !.pc = "pass", !.domain = {}]
  /\ UNCHANGED <<plan, unseen, challenges>>

----------------------------------------------------------------------------
\* Five minutes pass.
AcmeTick ==
  /\ client.pc = "sleep"
  /\ \E d \in Domains : retry[d].left > 0
  /\ retry' = [d \in Domains |-> [retry[d] EXCEPT !.left = IF @ = 0 THEN 0 ELSE @ - 1]]
  /\ failed' = [d \in Domains |-> {age + 1 : age \in failed[d]} \cap 0 .. Window - 1]
  /\ UNCHANGED <<plan, unseen, client, cache, due, challenges, serial>>

\* Two thirds of a certificate's lifetime are over.
FallDue(d) ==
  /\ cache[d] # NoPem /\ d \notin due /\ serial < MaxSerial
  /\ due' = due \cup {d}
  /\ UNCHANGED <<plan, unseen, client, retry, cache, challenges, failed, serial>>
=============================================================================
