----------------------------- MODULE LedgerStore -----------------------------
(* The ledger's SQLite store: usage rows, spend counters, declared policies  *)
(* and the event outbox (portus-ledger/src/store.rs, budget.rs, events.rs).  *)
(* Each operator is one operation of the storage thread, a transaction from  *)
(* one database to the next.                                                 *)
(*                                                                           *)
(* A usage row's id is its place in the table: nothing deletes rows.  The    *)
(* outbox is a function from the ids in it, AUTOINCREMENT from nextId, to    *)
(* their rows.  Times are ticks still to wait (outbox), minutes of age       *)
(* (policies) and the index of the window (spend).                           *)
EXTENDS Integers, Sequences, FiniteSets, FiniteSetsExt, SequencesExt, TLC

CONSTANTS
  Kind,         \* [request -> refusal kind, or "" for one that was forwarded]
  MAX_ATTEMPTS, \* deliveries before an event is dropped
  MaxBackoff,   \* longest wait between two deliveries, in ticks
  POLICY_FRESH  \* minutes a policy stays listed without being declared

ASSUME StoreAssumption == {MAX_ATTEMPTS, MaxBackoff, POLICY_FRESH} \subseteq Nat

EmptyDb == [rows |-> <<>>, spend |-> <<>>, policies |-> <<>>, outbox |-> <<>>, nextId |-> 1]

\* A row written under its key.
Put(table, key, row) == [k \in DOMAIN table \cup {key} |-> IF k = key THEN row ELSE table[k]]

\* The elements of a set of numbers, smallest first (ORDER BY id, the ascending
\* thresholds, the records of a batch in their order).
Ascending(S) ==
  [n \in 1 .. Cardinality(S) |-> CHOOSE i \in S : Cardinality({j \in S : j < i}) = n - 1]

(* The outbox. *)

RefusalEvent(row) == [type |-> "refusal", row |-> row]
ThresholdEvent(subject, window, pct) ==
  [type |-> "threshold", subject |-> subject, window |-> window, pct |-> pct]

\* events::enqueue, for each event: due at once, no attempt made.
enqueue(db, events) ==
  [db EXCEPT !.outbox = [id \in DOMAIN @ \cup (db.nextId .. db.nextId + Len(events) - 1) |->
                 IF id < db.nextId THEN @[id]
                 ELSE [event |-> events[id - db.nextId + 1], attempts |-> 0, wait |-> 0]],
             !.nextId = @ + Len(events)]

\* events::due: the ids that need not wait, oldest first, with their attempts.
due(db, limit) ==
  LET ready == {id \in DOMAIN db.outbox : db.outbox[id].wait = 0}
      order == Ascending(ready)
  IN [n \in 1 .. Min({limit, Cardinality(ready)}) |->
       [id |-> order[n], attempts |-> db.outbox[order[n]].attempts]]

Without(outbox, id) == [i \in DOMAIN outbox \ {id} |-> outbox[i]]

\* events::delivered
delivered(db, id) == [db EXCEPT !.outbox = Without(@, id)]

\* events::backoff_secs: 2, 4, 8 ... capped.
backoff_secs(attempts) == Min({2 ^ attempts, MaxBackoff})

\* events::failed: try again later, or drop the event.  `attempts` is what the
\* delivery task read with the event.
Drops(attempts) == attempts + 1 >= MAX_ATTEMPTS

\* The failed delivery is not written back: the event is due again at once.
failedUncounted(db, id, attempts) ==
  IF Drops(attempts) THEN [db EXCEPT !.outbox = Without(@, id)] ELSE db

failed(db, id, attempts) ==
  IF Drops(attempts) THEN [db EXCEPT !.outbox = Without(@, id)]
  ELSE [db EXCEPT !.outbox =
          [i \in DOMAIN @ |-> IF i = id
             THEN [@[i] EXCEPT !.attempts = attempts + 1, !.wait = backoff_secs(attempts + 1)]
             ELSE @[i]]]

(* Usage rows. *)

\* Only the first refusal of a batch becomes an event.
insertFirst(db, records, config) ==
  LET ids == {i \in 1 .. Len(records) : Kind[records[i].req] \in config.refusals}
  IN enqueue([db EXCEPT !.rows = @ \o records],
             IF ids = {} THEN <<>> ELSE <<RefusalEvent(Len(db.rows) + Min(ids))>>)

\* Store::insert_batch: the rows, and the events of the refusals among them
\* that are configured to become events.
insert_batch(db, records, config) ==
  LET stored == [db EXCEPT !.rows = @ \o records]
      ids == {i \in 1 .. Len(records) : Kind[records[i].req] \in config.refusals}
      order == Ascending(ids)
  IN enqueue(stored, [k \in DOMAIN order |-> RefusalEvent(Len(db.rows) + order[k])])

\* Store::export with after_id: the rows stored after that one, and the cursor
\* for the next page (the handler in main.rs).
export(db, after, limit) == SubSeq(db.rows, after + 1, Min({after + limit, Len(db.rows)}))
\* The cursor starts the next page one row late.
NextAfterSkipping(db, after, limit) ==
  after + Len(export(db, after, limit)) + (IF export(db, after, limit) = <<>> THEN 0 ELSE 1)

NextAfter(db, after, limit) == after + Len(export(db, after, limit))

\* Store::summary: totals per group; `column` names a request's group.
CountRows(rows, Test(_)) == Cardinality({i \in DOMAIN rows : Test(rows[i])})
summary(rows, column) ==
  [g \in {column[rows[i].req] : i \in DOMAIN rows} |->
    [requests |-> CountRows(rows, LAMBDA r : column[r.req] = g /\ Kind[r.req] = ""),
     refusals |-> CountRows(rows, LAMBDA r : column[r.req] = g /\ Kind[r.req] # "")]]

(* Spend. *)

SpendRow(db, subject, window) ==
  IF <<subject, window>> \in DOMAIN db.spend THEN db.spend[<<subject, window>>]
  ELSE [spent |-> 0, limit |-> 0, alerted |-> 0]

\* upsert_policy: the policy as last told, told just now.
upsert_policy(db, policy, limit) ==
  [db EXCEPT !.policies = Put(@, policy, [limit |-> limit, age |-> 0])]

\* Announced again whenever it is exceeded.
CrossedAgain(row, thresholds) ==
  {t \in thresholds : row.limit > 0 /\ (row.spent * 100) \div row.limit >= t}

\* A total that meets a threshold exactly does not cross it.
CrossedBeyond(row, thresholds) ==
  {t \in thresholds : row.limit > 0 /\ t > row.alerted /\ (row.spent * 100) \div row.limit > t}

\* The thresholds a row's total has crossed for the first time in its window.
Crossed(row, thresholds) ==
  {t \in thresholds : row.limit > 0 /\ t > row.alerted /\ (row.spent * 100) \div row.limit >= t}

\* Store::sync_spend over budget::sync_alerting: add the delta, keep the limit
\* told last (0 when the data plane sent no shape), note the highest threshold
\* announced and queue an event for each one crossed.
sync_spend(db, policy, subject, window, delta, limit, config) ==
  LET old == SpendRow(db, subject, window)
      row == [old EXCEPT !.spent = @ + delta, !.limit = IF limit > 0 THEN limit ELSE @]
      crossed == Ascending(Crossed(row, config.thresholds))
      after == [row EXCEPT !.alerted = IF crossed = <<>> THEN @ ELSE crossed[Len(crossed)]]
      told == IF limit > 0 THEN upsert_policy(db, policy, limit) ELSE db
  IN enqueue([told EXCEPT !.spend = Put(@, <<subject, window>>, after)],
             [k \in DOMAIN crossed |-> ThresholdEvent(subject, window, crossed[k])])

\* budget::prune: windows that ended before now.
prune(db, now) ==
  [db EXCEPT !.spend = [k \in {d \in DOMAIN @ : d[2] >= now} |-> @[k]]]

(* Policies. *)

\* budget::declare: only a policy with a limit is listed.
declare(db, policies) ==
  [db EXCEPT !.policies = [p \in {q \in DOMAIN policies : policies[q] > 0} |->
                             [limit |-> policies[p], age |-> 0]] @@ @]

\* budget::limits: the policies told recently, with the window's spend.
limits(db, window) ==
  [p \in {q \in DOMAIN db.policies : db.policies[q].age <= POLICY_FRESH} |->
    [limit |-> db.policies[p].limit,
     subjects |-> [s \in {k[1] : k \in {d \in DOMAIN db.spend : d[2] = window}} |->
       LET row == db.spend[<<s, window>>]
           held == IF row.limit > 0 THEN row.limit ELSE db.policies[p].limit
       IN [limit |-> held, spent |-> row.spent, remaining |-> held - row.spent]]]]

(* Time. *)
Aged(db) == [db EXCEPT !.policies = [p \in DOMAIN @ |->
               [limit |-> @[p].limit, age |-> Min({@[p].age + 1, POLICY_FRESH + 1})]]]
Waited(db) == [db EXCEPT !.outbox = [i \in DOMAIN @ |->
                 [@[i] EXCEPT !.wait = IF db.outbox[i].wait > 0 THEN db.outbox[i].wait - 1 ELSE 0]]]
=============================================================================
