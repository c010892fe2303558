------------------------------ MODULE MCLedger ------------------------------
(* Instances of Ledger for TLC: one scenario per question, each with the     *)
(* requests made, the syncs, the policy changes and the faults it allows.    *)
EXTENDS Ledger

CONSTANTS stream, json, plain, refused, denied, mute

U(i, o, r, c) == [input |-> i, output |-> o, cache_read |-> r, cache_creation |-> c]
Start == Line("start", U(4, 1, 2, None))
Delta == Line("delta", U(None, 3, None, None))

MCKind == [r \in Requests |->
  CASE r = refused -> "budget_exhausted" [] r = denied -> "tool_not_allowed" [] r = mute -> "unauthenticated" [] OTHER -> ""]
MCDialect == [r \in Requests |-> IF r = json THEN "openai" ELSE "anthropic"]
MCStreaming == [r \in Requests |-> r = stream]
MCBody == [r \in Requests |->
  CASE r = stream -> <<Part, Start, Newline, Part, Part, Line("other", None), Newline, Delta, Newline>>
    [] r = json -> <<Part, Line("object", U(4, 2, 5, None)), Part>>
    [] OTHER -> <<>>]
MCColumns == {[r \in Requests |-> r], [r \in Requests |-> MCKind[r] = ""]}

On == [webhook |-> TRUE, thresholds |-> {50, 100}, refusals |-> {"budget_exhausted", "tool_not_allowed"}]
Other == [webhook |-> TRUE, thresholds |-> {75, 100}, refusals |-> {"budget_exhausted", "tool_not_allowed"}]
Off == [webhook |-> FALSE, thresholds |-> {}, refusals |-> {}]

Quiet == [requests |-> {}, configs |-> {Off}, held |-> 0, changes |-> 0, syncs |-> 0,
          deltas |-> {}, shapes |-> {}, crashes |-> 0, faults |-> 0, reads |-> FALSE,
          declares |-> FALSE, builds |-> TRUE]

\* The shapes of a response, alone.
Streams == [Quiet EXCEPT !.requests = {stream}]
Bodies == [Quiet EXCEPT !.requests = {json}]
\* Records on their way while the ledger crashes and refuses.
Shipping == [Quiet EXCEPT !.requests = {plain, refused, mute}, !.crashes = 1, !.faults = 1]
\* The export read while batches are stored, some twice.
Reading == [Quiet EXCEPT !.requests = {refused, mute}, !.crashes = 1, !.faults = 1, !.reads = TRUE]
\* A refusal announced, two in one batch or in two, with a crash and a fault anywhere.
Refusals == [Quiet EXCEPT !.requests = {refused, denied}, !.configs = {On}, !.crashes = 1,
                          !.faults = 1, !.builds = FALSE]
\* Two events of one sync, delivered in spite of a crash and a fault.
Deliveries == [Quiet EXCEPT !.configs = {On}, !.syncs = 1, !.deltas = {2}, !.shapes = {2},
                            !.crashes = 1, !.faults = 1]
\* Events behind one that fails, and a webhook taken away.
Behind == [Quiet EXCEPT !.configs = {On, Off}, !.syncs = 2, !.deltas = {1}, !.shapes = {2}, !.crashes = 1]
\* Thresholds under moving limits, windows and configurations.
Thresholds == [Quiet EXCEPT !.configs = {On}, !.syncs = 3, !.deltas = {1, 2}, !.shapes = {0, 2, 4},
                            !.builds = FALSE]
Reconfigured == [Quiet EXCEPT !.configs = {On, Other}, !.syncs = 3, !.deltas = {1, 2}, !.shapes = {0, 4},
                              !.crashes = 1, !.builds = FALSE]
\* Policies declared.
Declared == [Quiet EXCEPT !.held = 2, !.changes = 2, !.crashes = 1, !.faults = 1, !.declares = TRUE]

MCScenarios == {Streams, Bodies, Shipping, Reading, Refusals, Deliveries, Behind, Thresholds, Reconfigured, Declared}
=============================================================================
