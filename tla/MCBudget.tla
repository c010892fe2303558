----------------------------- MODULE MCBudget -----------------------------
(* Instances of Budget for TLC. *)
EXTENDS Budget, TLC

CONSTANTS main, over, p1, r1

MCLimit == [s \in Subjects |-> 2]
OneOverflow == [s \in Subjects |-> IF s = main THEN over ELSE NoSubject]

\* Requests and pods are interchangeable, so r1 may be the one p1 serves.
\* (A SYMMETRY would be unsound for the liveness property.)
MCInit == Init /\ req[r1].pod = p1
MCSpec == MCInit /\ [][Next]_vars /\ Fairness
=============================================================================
