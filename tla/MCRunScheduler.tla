--------------------------- MODULE MCRunScheduler ---------------------------
(* A board (complete scope) that owns four postings and still lists two,     *)
(* alone, or behind one host with an aggregator (partial scope) that mirrors *)
(* a posting the board has dropped.                                          *)
EXTENDS RunScheduler, TLC

CONSTANTS board, mirror, p1, p2, p3, p4, globalGate, hostGate

PlanAlone == <<board>>
PlanBoth == <<board, mirror>>

MCInventory == [s \in Sources |-> IF s = board THEN <<p1, p2>> ELSE <<p3>>]
MCOwned == [s \in Sources |-> IF s = board THEN {p1, p2, p3, p4} ELSE {}]
MCGateSeq == [s \in Sources |-> <<globalGate, hostGate>>]
MCLimit == (globalGate :> 2) @@ (hostGate :> 1)

\* The bound of a resume: once the run has been resumed it is cancelled, or a drain or a
\* close gives up in one of its lives, not both.
ResumeBound == lives = MaxLives => ~(gaveUp /\ cancelled)
=============================================================================
