---------------------------- MODULE MCIntServer ------------------------------
(* Instances of IntServer for TLC: who may command what, where the pins     *)
(* start, and what a disturbance takes of the budget.                       *)
EXTENDS IntServer

CONSTANTS p1, v0

\* Commands for one of the pins.
FirstPin == Mac \X {p1} \X Val

\* Of these the ones that raise it: it starts low, so that each of them shows.
Raise == Mac \X {p1} \X (Val \ {v0})

LowStart == {[m \in Mac |-> [p \in Pin |-> v0]]}

\* Every disturbance costs the same.
OneEach == [kind \in Kinds |-> 1]

\* Either commands and their timeouts, or one other disturbance.
Commands == [kind \in Kinds |-> IF kind \in {"command", "timeout"} THEN 1 ELSE Budget]
=============================================================================
