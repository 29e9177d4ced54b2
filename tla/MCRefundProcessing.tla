------------------------- MODULE MCRefundProcessing -------------------------
(* Fault budgets and symmetry for checking RefundProcessing with TLC.      *)
EXTENDS RefundProcessing, TLC

(* Bound: each kind of fault in `kinds` strikes at most n times. *)
Budget(n, kinds) == [k \in FaultKinds |-> IF k \in kinds THEN n ELSE 0]

NoFaults == Budget(0, {})
EveryFault == Budget(1, FaultKinds)
CrashFaults == Budget(1, {"crash"})

(* Bounds: how many faults strike in one behaviour.  Fairness owes no      *)
(* fault, so cutting off the states after one more leaves liveness sound.  *)
Struck == {k \in FaultKinds : faults[k] > 0}
OneFault == Cardinality(Struck) <= 1
TwoFaults == Cardinality(Struck) <= 2

EveryMode == AllModes

Symmetry == Permutations(Refunds) \cup Permutations(RefundWorkers)
=============================================================================
