------------------------ MODULE MCPaymentProcessing ------------------------
(* Fault budgets, scenario sets and symmetry for checking PaymentProcessing *)
(* with TLC.                                                                *)
EXTENDS PaymentInvariants, FiniteSets, TLC

(* Bound: each kind of fault strikes at most once. *)
NoFaults == [k \in FaultKinds |-> 0]
EveryFault == [k \in FaultKinds |-> 1]

(* Bounds: how many faults strike in one behaviour, the network's aside in  *)
(* the first.  Fairness owes no fault, so cutting off the states after one  *)
(* more leaves liveness sound.                                              *)
Struck == {k \in FaultKinds : faults[k] > 0}
OneFaultAndNetwork == Cardinality(Struck \ {"network"}) <= 1
TwoFaults == Cardinality(Struck) <= 2

EveryScenario == AllScenarios

(* One scenario of each behaviour: delayed_success differs from timeout     *)
(* only in how long the provider sleeps, server_error in never waking up,   *)
(* delayed_webhook and lost_webhook in how many deliveries are attempted.   *)
DistinctScenarios == {"success", "declined", "timeout", "duplicate_webhook"}

TimeoutScenario == {"timeout"}

WorkerSymmetry == Permutations(Workers)
=============================================================================
