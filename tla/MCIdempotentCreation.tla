------------------------ MODULE MCIdempotentCreation ------------------------
(* Failure sets and symmetry for checking IdempotentCreation with TLC.     *)
EXTENDS IdempotentCreation, TLC

AllFailures == FailureKinds

RequestSymmetry == Permutations(Requests)
=============================================================================
