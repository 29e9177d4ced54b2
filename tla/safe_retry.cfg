SPECIFICATION Spec
CONSTANTS
    Payments = {p1}
    Workers = {w1, w2}
    Reconcilers = {r1}
    MaxRetries = 1
    Scenarios <- EveryScenario
    MaxFaults <- NoFaults
    Nil = Nil
INVARIANTS
    AtMostOnePaidCharge
CHECK_DEADLOCK FALSE
