SPECIFICATION FairSpec
CONSTANTS
    Payments = {p1}
    Workers = {w1, w2}
    Reconcilers = {r1}
    MaxRetries = 1
    Scenarios <- TimeoutScenario
    MaxFaults <- NoFaults
    Nil = Nil
PROPERTIES
    PaidPaymentsSucceed
CHECK_DEADLOCK FALSE
