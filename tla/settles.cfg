SPECIFICATION FairSpec
CONSTANTS
    Payments = {p1}
    Workers = {w1, w2}
    Reconcilers = {r1}
    MaxRetries = 1
    Scenarios <- EveryScenario
    MaxFaults <- EveryFault
    Nil = Nil
CONSTRAINT OneFaultAndNetwork
PROPERTIES
    Settles
    AwaitedPaymentsSettle
    ConfirmedPaymentsSucceed
CHECK_DEADLOCK FALSE
