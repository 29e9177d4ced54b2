SPECIFICATION FairRefundSpec
CONSTANTS
    Payments = {p1}
    Workers = {w1}
    Reconcilers = {}
    MaxRetries = 1
    Scenarios = {"success"}
    MaxFaults <- EveryFault
    Refunds = {r1}
    RefundWorkers = {v1, v2}
    Modes <- EveryMode
    Price = 1
    Nil = Nil
PROPERTIES
    RefundsSettle
    PendingPaymentsReturn
CONSTRAINT OneFault
CHECK_DEADLOCK FALSE
