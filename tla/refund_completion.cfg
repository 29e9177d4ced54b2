SPECIFICATION FairRefundSpec
CONSTANTS
    Payments = {p1}
    Workers = {w1}
    Reconcilers = {}
    MaxRetries = 1
    Scenarios = {"success"}
    MaxFaults <- CrashFaults
    Refunds = {r1}
    RefundWorkers = {v1}
    Modes = {"success"}
    Price = 2
    Nil = Nil
PROPERTIES
    CompleteRefundsRefund
CHECK_DEADLOCK FALSE
