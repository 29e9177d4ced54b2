SPECIFICATION RefundSpec
CONSTANTS
    Payments = {p1}
    Workers = {w1}
    Reconcilers = {}
    MaxRetries = 1
    Scenarios = {"success"}
    MaxFaults <- NoFaults
    Refunds = {r1}
    RefundWorkers = {v1}
    Modes = {"declined"}
    Price = 2
    Nil = Nil
INVARIANTS
    LedgerConsistent
CHECK_DEADLOCK FALSE
