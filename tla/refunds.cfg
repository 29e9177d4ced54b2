SPECIFICATION RefundSpec
CONSTANTS
    Payments = {p1}
    Workers = {w1}
    Reconcilers = {}
    MaxRetries = 1
    Scenarios = {"success"}
    MaxFaults <- EveryFault
    Refunds = {r1, r2}
    RefundWorkers = {v1, v2}
    Modes = {"success", "declined"}
    Price = 2
    Nil = Nil
INVARIANTS
    RefundTypeOK
    RefundsWithinPayment
    RefundsBacked
    RefundedInFull
    RefundHistory
    BooksAgree
PROPERTIES
    RefundIsFinal
    ImplementsReserve
SYMMETRY Symmetry
CONSTRAINT TwoFaults
CHECK_DEADLOCK FALSE
