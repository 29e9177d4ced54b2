SPECIFICATION Spec
CONSTANTS
    Payments = {p1}
    Workers = {w1, w2}
    Reconcilers = {r1}
    MaxRetries = 1
    Scenarios <- DistinctScenarios
    MaxFaults <- EveryFault
    Nil = Nil
SYMMETRY WorkerSymmetry
CONSTRAINT TwoFaults
INVARIANTS
    TypeOK
    LedgerConsistent
    OutboxComplete
    FinalStatusBacked
    Backing
    SingleFlight
    OneAtATime
    RetriesAccounted
    NoOrphans
    Owned
PROPERTIES
    SucceededIsFinal
    FailedIsFinal
    ImplementsLifecycle
CHECK_DEADLOCK FALSE
