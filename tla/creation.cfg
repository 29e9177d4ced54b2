SPECIFICATION Spec
CONSTANTS
    Requests = {q1, q2, q3}
    Keys = {k1, k2}
    Contents = {a, b}
    Spellings = {"upper", "lower"}
    Failures <- AllFailures
    Nil = Nil
SYMMETRY RequestSymmetry
INVARIANTS
    TypeOK
    OnePaymentPerKey
    HandedOverOnce
    ReplayFaithful
    ExactlyOneNew
    AcceptedIsHandedOver
    Bookkeeping
PROPERTIES
    LockRespected
    ImplementsContract
CHECK_DEADLOCK FALSE
