SPECIFICATION Spec
CONSTANTS
    Requests = {q1, q2}
    Limit = 2
    LastWindow = 1
INVARIANTS
    RefusedBeyondLimit
CHECK_DEADLOCK FALSE
