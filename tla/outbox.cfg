SPECIFICATION FairSpec
CONSTANTS
    NumEvents = 3
    Publishers = {w1, w2}
    BatchSize = 2
    MaxExponent = 1
    MaxFailures = 2
    MaxAborts = 1
INVARIANTS
    TypeOK
    MarkedAfterSent
    DuplicatesAccounted
    RowsHeldOnce
PROPERTIES
    EventuallyPublished
CHECK_DEADLOCK FALSE
