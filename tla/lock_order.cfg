SPECIFICATION FairSpec
CONSTANTS
    None = None
    Thread = {t1, t2, t3}
    Callback = {"entries", "look", "get"}
    MaxCalls = 3
    MaxFailures = 1
INVARIANTS
    TypeOK
    LocksInOrder
    ReadersSeeTheRecord
PROPERTIES
    EveryCallReturns
CHECK_DEADLOCK FALSE
