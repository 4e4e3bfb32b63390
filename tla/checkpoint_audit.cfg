SPECIFICATION FairSpec
CONSTANTS
    None = None
    Action = {refund}
    CheckpointId = {k1, k2}
    Thread = {t1, t2, t3}
    Approver = {t1, t2}
    Sweeper = t3
    BoundParams = {pay_alice}
    Ttl <- MCTtl
    MaxTime = 2
    MaxFailures = 1
INVARIANTS
    TypeOK
    OneResolutionOnRecord
    LogTellsTheStore
    OnlyApprovalsAreSpent
PROPERTIES
    ResolutionIsFinal
    NothingPendingForever
CHECK_DEADLOCK FALSE
