SPECIFICATION Spec
CONSTANTS
    None = None
    Action = {refund, credit, wire}
    credit = credit
    refund = refund
    wire = wire
    MaxConfidence = 1
    Prefix <- MCPrefix
    StartsWith <- MCStartsWith
    Rules <- MCRules
    Tool = {refund_tool}
    refund_tool = refund_tool
    alice = alice
    small = small
    unpriced = unpriced
    Params <- MCParams
    Amount <- MCAmount
    LimitId = {budget}
    budget = budget
    InitialScopes <- MCInitialScopes
    InitialLimits <- MCInitialLimits
    ScopeChoices <- NoChoices
    Call = {c1, c2, c3}
    CheckpointId = {c1, c2, c3}
    Approver = {human}
    BoundParams <- MCBoundParams
    Ttl <- MCTtl
    MaxTime = 1
    Request <- ApprovalRequests
    ApprovedCeiling = 2
    HasAuthorityCheck = FALSE
    Operator = {}
    MaxFailures = 0
SYMMETRY CallSymmetry
INVARIANTS
    TypeOK
    ActsOnlyAsApproved
    ApprovalSpentOnce
    DenialExplained
    NothingAboveTheCeiling
PROPERTIES
    ImplementsApprovalTickets
CHECK_DEADLOCK FALSE
