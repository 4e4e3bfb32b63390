SPECIFICATION Spec
CONSTANTS
    None = None
    Action = {refund, credit, wire}
    credit = credit
    refund = refund
    wire = wire
    MaxConfidence = 1
    Prefix <- MCPrefix
    StartsWith <- MCStartsWith
    Rules <- MCRules
    Tool = {refund_tool}
    refund_tool = refund_tool
    alice = alice
    small = small
    unpriced = unpriced
    Params <- MCParams
    Amount <- MCAmount
    LimitId = {budget}
    budget = budget
    InitialScopes <- MCInitialScopes
    InitialLimits <- MCInitialLimits
    ScopeChoices <- ThresholdLowered
    Call = {c1}
    CheckpointId = {c1}
    Approver = {human}
    BoundParams <- MCBoundParams
    Ttl <- MCTtl
    MaxTime = 1
    Request <- ApprovalRequests
    ApprovedCeiling = 2
    HasAuthorityCheck = FALSE
    Operator = {}
    MaxFailures = 0
PROPERTIES
    GrantsAreApproved
CHECK_DEADLOCK FALSE
