SPECIFICATION Spec
CONSTANTS
    None = None
    Action = {refund, credit, wire}
    credit = credit
    refund = refund
    wire = wire
    MaxConfidence = 1
    Prefix <- MCPrefix
    StartsWith <- MCStartsWith
    Rules <- MCRules
    Tool = {refund_tool}
    refund_tool = refund_tool
    alice = alice
    small = small
    unpriced = unpriced
    Params <- MCParams
    Amount <- MCAmount
    LimitId = {budget}
    budget = budget
    InitialScopes <- MCInitialScopes
    InitialLimits <- MCInitialLimits
    ScopeChoices <- ThresholdDropped
    Call = {c1, c2}
    CheckpointId = {c1, c2}
    Approver = {human}
    BoundParams <- MCBoundParams
    Ttl <- MCTtl
    MaxTime = 1
    Request <- MixedRequests
    ApprovedCeiling = 2
    HasAuthorityCheck = TRUE
    Operator = {operator}
    MaxFailures = 1
SYMMETRY CallSymmetry
INVARIANTS
    EvidenceComplete
    HaltedCallsNeverAct
CHECK_DEADLOCK FALSE
