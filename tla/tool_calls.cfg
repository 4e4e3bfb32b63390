SPECIFICATION Spec
CONSTANTS
    None = None
    Action = {}
    Tool = {refund_tool, credit_tool, wire_tool}
    refund_tool = refund_tool
    credit_tool = credit_tool
    wire_tool = wire_tool
    Params = {small, large, giveback, unpriced}
    small = small
    large = large
    giveback = giveback
    unpriced = unpriced
    LimitId = {shared, credit_only}
    shared = shared
    credit_only = credit_only
    Amount <- MCAmount
    ScopeOf <- MCScopeOf
    LimitOf <- MCLimitOf
    ToolRequest <- MCToolRequest
    Call = {c1, c2, c3}
    MaxResets = 1
    MaxFailures = 1
SYMMETRY CallSymmetry
INVARIANTS
    TypeOK
    SessionCapHonoured
    BudgetHonoured
    LedgerIsTheSession
    EveryChargeIsOnRecord
CHECK_DEADLOCK FALSE
