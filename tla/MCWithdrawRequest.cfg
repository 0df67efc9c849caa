CONSTANTS
    Requests = {1, 2}
    Asked = {4, 6, 8}
    Commissions <- MCCommissions
    HandFees = {2}
    TaxRate = 50
    MaxLocked = 1
SPECIFICATION Spec
INVARIANTS  PaidOutOnce
CHECK_DEADLOCK FALSE
