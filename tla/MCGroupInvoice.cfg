CONSTANTS
    Orders = {1, 2}
    Charge <- MCCharge
    Groups = {1, 2}
    DueAt <- MCDueAt
    PenaltyRate = 50
    Percentages = {50}
    Amounts = {1}
    MaxDiscount = 1
    MaxByHand = 1
    MaxLocked = 1
    LastDay = 1
SPECIFICATION Spec
INVARIANTS OnePenaltyInvoice  
CHECK_DEADLOCK FALSE
