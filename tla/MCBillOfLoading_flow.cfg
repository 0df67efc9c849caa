SPECIFICATION FairSpec
CONSTANTS
    None = None
    InitialFees = {1}
    InitialMoney = {1}
    Updates <- KeepsMethod
    Buttons <- AllButtons
    MaxRequests = 4
INVARIANTS BilledOnce TripsInOrder 
PROPERTIES BilledInTheEnd
CHECK_DEADLOCK FALSE
