CONSTANTS
    Accounts = {1, 2, 3, 4}
    TypeOf <- MCTypeOf
    Partners = {1}
    NoPartner = NoPartner
    Kinds <- MCKinds
    Sheet <- MCSheet
    Lengths = {1}
    LastDate = 3
    MaxEntries = 3
    MaxResets = 1
    NoDate = NoDate
SPECIFICATION ReportsSpec
INVARIANTS  SheetBalances MergedAgrees 
CHECK_DEADLOCK FALSE
