CONSTANTS
    Assets = {1, 2}
    Categories = {"equipment", "revenue", "software"}
    GroupEntries = {"revenue"}
    OpenAsset = {"software"}
    Plans <- MCPlans
    Prices <- MCPrices
    Changes <- MCChanges
    MaxTime = 3
    MaxEdits = 2
    NoMove = NoMove
SPECIFICATION AssetSpec
INVARIANTS BoardConserves BookedOnce ClosedIsDepreciated OpenHasWork
CHECK_DEADLOCK FALSE
