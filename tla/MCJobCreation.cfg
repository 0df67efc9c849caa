CONSTANTS
    Callers <- MCCallers
    Configs <- MCConfigs
    MaxOps = 2
    None = None
    Garbled = Garbled
    k1 = k1
    k2 = k2
SPECIFICATION Spec
INVARIANTS DependsAsDocumented   LimitsApply OrderRespectsEdges
CHECK_DEADLOCK FALSE
