SPECIFICATION Spec
CONSTANTS
    Tree <- MCTree
    Root = "root"
    Parent <- MCParent
    Path <- MCPath
    PostOrder <- MCPostOrder
    j1 = j1
    j2 = j2
    j3 = j3
    j4 = j4
    Jobs <- MCJobs
    Capacity <- MCCapacity
    Sequential = {"B"}
    Throttle <- MCThrottle
    Shapes <- MCShapes
    MaxTime = 4
INVARIANTS FlowIsConsistent
PROPERTIES EtaRespected ThrottleRespected SafetyTimeoutFindsNothing StartsFit SequentialOrder
