SPECIFICATION Spec
CONSTANTS
    Threshold = 50
    GapThreshold = 25
    MinDrop = 10
    CumDrop = 30
    CumMinEdges = 2
    CumStep = 5
    MaxIterations = 2
    LoopZ = 3
    LoopMinHistory = 5
    NoAgent = 0
    Inputs <- MCInputs
INVARIANTS
    PathReachesSink
    AccusedWithCause
    HardFaultNamed
    CulpritsIndependent
    BadNeverSilent
    
CHECK_DEADLOCK FALSE
