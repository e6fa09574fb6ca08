SPECIFICATION NodeSpec
CONSTANTS
    MinInputNumbers = 2
    MinWeight = 50
    MinArtifact = 64
    Today = 2
    Weight <- MCWeight
    Verdicts <- MCVerdicts
    Measured <- MCMeasured
INVARIANTS
    MergerInnocent
    OneStoryPerCall
    OneChannelNoVerdict
