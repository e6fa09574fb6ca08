\* Two writers, analyses of two different graphs.
SPECIFICATION Spec
CONSTANTS
    Writers = {a, b}
    Graphs = {g1, g2}
    Keys = {quality}
    Runs = {r1}
    MaxAnalyses = 3
    MaxPatches = 0
    None = None
SYMMETRY PersistSymmetry
CHECK_DEADLOCK FALSE
INVARIANT
    UntouchedVerifies
