\* Two writers, four analyses over two graphs and two classifications, one
\* of which an operator may act on.
SPECIFICATION Spec
CONSTANTS
    Writers = {a, b}
    Graphs = {g1, g2}
    Keys = {quality, failure}
    Runs = {r1, r2}
    MaxAnalyses = 4
    MaxPatches = 1
    None = None
SYMMETRY PersistSymmetry
CHECK_DEADLOCK FALSE
INVARIANTS
    ReportsLinear
    GraphChained
    CirclesOnlyOverRuns
PROPERTIES
    IncidentsAtomic
