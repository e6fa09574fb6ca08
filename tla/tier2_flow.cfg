\* One worker process; an automatic request with its duplicate and a manual one,
\* for two graphs; a breaker that needs two live incidents.  The alerter has a run
\* of its own.
SPECIFICATION FairSpec
CONSTANTS
    Workers = {w1}
    Alerters = {}
    Messages = {1, 2, 3}
    auto = auto
    manual = manual
    g1 = g1
    g2 = g2
    Dedups = {auto, manual}
    Graphs = {g1, g2}
    Keys = {quality}
    Agents = {writer}
    DedupOf <- WithDuplicate
    GraphOf <- TwoGraphs
    BreakerOpenIncidents = 2
    MaxDeliveries = 1
    MaxMishaps = 2
    MaxPatches = 1
    None = None
CHECK_DEADLOCK FALSE
INVARIANTS
    BreakerEarned
    AnalysedOnce
PROPERTIES
    EveryMessageAcked
    JobsEnd
