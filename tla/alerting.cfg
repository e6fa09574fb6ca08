\* One worker process with its alerter; an automatic request and a manual one for
\* the same graph, with either classification; three deliveries of a notice.
SPECIFICATION FairSpec
CONSTANTS
    Workers = {w1}
    Alerters = {w1}
    Messages = {2, 3}
    auto = auto
    manual = manual
    g1 = g1
    g2 = g2
    Dedups = {auto, manual}
    Graphs = {g1}
    Keys = {quality, runaway}
    Agents = {}
    DedupOf <- WithDuplicate
    GraphOf <- OneGraph
    BreakerOpenIncidents = 1
    MaxDeliveries = 2
    MaxMishaps = 1
    MaxPatches = 0
    None = None
CHECK_DEADLOCK FALSE
PROPERTIES
    NewIncidentsPosted
