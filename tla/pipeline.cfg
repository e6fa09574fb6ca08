\* One graph, three batches that overlap, one failure, late spans re-announced: the
\* third batch may be posted while the graph is re-mapped for the second.
SPECIFICATION FairSpec
CONSTANTS
    g1 = g1
    r1 = r1
    r2 = r2
    r3 = r3
    Graphs = {g1}
    Runs = {r1, r2, r3}
    Batches = {1, 2, 3}
    HomeOf <- Home
    RunsOf <- RunsOfBatch
    ReanalyzeLateSpans = TRUE
    MaxSends <- Once
    MaxMishaps = 1
    None = None
CHECK_DEADLOCK FALSE
INVARIANTS
    LateTallySound
    AnnouncedOnce
    NoRunLeftOut
PROPERTIES
    EveryGraphAnnounced
    LateRunsReannounced
