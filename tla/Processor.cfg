\* Stops, crashes, fetch errors and failing inserts, with restarts.
CONSTANTS
    RecordCount = 5
    MaxPoll = 2
    Workers = {w1, w2}
    BufferSize = 1
    Undecodable = {2}
    Faults = {"stop", "crash", "fetch", "persist"}
    MaxFaults = 1
SPECIFICATION FairSpec
CHECK_DEADLOCK FALSE
INVARIANTS
    CrashLossBounded
    SteadyLosesNothing
    EvaluatedPerDelivery
PROPERTIES
    EverythingIsProcessed
    StopEnds
