\* Suppression, throttling and the breaker before an unreliable NATS.
CONSTANTS
    RecordCount = 5
    MaxPoll = 2
    Consumer = consumer
    Capacity = 1
    KeyOf <- Repeating
    SuppressWindow = 1
    Undecodable = {3}
    Threshold = 2
    Timeout = 1
    CallTime = 1
    MaxClock = 4
    Faults = {"stop", "crash", "fetch"}
    MaxFaults = 1
SPECIFICATION FairSpec
CHECK_DEADLOCK FALSE
INVARIANTS
    RateBounded
PROPERTIES
    SuppressionIsExact
    OutageIsSpared
    EveryAlertIsDecided
