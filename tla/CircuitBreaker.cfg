\* Calls no longer than the open period: the documented state machine holds.
CONSTANTS
    Callers = {c1, c2}
    Threshold = 2
    Timeout = 2
    CallTime = 2
    MaxClock = 6
    Callback = TRUE
SPECIFICATION Spec
INVARIANTS
    HalfOpenIsBeingTested
    AtMostOneProbe
PROPERTIES
    DocumentedTransitions
    TestDecidesRecovery
    OpensOnThreshold
