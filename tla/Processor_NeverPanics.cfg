\* Submit may send on the channel that shutdown closed.
CONSTANTS
    RecordCount = 3
    MaxPoll = 2
    Workers = {w1}
    BufferSize = 1
    Undecodable = {}
    Faults = {"stop"}
    MaxFaults = 1
SPECIFICATION Spec
CHECK_DEADLOCK FALSE
INVARIANTS
    NeverPanics
