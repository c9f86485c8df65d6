\* A failed publish leaves the dedup key behind and the agent forgets the event.
CONSTANTS
    Agents = {a1}
    EventCount = 2
    ChannelCap = 2
    BatchCap = 2
    Handlers = {h1}
    Idle = Idle
    Anonymous <- NoEvents
    MaxMessage = 10
    Broken = {}
    CanStop = {}
    Faults = {"publish"}
    MaxFaults = 1
SPECIFICATION Spec
CHECK_DEADLOCK FALSE
INVARIANTS
    NothingLost
