\* Two sources on a small channel: rotations, a flush that fails once or for ever, a signal at any moment.
CONSTANTS
    Agents = {a1}
    Me = a1
    EventCount = 8
    ChannelCap = 1
    BatchCap = 2
    MaxMessage = 2
    Broken <- ThirdIsBroken
    MaxLines = 4
    OldLines = 1
    Blank = {2}
    MaxFiles = 2
    Pids = {p1, p2}
    Existing = {p1}
    MaxSpawns = 1
    MaxFaults = 1
    MaxLoad = 4
SPECIFICATION FairSpec
CHECK_DEADLOCK FALSE
INVARIANTS
    NewLinesOnce
    StopLossBounded
PROPERTIES
    FreshLinesAreEmitted
    WrittenIsDelivered
    AgentEnds
    PictureConverges
