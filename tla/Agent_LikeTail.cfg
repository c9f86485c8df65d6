\* A line written after the scanner has met the end of the file is never reported.
CONSTANTS
    Agents = {a1}
    Me = a1
    EventCount = 8
    ChannelCap = 1
    BatchCap = 2
    MaxMessage = 2
    Broken = {}
    MaxLines = 2
    OldLines = 1
    Blank = {}
    MaxFiles = 1
    Pids = {p1}
    Existing = {}
    MaxSpawns = 0
    MaxFaults = 0
    MaxLoad = 2
SPECIFICATION FairSpec
CHECK_DEADLOCK FALSE
PROPERTIES
    LikeTail
