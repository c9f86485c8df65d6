\* Records before, in and after the range on two partitions, while clock and topic go on.
CONSTANTS
    SourceFile = "auth.log"
    Addresses = {"tor", "office"}
    LocalAddresses = {"office"}
    KnownThreats <- TorNodes
    MetaKey <- KeyOf
    Substrings <- SubstringPairs
    RegexMatches <- RegexPairs
    NoProgress = NoProgress
    Hosts = {"h1", "h2"}
    Nobody = Nobody
    LogLine <- LoginLines
    Garbage = Garbage
    Foreign = {"h1"}
    RuleDir <- RuleFiles
    Group <- TorGroup
    StartTime = 1
    EndTime = 1
    Lags <- AheadOrBehind
    MaxRecords = 4
    MaxTime = 2
SPECIFICATION FairSpec
CHECK_DEADLOCK FALSE
INVARIANTS
    EndIsComplete
    ReplayMatchesLive
    PatternsAreFound
PROPERTIES
    ReplayEnds
