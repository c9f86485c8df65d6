\* Two workers, delayed timestamps, a reload and cleanups.
CONSTANTS
    Workers = {w1, w2}
    Idle = Idle
    NoProgress = NoProgress
    Kinds = {"failure", "success"}
    RuleSets <- FourRuleSets
    FirstRules <- Old
    CleanupAge = 3
    MaxDelay = 1
    MaxEvents = 4
    MaxReloads = 1
    MaxClock = 4
SPECIFICATION Spec
SYMMETRY WorkerSymmetry
CHECK_DEADLOCK FALSE
INVARIANTS
    CountedOnce
    ReloadIsSafe
PROPERTIES
    ThresholdIsExact
    SequenceIsSound
    SequenceIsComplete
