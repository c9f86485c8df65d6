\* Two instances over the log and the webhook channel; the third alert is unreadable.
CONSTANTS
    Instances = {d1, d2}
    Alerts = {1, 2, 3}
    Unreadable = {3}
    Channels <- LogAndWebhook
    Reliable = {"log"}
    MaxAttempts = 2
    DeadLetterCapacity = 2
    Nothing = Nothing
    Faults = {"stop", "crash", "ack", "slow"}
    MaxFaults = 2
SPECIFICATION FairSpec
CHECK_DEADLOCK FALSE
INVARIANTS
    SettledMeansOutcome
    RepeatedOnlyByFaults
    NewestLettersKept
PROPERTIES
    EveryAlertSettles
    StopEnds
