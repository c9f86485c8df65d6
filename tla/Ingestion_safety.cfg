\* Every kind of failure, repeated requests side by side, a stop at any moment.
CONSTANTS
    Agents = {a1}
    EventCount = 3
    ChannelCap = 2
    BatchCap = 2
    Handlers = {h1, h2}
    Idle = Idle
    Anonymous <- SecondIsAnonymous
    MaxMessage = 10
    Broken = {}
    CanStop = {a1}
    Faults = {"send", "disconnect", "redis", "publish", "retry", "expire", "crash", "stop"}
    MaxFaults = 3
SPECIFICATION Spec
CHECK_DEADLOCK FALSE
SYMMETRY HandlerSymmetry
INVARIANTS
    ForgottenIsAccounted
    PublishedOnce
    PerHostOrder
    PlannedRestartIsClean
