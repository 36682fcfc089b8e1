SPECIFICATION FairSpec
CONSTANTS
    MaxTimers = 2
    CounterSize = 6
    DriftFix = 1
    Durations = {3, 4}
    MaxLatency = 1
    Callers = {"handler"}
    CallbackStopsPeers = FALSE
INVARIANTS TypeOK CountExact NoLostTimeout
PROPERTIES EarlyOnlyIfLeftover ImplementsService ArmedTimerExpires
