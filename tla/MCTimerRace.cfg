SPECIFICATION Spec
CONSTANTS
    MaxTimers = 2
    CounterSize = 6
    DriftFix = 1
    Durations = {3, 4}
    MaxLatency = 1
    Callers = {"handler", "thread"}
    CallbackStopsPeers = FALSE
INVARIANT RunningWhileActive
