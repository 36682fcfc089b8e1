SPECIFICATION FairSpec
CONSTANTS
    BufferLen = 4
    CounterSize = 8
    Strings <- SomeStrings
    Chars = {"a"}
    CR = "b"
    LF = "c"
    Callers = {"main"}
    LateCaller = FALSE
INVARIANTS NeverOverfull OneSender
PROPERTIES ImplementsFifo OwedIsSent
