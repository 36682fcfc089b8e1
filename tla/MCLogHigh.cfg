SPECIFICATION FairSpec
CONSTANTS
    BufferLen = 4
    CounterSize = 8
    Strings <- ShortStrings
    Chars = {"a"}
    CR = "a"
    LF = "a"
    Callers = {"high"}
    LateCaller = FALSE
PROPERTIES OwedIsSent
