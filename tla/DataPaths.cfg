SPECIFICATION FairSpec
CONSTANTS
    Paths = {"text", "advertising", "initiating", "ad", "reports"}
    Width = 10
    ItosLen = 5
    Data <- SomeData
    AdvParams <- SomeAdvParams
    ConnParams <- SomeConnParams
    ChannelMaps <- SomeChannelMaps
    Attempts <- SomeAttempts
    Items <- SomeItems
    MaxItems = 3
    MaxOctets = 4
    Received <- SomeBuffers
    Lengths = {6, 37}
    PacketIds = 3
INVARIANTS AcceptedParamsStart  ResponseIsWhole ResponseIsFilled TextIsNumber RoundTrip WellFormedIsRead UndisturbedReportIsWhole
PROPERTIES LastReportIsSeen
CHECK_DEADLOCK FALSE
