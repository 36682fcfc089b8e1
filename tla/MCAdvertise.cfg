SPECIFICATION FairSpec
CONSTANTS
    Ifs = 2
    AirTime = 2
    CallDelay = 0
    MaxCount = 3
    ChMaps <- AllMaps
    PduInterval = 9
    AdvInterval = 28
    ScanInterval = 6
    ScanWindow = 4
    Ops = {"ll_advertise_start"}
    ScanFrom = {"standby", "advertising", "scanning"}
    Pdus <- ScannerPdus
    Peers = {"peer"}
INVARIANTS TypeOK ListeningIsTimed RepliesMatchRequests
PROPERTIES EventCoversMapInOrder TransmissionCompletes FullListenWindow KeepsAdvertising
