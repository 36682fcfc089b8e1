SPECIFICATION Spec
CONSTANTS
    Ifs = 2
    AirTime = 2
    CallDelay = 0
    MaxCount = 3
    ChMaps <- AllMaps
    PduInterval = 9
    AdvInterval = 28
    ScanInterval = 8
    ScanWindow = 5
    Ops = {"ll_scan_start", "ll_scan_stop"}
    ScanFrom = {"standby", "advertising", "scanning"}
    Pdus <- AdvertiserPdus
    Peers = {"peer"}
INVARIANT StateMatchesTimers
