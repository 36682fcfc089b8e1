SPECIFICATION Spec
CONSTANTS
    Ifs = 1
    AirTime = 1
    CallDelay = 1
    MaxCount = 3
    ChMaps <- TwoChannels
    PduInterval = 1
    AdvInterval = 4
    ScanInterval = 2
    ScanWindow = 1
    Ops = {"ll_advertise_start", "ll_advertise_stop", "ll_conn_create", "ll_conn_cancel"}
    ScanFrom = {"standby"}
    Pdus <- OneRequest
    Peers = {"peer"}
INVARIANTS StandbyIsSilent
PROPERTIES StandbyStaysOff
