SPECIFICATION FairSpec
CONSTANTS
    Programs = {"active"}
    ObserverLateEnd = FALSE
    Active <- ActiveTimes
    Passive <- PassiveTimes
    Broadcasting <- BroadcastingTimes
    Scannable <- ScannableTimes
    Advertisers <- SomeAdvertisers
    Scanners <- SomeScanners
PROPERTY ObserverScansAllChannels
