SPECIFICATION FairSpec
CONSTANTS
    Programs = {"active", "passive", "broadcaster", "scannable"}
    ObserverLateEnd = FALSE
    Active <- ActiveTimes
    Passive <- PassiveTimes
    Broadcasting <- BroadcastingTimes
    Scannable <- ScannableTimes
    Advertisers <- SomeAdvertisers
    Scanners <- SomeScanners
INVARIANTS RepliesMatchRequests ListeningIsTimed ListensOnChannel
PROPERTIES EventCoversChannels TransmissionCompletes FullListenWindow ChannelsTakeTurns
