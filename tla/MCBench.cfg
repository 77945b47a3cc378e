\* Feeds of up to four updates over three orders, four bits for u64.
SPECIFICATION FairSpec
CONSTANTS
    Orders = {1, 2, 3}
    MaxUpdates = 4
    Feeds <- AllFeeds
    Options <- SomeOptions
    Word = 16
    MinCapacity = 2
    PilotBlock = 2
    PilotMax = 3
    WarmupEvery = 2
INVARIANTS NeverFull SamplesRight TimedAllocations ProbeAtPeak
PROPERTIES Ends
CHECK_DEADLOCK FALSE
