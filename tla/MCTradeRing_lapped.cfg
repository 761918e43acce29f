SPECIFICATION FairSpec
CONSTANTS
    Producers = {p1, p2}
    Consumers = {c1}
    Cap = 2
    Words = {w1, w2}
    MaxSlots = 5
    MaxDeaths = 1
    Restarts = {"attach"}
    MayStall = FALSE
    WordSize = 64
INVARIANTS TypeOK DeliveredIsPublished LossIsReported OnlyLappedIsLost
PROPERTIES ImplementsBroadcastLog CatchesUp
