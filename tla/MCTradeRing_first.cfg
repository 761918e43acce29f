SPECIFICATION Spec
CONSTANTS
    Producers = {p1}
    Consumers = {c1}
    Cap = 2
    Words = {w1, w2}
    MaxSlots = 2
    MaxDeaths = 0
    Restarts = {}
    MayStall = FALSE
    WordSize = 64
INVARIANTS FirstIsPublished
