SPECIFICATION Spec
CONSTANTS
    Producers = {p1}
    Consumers = {c1}
    Cap = 2
    Words = {w1, w2}
    MaxSlots = 3
    MaxDeaths = 2
    Restarts = {"attach", "create"}
    MayStall = FALSE
    WordSize = 64
SYMMETRY Symmetry
INVARIANTS RingKeepsLastLap
