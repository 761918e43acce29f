SPECIFICATION Spec
CONSTANTS
    Writers = {w1}
    Readers = {r1}
    Lids = {l1}
    Fields = {f1, f2}
    MaxUid = 3
    MaxOffers = 3
    MaxDeaths = 2
    Restarts = {"attach", "create"}
CHECK_DEADLOCK FALSE
SYMMETRY Symmetry
INVARIANTS SlotNeverAhead
