SPECIFICATION Spec
CONSTANTS
    Writers = {w1, w2}
    Readers = {}
    Lids = {l1}
    Fields = {f1}
    MaxUid = 3
    MaxOffers = 3
    MaxDeaths = 0
    Restarts = {}
CHECK_DEADLOCK FALSE
SYMMETRY Symmetry
INVARIANTS OneWinnerPerUpdate NewestIsClaimed
PROPERTIES ClaimsOnlyRise
