SPECIFICATION FairSpec
CONSTANTS
    Writers = {w1}
    Readers = {r1}
    Lids = {l1, l2}
    Fields = {f1, f2}
    MaxUid = 3
    MaxOffers = 3
    MaxDeaths = 1
    Restarts = {}
CHECK_DEADLOCK FALSE
INVARIANTS TypeOK NoTornRead SlotShowsTheClaimed
PROPERTIES ImplementsLatestBoard ReadersConverge
