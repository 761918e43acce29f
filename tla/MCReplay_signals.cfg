SPECIFICATION FairSpec
CONSTANTS
    Sources <- MCSources
    UnitOf <- MCUnitOf
    KindOf <- MCKindOf
    Inputs <- MixedInputs
    Windows <- MCWindows
    Lids = {1, 2}
    KeptUids = {0, 1}
    InitTs <- AutoAndManualTs0
    Realtimes <- Realtime0AndHalf
    KTick = 2
    MaxWall = 2
    MaxUid = 2
    Gap = 5
CHECK_DEADLOCK FALSE
INVARIANTS TypeOK OutputsHoldThePlayed DedupedIsExact CompleteWhenDone KeepsTheSchedule StopIsPrompt
PROPERTIES Terminates
