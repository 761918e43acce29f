SPECIFICATION Spec
CONSTANTS
    Tables <- MixedTables
    Letters = {"A", "B", "X", "Y", "Z", "x", ",", "q"}
    kGidNames <- Known
    kLocalToGid <- InOrder
    Supported = {1, 3}
    kMaxDepth = 3
    kMaxUnknownSamples = 2
    U32Max = 42
    U64 = 500
    U8 = 8
CHECK_DEADLOCK FALSE
INVARIANTS NothingIsCut
