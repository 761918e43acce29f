SPECIFICATION Spec
CONSTANTS
    MaxTs = 2
    MaxRows = 2
    Sources <- MCSources
    UnitOf <- MCUnitOf
    Inputs <- MCInputs
    Windows <- MCWindows
CHECK_DEADLOCK FALSE
INVARIANTS TypeOK OutputIsOrdered NothingOvertaken AllDueReturned
