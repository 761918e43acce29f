SPECIFICATION Spec
CONSTANTS
    Nan = Nan
    NotGiven = NotGiven
    BadValue = BadValue
    FileSets <- MCFileSets
    Configs <- PairConfigs
    Overrides = {NotGiven, BadValue}
CHECK_DEADLOCK FALSE
INVARIANTS TypeOK RoutesAgree SourcesAreUnitMajor EmptiedForUsableInput
