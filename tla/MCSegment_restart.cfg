SPECIFICATION Spec
CONSTANTS
    maker = maker
    same = same
    drifted = drifted
    deep = deep
    LayoutOf <- MCLayoutOf
    Processes = {maker, same, drifted, deep}
    Creators = {maker}
    MaxStarts <- MCMaxStarts
CHECK_DEADLOCK FALSE
INVARIANTS TypeOK AttachedIsBacked OnlySameShapeAttaches
