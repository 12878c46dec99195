\* A walk of up to three pages of two rows through every list, the table changing twice.
SPECIFICATION Spec
CONSTANTS
    Ids = {1, 2, 3, 4, 5}
    Me = 1
    Others = {2}
    Tables <- AllTables
    InitialRows <- SomeRows
    Stamps = {0, 1, 2, 3}
    Tick = 2
    Ranks = {0, 1}
    Limit = 2
    MaxChanges = 2
INVARIANTS WalksMissOnlyWhatMoved CursorMissesOneMillisecond ChildrenAreNotOlder
CHECK_DEADLOCK FALSE
