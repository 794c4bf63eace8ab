SPECIFICATION FairSpec
CONSTANTS
    Capacity = 2
    Limit = 5
    Tolerated = 1
INVARIANTS
    SavedIsComplete
    FailedIsRemoved
PROPERTIES
    RecordingEnds
CHECK_DEADLOCK FALSE
