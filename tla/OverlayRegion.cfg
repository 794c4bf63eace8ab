SPECIFICATION Spec
CONSTANTS
    None = None
    MinSize = 2
    SnapRadius = 1
    source <- MCSource
    Points <- MCPoints
    Remembered <- MCRemembered
    Edges <- MCEdges
    HandleRadius = 1
    DragThreshold = 2
    Offered = {"Pin", "Record"}
    Windows = {w1}
    WindowRects <- MCWindowRects
    w1 = w1
    MaxChoices = 6
INVARIANTS
    RegionStaysInside
    GuideIsTrue
    NoStuckDrag
    CancelIsNotMissed
PROPERTIES
    ReleaseCommitsWhatWasShown
CHECK_DEADLOCK FALSE
