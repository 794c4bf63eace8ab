SPECIFICATION SpecScheduled
CONSTANTS
    extra = d2
    Overlay = {o1}
    Direct = {d1, d2}
    MaxCaptures = 2
    CommandCapacity = 1
    SelectionCapacity = 1
    NoticeCapacity = 1
    Retries = 1
    NoticeAfter = 1
    None = None
INVARIANTS
    EngineOrOutage
    InFlightIsExact
    UserKnowsOfOutage
PROPERTIES
    KeepsTheBudget
    StopEndsThreads
    OutageEnds
ACTION_CONSTRAINT ExtraIsLate
