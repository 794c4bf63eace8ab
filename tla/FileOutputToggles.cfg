SPECIFICATION MCSpec
CONSTANTS
    w1 = w1
    w2 = w2
    j1 = j1
    j2 = j2
    Worker = {w1, w2}
    Job = {j1, j2}
    Producer = {capture}
    QueueCapacity = 1
    LedgerMod = 8
    Ceiling = 1
    None = None
INVARIANTS
    AtMostOneWriter
    LedgerAgrees
    NoStrayWorker
    OnTimeCapturesEnd
PROPERTIES
    ShutdownEnds
    SlotComesBack
