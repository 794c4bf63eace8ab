SPECIFICATION Spec
CONSTANTS
    Worker = {w1}
    Job = {j1, j2}
    Producer = {capture}
    QueueCapacity = 1
    LedgerMod = 8
    Ceiling = 1
    None = None
    w1 = w1
    w2 = w2
    j1 = j1
    j2 = j2
INVARIANTS
    NoSilentLoss
