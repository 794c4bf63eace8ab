SPECIFICATION MCExitSpec
CONSTANTS
    r1 = r1
    r2 = r2
    Recording = {r1, r2}
    Ui = {u1}
    Fault = {}
    None = None
INVARIANTS
    OneRecorder
PROPERTIES
    ExitEnds
    EveryRecordingSettles
CHECK_DEADLOCK FALSE
