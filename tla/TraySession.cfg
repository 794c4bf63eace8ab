SPECIFICATION MCSpec
CONSTANTS
    Settings = {"file_output"}
    EventCapacity = 1
    NoteCapacity = 1
    CommandCapacity = 1
    MaxChoices = 3
INVARIANTS
    MenuTellsTheTruth
    NoNotificationStuck
    BlockReasonSettled
    LatePressesProduceNothing
PROPERTIES
    ExitEnds
