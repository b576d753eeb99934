SPECIFICATION FairSpec
CONSTANTS
    InitialValues <- BuildAsk
    Operations = {"start", "retry", "cancel", "pause", "resume", "kill", "stop"}
    Controls <- SwitchModes
    MaxHeld = 2
    MaxRuns = 3
    MaxCommands = 2
    MaxQueue = 1
    MaxPrompts = 1
    MaxFailures = 1
INVARIANTS
    TypeOK
    NoInputOutlivesItsSession
PROPERTIES
    HeldRunInOrder
    EveryTurnEnds
    HeldInputsDrain
CHECK_DEADLOCK FALSE
