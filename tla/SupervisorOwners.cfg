CONSTANTS
    Owners = {session, lane}
    InitialValues <- BuildAsk
    Requests <- Sharing
    Controls <- ControlCommands
    SlashControls = {}
    MaxIds = 2
    MaxAsks = 1
    MaxControls = 2
SPECIFICATION Spec
SYMMETRY OwnerSymmetry
INVARIANTS
    OneJobPerOwner
    RegistryIsTheWork
    ProjectionIsExact
PROPERTIES
    NothingRunsBehindFailure
    AllowIsCurrent
CHECK_DEADLOCK FALSE
