CONSTANTS
    Owners = {session}
    InitialValues <- BuildAsk
    Requests <- EveryRequest
    Controls = {}
    SlashControls <- EnterPlan
    MaxIds = 2
    MaxAsks = 2
    MaxControls = 0
SPECIFICATION FairSpec
INVARIANTS
    TypeOK
    SettledOnce
PROPERTIES
    SnapshotIsAnswered
    DropFinishes
