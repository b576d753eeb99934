CONSTANTS
    Owners = {session}
    InitialValues <- BuildAsk
    Requests <- NoDrop
    Controls = {}
    SlashControls = {}
    MaxIds = 3
    MaxAsks = 1
    MaxControls = 0
SPECIFICATION Spec
PROPERTIES
    DequeuedEntryRuns
