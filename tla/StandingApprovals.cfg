SPECIFICATION FairSpec
CONSTANTS
    shell = shell
    narrow = narrow
    read = read
    Calls <- MCCalls
    Unregistered <- MCUnregistered
    RoleCalls <- MCRoleCalls
    Covered <- MCCovered
    InitialValues <- MCInitial
    Answers <- MCAnswers
    Commands <- MCCommands
    Controls <- MCControls
    MaxRevisions = 2
    MaxClearances = 1
    MaxCommands = 3
    MaxRules = 2
    MaxCalls = 2
    MaxFailures = 1
    MaxRestarts = 1
INVARIANTS
    TypeOK
    EngineIsOnFile
    ShownIsOnFile
    RoleRulesEnd
    ApprovedCallPasses
PROPERTY RevocationLands
CHECK_DEADLOCK FALSE
