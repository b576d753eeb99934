SPECIFICATION Spec
CONSTANTS
    shell = shell
    narrow = narrow
    read = read
    Calls <- MCCalls
    Unregistered <- MCUnregistered
    RoleCalls = {}
    Covered <- MCCovered
    InitialValues <- MCInitial
    Answers <- MCAnswers
    Commands <- MCResuming
    Controls = {}
    MaxRevisions = 2
    MaxClearances = 1
    MaxCommands = 3
    MaxRules = 1
    MaxCalls = 2
    MaxFailures = 0
    MaxRestarts = 0
PROPERTY SilencedStaysSilent
CHECK_DEADLOCK FALSE
