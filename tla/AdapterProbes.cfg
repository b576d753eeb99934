CONSTANTS
    adapter1 = adapter1
    adapter2 = adapter2
    adapter3 = adapter3
    unknown = unknown
    command1 = command1
    command2 = command2
    command3 = command3
    command4 = command4
    Adapters <- AndUnknown
    Known <- ThreeAdapters
    Commands <- FourCommands
    MaxProbes = 1
SPECIFICATION FairSpec
INVARIANTS
    HandshakesAreBounded
    NobodyIsForgotten
    ArrivalOrder
PROPERTIES
    ServiceSpec
    AcceptedIsAnswered
CHECK_DEADLOCK FALSE
