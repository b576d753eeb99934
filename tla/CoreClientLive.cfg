SPECIFICATION FairSpec
CONSTANTS
    f1 = f1
    f2 = f2
    Facts <- MCFacts
    Capacity = 1
    ReplayLimit = 1
    MaxStreams = 2
    MaxEvents = 3
    Faults <- Restarts
PROPERTIES
    PublishedIsShown
CHECK_DEADLOCK FALSE
