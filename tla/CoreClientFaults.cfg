SPECIFICATION Spec
CONSTANTS
    f1 = f1
    f2 = f2
    Facts <- MCFacts
    Capacity = 2
    ReplayLimit = 1
    MaxStreams = 2
    MaxEvents = 3
    Faults <- AllFaults
SYMMETRY FactSymmetry
INVARIANTS
    TypeOK
    ReplayIsExact
    ConfirmedIsAMoment
    RecoveryNeverErrs
PROPERTIES
    DeliveredInOrder
    RecoveryIsAtomic
    AbstractSpec
CHECK_DEADLOCK FALSE
