SPECIFICATION Spec
CONSTANTS
    o1 = o1
    o2 = o2
    Observers <- MCObservers
    MaxVersion = 3
    Elsewhere = TRUE
    OpenMayFail = TRUE
SYMMETRY ObserverSymmetry
CHECK_DEADLOCK FALSE
PROPERTY
    ImplementsObservation
INVARIANTS
    ChangesKept
    CalledAtItsVersion
