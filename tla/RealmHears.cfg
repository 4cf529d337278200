SPECIFICATION FairSpec
CONSTANTS
    o1 = o1
    o2 = o2
    Observers <- MCObservers
    MaxVersion = 3
    Elsewhere = FALSE
    OpenMayFail = FALSE
PROPERTY
    EveryoneHears
INVARIANT
    AssertionsHold
