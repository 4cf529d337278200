SPECIFICATION FairSpec
CONSTANTS
    o1 = o1
    o2 = o2
    Observers <- MCObservers
    MaxVersion = 2
    Elsewhere = FALSE
    OpenMayFail = TRUE
CHECK_DEADLOCK FALSE
PROPERTY
    ErrorsAreTold
