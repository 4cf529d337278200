SPECIFICATION FairSpec
CONSTANTS
    top = top
    search = search
    picture = picture
    logo = logo
    Callers <- AppCallers
    Kind <- AppKind
CHECK_DEADLOCK FALSE
INVARIANT
    CompletesOnce
PROPERTY
    ImplementsCalls
