SPECIFICATION Spec
CONSTANTS
    Articles = {n1, n2, n3}
    Categories = {us, science}
    NoCategory = none
    Absent = absent
    Closed = closed
SYMMETRY BookmarkSymmetry
INVARIANTS
    TypeOK
    ListFollowsRealm
    NoTrapFromList
    FlagTellsRealm
    CountsFollowRealm
PROPERTIES
    BookmarkKeepsCategory
    DeletesWhatWasAsked
