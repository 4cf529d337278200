SPECIFICATION Spec
CONSTANTS
    us = us
    science = science
    technology = technology
    AllCases <- OneTab
    Pinned = {us}
    Refused = {}
    PageSize = 2
    MaxPage = 3
    MaxSaves = 0
    Tasks = {t1, t2}
SYMMETRY TaskSymmetry
INVARIANTS
    SingleLoader
    PagesContiguous
    ChildInSync
    NoRowLost
PROPERTIES
    SpinnerLeftByFailure
