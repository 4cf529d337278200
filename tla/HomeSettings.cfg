SPECIFICATION FairSpec
CONSTANTS
    us = us
    science = science
    technology = technology
    AllCases <- ThreeTabs
    Pinned = {us}
    Refused = {technology}
    PageSize = 1
    MaxPage = 2
    MaxSaves = 1
    Tasks = {t1}
INVARIANTS
    SlotsPure
    PinnedSlotsPure
    TypeOK
    LoadingHasRequest
PROPERTIES
    LoadingEnds
