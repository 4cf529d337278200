SPECIFICATION Spec
CONSTANTS
    us = us
    business = business
    technology = technology
    health = health
    science = science
    sports = sports
    entertainment = entertainment
    AllCases <- AppCases
    Pinned <- AppPinned
    RawValue <- AppRawValue
INVARIANT
    AllTellSettings
PROPERTY
    ImplementsSubTabs
