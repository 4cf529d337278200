SPECIFICATION FairSpec
CONSTANTS
    empty = empty
    blank = blank
    swift = swift
    swiftBlank = swiftBlank
    kotlin = kotlin
    Texts <- AllTexts
    Empty = empty
    Trimmed <- TrimmedText
    PageSize = 1
    MaxPage = 2
    Tasks = {t1, t2}
INVARIANTS
    TypeOK
    LoadingHasRequest
    SingleRequest
    QuiescentShowsText
    NoTextForgotten
    FirstSearchPages
PROPERTIES
    LoadingEnds
