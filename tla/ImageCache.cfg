SPECIFICATION FairSpec
CONSTANTS
    URLs = {u1, u2, u3, bad}
    BadURLs = {bad}
    Rows = {r1, r2}
    Detail = detail
    Blank = blank
    Cap = 2
    Tasks = {t1, t2}
INVARIANTS
    TypeOK
    CacheBounded
    CacheExact
PROPERTIES
    SaveIsFifo
    DownloadsSettle
