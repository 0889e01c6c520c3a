SPECIFICATION FairSpec
CONSTANTS
    Tasks = {t1, t2}
    Minors = {m1}
    NoString = NoString
    NoMinor = NoMinor
    MaxUpdates = 1
INVARIANTS
    TypeOK
    ReportIsSnapshot
    CatPrintsOnce
PROPERTIES
    WrittenIsNew
    CatsEnd

