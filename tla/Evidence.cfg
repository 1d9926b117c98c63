CONSTANTS
    Threads = {t1, t2}
    Ids = {e1, e2, e3}
    Contents = {c1, c2}
    Absent = Absent
    Torn = Torn
    NoThread = NoThread
    NoId = NoId
    MaxRecords = 2
    MaxCuts = 1
SPECIFICATION Spec
INVARIANTS
    TypeOK
    CapturedIsWhole
PROPERTY KeepsArchive
