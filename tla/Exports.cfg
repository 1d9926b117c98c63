CONSTANTS
    Sessions = {s1, s2}
    ExportIds = {x1, x2}
    Ids = {1, 2, 3}
    MaxBatch = 2
    MaxEvidence = 2
    NoExport = NoExport
    Absent = Absent
    Torn = Torn
    MaxCuts = 1
SPECIFICATION Spec
SYMMETRY Symmetry
INVARIANTS
    TypeOK
    ManifestIsWhatWasHashed
    RetriedDigestIsCurrent
