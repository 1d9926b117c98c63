\* Two releases, two update directories, two sessions, one fault.
SPECIFICATION Spec
CONSTANTS
    c1 = c1
    c2 = c2
    bootDir = bootDir
    dir1 = dir1
    dir2 = dir2
    Candidates = {c1, c2}
    Bootstrap = bootstrap
    Dirs = {bootDir, dir1, dir2}
    BootDir = bootDir
    Dir <- TwoDirs
    Seq <- TwoReleases
    Sessions = {s1, s2}
    ContentBytes = 2
    None = None
    Torn = Torn
    MaxFaults = 1
INVARIANTS
    TypeOK
    RunsApproved
    KnownGoodMatchesAccepted
    SequenceAboveFloor
    ConfirmationBindsCandidate
    FloorKept
PROPERTY HealthNeedsMarker
CHECK_DEADLOCK TRUE
