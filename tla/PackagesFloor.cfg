\* Three releases, no fault: an update, its rollback, and a release between.
SPECIFICATION Spec
CONSTANTS
    r1 = r1
    r2 = r2
    r3 = r3
    None = None
    Torn = Torn
    Releases = {r1, r2, r3}
    Sequence <- ThreeReleases
    Sessions = {s1}
    ContentBytes = 1
    Protected = FALSE
    MaxFaults = 0
INVARIANT ActiveWasVerified
PROPERTY FloorOnlyRises
CHECK_DEADLOCK TRUE
