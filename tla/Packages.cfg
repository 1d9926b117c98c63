\* Two releases, one session, one fault: an installation, an update, every
\* refused, failing or interrupted request between them.
SPECIFICATION Spec
CONSTANTS
    r1 = r1
    r2 = r2
    r3 = r3
    None = None
    Torn = Torn
    Releases = {r1, r2}
    Sequence <- TwoReleases
    Sessions = {s1}
    ContentBytes = 1
    Protected = FALSE
    MaxFaults = 1
INVARIANTS
    TypeOK
    HealthyWasVerified
PROPERTIES
    FloorOnlyRises
    StartupResolves
CHECK_DEADLOCK TRUE
