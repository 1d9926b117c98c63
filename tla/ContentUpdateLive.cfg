\* One release, two faults, fairness.
SPECIFICATION FairSpec
CONSTANTS
    c1 = c1
    c2 = c2
    bootDir = bootDir
    dir1 = dir1
    dir2 = dir2
    Candidates = {c1}
    Bootstrap = bootstrap
    Dirs = {bootDir, dir1}
    BootDir = bootDir
    Dir <- OneReleaseDir
    Seq <- OneRelease
    Sessions = {s1}
    ContentBytes = 1
    None = None
    Torn = Torn
    MaxFaults = 2
PROPERTIES
    BootCompletes
    ActivatingResolves
