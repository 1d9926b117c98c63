CONSTANTS
    Sessions = {s1, s2}
    Runs = {r1, r2}
    NoRun = NoRun
    NoSession = NoSession
    Onboarding = r1
    EvidenceMax = 2
    SampleMax = 1
SPECIFICATION FairSpec
INVARIANTS
    OneWakeup
    StoppedIsQuiet
    CommandKeepsItsRun
    SequencesAgree
    ResultsAreEvidence
    OwnerHasTheRun
PROPERTY BecomesIdle
