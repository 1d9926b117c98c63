SPECIFICATION FairSpec
CONSTANTS
    s1 = s1
    s2 = s2
    n1 = n1
    n2 = n2
    n3 = n3
    Sessions = {s1, s2}
    NamesOf <- Sharing
    NoName = NoName
    Records = {1, 2}
    Threads = {1, 2}
INVARIANTS AttachedIsOwned CancelledIsStopped
PROPERTIES VerdictStands CancelReturns
CHECK_DEADLOCK FALSE
