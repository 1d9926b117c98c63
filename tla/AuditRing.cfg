CONSTANTS
    Entries = {1, 2}
    Digests <- MCDigests
    NoDigest = 0
    Digest <- MCDigest
    RingSize = 3
    MaxEvents = 6
    NoEntry = 0
SPECIFICATION Spec
INVARIANTS
    TypeOK
    RingHoldsTail
    FullReadJudged
PROPERTY KeepsPromise
