SPECIFICATION Spec
CONSTANTS
    Clients = {c1, c2}
    MaxGeneration = 3
    Links = {t1, t2}
    SlotCount = 2
    MaxIds = 2
    MaxSequence = 2
INVARIANT RevocationEndsSessions
SYMMETRY Symmetry
