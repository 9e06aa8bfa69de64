\* Two of everything: a directory and one beside it, a passphrase and one it can
\* be confused with, a device and another account's or the same account's other.
CONSTANTS
    d1 = d1
    d2 = d2
    k1 = k1
    k2 = k2
    u1 = u1
    u2 = u2
    i1 = i1
    i2 = i2
    Dirs <- MCDirs
    Keys <- MCKeys
    Users <- MCUsers
    Ids <- MCIds
    None = None
    Torn = Torn
SPECIFICATION Spec
SYMMETRY MCSymmetry
INVARIANTS
    TypeOK
    KeyOfStoreKept
    SessionHasStore
    SignedInOwnsStore
