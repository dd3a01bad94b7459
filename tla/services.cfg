\* Three sessions, two users; acme and two new organisations, two adds at a time.
SPECIFICATION ServicesSpec
CONSTANTS
    Sessions = {s1, s2, s3}
    Users = {u1, u2}
    Nobody = Nobody
    Names = {acme, n1, n2}
    Preloaded = {acme}
    Requests = {r1, r2}
INVARIANTS
    AddedHasKeys
    PreloadedServed
    FoundIsStored
    EntriesBounded
PROPERTY
    KeepsRegistry
SYMMETRY Symmetry
CHECK_DEADLOCK FALSE
