\* Two organisations are added at a time.
SPECIFICATION ServicesSpec
CONSTANTS
    Sessions = {s1}
    Users = {u1}
    Nobody = Nobody
    Names = {acme, n1, n2}
    Preloaded = {acme}
    Requests = {r1, r2}
INVARIANT
    AddedIsCached
CHECK_DEADLOCK FALSE
