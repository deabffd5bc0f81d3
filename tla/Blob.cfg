\* Two calls of put or consume on an artifact that may be there already.
SPECIFICATION Spec
CONSTANTS
    Requests = {r1, r2}
    Users = {u1, u2}
    Artifacts = {a1, a2}
    Nobody = Nobody
    Leftovers = {a1}
    TTL = 2
    LeaseTTL = 1
    MaxTime = 4
INVARIANTS
    SingleUse
    OwnerOnly
PROPERTIES
    StaleCheckBounded
    OnlyOwnerRemovesValid
    CallsEnd
    ImplementsArtifactStore
