\* A deck is in the store; a stranger and its owner call consume.
SPECIFICATION Spec
CONSTANTS
    Requests = {r1, r2}
    Users = {u1, u2}
    Artifacts = {a1}
    Nobody = Nobody
    Leftovers = {a1}
    TTL = 1
    LeaseTTL = 1
    MaxTime = 3
PROPERTY
    OwnerServedAfterRefusal
