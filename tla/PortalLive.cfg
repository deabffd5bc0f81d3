\* Development: one process, which may be restarted, the in-memory store, and
\* threads that build the services at the same time.
SPECIFICATION Spec
CONSTANTS
    Creates = {c1}
    Downloads = {d1}
    Readies = {y1}
    Replicas = {p1}
    Users = {u1, u2}
    Artifacts = {a1}
    Nobody = Nobody
    Drafts = {x1}
    NoDraft = NoDraft
    StorageMode = "memory"
    Threshold = 3
    MaxStops = 1
PROPERTY
    EveryRequestEnds
