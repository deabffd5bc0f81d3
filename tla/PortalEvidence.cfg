\* No replica stops on its own: only the liveness probe ends one.
SPECIFICATION Spec
CONSTANTS
    Creates = {c1}
    Downloads = {}
    Readies = {}
    Replicas = {p1}
    Users = {u1}
    Artifacts = {a1}
    Nobody = Nobody
    Drafts = {x1}
    NoDraft = NoDraft
    StorageMode = "blob"
    Threshold = 3
    MaxStops = 0
INVARIANT
    DroppedCreatesHoldNothing
