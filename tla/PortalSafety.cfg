\* Production: one submission and two downloads on two replicas with Blob
\* storage, one of which may stop.
SPECIFICATION Spec
CONSTANTS
    Creates = {c1}
    Downloads = {d1, d2}
    Readies = {}
    Replicas = {p1, p2}
    Users = {u1, u2}
    Artifacts = {a1}
    Nobody = Nobody
    Drafts = {x1, x2}
    NoDraft = NoDraft
    StorageMode = "blob"
    Threshold = 2
    MaxStops = 1
SYMMETRY PortalSymmetry
INVARIANTS
    StoredDecksApproved
    DeliveredToItsOwnerOnce
    AnswersAreSettled
