SPECIFICATION Spec
CONSTANTS
    SourceCount = 2
    MaxDrafts = 3
INVARIANTS
    EvidenceDeleted
    CitedDraftsDeleted
PROPERTY
    ImplementsGateway
