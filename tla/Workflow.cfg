SPECIFICATION Spec
CONSTANTS
    SourceCount = 2
    MaxRepair = 2
    ResponseLimit = 2
    MaxDrafts = 2
INVARIANTS
    ApprovedDeckIsJudged
    EvidenceDeleted
    LastDraftsDeleted
    ApprovalReachesPortal
PROPERTIES
    BlockingIsFinal
    ImplementsGateway
