\* Three scripts, two of which may be provision; one new template, one new brand deck.
SPECIFICATION ReleaseSpec
CONSTANTS
    ArtifactCount <- MCArtifactCount
    MaxRuns = 2
    MaxTemplates = 1
    MaxDecks = 1
    MaxDeployments = 2
    MaxPolls = 1
    Unpacked = Unpacked
    MaxScripts = 3
INVARIANTS
    ReportedVersionsComplete
    NothingOrphaned
    SpecialistsFirst
    PoliciesMatch
    ReportedDeploymentServes
    ReleasedGuidelinesCurrent
