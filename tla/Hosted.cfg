\* One part of the template after the other.
SPECIFICATION Spec
CONSTANTS
    Letters = {"a", "b", "x", "z"}
    Names <- TwoNames
    Evidences <- MCEvidences
    Rewritings <- MCRewritings
    Templates <- EveryTemplate
    Labelled <- LabelledTemplates
    MaxRepairs = 2
INVARIANTS
    GeneratedDeckAnonymous
    GeneratedDeckQuotes
    GeneratedDeckAccepted
    ApprovedDeckExplained
