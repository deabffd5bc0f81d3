\* Two cases, one of which must fail closed, once per stack.
SPECIFICATION Spec
CONSTANTS
    Cases = {k1, k2}
    FailClosed = {k2}
    MustProduce = {k1}
    Stacks = {prompt, hosted}
    Repetitions = 1
    Outcomes <- MCOutcomes
    Scale = 2
SYMMETRY StackSymmetry
INVARIANTS
    ReportCoversMatrix
    UnsafeStackUnscored
    BetterScoresHigher
