CONSTANTS
    Width <- MCWidth
    Diffs <- MCDiffs
    OverflowChecks = FALSE
    MaxWrites = 2
SPECIFICATION Spec
INVARIANT CheckSeesTrueBalance
