CONSTANTS
    Nodes <- MCNodes
    Keys <- MCKeys
    Owner <- MCOwner
    Diffs <- MCDiffs
    MaxTxPerNode = 1
    MaxOps = 1
    AwaitAbortReplies = FALSE
    Width = 16
    OverflowChecks = TRUE
SPECIFICATION Spec
INVARIANT NoCoordinatorExit
