CONSTANTS
    Nodes <- MCNodes
    Keys <- MCKeys
    Owner <- MCOwner
    Diffs <- MCDiffs
    MaxTxPerNode = 1
    MaxOps = 1
    AwaitAbortReplies = TRUE
    Width = 3
    OverflowChecks = TRUE
SPECIFICATION Spec
PROPERTY SessionsFinish
CHECK_DEADLOCK FALSE
