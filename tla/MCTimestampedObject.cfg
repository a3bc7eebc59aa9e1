CONSTANTS
    TxIds <- MCTxIds
    Values <- MCValues
SPECIFICATION Spec
INVARIANT TypeOK
INVARIANT TentativeAboveCommitted
INVARIANT ReadsSeeLatestCommitted
INVARIANT UncommittedReadersHoldWrites
PROPERTY SerialRefinement
