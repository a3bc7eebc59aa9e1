CONSTANTS
    Nodes <- MCNodes
    ConnList <- MCConnList
SPECIFICATION Spec
INVARIANT TypeOK
INVARIANT LinksAgree
PROPERTY PoolComesUp
