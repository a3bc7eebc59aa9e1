CONSTANTS
    Nodes <- MCMutualNodes
    ConnList <- MCMutualConnList
SPECIFICATION Spec
INVARIANT LinksAgree
