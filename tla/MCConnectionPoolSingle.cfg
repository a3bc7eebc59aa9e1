CONSTANTS
    Nodes <- MCSingleNodes
    ConnList <- MCSingleConnList
SPECIFICATION Spec
PROPERTY PoolComesUp
