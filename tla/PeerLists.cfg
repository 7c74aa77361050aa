SPECIFICATION Spec
CONSTANTS
    Node <- Nodes
    List <- Lists
    Distance <- Distances
    ksize = 1
    MaxTurns = 1
    MaxFaults = 1
PROPERTIES Listed
