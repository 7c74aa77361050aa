SPECIFICATION Spec
CONSTANTS
    Node = {1, 2, 3}
    Starts <- ColdAndWarm
    Retries = 2
    MaxLost = 1
    MaxForeign = 1
INVARIANTS NoSelf Acquainted
PROPERTIES Bootstraps
CHECK_DEADLOCK FALSE
