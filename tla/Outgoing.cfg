SPECIFICATION Spec
CONSTANTS
    Capacities = {0, 1, 2, 3, 5}
    ScratchSize = 2
    HeaderSize = 2
    Sizes = {0, 1, 2, 3, 4, 5}
INVARIANTS TypeOK NothingIsLost SentIsWhole
PROPERTIES WritesReturn
CHECK_DEADLOCK FALSE
