SPECIFICATION Spec
CONSTANTS
    f1 = f1  f2 = f2  f3 = f3  none = none
    Filters = {f1, f2}
    Refused = {}
    NoFilter = none
    Reentrant = {TRUE}
    MaxId = 7
    MaxPackets = 2
    MaxDown = 2
    MaxPublish = 0
    MaxFaults = 0
    MaxDepth = 4
INVARIANTS
    NeverAccuses
