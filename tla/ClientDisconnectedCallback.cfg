SPECIFICATION Spec
CONSTANTS
    f1 = f1  f2 = f2  f3 = f3  none = none
    Filters = {f1}
    Refused = {}
    NoFilter = none
    Reentrant = {FALSE}
    MaxId = 7
    MaxPackets = 2
    MaxDown = 2
    MaxPublish = 0
    MaxFaults = 2
    MaxDepth = 4
PROPERTIES
    DisconnectsAreTold
