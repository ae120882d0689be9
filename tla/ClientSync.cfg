SPECIFICATION Spec
CONSTANTS
    f1 = f1  f2 = f2  f3 = f3  none = none
    Filters = {f1, f3}
    Refused = {f3}
    NoFilter = none
    Reentrant = {FALSE, TRUE}
    MaxId = 4
    MaxPackets = 1
    MaxDown = 2
    MaxPublish = 2
    MaxFaults = 2
    MaxDepth = 3
INVARIANTS
    TypeOK
    NoStaleReply
    InSync
    ConfirmedAreReceived
    NoViolation
