SPECIFICATION Spec
CONSTANTS
    Wrap = 11
    Second = 2
    MaxSeconds = 4
    KeepAlives = {1, 2, 3, 5}
    Tolerance = 3
    SocketTimeout = 4
    Gap = 1
    Pass = 1
    Delay = 1
INVARIANTS
    LiveClientIsKept LiveServerIsKept SilentClientIsDropped SilentServerIsNoticed WaitsEnd
CHECK_DEADLOCK FALSE
