SPECIFICATION Spec
CONSTANTS
    f1 = f1  f2 = f2  t1 = t1
    Packets <- MCPackets
    MaxPackets = 2
    Base = 4
    MaxDigits = 5
    Width = 512
    MaxTopic = 1
    MaxMessage = 3
    MaxSubs = 1
    GarbledSizes = {0, 4}
    MaxFrames = 2
    Addrs = {a1, a2}
    Filters = {f1, f2}
    Topics = {t1}
    Matches <- MCMatches
    NoAddr = null
    NoFilter = none
    MaxDepth = 2
INVARIANTS
    TypeOK InFrame TopicsInPlace AckedIsOffered
    ListIsSound HeldIsSafe RenewalIsComplete
PROPERTIES
    HandlersReturn
CHECK_DEADLOCK FALSE
