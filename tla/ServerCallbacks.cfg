SPECIFICATION SpecWithCallbacks
CONSTANTS
    c1 = c1  c2 = c2  app = app
    t1 = t1  t2 = t2  f1 = f1  f2 = f2  f3 = f3
    Conns <- Peers
    Sockets = 1
    Local <- app
    Topics = {t1, t2}
    Filters = {f1, f2, f3}
    LongFilters = {f3}
    ValidFilters = {f1, f2}
    Matches <- MatchesDef
    Packets <- ForwardPackets
    BufferSize = 2
    MaxPackets = 1
    MaxSubs = 2
    MaxInbox = 1
    MaxMsgs = 2
SYMMETRY AnySymmetry
INVARIANTS
    EveryoneServed
