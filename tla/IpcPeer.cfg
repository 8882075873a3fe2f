SPECIFICATION FairSpec
CONSTANTS
    host = host  plugin = plugin  c1 = c1  c2 = c2  c3 = c3
    Peers = {host, plugin}
    Calls = {c1, c2}
    CallerOf <- MCCallerOf
    MaxPending = 1
    MaxWrites = 1
    MaxHandlers = 1
    PipeRoom = 1
    NoFrame = NoFrame
CHECK_DEADLOCK FALSE
INVARIANTS
    TypeOK
    ChannelHasRoom
    ShutdownIsComplete
    OutcomeMatchesHandler
PROPERTIES
    CancelledHandlersEnd
    SettledCallsReturn
