SPECIFICATION FairSpec
CONSTANTS
    L = L  R = R  wire = wire  mock = mock  mock2 = mock2
    e1 = e1  p1 = p1   raw = raw  ready = ready
    Refs = {L, R}
    Archives = {wire, mock, mock2}
    RefOf <- MCRefOf
    NoArchive = NoArchive
    MaxInstalls = 3
    Bodies = {raw, ready}
    InitialVersions <- NoVersions
    NoBody = NoBody
    Preparers = {mock}
    Compile <- MCCompile
    Environments = {e1}
    Puts = {p1}
    LeftRef = L
    RightRef = R
    MaxLost = 1
    MaxCrashes = 1
CHECK_DEADLOCK FALSE
INVARIANTS
    TypeOK
    RunningIsInstalled
    ReferencesAreCounted
    PackagesMatchRecords
    RightOutlivesLeft
    StopLeavesNothing
    FrozenIsCanonical
PROPERTY
    BindingsLetGo
