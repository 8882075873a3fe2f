SPECIFICATION FairSpec
CONSTANTS
    r1 = r1  r2 = r2  b1 = b1  b2 = b2  q1 = q1  q2 = q2  d1 = d1  d2 = d2
    Runs = {r1}
    BindingSeq <- OneBinding
    Requests = {q1}
    BindingOf <- MCBindingOf
    TraceLimit = 3
    Destroyers = {d1}
    MaxExits = 1
    NoRun = NoRun
CHECK_DEADLOCK FALSE
INVARIANTS
    TypeOK
    DestroyForgetsNothing
PROPERTIES
    SpoiledRunFails
    AbortedRunsEnd
    RequestsAreObserved
