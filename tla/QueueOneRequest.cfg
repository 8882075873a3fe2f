SPECIFICATION Spec
CONSTANTS
    r1 = r1  r2 = r2  r3 = r3  run1 = run1  run2 = run2  yes = yes  yesToo = yesToo  no = no  bad = bad
    dYes = dYes  dNo = dNo  dBad = dBad  a1 = a1  a2 = a2
    Runs = {run1}
    Requests = {r1}
    Agents = {a1, a2}
    RunOf <- MCRunOf
    Candidates = {yes, yesToo}
    Digests = {dYes, dNo, dBad}
    Digest <- MCDigest
    Fits <- MCFits
    NoCandidate = NoCandidate
    NoDigest = NoDigest
    LeaseTTL = 2
    RequestTimeout = 3
    MaxBatch = 1
    MaxActive = 1
    MaxPerRun = 1
    MaxTotal = 1
    MaxTime = 3
    MaxOwners = 2
    MaxLeases = 2
SYMMETRY AgentSymmetry
INVARIANTS
    TypeOK
    LeaseOfPresentOwner
    WaiterOwnsAnswer
    DeliveryMatchesAcceptance
    ResolvedMeansFilled
    NewRequestWakesOwner
PROPERTY
    ImplementsLifecycle
