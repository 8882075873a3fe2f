SPECIFICATION FairSpec
CONSTANTS
    r1 = r1  r2 = r2  r3 = r3  run1 = run1  run2 = run2  yes = yes  yesToo = yesToo  no = no  bad = bad
    dYes = dYes  dNo = dNo  dBad = dBad  a1 = a1  a2 = a2
    Runs = {run1}
    Requests = {r1, r2}
    Agents = {a1}
    RunOf <- MCRunOf
    Candidates = {yes, bad}
    Digests = {dYes, dNo, dBad}
    Digest <- MCDigest
    Fits <- MCFits
    NoCandidate = NoCandidate
    NoDigest = NoDigest
    LeaseTTL = 1
    RequestTimeout = 1
    MaxBatch = 1
    MaxActive = 1
    MaxPerRun = 1
    MaxTotal = 2
    MaxTime = 1
    MaxOwners = 1
    MaxLeases = 1
PROPERTY
    EveryoneIsAnswered
