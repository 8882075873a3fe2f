SPECIFICATION MockSpec
CONSTANTS
    q1 = q1  q2 = q2  q3 = q3  c1 = c1  c2 = c2  p1 = p1
    f1 = f1  bad = bad  s1 = s1
    Conns = {c1, c2}
    Parents = {p1}
    InitialParents = {}
    UniqueVals = {u1}
    Ops <- MCOps
    Seeded = Seeded
    MaxInt = 2
    MaxQuantity = 0
    MaxVersion = 2
    NoRow = NoRow
    Unwritten = Unwritten
    NoSession = NoSession
    Requests = {q1, q3}
    ConnOf <- MCConnOf
    Operations = {"select"}
    SlotSeq <- OneSlot
    SlotKeys <- OneSlotKeys
    Candidates = {f1}
    Fits <- MCFits
    MaxPending = 2
    MaxCalls <- SelectsTwo
    NoRequest = NoRequest
CHECK_DEADLOCK FALSE
INVARIANT
    SameFillIsReused
