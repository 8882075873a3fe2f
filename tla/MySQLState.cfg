SPECIFICATION Spec
CONSTANTS
    Conns = {c1, c2}
    Parents = {p1}
    InitialParents = {p1}
    UniqueVals = {u1}
    Ops = {o1, o2, o3}
    Seeded = Seeded
    MaxInt = 3
    MaxQuantity = 1
    MaxVersion = 3
    NoRow = NoRow
    Unwritten = Unwritten
    NoSession = NoSession
SYMMETRY StateSymmetry
INVARIANTS
    TypeOK
    CommittedIsValid
    CounterAboveKeys
PROPERTY
    CommitsKeepOthers
