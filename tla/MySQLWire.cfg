SPECIFICATION FairSpec
CONSTANTS
    c1 = c1  c2 = c2
    Conns = {c1, c2}
    Patient = {c1}
    Commands <- MCCommands
    MaxCommands <- MCMaxCommands
    MaxConns = 1
    QueueSize = 2
    MaxStatements = 1
CHECK_DEADLOCK FALSE
INVARIANTS
    TypeOK
    StopLeavesNothing
PROPERTIES
    PatientClientsStay
    ImplementsConnection
    ConnectionsEnd
