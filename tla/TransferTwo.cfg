SPECIFICATION Spec
CONSTANTS
    Callers = {c1, c2}
    MaxTransports = 3
    MaxConnections = 3
    MaxPorts = 2
SYMMETRY Symmetry
INVARIANTS
    TypeOK
    RetryIsRenewed
    SoundTransport
    NoLeak
    Paired
CHECK_DEADLOCK FALSE
