SPECIFICATION Spec
CONSTANTS
    Callers = {c1}
    MaxTransports = 1
    MaxConnections = 2
    MaxPorts = 2
INVARIANT LostIsRetried
CHECK_DEADLOCK FALSE
