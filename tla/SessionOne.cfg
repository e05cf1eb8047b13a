SPECIFICATION FairSpec
CONSTANTS
    Callers = {c1}
    NoCaller = NoCaller
    HasCredentials = TRUE
    Ops = {"INVITE", "OUTPUT_ONLY", "PUT_GET"}
    MaxRequests = 4
    MaxFrames = 3
INVARIANTS
    TypeOK
    UpToDate
    NoMutualWait
    InitialScreenOnly
PROPERTIES
    CallEnds
CHECK_DEADLOCK FALSE
