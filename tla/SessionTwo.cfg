SPECIFICATION Spec
CONSTANTS
    Callers = {c1, c2}
    NoCaller = NoCaller
    HasCredentials = FALSE
    Ops = {"INVITE", "OUTPUT_ONLY", "PUT_GET"}
    MaxRequests = 3
    MaxFrames = 3
SYMMETRY Symmetry
INVARIANTS
    LagBounded
    SomeoneReads
PROPERTIES
    CallsPromise
CHECK_DEADLOCK FALSE
