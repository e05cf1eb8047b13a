SPECIFICATION Spec
CONSTANTS
    Callers = {c1}
    NoCaller = NoCaller
    HasCredentials = FALSE
    Ops = {"INVITE"}
    MaxRequests = 3
    MaxFrames = 3
INVARIANTS
    ScreenFollowsKey
CHECK_DEADLOCK FALSE
