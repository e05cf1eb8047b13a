SPECIFICATION Spec
CONSTANTS
    Callers = {c1, c2}
    Hosts = {h1, h2}
    NoHost = NoHost
    ConfigHost = h1
    Tunnel = TRUE
    MaxSessions = 3
SYMMETRY Symmetry
INVARIANTS
    TypeOK
    Recoverable
    KeyOncePerSession
    NoLeak
    ScreenIsOwn
    SameHost
