SPECIFICATION Spec
CONSTANTS
    Callers = {c1}
    Hosts = {h1, h2}
    NoHost = NoHost
    ConfigHost = h1
    Tunnel = FALSE
    MaxSessions = 3
INVARIANTS
    ConnectAnswers
