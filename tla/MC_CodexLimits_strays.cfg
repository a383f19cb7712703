SPECIFICATION Spec
CONSTANTS
    c1 = c1
    c2 = c2
    Handlers = {h1, h2}
    Clients = {k1, k2, k3}
    Configs <- IdleConfigs
    FirstConfig <- Shared
    NoClient = NoClient
    NoHandler = NoHandler
    NoCommand = NoCommand
    MaxRequests = 2
    MaxEdits = 1
    MaxUsed = 0
    MaxExits = 0
    MaxNotices = 0
INVARIANT OneProcess
CHECK_DEADLOCK FALSE
