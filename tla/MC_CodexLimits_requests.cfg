SPECIFICATION FairSpec
CONSTANTS
    c1 = c1
    c2 = c2
    Handlers = {h1, h2}
    Clients = {k1, k2, k3}
    Configs <- AllConfigs
    FirstConfig <- Shared
    NoClient = NoClient
    NoHandler = NoHandler
    NoCommand = NoCommand
    MaxRequests = 2
    MaxEdits = 1
    MaxUsed = 1
    MaxExits = 1
    MaxNotices = 1
INVARIANTS
    TypeOK
    AnswersAreOwn
    HandshakeFirst
    ProcessesOwned
PROPERTIES
    LimitsStay
    RequestsEnd
CHECK_DEADLOCK FALSE
