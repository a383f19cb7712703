SPECIFICATION FairSpec
CONSTANTS
    h1 = h1
    h2 = h2
    Background = background
    Nobody = nobody
    Handlers <- TwoHandlers
    MaxRows = 1
    MaxFailures = 1
INVARIANTS TypeOK RunningIsTrue StatusAgrees RefreshIsFresh
PROPERTIES ImplementsSerial RequestsEnd EventuallyImported
