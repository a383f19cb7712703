SPECIFICATION MCSpec
CONSTANTS
    Lookback = 1
    MaxMessages = 2
    MaxTokens = 2
    MaxLines = 2
    MaxDatabases = 1
    MaxLogs = 1
    MaxFailures = 1
INVARIANTS TypeOK NothingMissed LinesBehindOffset PushesStay
PROPERTIES ReportsImported
