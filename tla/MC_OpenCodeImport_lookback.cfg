SPECIFICATION FairSpec
CONSTANTS
    Lookback = 1
    MaxMessages = 2
    MaxTokens = 1
    MaxLines = 0
    MaxDatabases = 0
    MaxLogs = 0
    MaxFailures = 0
PROPERTY UpdatedRowsReprocessed
