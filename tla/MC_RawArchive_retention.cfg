SPECIFICATION FairSpec
CONSTANTS
    BatchSize = 2
    FirstMonth = 3
    InitialWindow = 2
    WindowEdits <- Narrowed
    MaxMonth = 5
    MaxRows = 4
    MaxFailures = 2
INVARIANTS TypeOK CurrentMonthKept RecordHonoured GapFree
PROPERTIES OnlyWindowRetained OldBodiesCleared
