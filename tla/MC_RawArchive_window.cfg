SPECIFICATION Spec
CONSTANTS
    BatchSize = 2
    FirstMonth = 3
    InitialWindow = 1
    WindowEdits <- WidenedAndNarrowed
    MaxMonth = 4
    MaxRows = 3
    MaxFailures = 1
PROPERTY OnlyWindowRetained
