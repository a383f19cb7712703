SPECIFICATION ReadersSpec
CONSTANTS
    codex = codex
    opencode = opencode
    chatA = chatA
    chatB = chatB
    gpt = gpt
    hour1 = hour1
    hour2 = hour2
    Sources = {codex, opencode}
    FirstTab = codex
    MaxVersion = 2
    MaxInputs = 2
    MaxFaults = 1
    MaxChanges = 3
    MaxAccidents = 4
    Tasks = {chatA, chatB}
    MaxValue = 2
    Thresholds = {0, 1, 2}
    MaxListVersion = 2
    MaxRenders = 3
    Tabs = {codex, opencode}
    DefaultTab = codex
    Buckets = {hour1, hour2}
    Calls = {chatA, chatB}
    MaxAnalytics = 2
    MaxClicks = 2
    MaxMishaps = 1
    Kinds <- MCKinds
    Times = {1, 3}
    RawRows <- MCRawRows
    RawLog <- MCRawLog
    RawScanLimit = 2
    BucketSize = 2
    MaxBuckets = 1
    Noon = 3
    MaxRows = 3
    MaxSteps = 2
INVARIANTS
    TypeOK
    TabsShowTheirOwn
    PollsHideNothing
    OneRecoveryChild
    SettingsSurvive
    PageIsTrue
    DashboardAgrees
PROPERTIES
    SignalsOnce
    ReadersCatchUp
CHECK_DEADLOCK FALSE
