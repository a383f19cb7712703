SPECIFICATION ClientSpec
CONSTANTS
    Sources = {codex, opencode}
    FirstTab = codex
    MaxVersion = 2
    MaxInputs = 0
    MaxFaults = 0
PROPERTY NoSilentlyStaleRows
CHECK_DEADLOCK FALSE
