SPECIFICATION Spec
CONSTANTS
    t1 = t1  t2 = t2  k1 = k1  k2 = k2  r1 = r1
    Turns = {t1, t2}
    TokenCounts = {k1, k2}
    Responses = {r1}
    Entries <- WithQuotes
    Parsers = {"former", "current"}
    MaxCutoff = 1
    MaxLog = 3
    MaxAborts = 1
PROPERTY AllRowsRepaired
