CONSTANTS
    Threads = {t1, t2, t3}
    Values = {a, b}
    MaxItems = 2
    NULL = NULL
SPECIFICATION FairSpec
INVARIANT CallersAwake
PROPERTIES RefinesFIFO NobodyStranded
