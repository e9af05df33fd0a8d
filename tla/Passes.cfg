CONSTANTS
    HeapLo = 1
    MAX_HEAP = 44
    PageWords = 14
    segregated_list_num = 2
    SmallLog = 2
    ALIGNMENT = 1
    Ids = {1, 2}
    Sizes = {2, 12}
    MaxOps = 5
    Traces <- MCTraces
    NumTraces = 2
    SpeedRuns = 2
SPECIFICATION MainSpec
INVARIANTS UncheckedApart UtilAtMostOne
