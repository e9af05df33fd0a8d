CONSTANTS
    ALIGNMENT = 2
    HeapFrom = 2
    HeapTo = 11
    MaxSize = 6
    MaxRanges = 3
SPECIFICATION Spec
INVARIANTS OverlapOnlyByContainment
