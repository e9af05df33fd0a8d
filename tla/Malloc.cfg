CONSTANTS
    HeapLo = 1
    MAX_HEAP = 52
    PageWords = 14
    segregated_list_num = 2
    SmallLog = 2
    ALIGNMENT = 1
    Ids = {0, 1, 128}
    Sizes = {2, 12}
    MaxOps = 7
SPECIFICATION Spec
INVARIANTS Tiled ListsExact LiveIntact
PROPERTIES GrowsOnlyWhenFull ImplementsAllocator
CHECK_DEADLOCK FALSE
