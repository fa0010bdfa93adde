CONSTANTS
    Heaps = {"emulator", "program"}
    Sizes = {1, 8, 12}
    HdrSize = 4
    BrkLimit = 9
    Handlers = TRUE
    PAGE_SIZE = 2
    Pages = 16
    Layouts <- AllLayouts
    Breaks = {2, 4, 5, 6, 7, 8, 9, 10, 11, 12, 13, 14, 15}
    Obstacles = {12, 14}
SPECIFICATION Spec
INVARIANTS ChainAscends OwnersExact BssKept HeapMapped
PROPERTY GrowOnlyWhenFull
