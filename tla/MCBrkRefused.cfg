CONSTANTS
    Heaps = {"program"}
    Sizes = {1}
    HdrSize = 4
    BrkLimit = 1
    Handlers = TRUE
    PAGE_SIZE = 2
    Pages = 16
    Layouts <- CoffLayouts
    Breaks = {4, 5, 6, 7, 8, 9, 10, 11, 12, 13, 14, 15, 20, 29}
    Obstacles = {6, 7, 9, 12}
SPECIFICATION Spec
INVARIANT HeapMapped
