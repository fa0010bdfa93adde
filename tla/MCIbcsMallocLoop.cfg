CONSTANTS
    Sizes = {1, 8, 12}
    HdrSize = 4
    BrkLimit = 10
    Handlers = FALSE
SPECIFICATION MallocFairSpec
PROPERTY SearchEnds
