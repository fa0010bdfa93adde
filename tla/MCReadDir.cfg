CONSTANTS
    NameLens = {1, 15, 30}
    Inos = {5, 256}
    MaxEntries = 3
    Counts = {16, 33, 64}
    PerChunk = 2
    Stale = {0, 7}
SPECIFICATION DirectorySpec
INVARIANT FoldedAsStat
