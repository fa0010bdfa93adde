CONSTANTS
    MaxLen = 5
    Maps <- MCMaps
    Cwds <- NotRoot
    Names <- AllNames
    DstSizes = {4, 8, 16}
    IsAbs = {TRUE, FALSE}
SPECIFICATION Spec
INVARIANTS Normalised WithinBuffer Rewritten
