CONSTANTS
    MaxLen = 3
    Maps <- MCMaps
    Cwds <- WithRoot
    Names <- AllNames
    DstSizes = {16}
    IsAbs = {TRUE}
SPECIFICATION Spec
INVARIANT Normalised
