CONSTANTS
    Commands <- MCCommand
    Searches <- MCSecondHasIt
    Binfmts <- MCBinfmts
    Domains = {1, 2, 3}
    Credentials <- MCRoot
    SegvActions = {"dfl"}
    MapErrors = {}
SPECIFICATION FairSpec
PROPERTY PathSearchEnds
