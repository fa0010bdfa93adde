CONSTANTS
    Commands <- MCCommands
    Searches <- MCSearches
    Binfmts <- MCBinfmts
    Domains = {1, 2, 3}
    Credentials <- MCCredentials
    SegvActions = {"dfl", "ign"}
    MapErrors = {"ENOMEM", "ENODEV", "EACCES"}
SPECIFICATION Spec
INVARIANTS LoadersRelease StartedIsLoaded PrivilegesDropped
PROPERTY NoReturn
