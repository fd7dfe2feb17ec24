SPECIFICATION Spec
CONSTANTS
    root1 = root1
    root2 = root2
    Workspaces = {root1, root2}
    NoWorkspace = NoWorkspace
    MaxChanges = 2
    NumberOfTries = 3
    Configured = TRUE
    MaxCrashes = 1
INVARIANTS
    TypeOK
    ServerHasLastWorkspace
    UnreachableOnlyAfterCrash
PROPERTIES
    HandlersEnd
    ServerGetsUp
CHECK_DEADLOCK FALSE
