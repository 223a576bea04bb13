SPECIFICATION Spec
CONSTANTS
    Params = {"id", "tab"}
    Owners = {"a", "b"}
    Tables <- MCTables
    None = "none"
INVARIANT FailureReachesErrorRoute
CHECK_DEADLOCK FALSE
