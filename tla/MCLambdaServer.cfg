SPECIFICATION MCSpec
CONSTANTS
    Params = {"id", "tab"}
    Owners = {"a", "b"}
    Tables <- MCTables
    None = "none"
    Chains <- MCChains
    MaxCalls = 2
INVARIANT AnsweredOnce
INVARIANT ReportIsNoSuccess
INVARIANT ErrorHandlerSeesFailure
 
INVARIANT ValueIsKept
INVARIANT ReportIsCalledBack
PROPERTY IsRequestHandler
PROPERTY CallsAreAnswered
CHECK_DEADLOCK FALSE
