SPECIFICATION MCSpec
CONSTANTS
    Classes = {"S", "A", "B", "AService"}
    Extends <- MCExtends
    Decorators <- MCDecorators
    Declarations <- MCDeclarations
    Tokens = {"S", "A", "B", "AService"}
    None = None
    Interceptors <- MCInterceptors
    Written <- MCWritten
    AsyncMark <- MCMark
    MaxRuns = 4
    Targets = {"AService", "BService", "CService", "DService"}
    Programs <- MCPrograms
    DecoratorType <- MCDecoratorType
    CustomKeys <- MCKeys
    Undefined = Undefined
    Extra <- MCExtra
INVARIANT InjectedAsDeclared
INVARIANT ResultIsKept
INVARIANT InterceptorsHaveRun
INVARIANT AsTested
PROPERTY BasesKeepTheirMetadata
CHECK_DEADLOCK FALSE
