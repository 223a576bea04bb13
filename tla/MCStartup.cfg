SPECIFICATION Spec
CONSTANTS
    Servers = {s1, s2}
    None = None
    Declarations <- DeclarationsDef
    OwnRoutes <- OwnRoutesDef
    Paths <- PathsDef
    Verbs = {"get", "error"}
INVARIANT ModulesAreShared
INVARIANT FirstRouteAnswers
SYMMETRY Symmetry
