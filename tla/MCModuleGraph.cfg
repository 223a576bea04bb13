SPECIFICATION Spec
CONSTANTS
    Modules = {"ModuleA", "ModuleB", "ModuleC", "ModuleD"}
    Tokens = {"AService", "BService", "CService"}
    Shared = {"CService"}
    Graphs <- MCGraphs
    Calls = {c1, c2}
    Faulty = {"ModuleA", "ModuleC"}
    MaxRemoves = 1
    None = None
SYMMETRY Symmetry
INVARIANT CreatedOnce
INVARIANT SharedReference
INVARIANT RegisteredIsComplete
INVARIANT AgreesWithSync
INVARIANT AsTested
PROPERTY IsDeepestFirst
