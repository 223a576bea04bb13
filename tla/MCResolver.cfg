SPECIFICATION Spec
CONSTANTS
    Providers = {"cfg", "fac", "svc", "aux", "log", "ctrl"}
    Kind <- MCKind
    Needs <- MCNeeds
    Inner <- MCInner
    Props <- MCProps
    Created <- MCCreated
    Wraps <- MCWraps
    Hooked = {"cfg", "svc"}
    MutableKeys = {"log"}
    Calls = {c1, c2}
    Given <- MCGiven
    MaxDestroys = 1
    Unbound = Unbound
SYMMETRY Symmetry
INVARIANT ResultIsBinding
INVARIANT WiredToBindings
INVARIANT SomeCallSurvives
PROPERTY BindingsAreImmutable
