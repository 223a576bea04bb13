SPECIFICATION MCSpec
CONSTANTS
    Injectors = {i1, i2, i3, i4}
    Keys = {k}
    Values = {v, w}
    MutableKeys = {}
    NoParent = NoParent
    MaxRelisted = 1
SYMMETRY Symmetry
INVARIANT NoChildLeak
PROPERTY DepartureIsLocal
PROPERTY BindingsImmutable
PROPERTY LifoIsForest
