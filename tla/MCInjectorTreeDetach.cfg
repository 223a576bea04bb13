SPECIFICATION MCSpec
CONSTANTS
    Injectors = {i1, i2, i3}
    Keys = {k}
    Values = {v, w}
    MutableKeys = {}
    NoParent = NoParent
    MaxRelisted = 1
SYMMETRY Symmetry
PROPERTY DetachRemovesTheChild
