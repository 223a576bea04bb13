SPECIFICATION Spec
CONSTANT Sockets = {s1, s2}
INVARIANT DestroyedOnceClosed
CHECK_DEADLOCK FALSE
