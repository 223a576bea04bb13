SPECIFICATION Spec
CONSTANTS
    c1 = c1
    c2 = c2
    Clients = {c1, c2}
    Wants <- MCWants
    Transport <- MCTransport
    Subscribed <- MCSubscribed
    Middlewares = 2
INVARIANT InjectorsAreSound
PROPERTY HeartbeatEndsTheStale
CHECK_DEADLOCK FALSE
