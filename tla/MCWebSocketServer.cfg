SPECIFICATION EventsSpec
CONSTANTS
    s1 = s1
    s2 = s2
    Sockets = {s1, s2}
    MaxMessages <- MCMaxMessages
    Contents <- MCContents
    Signatures <- MCSignatures
INVARIANT SyncDestroysOnceClosed
INVARIANT EventsAreSound
PROPERTY OnlyStaleTerminated
PROPERTY GoneIsClosed
CHECK_DEADLOCK FALSE
