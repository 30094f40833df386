SPECIFICATION FairSpec
CONSTANTS
    Producers = {p1, p2, p3}
    Elements = {e1, e2, e3, e4}
    HEAD = HEAD
    NULL = NULL
    NOTQUEUED = NOTQUEUED
INVARIANT TypeOK
PROPERTIES IsFifo AllInvoked
