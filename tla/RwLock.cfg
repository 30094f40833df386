SPECIFICATION FairSpec
CONSTANTS
    Threads = {t1, t2, t3}
    None = None
    PrivExcl = {TRUE, FALSE}
    CanSleep = {TRUE, FALSE}
    SharedDowngrade = FALSE
INVARIANTS OwnerKnown NoLostWakeup
PROPERTIES IsSharedLock WriterServed
