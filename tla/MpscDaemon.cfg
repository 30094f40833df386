SPECIFICATION FairSpec
CONSTANTS
    Threads = {t1, t2}
    Elements = {e1, e2}
    ThreadQ = {q1}
    CallQ = {q2, root}
    NestedQ = {n1}
    Root = root
    None = None
    Inactive = {n1, q1}
    Cancelable = {q1, q2}
    Quiescent = TRUE
    Resend = FALSE
INVARIANTS QueuedOnce  
PROPERTIES AllInvoked CancelReturns
CHECK_DEADLOCK FALSE
