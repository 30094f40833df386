SPECIFICATION FairSpec
CONSTANTS
    Threads = {t1, t2}
    Semaphores = {w, g}
    None = None
    MaxCount = 1
    WaitOn = {w, g}
    SignalOn = {g}
    Destroyable = {g}
    Calls = {}
PROPERTY WokenReturns
