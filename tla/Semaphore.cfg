SPECIFICATION Spec
CONSTANTS
    Threads = {t1, t2}
    Semaphores = {w, g}
    None = None
    MaxCount = 1
    WaitOn = {w, g}
    SignalOn = {g}
    Destroyable = {w, g}
    Calls = {"signal", "signal_all", "signal_thread", "destroy"}
SYMMETRY Symmetry
INVARIANTS WaitersCounted  LiveResultIsTrue
