CONSTANTS
    Clients = {w1, w2}
    Workers = {k1, k2}
    CPUs = {i1}
    Daemon = Daemon
    Calls = {o, n}
    Once = {o}
    Signal = {}
    None = None
    Parallel = {FALSE}
    Target = 1
    MaxBlocked = 1
    Tracked = {o}
    SignalRaces = FALSE
SPECIFICATION Spec
INVARIANTS CancelWaitIsComplete
