CONSTANTS
    Clients = {w1}
    Workers = {k1, k2}
    CPUs = {i1}
    Daemon = Daemon
    Calls = {n}
    Once = {}
    Signal = {}
    None = None
    Parallel = {TRUE, FALSE}
    Target = 1
    MaxBlocked = 1
    Tracked = {}
    SignalRaces = FALSE
SPECIFICATION FairSpec
PROPERTIES PendingServed WaitReturns
