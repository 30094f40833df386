CONSTANTS
    Clients = {w1, w2}
    Workers = {k1, k2}
    CPUs = {i1}
    Daemon = Daemon
    Calls = {o, s}
    Once = {o, s}
    Signal = {s}
    None = None
    Parallel = {TRUE, FALSE}
    Target = 1
    MaxBlocked = 1
    Tracked = {}
    SignalRaces = FALSE
SPECIFICATION Spec
INVARIANTS CountsAgree   
 
