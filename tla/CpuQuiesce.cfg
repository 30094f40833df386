SPECIFICATION FairQuiesceSpec
CONSTANTS
    Processors = {c1, c2, c3}
    CounterMod = 3
    LastMayLeave = FALSE
 
PROPERTIES  Ticks
