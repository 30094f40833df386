SPECIFICATION FairSpec
CONSTANTS
    NCPU = 2
    Writers = {w1, w2}
    Objects = {o1, o2}
    NoObj = NoObj
    MaxSeq = 5
INVARIANTS NoReuseWhileHeld GoalObserved
PROPERTIES ReadClockAdvances WaitReturns
CHECK_DEADLOCK FALSE
