SPECIFICATION FairSpec
CONSTANTS
    Threads = {t1, t2, t3}
    None = None
    OpenModes = {"exclusive"}
INVARIANTS  WaitersKnown PushGoesToHolder HolderKnows FreedIsUnused
PROPERTIES WaiterServed
