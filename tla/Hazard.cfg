SPECIFICATION Spec
CONSTANTS
    NCPU = 2
    HAZARD_GUARD_SLOTS = 1
    hazard_bucket_count = 2
    NValue = 3
    NBucket = 2
    Writers = {w1}
    MaxGuards = 1
INVARIANTS TypeOK   DeferredBounded
