SPECIFICATION FairSpec
CONSTANTS
    Requests = {r1, r2}
    Capacity = 1
    MaxUpload = 1
    None = None
INVARIANTS
    SlotsConserved
PROPERTIES
    SlotsSpec
    EveryRequestAnswered
CHECK_DEADLOCK FALSE
