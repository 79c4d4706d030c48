SPECIFICATION FairSpec
CONSTANTS
    Wrappers = {w1, w2}
    Kinds = {"signal", "vrr"}
    MaxInstances = 3
    MaxDeaths = 1
INVARIANTS
    SafeOnceSetUp
PROPERTIES
    EveryWrapperHears
    EventsAnswered
    Reregistered
CHECK_DEADLOCK FALSE
