SPECIFICATION Spec
CONSTANTS
    Signals = {"STABLE", "NOSIG", "UNSTABLE"}
    GameMode = 2
    VrrMode = 0
    VrrEnabled = TRUE
    UiThreads = {u1, u2}
    Faults = {"start", "stop", "signal", "vrr", "shown"}
    MaxAmiss = 1
    MaxUevents = 1
    NONE = none
CONSTRAINT NotRaced
INVARIANTS
    ScreenAsRequested
    AutoVrrStands
PROPERTIES
    CallbackEnds
    ComesToMatch
