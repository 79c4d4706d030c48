SPECIFICATION Spec
CONSTANTS
    Files <- MCFiles
    Moving = {"HDMI0", "AV1"}
    Watched = {"HDMI2", "AV1"}
    MaxAsked = 1
INVARIANTS
    MapAsConfigured
    SettledAgrees
PROPERTIES
    ToldInTheEnd
