SPECIFICATION Spec
CONSTANTS
    Sources = {hdmi1}
    SOURCE_TV = tv
    SOURCE_INVALID = invalid
    ATVDisplaySnow = TRUE
    HdmiSources = {hdmi1}
    Requests = {"headless", "feature"}
    DriverMayFail = FALSE
    MapMayFail = TRUE
    ServerMayDie = TRUE
    Shown = {"STABLE", "NOSIG"}
    MaxMsgs = 1
INVARIANTS
    StopTvComplete
    HeadlessPathConsistent
