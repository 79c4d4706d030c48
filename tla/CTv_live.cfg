SPECIFICATION FairSpec
CONSTANTS
    Sources = {hdmi1}
    SOURCE_TV = tv
    SOURCE_INVALID = invalid
    ATVDisplaySnow = TRUE
    HdmiSources = {hdmi1}
    Requests = {}
    DriverMayFail = FALSE
    MapMayFail = FALSE
    ServerMayDie = FALSE
    Shown = {"STABLE", "UNSTABLE", "NOSIG"}
    MaxMsgs = 1
PROPERTIES
    StableShown
    StatusSettles
