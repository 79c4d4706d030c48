SPECIFICATION Spec
CONSTANTS
    Sources = {tv}
    SOURCE_TV = tv
    SOURCE_INVALID = invalid
    ATVDisplaySnow = TRUE
    HdmiSources = {}
    Requests = {"edidVersion"}
    DriverMayFail = TRUE
    MapMayFail = FALSE
    ServerMayDie = TRUE
    Shown = {"STABLE", "UNSTABLE", "NOTSUP", "NOSIG"}
    MaxMsgs = 1
INVARIANTS
    TypeOK
    DecoderAgreement
    StartNeverBusy
    ToldMatchesStatus
