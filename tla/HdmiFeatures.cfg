SPECIFICATION Spec
CONSTANTS
    Ports = {p1, p2}
    Displays = {tv, monitor}
    AllmDisplays = {tv}
    VrrDisplays = {tv, monitor}
    Ubootenv = TRUE
    LoadsEdid = {TRUE, FALSE}
    DefaultVersion = "20"
    Versions = {"20", "auto"}
    DriverMayFail = TRUE
    EnvMayFail = TRUE
    ServerMayDie = TRUE
INVARIANTS
    TypeOK
    EdidVersionKept
    FeatureGated
