SPECIFICATION LoadSpec
CONSTANTS
    Files <- FilesMC
    TxDisplays <- DisplaysMC
    NoDisplay <- NoDisplayMC
INVARIANTS
    ChecksumsValid
    BlocksEndAtTimings
    FilterExact
    FeaturesAgree
    PatchExact
    NameShown
