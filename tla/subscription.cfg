SPECIFICATION FairSpec
CONSTANTS
    MaxBlock = 5
    Changes = {2, 4}
    Authorities <- MCAuthorities
    Start = 1
    MaxReconnects = 1
    MaxLag = 0
    MaxGap = 0
    MaxBuffered = 2
    PromptChanges = TRUE
    LosesChanges = FALSE
    RpcMayFail = TRUE
    NoValset = NoValset
INVARIANTS
    NoFinalityPanic
    TrueAuthorities
    NoGapInOutput
PROPERTIES
    JustifiedBlocksComeOut
