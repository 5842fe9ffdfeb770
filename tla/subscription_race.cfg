SPECIFICATION Spec
CONSTANTS
    MaxBlock = 6
    Changes = {2, 4}
    Authorities <- MCAuthorities
    Start = 1
    MaxReconnects = 0
    MaxLag = 0
    MaxGap = 0
    MaxBuffered = 3
    PromptChanges = FALSE
    LosesChanges = FALSE
    RpcMayFail = FALSE
    NoValset = NoValset
INVARIANT NoFinalityPanic
