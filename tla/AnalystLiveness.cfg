SPECIFICATION FairSpec
CONSTANTS
    Workers = {w1}
    Requests = {r1, r2}
    Keys = {k1}
    NoKey = NoKey
    ErrorTexts <- Errors
    Threshold = 1
    ResetTimeout = 1
    CallTimeout = 1
    MaxAttempts = 3
PROPERTY EveryCallReturns
