SPECIFICATION Spec
CONSTANTS
    Workers = {w1, w2}
    Requests = {r1, r2, r3}
    Keys = {k1}
    NoKey = NoKey
    ErrorTexts <- Errors
    Threshold = 2
    ResetTimeout = 1
    CallTimeout = 1
    MaxAttempts = 2
SYMMETRY FullSymmetry
INVARIANTS TypeOK BreakerConsistent CacheSound VerdictsFromGemini OpenIsEarned
PROPERTY ServiceKept
