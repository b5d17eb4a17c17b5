SPECIFICATION FairSpec
CONSTANTS
    threshold = threshold
    healing = healing
    low = low
    high = high
    Workers = {w1}
    Updates = {u1, u2}
    Settings <- BothSettings
    Values <- TwoValues
    Default <- Defaults
    Bodies <- TwoBodies
    FromEnv = FromEnv
    Absent = Absent
    Upserts = TRUE
    MaxDeaths = 1
INVARIANTS TypeOK RunsSaved HeardIsLatest AgreesWithTable AuditTruthful
PROPERTY KeepsListening
