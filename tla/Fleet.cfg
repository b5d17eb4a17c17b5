SPECIFICATION FairFleetSpec
CONSTANTS
    Workers = {w1}
    Upserts = TRUE
    Calls = {c1}
    Attempts = 1
    MaxFailures = 2
    MaxLives = 1
    MaxRestarts = 1
INVARIANT FleetTypeOK
PROPERTIES Spec DeadWorkersUnrouted
