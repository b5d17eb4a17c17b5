SPECIFICATION FairPipelineSpec
CONSTANTS
    Requests = {r1, r2}
    Keys = {k1}
    NoKey = NoKey
    Scores <- LowAndHigh
    EnvThreshold = 1
    Saved = {1}
INVARIANTS TypeOK BlockJustified BlockedOrDelivered OutcomesWithinTotal CountsAreHonest
PROPERTY EveryRequestAnswered
