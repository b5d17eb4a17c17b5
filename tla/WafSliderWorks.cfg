SPECIFICATION FairPipelineSpec
CONSTANTS
    Requests = {r1}
    Keys = {k1}
    NoKey = NoKey
    Scores <- LowAndHigh
    EnvThreshold = 1
    Saved = {1}
PROPERTY SliderWorks
