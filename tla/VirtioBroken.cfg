CONSTANTS
    Queues = {"tx"}
    Num = 1
    Word16 = 4
    StatusValues <- MCStatusValues
    FeatureValues <- MCAnyFeatures
    GuestsMisbehave = TRUE
SPECIFICATION NetSpec
INVARIANTS NetInvariant
PROPERTIES BrokenUntilReset
