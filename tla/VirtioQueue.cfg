CONSTANTS
    Queues = {"tx"}
    Num = 2
    Word16 = 4
    StatusValues <- MCUp
    FeatureValues <- MCFeatureValues
    GuestsMisbehave = FALSE
SPECIFICATION NetFairSpec
INVARIANTS KickNotLost InterruptNotLost
PROPERTIES ImplementsVirtqueue BufferReturns
