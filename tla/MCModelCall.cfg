SPECIFICATION FairSpec
CONSTANTS
    Calls = {c1}
    Fallbacks = 2
    MaxAttempts = 2
    Threshold = 2
    IdenticalLimit = 2
    Features = {"persistent", "recovering", "images"}
INVARIANTS TypeOK SegmentIsOneAttempt SettledThenReleased NoticeSettled
PROPERTY StandardCallEnds
