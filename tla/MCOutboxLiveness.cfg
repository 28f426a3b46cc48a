CONSTANTS
    Topics = {ta, tb}
    NoTopic = none
    Workers = {w1, w2}
    MaxServerAttempts = 2
    MaxProduced = 2
    MaxAttachments = 0
    MaxCrashes = 1
    Throttled = {ta}
SPECIFICATION FairSpec
PROPERTIES EventuallySettled
CHECK_DEADLOCK FALSE
