CONSTANTS
    Topics = {ta}
    NoTopic = none
    Workers = {w1}
    MaxServerAttempts = 2
    MaxProduced = 1
    MaxAttachments = 1
    MaxCrashes = 1
SPECIFICATION Spec
INVARIANT FailedAttachmentHasNotice
CHECK_DEADLOCK FALSE
