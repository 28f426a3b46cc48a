CONSTANTS
    Topics = {ta, tb}
    NoTopic = none
    Workers = {w1, w2}
    MaxServerAttempts = 2
    MaxProduced = 2
    MaxAttachments = 1
    MaxCrashes = 1
SPECIFICATION Spec
SYMMETRY Symmetric
INVARIANTS AtMostOnce OvertakesOnlyUncertain VerdictIsTrue
PROPERTIES KeepsPromise
CHECK_DEADLOCK FALSE
