\* Every update is settled in the end, through a stop or a crash.
SPECIFICATION FairSpec
CONSTANTS
    Topics = {t1}
    Unsupported = {}
    Sorts = {"prompt"}
    MaxUpdates = 2
    BatchLimit = 1
    Capacity = 1
    MaxStops = 1
    MaxForgets = 0
PROPERTIES EventuallySettled
