\* A control waits behind a compaction whose outcome stays uncertain.
CONSTANTS
    Prompts = {a}
    None = none
    Capacity = 1
    MaxClients = 2
    MaxControls = 2
    MaxEvents = 2
SPECIFICATION FairSpec
INVARIANT ReleasedIsFree
CHECK_DEADLOCK FALSE
