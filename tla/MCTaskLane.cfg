\* Two inputs, either of which may steer the other, one request of the user, and
\* a process that may fall silent or die at any point.
CONSTANTS
    Prompts = {a, b}
    None = none
    Capacity = 2
    MaxClients = 2
    MaxControls = 1
    MaxEvents = 2
SPECIFICATION FairSpec
INVARIANTS DoneIsTrue SubmittedIsHeld
PROPERTIES DoneOnlyWhenQuiet AbortHitsItsTask TasksEnd
CHECK_DEADLOCK FALSE
