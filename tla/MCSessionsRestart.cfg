\* For the claim that a restart rebuilds what was running; a binding has two generations.
CONSTANTS
    Conversations = {c1, c2}
    SessionIds = {s1, s2}
    Existing = {s1}
    None = none
    MaxGeneration = 2
    MaxHalts = 1
SPECIFICATION Spec
SYMMETRY Symmetry
INVARIANTS RestartCanClaim
CHECK_DEADLOCK FALSE
