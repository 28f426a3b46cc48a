CONSTANTS
    Replies = {1}
    Buttons = {b1}
    Clicks = {c1, c2}
    Headers = {h}
    NoHeader = none
    NoClick = nobody
    Workers = {w1, w2}
    MaxChanges = 1
    MaxStops = 1
SPECIFICATION Spec
SYMMETRY Symmetric
INVARIANTS EditsAreSound HeldIsReserved ClicksCountOnce
CHECK_DEADLOCK FALSE
