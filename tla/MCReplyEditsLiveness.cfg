CONSTANTS
    Replies = {1}
    Buttons = {b1}
    Clicks = {c1}
    Headers = {h}
    NoHeader = none
    NoClick = nobody
    Workers = {w1, w2}
    MaxChanges = 1
    MaxStops = 1
SPECIFICATION FairSpec
PROPERTIES EditsSettle ClicksSettle
CHECK_DEADLOCK FALSE
