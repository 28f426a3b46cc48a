\* The announcement and two more frames against a queue of one and a budget of
\* three lines; the call is the negotiation.
CONSTANTS
    Calls = {n}
    Negotiation = n
    LogicalCost = 2
    Budget = 3
    Slots = 1
    MaxFrames = 3
SPECIFICATION FairSpec
INVARIANTS EventsAreAccounted DeletionIsFinal
PROPERTIES AnswersArrive ShutdownEnds
CHECK_DEADLOCK FALSE
