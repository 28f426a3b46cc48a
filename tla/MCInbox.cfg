\* Inputs of every sort, to a conversation and to an unsupported one, from users the
\* allowlist may drop, through a stop or crash and a forgotten binding.
SPECIFICATION Spec
CONSTANTS
    Topics = {t1}
    Unsupported = {elsewhere}
    Sorts = {"prompt", "command", "guest", "noise"}
    MaxUpdates = 2
    BatchLimit = 2
    Capacity = 1
    MaxStops = 1
    MaxForgets = 1
INVARIANTS NothingLost ActsOnce GivenOnce NothingStranded DoneIsNoticed
PROPERTIES HandledInOrder OldPromptsStayUnsent BarredDoNotAct
