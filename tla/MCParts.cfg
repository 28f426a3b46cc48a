CONSTANTS
    Conversations = {a, b}
    Triple = {x, y, z}
    SessionIds = {s1, s2}
    Source = s1
    Singles = {single}
    Existing = {s1}
    None = none
    MaxGeneration = 1
    MaxHalts = 1
    MaxCrashes = 1
    MaxRows = 2
    MaxEpochs = 3
    MaxStops = 1
    MaxMessages = 3
    MaxAlbumItems = 2
    Capacity = 2
    MediaSlots = 1
    MaxTimers = 2
    MaxBindings = 2
    MaxHostRequests = 1
    MaxInputs = 2
    MaxClients = 2
    MaxEvents = 2
    MaxRevisions = 1
SPECIFICATION PartsSpec
INVARIANTS OneOwner BindingsRecover MigrationIsAlone PreviewsAreKnown
INVARIANTS DirectoriesMatchTasks FilesOutliveUse OrdinaryRootsRunWithoutResearch
PROPERTIES DeletesOnlyIdle PublishesVerified DeletesOnlyReplaced
PROPERTIES ResumedKeepTheirFiles ResearchEndsConfirmed
SYMMETRY Symmetry
CHECK_DEADLOCK FALSE
