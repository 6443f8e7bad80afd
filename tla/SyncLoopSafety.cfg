CONSTANTS
    N = 3
    Interval <- MixedTasks
    Selected = {1, 2}
    BackOff = 2
    Signals = {"hup", "term"}
    Notes = {"change", "noise", "error"}
    MaxNotes = 2
    HasClient = TRUE
SPECIFICATION Spec
INVARIANTS TypeOK NoLeakOnReturn ErrorReported EndHasCause ShutdownReleases NothingLost
PROPERTIES RestartDebounced KeepsPromise
CHECK_DEADLOCK FALSE
