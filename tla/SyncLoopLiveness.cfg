CONSTANTS
    N = 2
    Interval <- TwoPeriodic
    Selected = {1, 2}
    BackOff = 1
    Signals = {"term"}
    Notes = {"change", "noise"}
    MaxNotes = 2
    HasClient = FALSE
SPECIFICATION FairSpec
PROPERTIES KeepsSyncing SignalEndsLoop StopBlockedOnlyByFire ChangeRestarts
CHECK_DEADLOCK FALSE
