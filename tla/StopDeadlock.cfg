CONSTANTS
    N = 1
    Interval <- OnePeriodic
    Selected = {1}
    BackOff = 1
    Signals = {"term"}
    Notes = {}
    MaxNotes = 0
    HasClient = FALSE
SPECIFICATION FairSpec
PROPERTY StopCompletes
CHECK_DEADLOCK FALSE
