CONSTANTS
    N = 2
    Interval <- OddAndEven
    Selected = {1, 2}
    BackOff = 1
    Signals = {}
    Notes = {"change"}
    MaxNotes = 1
    HasClient = FALSE
SPECIFICATION TimingSpec
INVARIANT GapBound
PROPERTY NoBurst
CHECK_DEADLOCK FALSE
