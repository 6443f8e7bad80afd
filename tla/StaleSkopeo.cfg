CONSTANTS
    DefaultMaxItems = 2
    DefaultCacheDuration = 1
    MinInterval = 1
    MinTaskInterval = 2
    Contents <- SomeRewrites
    Rewrites <- SomeRewrites
    MaxEdits = 1
    MaxErrors = 0
    MaxHups = 1
SPECIFICATION Spec
INVARIANT FullRestart
CHECK_DEADLOCK FALSE
