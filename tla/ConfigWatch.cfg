CONSTANTS
    DefaultMaxItems = 2
    DefaultCacheDuration = 1
    MinInterval = 1
    MinTaskInterval = 2
    Contents <- SomeContents
    Rewrites <- SomeRewrites
    MaxEdits = 3
    MaxErrors = 1
    MaxHups = 1
SPECIFICATION FairSpec
INVARIANTS TypeOK RestartHasReason ListsAreThere CredentialsReach ChangeNoticed
PROPERTY ConfigCatchesUp
CHECK_DEADLOCK FALSE
