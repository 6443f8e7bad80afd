CONSTANTS
    Repos <- Five
    Images <- AllButThree
    PageSize = 2
    Settings <- SomeSettings
    DefaultMaxItems = 2
    DefaultCacheDuration = 2
    TokenLife = 3
    MaxChanges = 2
    MaxFaults = 1
SPECIFICATION FairSpec
INVARIANTS TypeOK Faithful OnePageTooMany RequestsAreFew
PROPERTY CacheCatchesUp
CHECK_DEADLOCK FALSE
