CONSTANTS
    Lifetime = 3
    MinInterval = 1
    Mappings = 3
    Repos = {"app", "db"}
    From <- Overlapping
    Regexp = {1, 3}
    Paths = {"app", "db", "copy"}
    To <- Mapped
    Sources <- SourceLocations
    Targets <- TargetLocations
SPECIFICATION FairSpec
INVARIANTS TypeOK FailedIsExact EveryImageHasItsTurn CredentialsLast TargetExists
PROPERTIES RunsForward RunEnds
