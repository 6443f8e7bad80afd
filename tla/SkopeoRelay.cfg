CONSTANTS
    a = a
    b = b
    None = None
    Names <- Two
    Images <- TwoImages
    TagSets <- AllKinds
    MaxChanges = 2
    MaxFaults = 1
SPECIFICATION FairSpec
PROPERTIES KeepsPromise OnlyWanted CatchesUp
