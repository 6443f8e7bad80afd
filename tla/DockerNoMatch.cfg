CONSTANTS
    a = a
    b = b
    None = None
    Names <- Two
    Images <- TwoImages
    TagSets <- OneFilter
    MaxChanges = 2
    MaxFaults = 0
SPECIFICATION Spec
PROPERTY OnlyWanted
