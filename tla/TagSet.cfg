CONSTANTS
    Tags <- FiveTags
    Version <- Versions
    Lists <- SomeLists
    Listings <- AnyListing
SPECIFICATION Spec
CHECK_DEADLOCK FALSE
INVARIANTS PartitionInv KeepsLatest NeverTooMany
