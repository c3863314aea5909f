SPECIFICATION Spec
CONSTANTS
    Overlay <- Repaired
    Releases <- Evolving
    NoSpec = NoSpec
    Errors = TRUE
    MaxReleases = 1
INVARIANT PassingRunUsesItsOwnValues
PROPERTIES SameCollectionOffline ValuesAreKept
