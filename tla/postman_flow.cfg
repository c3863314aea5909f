SPECIFICATION Spec
CONSTANTS
    Overlay <- Shipped
    Releases <- Published
    NoSpec = NoSpec
    Errors = FALSE
    MaxReleases = 0
INVARIANT FlowCompletes
