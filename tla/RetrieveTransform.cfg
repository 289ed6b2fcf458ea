CONSTANTS
    Requests = {r1, r2, r3}
    Bound = {r1, r2}
    Probe = {r2}
    Blocks = {b1, b2}
    PrefixBlocks = 1
    NumLayers = 2
    NoRequest = NoRequest
SPECIFICATION FairSpec
INVARIANTS
    TypeOK
    NoPartialDecode
    WritesOnlyHeldBlocks
    OutcomeTravelsWithReport
    NoStaleInvalidation
    ReaderFreeBetweenItems
    RejectedNeverReads
PROPERTIES
    LoadedOnce
    ImplementsAtomicLoad
    LoadResolves
    AbortReleasesBlocks
