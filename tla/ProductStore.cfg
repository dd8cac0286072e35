\* Two processes over one store.
CONSTANTS
    Openers = {o1, o2}
    first = first
    second = second
    other = other
    Scripts = {first, second, other}
    Releases <- BundledScripts
    Nobody = Nobody
    MaxUpsets = 2
    Contents = {x}
    Torn = Torn
    Keys = {k1}
    NoKey = NoKey
    Moments <- TwoMoments
    Fates <- OldFates
SPECIFICATION StoreSpec
INVARIANTS
    StoreTypeOK
    SchemasAgree
    SourcesAreKept
PROPERTIES
    ExportsAreExact
    RowsAreWrittenOnce
SYMMETRY OpenerSymmetry
CHECK_DEADLOCK FALSE
