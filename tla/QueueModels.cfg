\* One recording, two models: two jobs that write the same source row, and
\* revision ids that callers choose freely.
SPECIFICATION Spec
CONSTANTS
    Sources = {s1}
    StoredSources = {s1}
    Models = {m1, m2}
    Revisions = {r1, r2}
    Texts = {x1, x2}
    NoRevision = NoRevision
    Budgets = {1, 2}
    FailureCodes = {"TRANSCRIBER_FAILED"}
    LeaseSeconds = 1
    BackoffBase = 1
    BackoffCap = 2
    ClockLag = 0
    Horizon = 2
SYMMETRY QueueSymmetry
CHECK_DEADLOCK FALSE
INVARIANTS
    CompletedHasItsRevision
    PointerIsAResult
