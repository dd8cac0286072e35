\* Two workers, one recording, everything may break at any point.
SPECIFICATION ServiceSpec
CONSTANTS
    Sources = {s1}
    StoredSources = {s1}
    Models = {m1}
    Revisions <- RevisionIds
    Texts = {speech, hiss}
    NoRevision = NoRevision
    Budgets = {2}
    FailureCodes = {"TRANSCRIBER_FAILED", "MODEL_NOT_FOUND", "SOURCE_CORRUPT", "SOURCE_MISSING",
                    "TRANSCRIPT_STORAGE_FAILED"}
    LeaseSeconds = 3
    BackoffBase = 1
    BackoffCap = 2
    ClockLag = 1
    Horizon = 5
    Workers = {w1, w2}
    Noise = {hiss}
    NoText = NoText
    NoLease = NoLease
    BeatInterval = 1
SYMMETRY ServiceSymmetry
CHECK_DEADLOCK FALSE
INVARIANTS
    ServiceTypeOK
    RevisionsAreTrue
    SourceErrorsAreTrue
PROPERTIES
    BeatingWorkerKeepsJob
