\* Two recordings waiting for one model: order, backoff, leases.
SPECIFICATION Spec
CONSTANTS
    Sources = {s1, s2}
    StoredSources = {s1, s2}
    Models = {m1}
    Revisions = {r1}
    Texts = {x1}
    NoRevision = NoRevision
    Budgets = {2}
    FailureCodes = {"TRANSCRIBER_FAILED"}
    LeaseSeconds = 2
    BackoffBase = 1
    BackoffCap = 2
    ClockLag = 1
    Horizon = 4
CHECK_DEADLOCK FALSE
INVARIANTS
    TypeOK
    AttemptsMatchJob
    LastAttemptExplainsJob
    OnlyNewestLeaseCurrent
PROPERTIES
    HistoryIsKept
    LiveLeaseNotStolen
    AnswerNeedsLease
    ClaimsInOrder
    ImplementsLifecycle
