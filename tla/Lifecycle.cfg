\* Two jobs with up to three attempts, everything that may go wrong, and a
\* worker that keeps being run.
SPECIFICATION FairSpec
CONSTANTS
    Jobs = {j1, j2}
    Budgets = {1, 3}
    Results = {r1}
    NoResult = NoResult
CHECK_DEADLOCK FALSE
INVARIANTS
    TypeOK
    PublishedIffCompleted
PROPERTIES
    EveryJobSettles
