\* One recording that is replaced once, an unsafe edit, a fault, another clone;
\* the person tends to what a scan complains about.
CONSTANTS
    MaxCommits = 7
    OthersUntil = 2
    NoCommit = NoCommit
    MaxFaults = 1
    Recordings = {r1}
    Versions = 2
    Modes = {"legacy", "review_first"}
    Edits = {e1}
    Unsafe = {e1}
    NoRaw = NoRaw
SPECIFICATION TendedSpec
INVARIANTS
    PipeTypeOK
    EvidenceKept
    CompiledIsPublished
PROPERTIES
    ReviewFirstNeverPushes
    RecordingsArrive
CHECK_DEADLOCK FALSE
