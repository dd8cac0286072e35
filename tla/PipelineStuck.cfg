\* Two recordings, one commit that fails once, and nobody at the keyboard.
CONSTANTS
    MaxCommits = 3
    OthersUntil = 0
    NoCommit = NoCommit
    MaxFaults = 1
    Recordings = {r1, r2}
    Versions = 1
    Modes = {"legacy"}
    Edits = {}
    Unsafe = {}
    NoRaw = NoRaw
SPECIFICATION ScanSpec
PROPERTIES
    PendingIsPublished
CHECK_DEADLOCK FALSE
