\* Two promotions at once, edits by hand, crashes; files are damaged between
\* promotions.
CONSTANTS
    Operators = {o1, o2}
    page = page
    index = index
    old = old
    new = new
    Paths = {page, index}
    Texts = {old, new, mine}
    ByHand = {mine, NoFile}
    NoFile = NoFile
    Garbage = Garbage
    Originals <- OneOriginal
    Drafts <- TwoDrafts
    Links <- IndexLinks
    MayRestore = FALSE
    DamageAnyTime = FALSE
    MaxCaptured = 2
    MaxEvents = 2
SPECIFICATION ReviewSpec
INVARIANTS
    ReviewTypeOK
    RecordsTellTheTruth
PROPERTIES
    OnlyApprovedOverItsBase
SYMMETRY SymmetricOperators
CHECK_DEADLOCK FALSE
