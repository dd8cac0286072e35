\* Two compilers, manual edits, crashes and failing writes.
SPECIFICATION Spec
CONSTANTS
    Compilers = {c1, c2}
    Nobody = Nobody
    Transactions = {t1, t2}
    NoTransaction = NoTransaction
    Paths = {index, page}
    NewFolders = {page}
    Texts = {old, new, mine}
    NoFile = NoFile
    Originals = {old}
    Drafts = {new}
    ManualEdits = {mine, NoFile}
    MaxFaults = 2
SYMMETRY CompileSymmetry
INVARIANTS
    TypeOK
    AtMostOneTransaction
PROPERTIES
    NothingIsLost
    ImplementsAtomicWiki
