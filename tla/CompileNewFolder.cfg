\* One crash before a page is written whose folder the candidate would create.
SPECIFICATION FairSpec
CONSTANTS
    Compilers = {c1}
    Nobody = Nobody
    Transactions = {t1, t2}
    NoTransaction = NoTransaction
    Paths = {index, page}
    NewFolders = {page}
    Texts = {old, new, mine}
    NoFile = NoFile
    Originals = {old}
    Drafts = {new}
    ManualEdits = {mine}
    MaxFaults = 1
PROPERTIES
    InterruptedIsSettled
