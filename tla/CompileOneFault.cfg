\* One fault, in a Wiki whose folders are all there: every interrupted
\* transaction is settled by a later run.
SPECIFICATION FairSpec
CONSTANTS
    Compilers = {c1}
    Nobody = Nobody
    Transactions = {t1, t2}
    NoTransaction = NoTransaction
    Paths = {index, page}
    NewFolders = {}
    Texts = {old, new, mine}
    NoFile = NoFile
    Originals = {old}
    Drafts = {new, NoFile}
    ManualEdits = {mine}
    MaxFaults = 1
PROPERTIES
    InterruptedIsSettled
