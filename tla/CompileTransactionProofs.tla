---------------------- MODULE CompileTransactionProofs ----------------------
(***************************************************************************)
(* Machine-checked: whatever crashes, fails or is edited by hand, and for  *)
(* any number of compilers, files and faults, a compiler overwrites only   *)
(* what it can bring back, and the Wiki seen through the rollback of an    *)
(* unfinished transaction changes as AtomicWiki says.                      *)
(***************************************************************************)
EXTENDS CompileTransaction, TLAPS

(* Where the holder of the lock is, and what that says of the disk *)

ControlInv ==
    /\ lock = Nobody <=> task = "none"
    /\ task = "none" <=> step = "none"
    /\ step \notin {"none", "scan"} => target \in Transactions /\ journal[target] # "absent"
    /\ step \in {"backup", "journal"} => task = "apply" /\ journal[target] = "none"
    /\ step \in {"write", "commit"} => task = "apply" /\ journal[target] = "prepared"
    /\ step = "restore" => journal[target] = "prepared"
    /\ task = "applied" => step = "discard" /\ journal[target] # "prepared"
    /\ task = "recover" => stage[lock] = "idle"
    /\ task \in {"apply", "undo", "applied"} => stage[lock] = "checked"

\* The backup of file f is on disk, and f is as it was then.
SavedAsIs(f) ==
    /\ live[f] = before[target][f]
    /\ live[f] = NoFile \/ f \in backups[target]

\* Files still to be restored are as they were or as the candidate has them,
\* the others are restored.
RestoreInv ==
    step = "restore" =>
        /\ todo \subseteq touched[target]
        /\ \A f \in todo : live[f] \in {before[target][f], after[target][f]}
        /\ \A f \in touched[target] \ todo : live[f] = before[target][f]

DiscardInv ==
    step = "discard" /\ journal[target] = "prepared" =>
        \A f \in touched[target] : live[f] = before[target][f]

\* The Wiki is the snapshot of the compiler until the first file is written.
BackupInv ==
    /\ step \in {"backup", "journal"} => live = read[lock]
    /\ step = "backup" => \A f \in Changes(lock) \ todo : SavedAsIs(f)
    /\ step = "journal" => \A f \in Changes(lock) : SavedAsIs(f)

\* After that every file is the snapshot's, the candidate's, or saved.
WriteInv ==
    step \in {"write", "commit"} =>
        /\ touched[target] = Changes(lock) /\ after[target] = want[lock]
        /\ step = "write" => todo \subseteq Changes(lock) /\ \A f \in todo : SavedAsIs(f)
        /\ \A f \in Changes(lock) : before[target][f] = read[lock][f]
        /\ \A f \in Changes(lock) : step = "commit" \/ f \notin todo => live[f] = want[lock][f]
        /\ \A f \in Paths \ Changes(lock) : live[f] = read[lock][f]

DiskInv == RestoreInv /\ DiscardInv /\ BackupInv /\ WriteInv

WritebackInv == TypeOK /\ AtMostOneTransaction /\ ControlInv /\ DiskInv

-----------------------------------------------------------------------------
(* Every variable keeps its type *)

LEMMA ContentsAreThere ==
    /\ Blank \in Trees /\ NoFile \in Contents
    /\ Originals \subseteq Contents /\ Drafts \subseteq Contents /\ ManualEdits \subseteq Contents
BY CompileAssumption DEF Blank, Trees, Contents

LEMMA ChangesArePaths == ASSUME NEW c PROVE Changes(c) \subseteq Paths
BY DEF Changes

LEMMA RunEndsType ==
    ASSUME TypeOK, NEW c \in Compilers, RunEnds(c)
    PROVE  /\ stage' \in [Compilers -> Stages]
           /\ read' \in [Compilers -> Trees]
           /\ want' \in [Compilers -> Trees]
BY ContentsAreThere DEF TypeOK, RunEnds, Stages

LEMMA LeaveType ==
    ASSUME TypeOK, NEW c \in Compilers, LeaveAndEnd(c),
           UNCHANGED <<live, folders, journal, touched, before, after, backups>>, faults' \in 0..MaxFaults
    PROVE  TypeOK'
BY RunEndsType DEF TypeOK, LeaveAndEnd, Release, Tasks, Steps

LEMMA OutsideKeepsType ==
    ASSUME TypeOK, NEW c \in Compilers,
           Begin(c) \/ (\E tree \in Trees : Compile(c, tree)) \/ Check(c) \/ Discard(c) \/ Apply(c)
    PROVE  TypeOK'
<1>1. CASE Begin(c) \/ Apply(c)
  BY <1>1 DEF TypeOK, Begin, Apply, Acquire, Tasks, Steps, diskVars, compilerVars
<1>2. ASSUME NEW tree \in Trees, Compile(c, tree) PROVE TypeOK'
  BY <1>2 DEF TypeOK, Compile, Stages, diskVars, loopVars
<1>3. CASE Check(c)
  BY <1>3 DEF TypeOK, Check, Stages, diskVars, loopVars
<1>4. CASE Discard(c)
  BY <1>4, RunEndsType DEF TypeOK, Discard, diskVars, loopVars
<1>. QED
  BY <1>1, <1>2, <1>3, <1>4

LEMMA PutFileType ==
    ASSUME TypeOK, NEW f \in Paths, NEW x \in Contents, PutFile(f, x)
    PROVE  live' \in Trees /\ folders' \subseteq Paths
BY DEF TypeOK, PutFile, Trees

LEMMA RecoveryKeepsType ==
    ASSUME TypeOK, ControlInv, NEW c \in Compilers, RecoveryStep(c)
    PROVE  TypeOK'
<1>1. ASSUME NEW t \in Transactions, DiscardDirectory(c, t) \/ StartRestore(c, t) PROVE TypeOK'
  BY <1>1 DEF TypeOK, DiscardDirectory, StartRestore, Steps, diskVars, compilerVars
<1>2. CASE \/ \E t \in Transactions : RefuseRestore(c, t)
           \/ \E f \in Paths : RestoreRaises(c, f)
           \/ GiveUp(c)
  BY <1>2, LeaveType DEF RefuseRestore, RestoreRaises, GiveUp, diskVars, TypeOK
<1>3. ASSUME NEW f \in Paths, RestoreFile(c, f) PROVE TypeOK'
  <2>1. before[target][f] \in Contents
    BY <1>3 DEF RestoreFile, TypeOK, Trees, ControlInv
  <2>2. live' \in Trees /\ folders' \subseteq Paths
    BY <1>3, <2>1, PutFileType DEF RestoreFile
  <2>. QED
    BY <1>3, <2>2 DEF RestoreFile, TypeOK, Steps, recordVars, compilerVars
<1>4. ASSUME NEW f \in Paths, RemoveBackup(c, f) PROVE TypeOK'
  BY <1>4 DEF RemoveBackup, TypeOK, recordVars, compilerVars, loopVars
<1>5. CASE RemoveJournal(c)
  BY <1>5 DEF RemoveJournal, TypeOK, Journals, recordVars, compilerVars, loopVars
<1>6. CASE RemoveDirectory(c)
  <2>1. /\ journal' \in [Transactions -> Journals]
        /\ touched' \in [Transactions -> SUBSET Paths]
        /\ before' \in [Transactions -> Trees]
        /\ after' \in [Transactions -> Trees]
        /\ UNCHANGED <<live, folders, backups, faults>>
    BY <1>6, ContentsAreThere DEF RemoveDirectory, TypeOK, Journals
  <2>2. CASE LeaveAndEnd(c)
    BY <2>1, <2>2, RunEndsType DEF LeaveAndEnd, Release, TypeOK, Tasks, Steps
  <2>3. CASE ~LeaveAndEnd(c)
    BY <1>6, <2>1, <2>3 DEF RemoveDirectory, TypeOK, Steps, compilerVars
  <2>. QED
    BY <2>2, <2>3
<1>7. CASE Recovered(c)
  BY <1>7 DEF Recovered, Release, TypeOK, Tasks, Steps, Stages, diskVars
<1>. QED
  BY <1>1, <1>2, <1>3, <1>4, <1>5, <1>6, <1>7 DEF RecoveryStep

LEMMA ApplyKeepsType ==
    ASSUME TypeOK, ControlInv, NEW c \in Compilers, ApplyStep(c) \/ Fault(c)
    PROVE  TypeOK'
<1>0. Changes(c) \subseteq Paths /\ want[c] \in Trees
  BY ChangesArePaths DEF TypeOK
<1>1. ASSUME NEW t \in Transactions, StartApply(c, t) PROVE TypeOK'
  BY <1>0, <1>1 DEF StartApply, TypeOK, Journals, Steps, recordVars, compilerVars
<1>2. ASSUME NEW f \in Paths, BackUp(c, f) PROVE TypeOK'
  <2>1. before' \in [Transactions -> Trees]
    BY <1>2 DEF BackUp, TypeOK, Trees
  <2>2. backups' \in [Transactions -> SUBSET Paths]
    BY <1>2 DEF BackUp, BackedUp, TypeOK
  <2>. QED
    BY <1>2, <2>1, <2>2 DEF BackUp, TypeOK, Steps, compilerVars
<1>3. CASE WriteJournal(c)
  BY <1>0, <1>3 DEF WriteJournal, FirstState, TypeOK, Journals, Steps, compilerVars
<1>4. ASSUME NEW f \in Paths, WriteFile(c, f) PROVE TypeOK'
  <2>1. want[c][f] \in Contents
    BY <1>0 DEF Trees
  <2>2. live' \in Trees /\ folders' \subseteq Paths
    BY <1>4, <2>1, PutFileType DEF WriteFile
  <2>. QED
    BY <1>4, <2>2 DEF WriteFile, TypeOK, Steps, recordVars, compilerVars
<1>5. ASSUME NEW f \in Paths, WriteFails(c, f) PROVE TypeOK'
  <2>1. want[c][f] \in Contents
    BY <1>0 DEF Trees
  <2>2. live' \in Trees /\ folders' \subseteq Paths
    BY <1>5, <2>1, PutFileType DEF WriteFails, TypeOK
  <2>3. faults' \in 0..MaxFaults
    BY <1>5, CompileAssumption DEF WriteFails, TypeOK
  <2>. QED
    BY <1>5, <2>2, <2>3 DEF WriteFails, TypeOK, Steps, Tasks, recordVars, compilerVars
<1>6. CASE Commit(c)
  BY <1>6 DEF Commit, TypeOK, Journals, Steps, Tasks, recordVars, compilerVars
<1>7. CASE Stop(c)
  <2>1. faults' \in 0..MaxFaults
    BY <1>7, CompileAssumption DEF Stop, TypeOK
  <2>. QED
    BY <1>7, <2>1, LeaveType DEF Stop, diskVars
<1>. QED
  BY <1>1, <1>2, <1>3, <1>4, <1>5, <1>6, <1>7 DEF ApplyStep, Fault

LEMMA TypeStep == TypeOK /\ ControlInv /\ [Next]_compileVars => TypeOK'
<1> SUFFICES ASSUME TypeOK, ControlInv, [Next]_compileVars PROVE TypeOK'
  OBVIOUS
<1>1. ASSUME NEW f \in Paths, NEW x \in ManualEdits, ManualEdit(f, x) PROVE TypeOK'
  BY <1>1, ContentsAreThere DEF ManualEdit, TypeOK, Trees, recordVars, compilerVars, loopVars
<1>2. CASE UNCHANGED compileVars
  BY <1>2 DEF compileVars, diskVars, compilerVars, loopVars, TypeOK
<1>. QED
  BY <1>1, <1>2, OutsideKeepsType, RecoveryKeepsType, ApplyKeepsType DEF Next, RunStep

-----------------------------------------------------------------------------
(* Where the holder of the lock is *)

LEMMA NamesDiffer == Nobody \notin Compilers /\ NoTransaction \notin Transactions
BY CompileAssumption

\* Nobody is inside after the holder has left.
LEMMA LeavesControl ==
    ASSUME Release
    PROVE  ControlInv'
BY DEF Release, ControlInv

\* Outside the lock: the holder is somebody else, and is left where it is.
LEMMA OutsideKeepsControl ==
    ASSUME TypeOK, ControlInv, NEW c \in Compilers,
           Begin(c) \/ (\E tree \in Trees : Compile(c, tree)) \/ Check(c) \/ Discard(c) \/ Apply(c)
    PROVE  /\ ControlInv'
           /\ UNCHANGED diskVars
           /\ lock # Nobody => /\ c # lock
                               /\ UNCHANGED <<lock, loopVars, stage[lock], read[lock], want[lock]>>
<1>0. Nobody \notin Compilers
  BY NamesDiffer
<1>1. CASE Begin(c) \/ Apply(c)
  BY <1>0, <1>1 DEF TypeOK, ControlInv, Begin, Apply, Acquire, diskVars, compilerVars
<1>2. ASSUME NEW tree \in Trees, Compile(c, tree) PROVE UNCHANGED <<diskVars, lock, loopVars>> /\ lock # c
  BY <1>2 DEF Compile
<1>3. ASSUME Check(c) \/ Discard(c) PROVE UNCHANGED <<diskVars, lock, loopVars>> /\ lock # c
  <2>1. UNCHANGED <<diskVars, lock, loopVars>> /\ stage[c] \in {"recovered", "compiled"}
    BY <1>3 DEF Check, Discard
  <2>2. lock # c
    BY <1>0, <2>1 DEF ControlInv, TypeOK, Tasks
  <2>. QED
    BY <2>1, <2>2
<1>4. CASE UNCHANGED <<diskVars, lock, loopVars>> /\ lock # c
  <2>1. lock # Nobody => UNCHANGED <<stage[lock], read[lock], want[lock]>>
    BY <1>0, <1>2, <1>3, <1>4 DEF TypeOK, Compile, Check, Discard, RunEnds, Begin, Apply, Acquire, compilerVars
  <2>. QED
    BY <1>4, <2>1 DEF ControlInv, diskVars, loopVars, TypeOK, Tasks
<1>. QED
  BY <1>1, <1>2, <1>3, <1>4

LEMMA RecoveryKeepsControl ==
    ASSUME TypeOK, ControlInv, NEW c \in Compilers, RecoveryStep(c)
    PROVE  ControlInv'
<1>0. Nobody \notin Compilers
  BY NamesDiffer
<1>1. ASSUME NEW t \in Transactions, DiscardDirectory(c, t) \/ StartRestore(c, t) PROVE ControlInv'
  BY <1>0, <1>1 DEF ControlInv, DiscardDirectory, StartRestore, ToDiscard, diskVars, compilerVars
<1>2. CASE \/ \E t \in Transactions : RefuseRestore(c, t)
           \/ \E f \in Paths : RestoreRaises(c, f)
           \/ GiveUp(c)
           \/ Recovered(c)
  BY <1>2, LeavesControl DEF RefuseRestore, RestoreRaises, GiveUp, Recovered, LeaveAndEnd
<1>3. ASSUME NEW f \in Paths, RestoreFile(c, f) \/ RemoveBackup(c, f) PROVE ControlInv'
  BY <1>0, <1>3 DEF ControlInv, RestoreFile, RemoveBackup, compilerVars, loopVars
<1>4. CASE RemoveJournal(c)
  BY <1>0, <1>4 DEF ControlInv, RemoveJournal, compilerVars, loopVars, TypeOK
<1>5. CASE RemoveDirectory(c)
  <2>1. CASE LeaveAndEnd(c)
    BY <2>1, LeavesControl DEF LeaveAndEnd
  <2>2. CASE ~LeaveAndEnd(c)
    <3>1. /\ step' = "scan" /\ task' = task /\ lock' = lock /\ stage' = stage
          /\ task # "applied" /\ step = "discard"
      BY <1>5, <2>2 DEF RemoveDirectory, compilerVars
    <3>. QED
      BY <3>1 DEF ControlInv
  <2>. QED
    BY <2>1, <2>2
<1>. QED
  BY <1>1, <1>2, <1>3, <1>4, <1>5 DEF RecoveryStep

LEMMA ApplyKeepsControl ==
    ASSUME TypeOK, ControlInv, NEW c \in Compilers, ApplyStep(c) \/ Fault(c)
    PROVE  ControlInv'
<1>0. Nobody \notin Compilers
  BY NamesDiffer
<1>1. ASSUME NEW t \in Transactions, StartApply(c, t) PROVE ControlInv'
  BY <1>0, <1>1 DEF ControlInv, StartApply, TypeOK, compilerVars
<1>2. ASSUME NEW f \in Paths, BackUp(c, f) \/ WriteFile(c, f) \/ WriteFails(c, f) PROVE ControlInv'
  BY <1>0, <1>2 DEF ControlInv, BackUp, WriteFile, WriteFails, compilerVars
<1>3. CASE WriteJournal(c) \/ Commit(c)
  BY <1>0, <1>3 DEF ControlInv, WriteJournal, Commit, FirstState, TypeOK, compilerVars
<1>4. CASE Stop(c)
  BY <1>4, LeavesControl DEF Stop, LeaveAndEnd
<1>. QED
  BY <1>1, <1>2, <1>3, <1>4 DEF ApplyStep, Fault

LEMMA ControlStep == TypeOK /\ ControlInv /\ [Next]_compileVars => ControlInv'
<1> SUFFICES ASSUME TypeOK, ControlInv, [Next]_compileVars PROVE ControlInv'
  OBVIOUS
<1>1. ASSUME NEW f \in Paths, NEW x \in ManualEdits, ManualEdit(f, x) PROVE ControlInv'
  BY <1>1 DEF ManualEdit, ControlInv, compilerVars, loopVars
<1>2. CASE UNCHANGED compileVars
  BY <1>2 DEF compileVars, diskVars, compilerVars, loopVars, ControlInv
<1>. QED
  BY <1>1, <1>2, OutsideKeepsControl, RecoveryKeepsControl, ApplyKeepsControl DEF Next, RunStep

\* A directory is made when every other has been removed.
LEMMA OneTransactionStep ==
    TypeOK /\ ControlInv /\ AtMostOneTransaction /\ [Next]_compileVars => AtMostOneTransaction'
<1> SUFFICES ASSUME TypeOK, ControlInv, AtMostOneTransaction, [Next]_compileVars PROVE AtMostOneTransaction'
  OBVIOUS
<1>1. ASSUME NEW c \in Compilers, NEW t \in Transactions, StartApply(c, t) PROVE AtMostOneTransaction'
  <2>1. \A u \in Transactions : journal[u] = "absent"
    BY <1>1 DEF StartApply, AllSeen, ToDiscard, TypeOK, Journals
  <2>2. journal' = [journal EXCEPT ![t] = "none"]
    BY <1>1 DEF StartApply
  <2>. QED
    BY <2>1, <2>2 DEF AtMostOneTransaction, TypeOK
<1>2. CASE \A t \in Transactions : journal'[t] # "absent" => journal[t] # "absent"
  BY <1>2 DEF AtMostOneTransaction
<1>3. ASSUME journal' = journal \/ \E x : journal[target] # "absent" /\ journal' = [journal EXCEPT ![target] = x]
      PROVE  \A t \in Transactions : journal'[t] # "absent" => journal[t] # "absent"
  BY <1>3 DEF TypeOK
<1>4. ASSUME NEW c \in Compilers,
             RemoveJournal(c) \/ RemoveDirectory(c) \/ WriteJournal(c) \/ Commit(c)
      PROVE  \E x : journal[target] # "absent" /\ journal' = [journal EXCEPT ![target] = x]
  BY <1>4 DEF RemoveJournal, RemoveDirectory, WriteJournal, Commit, ControlInv
<1>5. ASSUME UNCHANGED diskVars PROVE journal' = journal
  BY <1>5 DEF diskVars
<1>. QED
  BY <1>1, <1>2, <1>3, <1>4, <1>5
     DEF Next, RunStep, Fault, RecoveryStep, ApplyStep, ManualEdit, Begin, Apply, Acquire, Compile, Check, Discard,
         DiscardDirectory, StartRestore, RefuseRestore, RestoreFile, RestoreRaises, RemoveBackup, Recovered, GiveUp,
         BackUp, WriteFile, WriteFails, Stop, compileVars, recordVars

-----------------------------------------------------------------------------
(* What is on the disk *)

LEMMA NothingUnderWay == ASSUME step' \in {"none", "scan"} PROVE DiskInv'
BY DEF DiskInv, RestoreInv, DiscardInv, BackupInv, WriteInv

LEMMA OutsideKeepsDisk ==
    ASSUME TypeOK, ControlInv, DiskInv, NEW c \in Compilers,
           Begin(c) \/ (\E tree \in Trees : Compile(c, tree)) \/ Check(c) \/ Discard(c) \/ Apply(c)
    PROVE  DiskInv'
<1>1. CASE lock # Nobody
  <2>1. /\ UNCHANGED <<live, journal, touched, before, after, backups>>
        /\ UNCHANGED <<lock, task, step, target, todo, undone>>
        /\ read'[lock] = read[lock] /\ want'[lock] = want[lock]
    BY <1>1, OutsideKeepsControl DEF diskVars, loopVars
  <2>. QED
    BY <2>1 DEF DiskInv, RestoreInv, DiscardInv, BackupInv, WriteInv, SavedAsIs, Changes
<1>2. CASE lock = Nobody
  <2>1. step' \in {"none", "scan"}
    BY <1>2 DEF ControlInv, Begin, Apply, Acquire, Compile, Check, Discard, loopVars
  <2>. QED
    BY <2>1, NothingUnderWay
<1>. QED
  BY <1>1, <1>2

LEMMA RestoreFileKeepsDisk ==
    ASSUME TypeOK, ControlInv, DiskInv, NEW c \in Compilers, NEW f \in Paths, RestoreFile(c, f)
    PROVE  DiskInv'
<1>1. /\ step = "restore" /\ f \in todo /\ todo \subseteq touched[target]
      /\ \A g \in todo : live[g] \in {before[target][g], after[target][g]}
      /\ \A g \in touched[target] \ todo : live[g] = before[target][g]
  BY DEF RestoreFile, DiskInv, RestoreInv
<1>2. /\ todo' = todo \ {f} /\ step' \in {"restore", "discard"} /\ (step' = "discard" => todo = {f})
      /\ UNCHANGED <<target, touched, before, after>>
      /\ \A g \in Paths : live'[g] = IF g = f THEN before[target][f] ELSE live[g]
  BY <1>1 DEF RestoreFile, PutFile, TypeOK, Trees, recordVars
<1>3. touched[target] \subseteq Paths
  BY <1>1 DEF TypeOK, ControlInv
<1>. QED
  BY <1>1, <1>2, <1>3 DEF DiskInv, RestoreInv, DiscardInv, BackupInv, WriteInv

LEMMA RecoveryKeepsDisk ==
    ASSUME TypeOK, ControlInv, DiskInv, NEW c \in Compilers, RecoveryStep(c)
    PROVE  DiskInv'
<1>1. ASSUME NEW t \in Transactions, DiscardDirectory(c, t) PROVE DiskInv'
  <2>1. step' = "discard" /\ journal'[target'] # "prepared"
    BY <1>1 DEF DiscardDirectory, ToDiscard, diskVars
  <2>. QED
    BY <2>1 DEF DiskInv, RestoreInv, DiscardInv, BackupInv, WriteInv
<1>2. ASSUME NEW t \in Transactions, StartRestore(c, t) PROVE DiskInv'
  <2>1. /\ step' = "restore" /\ target' = t /\ todo' = touched[t]
        /\ UNCHANGED <<live, touched, before, after>>
        /\ \A f \in touched[t] : live[f] \in {before[t][f], after[t][f]}
    BY <1>2 DEF StartRestore, InConflict, diskVars
  <2>. QED
    BY <2>1 DEF DiskInv, RestoreInv, DiscardInv, BackupInv, WriteInv
<1>3. CASE \/ \E t \in Transactions : RefuseRestore(c, t)
           \/ \E f \in Paths : RestoreRaises(c, f)
           \/ GiveUp(c)
           \/ Recovered(c)
           \/ RemoveDirectory(c)
  <2>1. step' \in {"none", "scan"}
    BY <1>3 DEF RefuseRestore, RestoreRaises, GiveUp, Recovered, RemoveDirectory, LeaveAndEnd, Release
  <2>. QED
    BY <2>1, NothingUnderWay
<1>4. ASSUME NEW f \in Paths, RemoveBackup(c, f) PROVE DiskInv'
  BY <1>4 DEF RemoveBackup, DiskInv, RestoreInv, DiscardInv, BackupInv, WriteInv, recordVars, loopVars
<1>5. CASE RemoveJournal(c)
  <2>1. step' = "discard" /\ journal'[target'] # "prepared"
    BY <1>5 DEF RemoveJournal, ControlInv, TypeOK, loopVars
  <2>. QED
    BY <2>1 DEF DiskInv, RestoreInv, DiscardInv, BackupInv, WriteInv
<1>. QED
  BY <1>1, <1>2, <1>3, <1>4, <1>5, RestoreFileKeepsDisk DEF RecoveryStep

LEMMA BackUpKeepsDisk ==
    ASSUME TypeOK, ControlInv, DiskInv, NEW c \in Compilers, NEW f \in Paths, BackUp(c, f)
    PROVE  DiskInv'
<1>1. /\ step = "backup" /\ lock = c /\ live = read[c] /\ target \in Transactions
      /\ \A g \in Changes(c) \ todo : SavedAsIs(g)
  BY DEF BackUp, DiskInv, BackupInv, ControlInv
<1>2. /\ step' \in {"backup", "journal"} /\ (step' = "journal" => todo = {f})
      /\ todo' = todo \ {f} /\ UNCHANGED <<live, lock, read, want, target>>
  BY DEF BackUp, compilerVars
<1>3. /\ \A g \in Paths : before'[target][g] = IF g = f THEN live[f] ELSE before[target][g]
      /\ backups'[target] = backups[target] \cup BackedUp(f)
  BY <1>1 DEF BackUp, TypeOK, Trees
<1>4. Changes(c)' = Changes(c) /\ Changes(c) \subseteq Paths
  BY <1>2 DEF Changes
<1>5. \A g \in Changes(c) : g \notin todo \/ g = f => SavedAsIs(g)'
  BY <1>1, <1>2, <1>3, <1>4 DEF SavedAsIs, BackedUp
<1>. QED
  BY <1>1, <1>2, <1>4, <1>5 DEF DiskInv, RestoreInv, DiscardInv, BackupInv, WriteInv

LEMMA WriteJournalKeepsDisk ==
    ASSUME TypeOK, ControlInv, DiskInv, NEW c \in Compilers, WriteJournal(c)
    PROVE  DiskInv'
<1>1. /\ lock = c /\ live = read[c] /\ target \in Transactions
      /\ \A g \in Changes(c) : SavedAsIs(g)
  BY DEF WriteJournal, DiskInv, BackupInv, ControlInv
<1>2. /\ step' = "write" /\ todo' = Changes(c)
      /\ UNCHANGED <<live, lock, read, want, target, before, backups>>
      /\ touched'[target] = Changes(c) /\ after'[target] = want[c]
  BY <1>1 DEF WriteJournal, TypeOK, compilerVars
<1>3. Changes(c)' = Changes(c) /\ Changes(c) \subseteq Paths
  BY <1>2 DEF Changes
<1>. QED
  BY <1>1, <1>2, <1>3 DEF DiskInv, RestoreInv, DiscardInv, BackupInv, WriteInv, SavedAsIs

LEMMA WriteFileKeepsDisk ==
    ASSUME TypeOK, ControlInv, DiskInv, NEW c \in Compilers, NEW f \in Paths, WriteFile(c, f)
    PROVE  DiskInv'
<1>1. /\ lock = c /\ step = "write" /\ f \in todo /\ target \in Transactions
      /\ touched[target] = Changes(c) /\ after[target] = want[c]
      /\ todo \subseteq Changes(c) /\ (\A g \in todo : SavedAsIs(g))
      /\ \A g \in Changes(c) : before[target][g] = read[c][g]
      /\ \A g \in Changes(c) : g \notin todo => live[g] = want[c][g]
      /\ \A g \in Paths \ Changes(c) : live[g] = read[c][g]
  BY DEF WriteFile, DiskInv, WriteInv, ControlInv
<1>2. /\ step' \in {"write", "commit"} /\ (step' = "commit" => todo = {f}) /\ todo' = todo \ {f}
      /\ UNCHANGED <<lock, read, want, target, touched, before, after, backups>>
      /\ \A g \in Paths : live'[g] = IF g = f THEN want[c][f] ELSE live[g]
  BY DEF WriteFile, PutFile, TypeOK, Trees, compilerVars, recordVars
<1>3. Changes(c)' = Changes(c) /\ Changes(c) \subseteq Paths
  BY <1>2 DEF Changes
<1>. QED
  BY <1>1, <1>2, <1>3 DEF DiskInv, RestoreInv, DiscardInv, BackupInv, WriteInv, SavedAsIs

LEMMA ApplyKeepsDisk ==
    ASSUME TypeOK, ControlInv, DiskInv, NEW c \in Compilers, ApplyStep(c) \/ Fault(c)
    PROVE  DiskInv'
<1>1. ASSUME NEW t \in Transactions, StartApply(c, t) PROVE DiskInv'
  <2>1. /\ step' = "backup" /\ todo' = Changes(c) /\ live' = read'[lock'] /\ Changes(lock)' = Changes(c)
    BY <1>1 DEF StartApply, CandidateStillFits, Changes, compilerVars
  <2>. QED
    BY <2>1 DEF DiskInv, RestoreInv, DiscardInv, BackupInv, WriteInv
<1>2. CASE Commit(c)
  <2>1. step' = "discard" /\ journal'[target'] # "prepared"
    BY <1>2 DEF Commit, ControlInv, TypeOK
  <2>. QED
    BY <2>1 DEF DiskInv, RestoreInv, DiscardInv, BackupInv, WriteInv
<1>3. CASE Fault(c)
  <2>1. step' \in {"none", "scan"}
    BY <1>3 DEF Fault, Stop, WriteFails, LeaveAndEnd, Release
  <2>. QED
    BY <2>1, NothingUnderWay
<1>. QED
  BY <1>1, <1>2, <1>3, BackUpKeepsDisk, WriteJournalKeepsDisk, WriteFileKeepsDisk DEF ApplyStep

LEMMA DiskStep == TypeOK /\ ControlInv /\ DiskInv /\ [Next]_compileVars => DiskInv'
<1> SUFFICES ASSUME TypeOK, ControlInv, DiskInv, [Next]_compileVars PROVE DiskInv'
  OBVIOUS
<1>1. ASSUME NEW f \in Paths, NEW x \in ManualEdits, ManualEdit(f, x) PROVE DiskInv'
  BY <1>1, NothingUnderWay DEF ManualEdit, ControlInv, loopVars
<1>2. CASE UNCHANGED compileVars
  BY <1>2 DEF compileVars, diskVars, compilerVars, loopVars, DiskInv, RestoreInv, DiscardInv, BackupInv, WriteInv,
              SavedAsIs, Changes
<1>. QED
  BY <1>1, <1>2, OutsideKeepsDisk, RecoveryKeepsDisk, ApplyKeepsDisk DEF Next, RunStep

\* The types, the state of the holder and what it has left on the disk: an
\* inductive invariant.
THEOREM WritebackInvariant == Spec => []WritebackInv
<1>1. Init => WritebackInv
  <2> SUFFICES ASSUME Init PROVE WritebackInv
    OBVIOUS
  <2>1. TypeOK
    <3>1. live \in Trees
      BY ContentsAreThere DEF Init, Trees
    <3>2. /\ before \in [Transactions -> Trees] /\ after \in [Transactions -> Trees]
          /\ read \in [Compilers -> Trees] /\ want \in [Compilers -> Trees]
      BY ContentsAreThere DEF Init
    <3>3. folders \subseteq Paths /\ faults \in 0..MaxFaults /\ lock \in Compilers \cup {Nobody}
      BY CompileAssumption DEF Init
    <3>. QED
      BY <3>1, <3>2, <3>3 DEF Init, TypeOK, Journals, Stages, Tasks, Steps
  <2>2. AtMostOneTransaction /\ ControlInv /\ DiskInv
    BY DEF Init, AtMostOneTransaction, ControlInv, DiskInv, RestoreInv, DiscardInv, BackupInv, WriteInv
  <2>. QED
    BY <2>1, <2>2 DEF WritebackInv
<1>2. WritebackInv /\ [Next]_compileVars => WritebackInv'
  BY TypeStep, ControlStep, OneTransactionStep, DiskStep DEF WritebackInv
<1>. QED
  BY <1>1, <1>2, PTL DEF Spec

\* Every variable of the writeback keeps its type, and no transaction directory is
\* made while another is there (AtMostOneTransaction): recovery never has two
\* rollbacks to do.
THEOREM WritebackCorrect == Spec => [](TypeOK /\ AtMostOneTransaction)
<1>1. WritebackInv => TypeOK /\ AtMostOneTransaction
  BY DEF WritebackInv
<1>. QED
  BY <1>1, WritebackInvariant, PTL

-----------------------------------------------------------------------------
(* Nothing is lost *)

\* While somebody holds the lock a file changes because it is restored or written.
LEMMA FileChanges ==
    ASSUME TypeOK, ControlInv, [Next]_compileVars, lock # Nobody, NEW f \in Paths, live'[f] # live[f]
    PROVE  \E c \in Compilers : RestoreFile(c, f) \/ WriteFile(c, f) \/ (WriteFails(c, f) /\ PutFile(f, want[c][f]))
<1>1. ASSUME live' = live PROVE FALSE
  BY <1>1
<1>2. PICK c \in Compilers, g \in Paths :
         \/ RestoreFile(c, g) \/ WriteFile(c, g)
         \/ WriteFails(c, g) /\ PutFile(g, want[c][g])
  BY <1>1 DEF Next, RunStep, Fault, RecoveryStep, ApplyStep, ManualEdit, Begin, Apply, Acquire, Compile, Check,
              Discard, DiscardDirectory, StartRestore, RefuseRestore, RestoreRaises, RemoveBackup, RemoveJournal,
              RemoveDirectory, Recovered, GiveUp, StartApply, BackUp, WriteJournal, WriteFails, Commit, Stop,
              compileVars, diskVars
<1>3. f = g
  BY <1>2 DEF RestoreFile, WriteFile, PutFile, TypeOK, Trees
<1>. QED
  BY <1>2, <1>3

LEMMA LosesNothing ==
    ASSUME WritebackInv, [Next]_compileVars, lock # Nobody, NEW f \in Paths, live'[f] # live[f]
    PROVE  \/ CanBeUndone(f)
           \/ \E t \in Transactions : journal[t] = "prepared" /\ f \in touched[t] /\ live[f] = after[t][f]
<1>. USE DEF WritebackInv
<1>1. PICK c \in Compilers :
         RestoreFile(c, f) \/ WriteFile(c, f) \/ (WriteFails(c, f) /\ PutFile(f, want[c][f]))
  BY FileChanges
<1>2. CASE RestoreFile(c, f)
  <2>1. /\ target \in Transactions /\ journal[target] = "prepared"
        /\ f \in touched[target] /\ live[f] \in {before[target][f], after[target][f]}
    BY <1>2 DEF RestoreFile, ControlInv, DiskInv, RestoreInv
  <2>2. live'[f] = before[target][f]
    BY <1>2 DEF RestoreFile, PutFile, TypeOK, Trees
  <2>. QED
    BY <2>1, <2>2
<1>3. CASE WriteFile(c, f) \/ WriteFails(c, f)
  <2>1. /\ target \in Transactions /\ journal[target] = "prepared"
        /\ f \in touched[target] /\ SavedAsIs(f)
    BY <1>3 DEF WriteFile, WriteFails, ControlInv, DiskInv, WriteInv
  <2>2. UNCHANGED <<journal, touched, before, backups>>
    BY <1>3 DEF WriteFile, WriteFails, recordVars
  <2>. QED
    BY <2>1, <2>2 DEF CanBeUndone, SavedAsIs
<1>. QED
  BY <1>1, <1>2, <1>3

\* Recovery, rollback and writeback overwrite or remove only what is in a
\* backup the journal knows, or is the candidate's own (NothingIsLost): however
\* many crashes, failing writes and manual edits came before.
THEOREM NothingIsEverLost == Spec => NothingIsLost
<1>1. WritebackInv /\ [Next]_compileVars =>
        [\A f \in Paths :
          lock # Nobody /\ live'[f] # live[f] =>
              \/ CanBeUndone(f)
              \/ \E t \in Transactions : /\ journal[t] = "prepared"
                                         /\ f \in touched[t]
                                         /\ live[f] = after[t][f]]_compileVars
  BY LosesNothing
<1>. QED
  BY <1>1, WritebackInvariant, PTL DEF Spec, NothingIsLost

-----------------------------------------------------------------------------
(***************************************************************************)
(* CompileTransaction implements AtomicWiki.  The Wiki of AtomicWiki is    *)
(* what a rollback would leave of the files: it stays as it is while files *)
(* are written or restored one by one, and changes at once by the commit.  *)
(***************************************************************************)

\* There is one unfinished transaction at most, so it is clear what a rollback
\* would do to a file.
RolledBackIsClear ==
    AtMostOneTransaction =>
        /\ (\A t \in Transactions : journal[t] # "prepared") => \A f \in Paths : RolledBack(f) = live[f]
        /\ \A t \in Transactions : journal[t] = "prepared" =>
              \A f \in Paths : RolledBack(f) = IF f \in touched[t] /\ live[f] = after[t][f]
                                             THEN before[t][f] ELSE live[f]

LEMMA RollbackIsClear == RolledBackIsClear
<1>. SUFFICES ASSUME AtMostOneTransaction, NEW f \in Paths
              PROVE  /\ (\A t \in Transactions : journal[t] # "prepared") => RolledBack(f) = live[f]
                     /\ \A t \in Transactions : journal[t] = "prepared" =>
                           RolledBack(f) = IF f \in touched[t] /\ live[f] = after[t][f]
                                           THEN before[t][f] ELSE live[f]
  BY DEF RolledBackIsClear
<1>. DEFINE unfinished == {t \in Transactions : /\ journal[t] = "prepared"
                                                /\ f \in touched[t]
                                                /\ live[f] = after[t][f]}
<1>1. RolledBack(f) = IF unfinished = {} THEN live[f] ELSE before[CHOOSE t \in unfinished : TRUE][f]
  BY DEF RolledBack
<1>2. (\A t \in Transactions : journal[t] # "prepared") => unfinished = {}
  OBVIOUS
<1>3. ASSUME NEW t \in Transactions, journal[t] = "prepared"
      PROVE  RolledBack(f) = IF f \in touched[t] /\ live[f] = after[t][f] THEN before[t][f] ELSE live[f]
  <2>1. \A u \in unfinished : u = t
    BY <1>3 DEF AtMostOneTransaction
  <2>2. f \in touched[t] /\ live[f] = after[t][f] <=> t \in unfinished
    BY <1>3
  <2>. HIDE DEF unfinished
  <2>3. unfinished # {} => (CHOOSE u \in unfinished : TRUE) \in unfinished
    OBVIOUS
  <2>. QED
    BY <1>1, <2>1, <2>2, <2>3
<1>. QED
  BY <1>1, <1>2, <1>3

LEMMA RolledBackType ==
    ASSUME TypeOK, AtMostOneTransaction, NEW f \in Paths
    PROVE  RolledBack(f) \in Contents
BY RollbackIsClear DEF RolledBackIsClear, TypeOK, Trees

\* Only the transaction that is worked on can be unfinished.
LEMMA UnfinishedIsTarget ==
    ASSUME ControlInv, AtMostOneTransaction, step \notin {"none", "scan"}, NEW t \in Transactions,
           journal[t] = "prepared"
    PROVE  t = target
BY DEF ControlInv, AtMostOneTransaction

WikiStays == \A f \in Paths : RolledBack(f)' = RolledBack(f)

LEMMA WikiStaysIfNothingMoves == ASSUME UNCHANGED <<live, journal, touched, before, after>> PROVE WikiStays
BY DEF WikiStays, RolledBack

LEMMA RecoveryKeepsWiki ==
    ASSUME WritebackInv, WritebackInv', NEW c \in Compilers, RecoveryStep(c)
    PROVE  WikiStays
<1>. USE DEF WritebackInv
<1>0. RolledBackIsClear /\ RolledBackIsClear'
  BY RollbackIsClear, PTL
<1>1. ASSUME NEW f \in Paths, RestoreFile(c, f) PROVE WikiStays
  <2>1. /\ target \in Transactions /\ journal[target] = "prepared" /\ journal'[target] = "prepared"
        /\ f \in touched[target] /\ live[f] \in {before[target][f], after[target][f]}
        /\ UNCHANGED <<touched, before, after>>
    BY <1>1 DEF RestoreFile, ControlInv, DiskInv, RestoreInv, recordVars
  <2>2. \A g \in Paths : live'[g] = IF g = f THEN before[target][f] ELSE live[g]
    BY <1>1 DEF RestoreFile, PutFile, TypeOK, Trees
  <2>. QED
    BY <1>0, <2>1, <2>2 DEF RolledBackIsClear, WikiStays
<1>2. CASE RemoveJournal(c)
  <2>1. /\ step = "discard" /\ target \in Transactions /\ UNCHANGED live
        /\ journal' = [journal EXCEPT ![target] = "none"]
    BY <1>2 DEF RemoveJournal, ControlInv
  <2>2. \A t \in Transactions : journal'[t] # "prepared"
    BY <2>1, UnfinishedIsTarget DEF TypeOK
  <2>3. CASE journal[target] = "prepared"
    <3>1. \A f \in touched[target] : live[f] = before[target][f]
      BY <2>1, <2>3 DEF DiskInv, DiscardInv
    <3>. QED
      BY <1>0, <2>1, <2>2, <2>3, <3>1 DEF RolledBackIsClear, WikiStays
  <2>4. CASE journal[target] # "prepared"
    <3>1. \A t \in Transactions : journal[t] # "prepared"
      BY <2>1, <2>4, UnfinishedIsTarget
    <3>. QED
      BY <1>0, <2>1, <2>2, <3>1 DEF RolledBackIsClear, WikiStays
  <2>. QED
    BY <2>3, <2>4
<1>3. CASE RemoveDirectory(c)
  <2>1. /\ step = "discard" /\ target \in Transactions /\ UNCHANGED live /\ journal[target] = "none"
        /\ journal' = [journal EXCEPT ![target] = "absent"]
    BY <1>3 DEF RemoveDirectory, ControlInv
  <2>2. \A t \in Transactions : journal[t] # "prepared" /\ journal'[t] # "prepared"
    BY <2>1, UnfinishedIsTarget DEF TypeOK
  <2>. QED
    BY <1>0, <2>1, <2>2 DEF RolledBackIsClear, WikiStays
<1>. QED
  BY <1>1, <1>2, <1>3, WikiStaysIfNothingMoves
     DEF RecoveryStep, DiscardDirectory, StartRestore, RefuseRestore, RestoreRaises, RemoveBackup, Recovered, GiveUp,
         diskVars, recordVars

LEMMA ApplyKeepsWiki ==
    ASSUME WritebackInv, WritebackInv', NEW c \in Compilers, ApplyStep(c) \/ Fault(c), ~Commit(c)
    PROVE  WikiStays
<1>. USE DEF WritebackInv
<1>0. RolledBackIsClear /\ RolledBackIsClear'
  BY RollbackIsClear, PTL
<1>1. ASSUME NEW t \in Transactions, StartApply(c, t) PROVE WikiStays
  <2>1. /\ UNCHANGED live /\ journal' = [journal EXCEPT ![t] = "none"]
        /\ \A u \in Transactions : journal[u] # "prepared"
    BY <1>1 DEF StartApply, AllSeen
  <2>2. \A u \in Transactions : journal'[u] # "prepared"
    BY <2>1 DEF TypeOK
  <2>. QED
    BY <1>0, <2>1, <2>2 DEF RolledBackIsClear, WikiStays
<1>2. ASSUME NEW f \in Paths, BackUp(c, f) PROVE WikiStays
  <2>1. UNCHANGED <<live, journal>> /\ step = "backup" /\ journal[target] = "none"
    BY <1>2 DEF BackUp, ControlInv
  <2>2. \A u \in Transactions : journal[u] # "prepared" /\ journal'[u] # "prepared"
    BY <2>1, UnfinishedIsTarget
  <2>. QED
    BY <1>0, <2>1, <2>2 DEF RolledBackIsClear, WikiStays
<1>3. CASE WriteJournal(c)
  <2>1. /\ UNCHANGED <<live, before>> /\ step = "journal" /\ journal[target] = "none" /\ lock = c
        /\ target \in Transactions /\ journal'[target] = "prepared" /\ touched'[target] = Changes(c)
        /\ \A f \in Changes(c) : live[f] = before[target][f]
    BY <1>3 DEF WriteJournal, FirstState, ControlInv, TypeOK, DiskInv, BackupInv, SavedAsIs
  <2>2. \A u \in Transactions : journal[u] # "prepared"
    BY <2>1, UnfinishedIsTarget
  <2>. QED
    BY <1>0, <2>1, <2>2 DEF RolledBackIsClear, WikiStays
<1>4. ASSUME NEW f \in Paths, WriteFile(c, f) \/ WriteFails(c, f), live' # live PROVE WikiStays
  <2>1. /\ step = "write" /\ lock = c /\ f \in todo
        /\ UNCHANGED <<journal, touched, before, after>> /\ PutFile(f, want[c][f])
    BY <1>4 DEF WriteFile, WriteFails, recordVars
  <2>2. /\ target \in Transactions /\ journal[target] = "prepared"
        /\ f \in touched[target] /\ live[f] = before[target][f] /\ after[target] = want[c]
    BY <2>1 DEF ControlInv, DiskInv, WriteInv, SavedAsIs
  <2>3. \A g \in Paths : live'[g] = IF g = f THEN want[c][f] ELSE live[g]
    BY <2>1 DEF PutFile, TypeOK, Trees
  <2>. QED
    BY <1>0, <2>1, <2>2, <2>3 DEF RolledBackIsClear, WikiStays
<1>5. ASSUME NEW f \in Paths, WriteFile(c, f) \/ WriteFails(c, f), live' = live PROVE WikiStays
  BY <1>5, WikiStaysIfNothingMoves DEF WriteFile, WriteFails, recordVars
<1>6. CASE Stop(c)
  BY <1>6, WikiStaysIfNothingMoves DEF Stop, diskVars
<1>. QED
  BY <1>1, <1>2, <1>3, <1>4, <1>5, <1>6 DEF ApplyStep, Fault

\* The commit: every file is the snapshot's or the candidate's.
LEMMA CommitPublishes ==
    ASSUME WritebackInv, WritebackInv', NEW c \in Compilers, Commit(c), NEW f \in Paths
    PROVE  RolledBack(f) = read[c][f] /\ RolledBack(f)' = live[f]
<1>. USE DEF WritebackInv
<1>0. RolledBackIsClear /\ RolledBackIsClear'
  BY RollbackIsClear, PTL
<1>1. /\ step = "commit" /\ lock = c /\ target \in Transactions /\ journal[target] = "prepared"
      /\ journal' = [journal EXCEPT ![target] = "committed"] /\ live' = live
      /\ touched[target] = Changes(c) /\ after[target] = want[c]
      /\ \A g \in Changes(c) : before[target][g] = read[c][g] /\ live[g] = want[c][g]
      /\ \A g \in Paths \ Changes(c) : live[g] = read[c][g]
  BY DEF Commit, ControlInv, DiskInv, WriteInv
<1>2. RolledBack(f) = IF f \in touched[target] /\ live[f] = after[target][f] THEN before[target][f] ELSE live[f]
  BY <1>0, <1>1 DEF RolledBackIsClear
<1>3. \A t \in Transactions : journal'[t] # "prepared"
  BY <1>1, UnfinishedIsTarget DEF TypeOK
<1>4. RolledBack(f)' = live'[f]
  BY <1>0, <1>3 DEF RolledBackIsClear
<1>. QED
  BY <1>1, <1>2, <1>4

\* wiki in AtomicWiki.
Wiki == [f \in Paths |-> RolledBack(f)]

LEMMA WikiType == TypeOK /\ AtMostOneTransaction => Wiki \in Trees
BY RolledBackType DEF Wiki, Trees

LEMMA WikiStaysSame == ASSUME WikiStays PROVE Wiki' = Wiki
BY DEF WikiStays, Wiki

\* An edit by hand changes one file, even where it is taken for the candidate
\* of an unfinished transaction and would be rolled back.
LEMMA EditAsPromised ==
    ASSUME WritebackInv, WritebackInv', NEW f \in Paths, NEW x \in ManualEdits, ManualEdit(f, x)
    PROVE  Atomic!Next
<1>. USE DEF WritebackInv
<1>0. RolledBackIsClear /\ RolledBackIsClear'
  BY RollbackIsClear, PTL
<1>1. /\ lock = Nobody /\ UNCHANGED <<journal, touched, before, after, read, lock>>
      /\ \A g \in Paths \ {f} : live'[g] = live[g]
  BY DEF ManualEdit, recordVars, compilerVars, TypeOK, Trees
<1>2. ASSUME NEW g \in Paths \ {f} PROVE RolledBack(g)' = RolledBack(g)
  <2>1. CASE \E t \in Transactions : journal[t] = "prepared"
    BY <1>0, <1>1, <2>1 DEF RolledBackIsClear
  <2>2. CASE \A t \in Transactions : journal[t] # "prepared"
    BY <1>0, <1>1, <2>2 DEF RolledBackIsClear
  <2>. QED
    BY <2>1, <2>2
<1>3. RolledBack(f)' \in Contents
  <2>1. (TypeOK /\ AtMostOneTransaction => Wiki \in Trees)'
    BY WikiType, PTL
  <2>. QED
    BY <2>1 DEF Wiki, Trees
<1>4. Wiki' = [Wiki EXCEPT ![f] = RolledBack(f)']
  BY <1>2 DEF Wiki
<1>. QED
  BY <1>1, <1>3, <1>4 DEF Wiki, Atomic!Next, Atomic!Edit

LEMMA OutsideAsPromised ==
    ASSUME WritebackInv, NEW c \in Compilers,
           Begin(c) \/ (\E tree \in Trees : Compile(c, tree)) \/ Check(c) \/ Discard(c) \/ Apply(c)
    PROVE  Atomic!Next \/ UNCHANGED <<Wiki, read, lock>>
<1>. USE DEF WritebackInv
<1>1. UNCHANGED diskVars /\ (lock # Nobody => c # lock)
  BY OutsideKeepsControl
<1>2. Wiki' = Wiki
  BY <1>1, WikiStaysIfNothingMoves, WikiStaysSame DEF diskVars
<1>3. CASE Begin(c) \/ Apply(c)
  BY <1>2, <1>3 DEF Begin, Apply, Acquire, compilerVars, Wiki, Atomic!Next, Atomic!Enter
<1>4. CASE (\E tree \in Trees : Compile(c, tree)) \/ Discard(c)
  <2>1. lock # c /\ UNCHANGED lock
    BY <1>1, <1>4, NamesDiffer DEF Compile, Discard
  <2>2. PICK tree \in Trees : read' = [read EXCEPT ![c] = tree]
    BY <1>4, ContentsAreThere DEF Compile, Discard, RunEnds, TypeOK
  <2>. QED
    BY <1>2, <2>1, <2>2 DEF Wiki, Trees, Atomic!Next, Atomic!Look, Atomic!Trees
<1>5. CASE Check(c)
  BY <1>2, <1>5 DEF Check
<1>. QED
  BY <1>3, <1>4, <1>5

\* A compiler that leaves the lock drops its snapshot, or keeps it.
LEMMA LeaveAsPromised ==
    ASSUME TypeOK, NEW c \in Compilers, lock = c, Wiki' = Wiki, Release, RunEnds(c) \/ UNCHANGED read
    PROVE  Atomic!Next
<1>1. PICK tree \in Trees : read' = [read EXCEPT ![c] = tree]
  <2>1. UNCHANGED read => read' = [read EXCEPT ![c] = read[c]] /\ read[c] \in Trees
    BY DEF TypeOK
  <2>. QED
    BY <2>1, ContentsAreThere DEF RunEnds
<1>. QED
  BY <1>1 DEF Release, Wiki, Trees, Atomic!Next, Atomic!Leave, Atomic!Trees

LEMMA RecoveryAsPromised ==
    ASSUME WritebackInv, WritebackInv', NEW c \in Compilers, RecoveryStep(c)
    PROVE  Atomic!Next \/ UNCHANGED <<Wiki, read, lock>>
<1>. USE DEF WritebackInv
<1>1. Wiki' = Wiki
  BY RecoveryKeepsWiki, WikiStaysSame
<1>2. CASE Release /\ (RunEnds(c) \/ UNCHANGED read) /\ lock = c
  BY <1>1, <1>2, LeaveAsPromised
<1>3. CASE UNCHANGED <<read, lock>>
  BY <1>1, <1>3
<1>. QED
  BY <1>2, <1>3
     DEF RecoveryStep, DiscardDirectory, StartRestore, RefuseRestore, RestoreFile, RestoreRaises, RemoveBackup,
         RemoveJournal, RemoveDirectory, Recovered, GiveUp, LeaveAndEnd, compilerVars

LEMMA ApplyAsPromised ==
    ASSUME WritebackInv, WritebackInv', NEW c \in Compilers, ApplyStep(c) \/ Fault(c)
    PROVE  Atomic!Next \/ UNCHANGED <<Wiki, read, lock>>
<1>. USE DEF WritebackInv
<1>1. CASE Commit(c)
  <2>1. Wiki = read[c] /\ Wiki' = live
    <3>1. read[c] = [f \in Paths |-> read[c][f]] /\ live = [f \in Paths |-> live[f]]
      BY DEF TypeOK, Trees
    <3>. QED
      BY <1>1, <3>1, CommitPublishes DEF Wiki
  <2>2. lock = c /\ UNCHANGED <<read, lock>> /\ live \in Trees
    BY <1>1 DEF Commit, compilerVars, TypeOK
  <2>. QED
    BY <2>1, <2>2 DEF Wiki, Trees, Atomic!Next, Atomic!Publish, Atomic!Trees
<1>2. CASE ~Commit(c)
  <2>1. Wiki' = Wiki
    BY <1>2, ApplyKeepsWiki, WikiStaysSame
  <2>2. CASE Stop(c)
    BY <2>1, <2>2, LeaveAsPromised DEF Stop, LeaveAndEnd
  <2>3. CASE UNCHANGED <<read, lock>>
    BY <2>1, <2>3
  <2>. QED
    BY <1>2, <2>2, <2>3
       DEF ApplyStep, Fault, StartApply, BackUp, WriteJournal, WriteFile, WriteFails, compilerVars
<1>. QED
  BY <1>1, <1>2

\* The file-by-file writeback with its journal, backups, crashes and rollbacks
\* is the one-step publication of AtomicWiki (ImplementsAtomicWiki): inside the
\* lock the Wiki changes by a whole candidate, written for just this Wiki.
THEOREM WritebackIsAtomic == Spec => ImplementsAtomicWiki
<1>1. Init => Atomic!Init
  <2> SUFFICES ASSUME Init PROVE Atomic!Init
    OBVIOUS
  <2>1. \A f \in Paths : RolledBack(f) = live[f]
    BY DEF Init, RolledBack
  <2>2. live \in Trees /\ read \in [Compilers -> Trees]
    BY ContentsAreThere DEF Init, Trees
  <2>. QED
    BY <2>1, <2>2 DEF Init, Trees, Atomic!Init, Atomic!Trees
<1>2. WritebackInv /\ WritebackInv' /\ [Next]_compileVars => [Atomic!Next]_Atomic!atomicVars
  <2> SUFFICES ASSUME WritebackInv, WritebackInv', [Next]_compileVars
               PROVE  Atomic!Next \/ UNCHANGED <<Wiki, read, lock>>
    BY DEF Wiki, Atomic!atomicVars
  <2>1. CASE UNCHANGED compileVars
    <3>1. Wiki' = Wiki
      BY <2>1, WikiStaysIfNothingMoves, WikiStaysSame DEF compileVars, diskVars
    <3>. QED
      BY <2>1, <3>1 DEF compileVars, compilerVars
  <2>. QED
    BY <2>1, EditAsPromised, OutsideAsPromised, RecoveryAsPromised, ApplyAsPromised DEF Next, RunStep
<1>. QED
  BY <1>1, <1>2, WritebackInvariant, PTL DEF Spec, ImplementsAtomicWiki, Atomic!Spec
=============================================================================
