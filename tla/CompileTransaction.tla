------------------------- MODULE CompileTransaction -------------------------
(***************************************************************************)
(* Durable writeback of a compiled candidate (scripts/compile_transaction  *)
(* .py) as compile_wiki and staged_workspace drive it.                     *)
(*                                                                         *)
(* A compiler recovers what an earlier run left behind, takes a snapshot,  *)
(* lets the model write a candidate in a staging directory, and applies it *)
(* under the write lock: back up, journal "prepared", replace file by      *)
(* file, journal "committed", remove the transaction directory.  Every     *)
(* disk operation is a step of its own and a compiler may die, or raise,   *)
(* between any two of them.                                                *)
(*                                                                         *)
(* Files are edited by hand only while nobody holds the write lock: the    *)
(* documentation asks for that.  sorted() only fixes an order of names, so *)
(* any path may come next.                                                 *)
(***************************************************************************)
EXTENDS Naturals

CONSTANTS
    Compilers,      \* processes that compile
    Nobody,         \* the write lock is free
    Transactions,   \* names of transaction directories
    NoTransaction,
    Paths,          \* files of the repository a candidate may change
    NewFolders,     \* those whose folder does not exist at first
    Texts,          \* contents of a file
    NoFile,         \* the file is not there
    Originals,      \* contents the files start with
    Drafts,         \* contents a candidate gives to a file
    ManualEdits,    \* contents given to a file by hand
    MaxFaults       \* bound: how many crashes and failing writes

Contents == Texts \cup {NoFile}
Trees == [Paths -> Contents]
Blank == [f \in Paths |-> NoFile]   \* no snapshot, no candidate

ASSUME CompileAssumption ==
    /\ Nobody \notin Compilers
    /\ NoTransaction \notin Transactions
    /\ NewFolders \subseteq Paths
    /\ NoFile \notin Texts
    /\ Originals \cup Drafts \cup ManualEdits \subseteq Contents
    /\ MaxFaults \in Nat

VARIABLES
    (* the disk *)
    live,       \* the Wiki files
    folders,    \* paths whose parent folder exists
    journal,    \* of each transaction directory; "absent": no such directory
    touched,    \* paths the journal lists
    before,     \* their contents at backup time, by SHA and in backups/
    after,      \* their contents in the candidate, by SHA
    backups,    \* paths whose backup file is there
    (* the compilers *)
    lock,       \* holder of compile.lock
    stage,      \* where a compiler is outside the lock
    read,       \* live_before
    want,       \* the staged candidate
    (* the locals of whoever holds the lock *)
    task,       \* why it runs: to recover, to apply, to undo, or it has applied
    step,       \* what it does next
    target,     \* the transaction it works on
    todo,       \* paths left in the current loop
    undone,     \* _recover_unlocked has restored something
    faults      \* how many faults so far

diskVars     == <<live, folders, journal, touched, before, after, backups>>
recordVars   == <<touched, before, after>>
compilerVars == <<stage, read, want>>
loopVars     == <<task, step, target, todo, undone>>
compileVars  == <<diskVars, lock, compilerVars, loopVars, faults>>

Journals == {"absent", "none", "prepared", "committed"}
Stages == {"idle", "recovered", "compiled", "checked"}
Tasks == {"none", "recover", "apply", "undo", "applied"}
Steps == {"none", "scan", "restore", "discard", "backup", "journal", "write", "commit"}

\* changed_paths(staged_before, staged_after)
Changes(c) == {f \in Paths : want[c][f] # read[c][f]}

-----------------------------------------------------------------------------
Init ==
    /\ live \in [Paths -> Originals \cup {NoFile}]
    /\ \A f \in NewFolders : live[f] = NoFile
    /\ folders = Paths \ NewFolders
    /\ journal = [t \in Transactions |-> "absent"]
    /\ touched = [t \in Transactions |-> {}]
    /\ before = [t \in Transactions |-> Blank]
    /\ after = [t \in Transactions |-> Blank]
    /\ backups = [t \in Transactions |-> {}]
    /\ lock = Nobody
    /\ stage = [c \in Compilers |-> "idle"]
    /\ read = [c \in Compilers |-> Blank]
    /\ want = [c \in Compilers |-> Blank]
    /\ task = "none"
    /\ step = "none"
    /\ target = NoTransaction
    /\ todo = {}
    /\ undone = FALSE
    /\ faults = 0

(* Outside the lock: compile_wiki *)

\* An edit by hand, while no compiler is writing.
ManualEdit(f, x) ==
    /\ lock = Nobody
    /\ live[f] # x
    /\ live' = [live EXCEPT ![f] = x]
    /\ folders' = IF x = NoFile THEN folders ELSE folders \cup {f}
    /\ UNCHANGED <<journal, recordVars, backups, lock, compilerVars, loopVars, faults>>

\* exclusive_compile_lock, and the start of _recover_unlocked.
Acquire(c, why) ==
    /\ lock = Nobody
    /\ lock' = c
    /\ task' = why
    /\ step' = "scan"
    /\ UNCHANGED <<diskVars, compilerVars, target, todo, undone, faults>>

\* recover_transactions(repo), first thing in a run.
Begin(c) == stage[c] = "idle" /\ Acquire(c, "recover")

\* live_before, and the candidate the model will come up with.
Compile(c, tree) ==
    /\ stage[c] = "recovered"
    /\ lock # c
    /\ tree \in Trees
    /\ \A f \in Paths : tree[f] \in Drafts \cup {live[f]}
    /\ stage' = [stage EXCEPT ![c] = "compiled"]
    /\ read' = [read EXCEPT ![c] = live]
    /\ want' = [want EXCEPT ![c] = tree]
    /\ UNCHANGED <<diskVars, lock, loopVars, faults>>

\* The live tree is still the snapshot after the model has run, and there is
\* something to apply.
Check(c) ==
    /\ stage[c] = "compiled"
    /\ live = read[c]
    /\ Changes(c) # {}
    /\ stage' = [stage EXCEPT ![c] = "checked"]
    /\ UNCHANGED <<diskVars, lock, read, want, loopVars, faults>>

\* The columns of a compiler whose run is over.
RunEnds(c) ==
    /\ stage' = [stage EXCEPT ![c] = "idle"]
    /\ read' = [read EXCEPT ![c] = Blank]
    /\ want' = [want EXCEPT ![c] = Blank]

\* The run ends without writing: the model failed, the live tree changed, or
\* the candidate is empty or invalid.
Discard(c) ==
    /\ stage[c] \in {"recovered", "compiled"}
    /\ RunEnds(c)
    /\ UNCHANGED <<diskVars, lock, loopVars, faults>>

\* apply_transaction enters the lock and recovers again.
Apply(c) == stage[c] = "checked" /\ Acquire(c, "apply")

(* Leaving the lock *)

Release ==
    /\ lock' = Nobody
    /\ task' = "none"
    /\ step' = "none"
    /\ target' = NoTransaction
    /\ todo' = {}
    /\ undone' = FALSE

\* The holder leaves the lock, by return or by raise, and its run is over.
LeaveAndEnd(c) == Release /\ RunEnds(c)

\* A crash of the holder, or an exception nobody catches.
Stop(c) ==
    /\ lock = c
    /\ faults < MaxFaults
    /\ faults' = faults + 1
    /\ LeaveAndEnd(c)
    /\ UNCHANGED diskVars

(* _recover_unlocked: one transaction directory after the other *)

\* Fault: a directory without a journal is left where it is.
ToDiscardJournalled(t) == journal[t] = "committed"

\* No journal: nothing was applied.  Committed: only the cleanup is missing.
ToDiscard(t) == journal[t] \in {"none", "committed"}

DiscardDirectory(c, t) ==
    /\ lock = c /\ step = "scan"
    /\ ToDiscard(t)
    /\ target' = t
    /\ step' = "discard"
    /\ UNCHANGED <<diskVars, lock, compilerVars, task, todo, undone, faults>>

\* Fault: a manual edit is not noticed.
NeverInConflict(t) == FALSE

\* "Manual edit conflicts with interrupted compilation"
InConflict(t) ==
    \E f \in touched[t] : live[f] \notin {before[t][f], after[t][f]}

\* Fault: a created file is expected to have a backup, too.
LacksAnyBackup(t) == \E f \in touched[t] : f \notin backups[t]

\* "Missing compilation rollback backup"
LacksBackup(t) ==
    \E f \in touched[t] : before[t][f] # NoFile /\ f \notin backups[t]

\* Every path is checked before the first is restored.
StartRestore(c, t) ==
    /\ lock = c /\ step = "scan"
    /\ journal[t] = "prepared"
    /\ ~LacksBackup(t) /\ ~InConflict(t)
    /\ target' = t
    /\ todo' = touched[t]
    /\ step' = "restore"
    /\ UNCHANGED <<diskVars, lock, compilerVars, task, undone, faults>>

\* Recovery raises before it has written anything.
RefuseRestore(c, t) ==
    /\ lock = c /\ step = "scan"
    /\ journal[t] = "prepared"
    /\ LacksBackup(t) \/ InConflict(t)
    /\ LeaveAndEnd(c)
    /\ UNCHANGED <<diskVars, faults>>

\* atomic_replace_file(live, x), or live.unlink(missing_ok=True), and then
\* safe_sync_dir(live.parent), which needs the folder.
PutFile(f, x) ==
    /\ x = NoFile => f \in folders
    /\ live' = [live EXCEPT ![f] = x]
    /\ folders' = folders \cup {f}

RestoreFile(c, f) ==
    /\ lock = c /\ step = "restore" /\ f \in todo
    /\ PutFile(f, before[target][f])
    /\ todo' = todo \ {f}
    /\ IF todo = {f}
       THEN step' = "discard" /\ undone' = TRUE
       ELSE UNCHANGED <<step, undone>>
    /\ UNCHANGED <<journal, recordVars, backups, lock, compilerVars, task, target, faults>>

\* The file was created in a folder that is not there: syncing it raises.
RestoreRaises(c, f) ==
    /\ lock = c /\ step = "restore" /\ f \in todo
    /\ before[target][f] = NoFile /\ f \notin folders
    /\ LeaveAndEnd(c)
    /\ UNCHANGED <<diskVars, faults>>

(* shutil.rmtree(transaction): entries come in no particular order *)

RemoveBackup(c, f) ==
    /\ lock = c /\ step = "discard" /\ f \in backups[target]
    /\ backups' = [backups EXCEPT ![target] = @ \ {f}]
    /\ UNCHANGED <<live, folders, journal, recordVars, lock, compilerVars, loopVars, faults>>

RemoveJournal(c) ==
    /\ lock = c /\ step = "discard" /\ journal[target] \in {"prepared", "committed"}
    /\ journal' = [journal EXCEPT ![target] = "none"]
    /\ UNCHANGED <<live, folders, recordVars, backups, lock, compilerVars, loopVars, faults>>

\* The empty directory goes last.  apply_transaction then returns, recovery
\* looks for the next directory.
RemoveDirectory(c) ==
    /\ lock = c /\ step = "discard"
    /\ journal[target] = "none" /\ backups[target] = {}
    /\ journal' = [journal EXCEPT ![target] = "absent"]
    /\ touched' = [touched EXCEPT ![target] = {}]
    /\ before' = [before EXCEPT ![target] = Blank]
    /\ after' = [after EXCEPT ![target] = Blank]
    /\ IF task = "applied"
       THEN LeaveAndEnd(c)
       ELSE /\ step' = "scan"
            /\ target' = NoTransaction
            /\ UNCHANGED <<lock, compilerVars, task, todo, undone>>
    /\ UNCHANGED <<live, folders, backups, faults>>

(* _recover_unlocked has seen every directory *)

AllSeen == \A t \in Transactions : ~ToDiscard(t) /\ journal[t] # "prepared"

\* recover_transactions returns and compile_wiki goes on.
Recovered(c) ==
    /\ lock = c /\ step = "scan" /\ AllSeen /\ task = "recover"
    /\ Release
    /\ stage' = [stage EXCEPT ![c] = "recovered"]
    /\ UNCHANGED <<diskVars, read, want, faults>>

\* Fault: the snapshot is not compared again under the lock.
CandidateNotRestored(c) == ~undone

\* Nothing was restored and the live tree still is the snapshot.
CandidateStillFits(c) == ~undone /\ live = read[c]

\* "retry with fresh snapshot", "Live repository changed before the
\* compilation write lock", or the end of a rollback after a failing write.
GiveUp(c) ==
    /\ lock = c /\ step = "scan" /\ AllSeen
    /\ task = "undo" \/ (task = "apply" /\ ~CandidateStillFits(c))
    /\ LeaveAndEnd(c)
    /\ UNCHANGED <<diskVars, faults>>

(* apply_transaction *)

\* mkdir of a fresh directory.
StartApply(c, t) ==
    /\ lock = c /\ step = "scan" /\ AllSeen /\ task = "apply"
    /\ CandidateStillFits(c)
    /\ journal[t] = "absent"
    /\ journal' = [journal EXCEPT ![t] = "none"]
    /\ target' = t
    /\ todo' = Changes(c)
    /\ step' = "backup"
    /\ UNCHANGED <<live, folders, recordVars, backups, lock, compilerVars, task, undone, faults>>

\* durable_backup, for a file that is there.
BackedUp(f) == IF live[f] = NoFile THEN {} ELSE {f}

BackUp(c, f) ==
    /\ lock = c /\ step = "backup" /\ f \in todo
    /\ before' = [before EXCEPT ![target][f] = live[f]]
    /\ backups' = [backups EXCEPT ![target] = @ \cup BackedUp(f)]
    /\ todo' = todo \ {f}
    /\ step' = IF todo = {f} THEN "journal" ELSE "backup"
    /\ UNCHANGED <<live, folders, journal, touched, after, lock, compilerVars>>
    /\ UNCHANGED <<task, target, undone, faults>>

\* Fault: a state that recovery does not know.
UnknownState == "writing"

\* record["state"] of the first journal.
FirstState == "prepared"

WriteJournal(c) ==
    /\ lock = c /\ step = "journal"
    /\ journal' = [journal EXCEPT ![target] = FirstState]
    /\ touched' = [touched EXCEPT ![target] = Changes(c)]
    /\ after' = [after EXCEPT ![target] = want[c]]
    /\ todo' = Changes(c)
    /\ step' = "write"
    /\ UNCHANGED <<live, folders, before, backups, lock, compilerVars>>
    /\ UNCHANGED <<task, target, undone, faults>>

WriteFile(c, f) ==
    /\ lock = c /\ step = "write" /\ f \in todo
    /\ PutFile(f, want[c][f])
    /\ todo' = todo \ {f}
    /\ step' = IF todo = {f} THEN "commit" ELSE "write"
    /\ UNCHANGED <<journal, recordVars, backups, lock, compilerVars>>
    /\ UNCHANGED <<task, target, undone, faults>>

\* A write raises, before or after the file was replaced: the transaction is
\* rolled back at once.
WriteFails(c, f) ==
    /\ lock = c /\ step = "write" /\ f \in todo
    /\ faults < MaxFaults
    /\ faults' = faults + 1
    /\ PutFile(f, want[c][f]) \/ UNCHANGED <<live, folders>>
    /\ task' = "undo"
    /\ step' = "scan"
    /\ target' = NoTransaction
    /\ todo' = {}
    /\ UNCHANGED <<journal, recordVars, backups, lock, compilerVars, undone>>

Commit(c) ==
    /\ lock = c /\ step = "commit"
    /\ journal' = [journal EXCEPT ![target] = "committed"]
    /\ task' = "applied"
    /\ step' = "discard"
    /\ UNCHANGED <<live, folders, recordVars, backups, lock, compilerVars>>
    /\ UNCHANGED <<target, todo, undone, faults>>

-----------------------------------------------------------------------------
RecoveryStep(c) ==
    \/ \E t \in Transactions : DiscardDirectory(c, t)
    \/ \E t \in Transactions : StartRestore(c, t)
    \/ \E t \in Transactions : RefuseRestore(c, t)
    \/ \E f \in Paths : RestoreFile(c, f)
    \/ \E f \in Paths : RestoreRaises(c, f)
    \/ \E f \in Paths : RemoveBackup(c, f)
    \/ RemoveJournal(c)
    \/ RemoveDirectory(c)
    \/ Recovered(c)
    \/ GiveUp(c)

ApplyStep(c) ==
    \/ \E t \in Transactions : StartApply(c, t)
    \/ \E f \in Paths : BackUp(c, f)
    \/ WriteJournal(c)
    \/ \E f \in Paths : WriteFile(c, f)
    \/ Commit(c)

RunStep(c) ==
    \/ Begin(c)
    \/ \E tree \in Trees : Compile(c, tree)
    \/ Check(c)
    \/ Discard(c)
    \/ Apply(c)
    \/ RecoveryStep(c)
    \/ ApplyStep(c)

Fault(c) ==
    \/ Stop(c)
    \/ \E f \in Paths : WriteFails(c, f)

Next ==
    \/ \E f \in Paths, x \in ManualEdits : ManualEdit(f, x)
    \/ \E c \in Compilers : RunStep(c)
    \/ \E c \in Compilers : Fault(c)

Spec == Init /\ [][Next]_compileVars

(***************************************************************************)
(* launchd starts a run again and again, and a run that can go on does.    *)
(* flock is not fair between two runs, and nobody has to fail or to edit.  *)
(***************************************************************************)
FairSpec == Spec /\ \A c \in Compilers : WF_compileVars(RunStep(c))

-----------------------------------------------------------------------------
(* Invariants *)

\* Every variable holds a value of its type, and only the holder of the lock
\* is in the critical section.
TypeOK ==
    /\ live \in Trees
    /\ folders \subseteq Paths
    /\ journal \in [Transactions -> Journals]
    /\ touched \in [Transactions -> SUBSET Paths]
    /\ before \in [Transactions -> Trees]
    /\ after \in [Transactions -> Trees]
    /\ backups \in [Transactions -> SUBSET Paths]
    /\ lock \in Compilers \cup {Nobody}
    /\ stage \in [Compilers -> Stages]
    /\ read \in [Compilers -> Trees]
    /\ want \in [Compilers -> Trees]
    /\ task \in Tasks
    /\ step \in Steps
    /\ target \in Transactions \cup {NoTransaction}
    /\ todo \subseteq Paths
    /\ undone \in BOOLEAN
    /\ faults \in 0..MaxFaults

\* A transaction directory is never left behind while the next one is made:
\* two rollbacks that touch the same file could not both be undone.
AtMostOneTransaction ==
    \A t1, t2 \in Transactions :
        journal[t1] # "absent" /\ journal[t2] # "absent" => t1 = t2

-----------------------------------------------------------------------------
(* What a step may never do *)

\* The compiler's own copy of what is in a file: its candidate, or a backup
\* that the rollback of an unfinished transaction will find.
CanBeUndone(f) ==
    \E t \in Transactions :
        /\ journal'[t] = "prepared"
        /\ f \in touched'[t]
        /\ live[f] = before'[t][f]
        /\ live[f] = NoFile \/ f \in backups'[t]

\* A compiler overwrites or removes only what it can bring back, or what is
\* the candidate of the transaction it rolls back: nothing written by hand is
\* ever lost.
NothingIsLost ==
    [][\A f \in Paths :
          lock # Nobody /\ live'[f] # live[f] =>
              \/ CanBeUndone(f)
              \/ \E t \in Transactions : /\ journal[t] = "prepared"
                                         /\ f \in touched[t]
                                         /\ live[f] = after[t][f]]_compileVars

\* Once a transaction is journalled, its own files end up as they were, or all
\* of them are the candidate: "originals are restored, and the interrupted
\* compilation may be retried", unless a manual edit is in the way.
InterruptedIsSettled ==
    (\E t \in Transactions : journal[t] = "prepared")
        ~> \A t \in Transactions : journal[t] = "prepared" =>
              \E f \in touched[t] : live[f] # before[t][f] /\ live[f] # after[t][f]

-----------------------------------------------------------------------------
\* The file as a rollback of the unfinished transactions would leave it.
RolledBack(f) ==
    LET unfinished == {t \in Transactions : /\ journal[t] = "prepared"
                                            /\ f \in touched[t]
                                            /\ live[f] = after[t][f]}
    IN  IF unfinished = {} THEN live[f] ELSE before[CHOOSE t \in unfinished : TRUE][f]

\* The writeback keeps what AtomicWiki promises.
Atomic == INSTANCE AtomicWiki
              WITH wiki <- [f \in Paths |-> RolledBack(f)], busy <- lock

ImplementsAtomicWiki == Atomic!Spec
=============================================================================
