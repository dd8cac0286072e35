----------------------------- MODULE SourceImport -----------------------------
(***************************************************************************)
(* xwiki-import over one product store: application/import_source.py,       *)
(* put_file, verify_blob and export_original of file_store.py, and          *)
(* save_source of repositories.py.                                          *)
(*                                                                         *)
(* A process opens the database as in SchemaMigration and then carries out *)
(* one command, step by step.  A digest stands for the bytes it is of; Torn *)
(* is the copy of a file that changed while it was read, and its digest.    *)
(* The steps inside the blob store's lock are one action; statements of     *)
(* SQLite are one action each, as the connection commits after each.        *)
(***************************************************************************)
EXTENDS SchemaMigration

CONSTANTS
    Contents,       \* bytes the user's file may hold
    Torn,
    Keys,           \* recordings of the old pipeline
    NoKey,
    Moments         \* values of datetime.now, not 0

ASSUME ImportAssumption ==
    /\ Contents # {} /\ Torn \notin Contents
    /\ Moments # {} /\ 0 \notin Moments

VARIABLES
    file,       \* bytes of the user's file
    stamp,      \* its inode, size and mtime
    blobs,      \* sha256/<digest>.blob: "none", "whole" or "bad"
    harmed,     \* digests of the blobs that something else spoilt
    sources,    \* rows, by source_id
    reported,   \* observer: digests of imports that reported success
    target,     \* the file at the path chosen for an export
    task        \* locals of each process

fileVars == <<file, stamp, blobs, harmed, target>>
importVars == <<fileVars, sources, reported, task>>

Digests == Contents \cup {Torn}
Statuses == {"none", "stored", "queued", "failed_retryable"}
Source(status, moment) == [status |-> status, at |-> moment, transcribed |-> FALSE]
NoMoment == 0
NoSource == Source("none", NoMoment)
Stored(moment) == Source("stored", moment)
SourceIds == [origin : {"file"}, key : {NoKey}, digest : Digests]
             \cup [origin : {"voice_memo"}, key : Keys, digest : Contents]
FromFile(d) == [origin |-> "file", key |-> NoKey, digest |-> d]
NoTask == [step |-> "idle"]
Nothing == [of |-> "nobody"]
UsersOwn == [of |-> "user"]

-----------------------------------------------------------------------------
ImportInit ==
    /\ MigrationInit
    /\ file \in Contents
    /\ stamp = 0
    /\ blobs = [d \in Digests |-> "none"]
    /\ harmed = {}
    /\ target = Nothing
    /\ sources = [id \in SourceIds |-> NoSource]
    /\ reported = {}
    /\ task = [o \in Openers |-> NoTask]

(* The world around the store *)

\* Every change is a change of the stamp (inode, device, size, mtime_ns): one
\* that keeps all four is not noticed by the code, and is left out.
EditFile(text) ==
    /\ Upset
    /\ file' = text
    /\ stamp' = stamp + 1
    /\ UNCHANGED <<blobs, harmed, target, sources, reported, task, dbVars, openVars>>

Harm(d, state) ==
    /\ Upset
    /\ blobs[d] = "whole"
    /\ blobs' = [blobs EXCEPT ![d] = state]
    /\ harmed' = harmed \cup {d}
    /\ UNCHANGED <<file, stamp, target, sources, reported, task, dbVars, openVars>>

UserWritesTarget ==
    /\ Upset
    /\ target = Nothing
    /\ target' = UsersOwn
    /\ UNCHANGED <<file, stamp, blobs, harmed, sources, reported, task, dbVars, openVars>>

\* JobRepository.complete points the row at its transcript.
TranscribeSource(d) ==
    /\ writer = Nobody
    /\ sources[FromFile(d)].status = "stored"
    /\ sources' = [sources EXCEPT ![FromFile(d)].transcribed = TRUE]
    /\ UNCHANGED <<fileVars, reported, task, migrationVars>>

(* Commands *)

At(o, step) == task[o].step = step
Becomes(o, new) == task' = [task EXCEPT ![o] = new]

\* The command is over, well or not: the process ends.
Finishes(o) == Becomes(o, NoTask) /\ CloseDb(o)

\* put_file: os.open and fstat.
StartImport(o) ==
    /\ opening[o] = "open" /\ At(o, "idle")
    /\ Becomes(o, [step |-> "copy", stamp |-> stamp])
    /\ UNCHANGED <<fileVars, sources, reported, migrationVars>>

\* Read all, hash and write it to a private file.
CopyFile(o) ==
    /\ At(o, "copy")
    /\ \E d \in Digests :
        /\ stamp = task[o].stamp => d = file
        /\ Becomes(o, [step |-> "compare", stamp |-> task[o].stamp, d |-> d])
    /\ UNCHANGED <<fileVars, sources, reported, migrationVars>>

\* Fault: what was read is taken for the file.
TakesAnyCopy(o) == TRUE

Unchanged(o) == stamp = task[o].stamp

AcceptCopy(o) ==
    /\ At(o, "compare") /\ Unchanged(o)
    /\ Becomes(o, [step |-> "store", d |-> task[o].d])
    /\ UNCHANGED <<fileVars, sources, reported, migrationVars>>

RefuseCopy(o) ==
    /\ At(o, "compare") /\ ~Unchanged(o)
    /\ Finishes(o)
    /\ UNCHANGED <<fileVars, sources, reported>>

\* Under the lock: a blob that is there is verified, any other is renamed into place.
StoreBlob(o) ==
    /\ At(o, "store") /\ blobs[task[o].d] # "bad"
    /\ blobs' = [blobs EXCEPT ![task[o].d] = "whole"]
    /\ Becomes(o, [task[o] EXCEPT !.step = "find"])
    /\ UNCHANGED <<file, stamp, harmed, target, sources, reported, migrationVars>>

BlobIsBad(o) ==
    /\ At(o, "store") /\ blobs[task[o].d] = "bad"
    /\ Finishes(o)
    /\ UNCHANGED <<fileVars, sources, reported>>

\* get_source.
FindSource(o) ==
    /\ At(o, "find")
    /\ Becomes(o, [task[o] EXCEPT
            !.step = IF sources[FromFile(task[o].d)] = NoSource THEN "insert" ELSE "verify"])
    /\ UNCHANGED <<fileVars, sources, reported, migrationVars>>

\* It is there already: verify_blob, and report a duplicate or raise.
VerifyKnown(o) ==
    /\ At(o, "verify")
    /\ reported' = IF blobs[task[o].d] = "whole" THEN reported \cup {task[o].d} ELSE reported
    /\ Finishes(o)
    /\ UNCHANGED <<fileVars, sources>>

\* INSERT ... ON CONFLICT DO NOTHING.
InsertSource(o, moment) ==
    /\ At(o, "insert") /\ writer = Nobody
    /\ LET id == FromFile(task[o].d)
       IN sources' = IF sources[id] = NoSource THEN [sources EXCEPT ![id] = Stored(moment)] ELSE sources
    /\ Becomes(o, [step |-> "reread", d |-> task[o].d, at |-> moment])
    /\ UNCHANGED <<fileVars, reported, migrationVars>>

\* The row is read again.  It may be another importer's, or have got its
\* transcript meanwhile: ConflictError, although the source is there.
RereadSource(o) ==
    /\ At(o, "reread")
    /\ reported' = IF sources[FromFile(task[o].d)] = Stored(task[o].at)
                   THEN reported \cup {task[o].d} ELSE reported
    /\ Finishes(o)
    /\ UNCHANGED <<fileVars, sources>>

\* export: get_source, verify_blob, and the path must be free.
StartExport(o, id) ==
    /\ opening[o] = "open" /\ At(o, "idle")
    /\ sources[id] # NoSource
    /\ IF blobs[id.digest] = "whole" /\ target = Nothing
       THEN /\ Becomes(o, [step |-> "read", d |-> id.digest])
            /\ UNCHANGED migrationVars
       ELSE Finishes(o)
    /\ UNCHANGED <<fileVars, sources, reported>>

Rehashed(bytes) == bytes = "whole"

\* The blob is read once more, into a file beside the target.
ReadBlob(o) ==
    /\ At(o, "read")
    /\ LET bytes == blobs[task[o].d]
       IN IF bytes # "none" /\ Rehashed(bytes)
          THEN /\ Becomes(o, [step |-> "link", d |-> task[o].d, bytes |-> bytes])
               /\ UNCHANGED migrationVars
          ELSE Finishes(o)
    /\ UNCHANGED <<fileVars, sources, reported>>

\* Fault: os.replace.
ReplacesTarget(o) ==
    /\ At(o, "link")
    /\ target' = [of |-> task[o].d, bytes |-> task[o].bytes]
    /\ Finishes(o)
    /\ UNCHANGED <<file, stamp, blobs, harmed, sources, reported>>

\* os.link fails if the path is taken.
LinkTarget(o) ==
    /\ At(o, "link")
    /\ target' = IF target = Nothing THEN [of |-> task[o].d, bytes |-> task[o].bytes] ELSE target
    /\ Finishes(o)
    /\ UNCHANGED <<file, stamp, blobs, harmed, sources, reported>>

ImportStep(o) ==
    \/ StartImport(o) \/ CopyFile(o) \/ AcceptCopy(o) \/ RefuseCopy(o)
    \/ StoreBlob(o) \/ BlobIsBad(o) \/ FindSource(o) \/ VerifyKnown(o)
    \/ \E moment \in Moments : InsertSource(o, moment)
    \/ RereadSource(o)
    \/ \E id \in SourceIds : StartExport(o, id)
    \/ ReadBlob(o) \/ LinkTarget(o)

AroundImport ==
    \/ \E text \in Contents : EditFile(text)
    \/ \E d \in Digests, state \in {"none", "bad"} : Harm(d, state)
    \/ UserWritesTarget
    \/ \E d \in Contents : TranscribeSource(d)

-----------------------------------------------------------------------------
\* Bytes before rows (import_source.py:51): whatever importers of the same
\* bytes, edits of the file while it is read and crashes do, a row that says
\* "stored", and a command that reported success, stand for bytes the user's
\* file really held, and the store has them unless something else spoilt them.
StoredIsKept ==
    \A d \in Digests :
        sources[FromFile(d)].status = "stored" \/ d \in reported =>
            /\ sources[FromFile(d)].status = "stored"
            /\ d \in Contents
            /\ blobs[d] = "whole" \/ d \in harmed

\* "Copy exact bytes to an explicitly chosen new path. Never overwrite."
\* (file_store.py:264), although the blob is read twice and the path may be
\* taken by anybody meanwhile.
ExportsAreExact ==
    [][target' # target => target = Nothing /\ (target' = UsersOwn \/ target'.bytes = "whole")]_target
=============================================================================
