----------------------------- MODULE LegacyImport -----------------------------
(***************************************************************************)
(* infrastructure/sqlite/legacy.py: xwiki-state --import-legacy copies the  *)
(* recordings table of the old pipeline into the product store, where       *)
(* SourceImport works at the same time.                                     *)
(*                                                                         *)
(* A version of a row is what json and sha256 make its fingerprint of.      *)
(* The batch is one transaction, so it is one action; the old rows are read *)
(* before it.                                                               *)
(***************************************************************************)
EXTENDS SourceImport

CONSTANTS
    Fates           \* status of an old row: known ones and others

VARIABLES
    recordings,     \* the old table
    snapshots       \* legacy_recording_snapshots, with what legacy_migration_issues says of them

legacyVars == <<recordings, snapshots>>
storeVars == <<migrationVars, importVars, legacyVars>>

KnownFates == {"raw_ready", "compiled", "publish_pending", "failed"}
NoHash == "invalid audio_sha256"
LegacyRows == [key : Keys, audio : Contents \cup {NoHash}, fate : Fates]
FromRow(row) == [origin |-> "voice_memo", key |-> row.key, digest |-> row.audio]

-----------------------------------------------------------------------------
StoreInit ==
    /\ ImportInit
    /\ recordings = {}
    /\ snapshots = {}

\* save_state of the old pipeline: INSERT ... ON CONFLICT DO UPDATE.
RewriteRow(row) ==
    /\ Upset
    /\ recordings' = {r \in recordings : r.key # row.key} \cup {row}
    /\ UNCHANGED <<dbVars, openVars, importVars, snapshots>>

\* _read_legacy, and datetime.now.
ReadLegacy(o, moment) ==
    /\ opening[o] = "open" /\ At(o, "idle")
    /\ Becomes(o, [step |-> "batch", rows |-> recordings, at |-> moment])
    /\ UNCHANGED <<migrationVars, fileVars, sources, reported, legacyVars>>

Flagged(row) == row.audio = NoHash \/ row.fate \notin KnownFates

\* Fault: the old status is taken over.
OldStatus(row, moment) == Source(row.fate, moment)

\* Not "stored": nobody has seen its bytes.
Placeholder(row, moment) ==
    Source(IF row.fate = "failed" \/ Flagged(row) THEN "failed_retryable" ELSE "queued", moment)

\* Fault: a batch counts on having read the table as it is now.
AllRows(rows) == {row \in rows : row.audio # NoHash}

New(rows) == {row \in rows \ snapshots : row.audio # NoHash /\ sources[FromRow(row)] = NoSource}

ImportBatch(o) ==
    /\ At(o, "batch") /\ writer = Nobody
    /\ LET rows == task[o].rows
           placed == New(rows)
       IN /\ sources' = [id \in SourceIds |->
                IF \E row \in placed : FromRow(row) = id
                THEN Placeholder(CHOOSE row \in placed : FromRow(row) = id, task[o].at)
                ELSE sources[id]]
          /\ snapshots' = snapshots \cup rows
    /\ Finishes(o)
    /\ UNCHANGED <<fileVars, reported, recordings>>

Dies(o) == Breaks(o) /\ Becomes(o, NoTask)

StoreNext ==
    \/ \E o \in Openers :
        \/ \E r \in Releases : OpenDb(o, r) /\ UNCHANGED <<importVars, legacyVars>>
        \/ MigrationStep(o) /\ UNCHANGED <<importVars, legacyVars>>
        \/ OpenFails(o) /\ UNCHANGED <<importVars, legacyVars>>
        \/ ImportStep(o) /\ UNCHANGED legacyVars
        \/ \E moment \in Moments : ReadLegacy(o, moment)
        \/ ImportBatch(o)
        \/ Dies(o) /\ UNCHANGED <<fileVars, sources, reported, legacyVars>>
    \/ AroundImport /\ UNCHANGED legacyVars
    \/ \E row \in LegacyRows : RewriteRow(row)

StoreSpec == StoreInit /\ [][StoreNext]_storeVars

-----------------------------------------------------------------------------
\* Types.
StoreTypeOK ==
    /\ schema \in Seq(Scripts) /\ history \in Seq(Scripts) /\ draft \in Seq(Scripts)
    /\ writer \in Openers \cup {Nobody}
    /\ opening \in [Openers -> OpeningSteps]
    /\ release \in [Openers -> Releases \cup {NoRelease}]
    /\ version \in [Openers -> Nat]
    /\ file \in Contents /\ stamp \in 0..MaxUpsets
    /\ blobs \in [Digests -> {"none", "whole", "bad"}]
    /\ harmed \subseteq Digests /\ reported \subseteq Digests
    /\ sources \in [SourceIds -> [status : Statuses, at : Moments \cup {NoMoment}, transcribed : BOOLEAN]]
    /\ DOMAIN task = Openers
    /\ recordings \subseteq LegacyRows /\ snapshots \subseteq LegacyRows

\* "Repeated identical inserts are no-ops" (adr-00b-product-sqlite.md:80): a
\* row of sources is written once.  Neither another importer nor a second batch
\* read before the first one committed changes it or makes it a placeholder
\* again; only its transcript may be added to it.
RowsAreWrittenOnce ==
    [][\A id \in SourceIds :
        sources[id] # NoSource =>
            sources'[id] \in {sources[id], [sources[id] EXCEPT !.transcribed = TRUE]}]_sources

\* StoredIsKept, and what adr-00b-product-sqlite.md asks of the rows that come
\* from the old table: every snapshot with a valid hash has its source, and
\* that source does not claim bytes nobody has verified.
SourcesAreKept ==
    /\ StoredIsKept
    /\ \A row \in snapshots : row.audio # NoHash =>
            sources[FromRow(row)].status \in {"queued", "failed_retryable"}
=============================================================================
