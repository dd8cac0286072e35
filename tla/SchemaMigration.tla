---------------------------- MODULE SchemaMigration ----------------------------
(***************************************************************************)
(* infrastructure/sqlite/database.py: processes, perhaps of different       *)
(* releases, open one product database and bring its schema up to date.     *)
(*                                                                         *)
(* A release is the sequence of the migration scripts it bundles; a script *)
(* stands for its name and sha256.  Each script runs in a transaction of    *)
(* its own: writer holds SQLite's write lock from BEGIN IMMEDIATE to COMMIT *)
(* or ROLLBACK, draft is what the writer sees, and everybody else sees the *)
(* committed schema and history.                                            *)
(***************************************************************************)
EXTENDS Naturals, SequencesExt

CONSTANTS
    Openers,        \* processes
    Scripts,
    Releases,       \* sequences of scripts
    Nobody,
    MaxUpsets       \* bound on what goes wrong or changes meanwhile

\* _scripts: the bundled scripts in the order of their versions, which are
\* 1, 2, ... without a gap.
Bundles(r) == r \in Seq(Scripts) /\ IsInjective(r)

ASSUME MigrationAssumption ==
    /\ \A r \in Releases : Bundles(r)
    /\ Nobody \notin Openers
    /\ MaxUpsets \in Nat

VARIABLES
    schema,     \* the scripts whose statements have run, in that order
    history,    \* schema_migrations: the script of each version
    writer,     \* who is inside BEGIN IMMEDIATE
    draft,      \* the schema the writer sees
    opening,    \* how far each process is in open_product_db
    release,    \* code each process runs
    version,    \* migration each process has come to
    upsets

dbVars == <<schema, history, writer, draft>>
openVars == <<opening, release, version>>
migrationVars == <<dbVars, openVars, upsets>>

NoRelease == << >>
OpeningSteps == {"closed", "migrating", "running", "recording", "open"}

-----------------------------------------------------------------------------
MigrationInit ==
    /\ schema = << >>
    /\ history = << >>
    /\ writer = Nobody
    /\ draft = << >>
    /\ opening = [o \in Openers |-> "closed"]
    /\ release = [o \in Openers |-> NoRelease]
    /\ version = [o \in Openers |-> 0]
    /\ upsets = 0

\* The process is gone, or its call has raised: whatever it was writing is
\* rolled back.
Shut(o) ==
    /\ opening' = [opening EXCEPT ![o] = "closed"]
    /\ release' = [release EXCEPT ![o] = NoRelease]
    /\ version' = [version EXCEPT ![o] = 0]
    /\ writer' = IF writer = o THEN Nobody ELSE writer
    /\ draft' = IF writer = o THEN << >> ELSE draft
    /\ UNCHANGED <<schema, history>>

\* Connect, and CREATE TABLE IF NOT EXISTS schema_migrations.
OpenDb(o, r) ==
    /\ opening[o] = "closed" /\ writer = Nobody
    /\ opening' = [opening EXCEPT ![o] = "migrating"]
    /\ release' = [release EXCEPT ![o] = r]
    /\ version' = [version EXCEPT ![o] = 1]
    /\ UNCHANGED <<dbVars, upsets>>

\* BEGIN IMMEDIATE of the next script.
Turn(o) ==
    /\ opening[o] = "migrating" /\ version[o] <= Len(release[o])
    /\ writer = Nobody

NewerSchema(o) == Len(history) > Len(release[o])
Known(o) == version[o] \in DOMAIN history

SkipScript(o) ==
    /\ Turn(o) /\ ~NewerSchema(o)
    /\ Known(o) /\ history[version[o]] = release[o][version[o]]
    /\ version' = [version EXCEPT ![o] = @ + 1]
    /\ UNCHANGED <<dbVars, opening, release, upsets>>

\* MigrationError: a newer schema, or a script that is not the one that ran.
RefuseScript(o) ==
    /\ Turn(o)
    /\ NewerSchema(o) \/ (Known(o) /\ history[version[o]] # release[o][version[o]])
    /\ Shut(o)
    /\ UNCHANGED upsets

BeginScript(o) ==
    /\ Turn(o) /\ ~NewerSchema(o) /\ ~Known(o)
    /\ writer' = o
    /\ draft' = schema
    /\ opening' = [opening EXCEPT ![o] = "running"]
    /\ UNCHANGED <<schema, history, release, version, upsets>>

\* Fault: executescript(), which commits before it runs.
AutoCommits(o) ==
    /\ opening[o] = "running"
    /\ schema' = Append(schema, release[o][version[o]])
    /\ draft' = Append(draft, release[o][version[o]])
    /\ opening' = [opening EXCEPT ![o] = "recording"]
    /\ UNCHANGED <<history, writer, release, version, upsets>>

RunStatements(o) ==
    /\ opening[o] = "running"
    /\ draft' = Append(draft, release[o][version[o]])
    /\ opening' = [opening EXCEPT ![o] = "recording"]
    /\ UNCHANGED <<schema, history, writer, release, version, upsets>>

\* INSERT INTO schema_migrations; COMMIT.
RecordScript(o) ==
    /\ opening[o] = "recording"
    /\ schema' = draft
    /\ history' = Append(history, release[o][version[o]])
    /\ writer' = Nobody /\ draft' = << >>
    /\ opening' = [opening EXCEPT ![o] = "migrating"]
    /\ version' = [version EXCEPT ![o] = @ + 1]
    /\ UNCHANGED <<release, upsets>>

\* Outside a transaction: the whole history is read once more.
Migrated(o) == opening[o] = "migrating" /\ version[o] > Len(release[o])

OpenReturns(o) ==
    /\ Migrated(o) /\ history = release[o]
    /\ opening' = [opening EXCEPT ![o] = "open"]
    /\ UNCHANGED <<dbVars, release, version, upsets>>

OpenRaises(o) ==
    /\ Migrated(o) /\ history # release[o]
    /\ Shut(o)
    /\ UNCHANGED upsets

Upset == upsets < MaxUpsets /\ upsets' = upsets + 1

\* The process dies, the disk is full, or the write lock is not free in time.
Breaks(o) ==
    /\ Upset
    /\ opening[o] # "closed"
    /\ Shut(o)

\* migrate, after the table of migrations is there.
MigrationStep(o) ==
    \/ SkipScript(o) \/ BeginScript(o) \/ RunStatements(o) \/ RecordScript(o)
    \/ OpenReturns(o)

OpenFails(o) == RefuseScript(o) \/ OpenRaises(o)

\* The command the process was started for is over.
CloseDb(o) == Shut(o) /\ UNCHANGED upsets

\* What happens outside the database.
Elsewhere == Upset /\ UNCHANGED <<dbVars, openVars>>

MigrationNext ==
    \/ \E o \in Openers :
        \/ \E r \in Releases : OpenDb(o, r)
        \/ MigrationStep(o) \/ OpenFails(o) \/ CloseDb(o) \/ Breaks(o)
    \/ Elsewhere

MigrationSpec == MigrationInit /\ [][MigrationNext]_migrationVars

-----------------------------------------------------------------------------
\* However many processes migrate at once, and wherever one of them dies, the
\* committed schema is what the scripts in the history make of an empty
\* database, each run once and in their order (database.py:94: each script in a
\* transaction that looks again); and the database of every open process begins
\* with the scripts that its code brings.  So processes of two releases that
\* fork are never open at once.  That nothing follows those scripts is not
\* stated: database.py:130 compares the histories when a process opens, and one
\* that is open stays so when a newer release goes on migrating.
SchemasAgree ==
    /\ schema = history
    /\ \A o \in Openers : opening[o] = "open" => IsPrefix(release[o], history)
=============================================================================
