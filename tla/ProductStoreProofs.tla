-------------------------- MODULE ProductStoreProofs --------------------------
(***************************************************************************)
(* Machine-checked: the schema of the product database is what its history *)
(* says; importers, exports and the legacy import leave that alone, so it  *)
(* holds of the whole store; what the store calls stored is stored, rows   *)
(* are written once, and exports are exact, for any number of processes,   *)
(* releases, scripts, contents and old rows.                               *)
(***************************************************************************)
EXTENDS LegacyImport, SequenceTheorems, TLAPS

\* The types of what the argument is about.
MigrationTypeOK ==
    /\ schema \in Seq(Scripts) /\ history \in Seq(Scripts)
    /\ opening \in [Openers -> OpeningSteps]
    /\ release \in [Openers -> Seq(Scripts)]
    /\ version \in [Openers -> Nat]

InTransaction(o) == opening[o] \in {"running", "recording"}

\* A process has found or recorded every script before the one it has come
\* to; in a transaction it has come to the first that is not there, and nobody
\* else is in one.
KeepsUp(o) ==
    /\ opening[o] # "closed" =>
        /\ version[o] \in 1..(Len(release[o]) + 1)
        /\ version[o] <= Len(history) + 1
        /\ \A i \in 1..(version[o] - 1) : history[i] = release[o][i]
    /\ opening[o] = "open" => version[o] = Len(release[o]) + 1
    /\ InTransaction(o) =>
        /\ writer = o
        /\ version[o] = Len(history) + 1
        /\ version[o] <= Len(release[o])
    /\ opening[o] = "running" => draft = schema
    /\ opening[o] = "recording" => draft = Append(schema, release[o][version[o]])

MigrationInv ==
    /\ MigrationTypeOK
    /\ schema = history
    /\ \A o \in Openers : KeepsUp(o)

LEMMA PrefixByElements ==
    ASSUME NEW S, NEW s \in Seq(S), NEW t \in Seq(S), Len(s) <= Len(t),
           \A i \in 1..Len(s) : s[i] = t[i]
    PROVE  IsPrefix(s, t)
<1>1. SubSeq(s, 1, Len(s)) = s
  BY SubSeqFull
<1>2. SubSeq(t, 1, Len(s)) = s
  BY SMT
<1>. QED
  BY <1>1, <1>2 DEF IsPrefix

LEMMA InvGivesAgreement == MigrationInv => SchemasAgree
<1>. SUFFICES ASSUME MigrationInv, NEW o \in Openers, opening[o] = "open"
              PROVE  IsPrefix(release[o], history)
  BY DEF MigrationInv, SchemasAgree
<1>1. /\ release[o] \in Seq(Scripts) /\ history \in Seq(Scripts)
      /\ Len(release[o]) \in Nat /\ Len(history) \in Nat
  BY LenProperties DEF MigrationInv, MigrationTypeOK
<1>2. /\ version[o] = Len(release[o]) + 1
      /\ version[o] <= Len(history) + 1
      /\ \A i \in 1..(version[o] - 1) : history[i] = release[o][i]
  BY DEF MigrationInv, KeepsUp
<1>3. Len(release[o]) <= Len(history) /\ \A i \in 1..Len(release[o]) : release[o][i] = history[i]
  BY <1>1, <1>2
<1>. QED
  BY <1>1, <1>3, PrefixByElements

LEMMA InvInit == MigrationInit => MigrationInv
BY DEF MigrationInit, MigrationInv, MigrationTypeOK, KeepsUp, InTransaction, OpeningSteps, NoRelease

\* A process that goes away takes nothing with it that was committed, and
\* gives up no transaction but its own.
LEMMA ShutKeepsInv ==
    ASSUME MigrationInv, NEW o \in Openers, Shut(o)
    PROVE  MigrationInv'
<1>1. MigrationTypeOK'
  BY DEF MigrationInv, MigrationTypeOK, Shut, OpeningSteps, NoRelease
<1>2. ASSUME NEW p \in Openers PROVE KeepsUp(p)'
  <2>1. CASE p = o
    BY <2>1 DEF MigrationInv, MigrationTypeOK, KeepsUp, InTransaction, Shut
  <2>2. CASE p # o
    <3>1. InTransaction(p) => writer # o
      BY <2>2 DEF MigrationInv, KeepsUp
    <3>2. /\ opening'[p] = opening[p] /\ release'[p] = release[p] /\ version'[p] = version[p]
          /\ history' = history /\ schema' = schema
      BY <2>2 DEF MigrationInv, MigrationTypeOK, Shut
    <3>3. InTransaction(p) => writer' = writer /\ draft' = draft
      BY <3>1 DEF Shut
    <3>. QED
      BY <3>2, <3>3 DEF MigrationInv, KeepsUp, InTransaction
  <2>. QED
    BY <2>1, <2>2
<1>. QED
  BY <1>1, <1>2 DEF MigrationInv, Shut

\* Each step keeps the invariant.
LEMMA InvStep == MigrationInv /\ [MigrationNext]_migrationVars => MigrationInv'
<1>. SUFFICES ASSUME MigrationInv, [MigrationNext]_migrationVars
              PROVE  MigrationInv'
  OBVIOUS
<1>. USE DEF MigrationInv, MigrationTypeOK
<1>1. ASSUME NEW o \in Openers, NEW r \in Releases, OpenDb(o, r) PROVE MigrationInv'
  <2>1. r \in Seq(Scripts) /\ Len(r) \in Nat
    BY MigrationAssumption, LenProperties DEF Bundles
  <2>2. MigrationTypeOK' /\ schema' = history'
    BY <1>1, <2>1 DEF OpenDb, dbVars, OpeningSteps
  <2>3. ASSUME NEW p \in Openers PROVE KeepsUp(p)'
    BY <1>1, <2>1, LenProperties DEF OpenDb, dbVars, KeepsUp, InTransaction
  <2>. QED
    BY <2>2, <2>3
<1>2. ASSUME NEW o \in Openers, SkipScript(o) PROVE MigrationInv'
  <2>1. MigrationTypeOK' /\ schema' = history'
    BY <1>2 DEF SkipScript, dbVars
  <2>2. ASSUME NEW p \in Openers PROVE KeepsUp(p)'
    BY <1>2, LenProperties DEF SkipScript, Turn, Known, dbVars, KeepsUp, InTransaction
  <2>. QED
    BY <2>1, <2>2
<1>3. ASSUME NEW o \in Openers, BeginScript(o) PROVE MigrationInv'
  <2>1. MigrationTypeOK' /\ schema' = history'
    BY <1>3 DEF BeginScript, OpeningSteps
  <2>2. ASSUME NEW p \in Openers PROVE KeepsUp(p)'
    <3>1. CASE p = o
      <4>1. DOMAIN history = 1..Len(history) /\ Len(history) \in Nat
        BY LenProperties
      <4>2. version[o] \in Nat \ {0} /\ version[o] <= Len(history) + 1
        BY <1>3, LenProperties DEF BeginScript, Turn, KeepsUp
      <4>3. version[o] = Len(history) + 1
        BY <1>3, <4>1, <4>2 DEF BeginScript, Known
      <4>. QED
        BY <1>3, <3>1, <4>3 DEF BeginScript, Turn, KeepsUp, InTransaction
    <3>2. CASE p # o
      <4>1. ~InTransaction(p)
        BY <1>3, MigrationAssumption DEF BeginScript, Turn, KeepsUp, Bundles
      <4>. QED
        BY <1>3, <3>2, <4>1 DEF BeginScript, KeepsUp, InTransaction
    <3>. QED
      BY <3>1, <3>2
  <2>. QED
    BY <2>1, <2>2
<1>4. ASSUME NEW o \in Openers, RunStatements(o) PROVE MigrationInv'
  <2>1. MigrationTypeOK' /\ schema' = history'
    BY <1>4 DEF RunStatements, OpeningSteps
  <2>2. ASSUME NEW p \in Openers PROVE KeepsUp(p)'
    <3>1. CASE p = o
      BY <1>4, <3>1 DEF RunStatements, KeepsUp, InTransaction
    <3>2. CASE p # o
      <4>1. ~InTransaction(p)
        BY <1>4, <3>2 DEF RunStatements, KeepsUp, InTransaction
      <4>. QED
        BY <1>4, <3>2, <4>1 DEF RunStatements, KeepsUp, InTransaction
    <3>. QED
      BY <3>1, <3>2
  <2>. QED
    BY <2>1, <2>2
<1>5. ASSUME NEW o \in Openers, RecordScript(o) PROVE MigrationInv'
  <2>. DEFINE script == release[o][version[o]]
  <2>1. /\ version[o] = Len(history) + 1 /\ version[o] <= Len(release[o])
        /\ Len(history) \in Nat /\ Len(release[o]) \in Nat
        /\ script \in Scripts
    BY <1>5, LenProperties, ElementOfSeq DEF RecordScript, KeepsUp, InTransaction
  <2>2. /\ history' = Append(history, script) /\ schema' = history'
        /\ history' \in Seq(Scripts) /\ Len(history') = Len(history) + 1
        /\ history'[version[o]] = script
        /\ \A i \in 1..Len(history) : history'[i] = history[i]
    BY <1>5, <2>1, AppendProperties DEF RecordScript, KeepsUp
  <2>3. MigrationTypeOK'
    BY <1>5, <2>2 DEF RecordScript, OpeningSteps
  <2>4. ASSUME NEW p \in Openers PROVE KeepsUp(p)'
    <3>1. CASE p = o
      <4>1. /\ opening'[p] = "migrating" /\ release'[p] = release[o]
            /\ version'[p] = version[o] + 1
        BY <1>5, <3>1 DEF RecordScript
      <4>2. \A i \in 1..Len(history) : history'[i] = release[o][i]
        <5>1. \A i \in 1..(version[o] - 1) : history[i] = release[o][i]
          BY <1>5 DEF RecordScript, KeepsUp
        <5>. QED
          BY <2>1, <2>2, <5>1
      <4>3. \A i \in 1..version[o] : history'[i] = release[o][i]
        BY <2>1, <2>2, <4>2
      <4>. QED
        BY <2>1, <2>2, <4>1, <4>3 DEF KeepsUp, InTransaction
    <3>2. CASE p # o
      <4>1. ~InTransaction(p)
        BY <1>5, <3>2 DEF RecordScript, KeepsUp, InTransaction
      <4>2. opening'[p] = opening[p] /\ release'[p] = release[p] /\ version'[p] = version[p]
        BY <1>5, <3>2 DEF RecordScript
      <4>3. ASSUME opening[p] # "closed", NEW i \in 1..(version[p] - 1)
            PROVE  history'[i] = release[p][i]
        <5>1. i \in 1..Len(history) /\ history[i] = release[p][i]
          BY <2>1, <4>3 DEF KeepsUp
        <5>. QED
          BY <2>2, <5>1
      <4>. QED
        BY <2>1, <2>2, <4>1, <4>2, <4>3 DEF KeepsUp, InTransaction
    <3>. QED
      BY <3>1, <3>2
  <2>. QED
    BY <2>2, <2>3, <2>4
<1>6. ASSUME NEW o \in Openers, OpenReturns(o) PROVE MigrationInv'
  <2>1. MigrationTypeOK' /\ schema' = history'
    BY <1>6 DEF OpenReturns, dbVars, OpeningSteps
  <2>2. ASSUME NEW p \in Openers PROVE KeepsUp(p)'
    BY <1>6, LenProperties DEF OpenReturns, Migrated, dbVars, KeepsUp, InTransaction
  <2>. QED
    BY <2>1, <2>2
<1>7. ASSUME NEW o \in Openers, OpenFails(o) \/ CloseDb(o) \/ Breaks(o) PROVE MigrationInv'
  BY <1>7, ShutKeepsInv DEF OpenFails, RefuseScript, OpenRaises, CloseDb, Breaks
<1>8. CASE Elsewhere \/ UNCHANGED migrationVars
  BY <1>8 DEF Elsewhere, migrationVars, dbVars, openVars, KeepsUp, InTransaction
<1>. QED
  BY <1>1, <1>2, <1>3, <1>4, <1>5, <1>6, <1>7, <1>8 DEF MigrationNext, MigrationStep

\* Whatever releases any number of processes bring, and wherever they die: the
\* committed schema is the history's, and the database of every open process
\* begins with the scripts its code brings (those of a newer release may follow).
THEOREM SchemaCorrect == MigrationSpec => []SchemasAgree
<1>1. MigrationInv => SchemasAgree
  BY InvGivesAgreement
<1>. QED
  BY <1>1, InvInit, InvStep, PTL DEF MigrationSpec

-----------------------------------------------------------------------------
(* The whole store *)

\* A command never touches the schema: it goes on, or its process ends.
LEMMA ImportStepIsAllowed ==
    ASSUME NEW o \in Openers, ImportStep(o)
    PROVE  UNCHANGED migrationVars \/ CloseDb(o)
BY DEF ImportStep, StartImport, CopyFile, AcceptCopy, RefuseCopy, StoreBlob, BlobIsBad, FindSource,
       VerifyKnown, InsertSource, RereadSource, StartExport, ReadBlob, LinkTarget, Finishes

\* Nor does anything around the store.
LEMMA AroundIsAllowed == AroundImport => UNCHANGED migrationVars \/ Elsewhere
BY DEF AroundImport, EditFile, Harm, UserWritesTarget, TranscribeSource, Elsewhere

\* Every step of the store is a step of SchemaMigration, or leaves it alone.
LEMMA StoreStepIsAllowed == [StoreNext]_storeVars => [MigrationNext]_migrationVars
<1>. SUFFICES ASSUME [StoreNext]_storeVars PROVE [MigrationNext]_migrationVars
  OBVIOUS
<1>1. CASE UNCHANGED storeVars
  BY <1>1 DEF storeVars
<1>2. CASE AroundImport \/ \E row \in LegacyRows : RewriteRow(row)
  BY <1>2, AroundIsAllowed DEF RewriteRow, Elsewhere, MigrationNext
<1>3. ASSUME NEW o \in Openers,
             \/ \E r \in Releases : OpenDb(o, r)
             \/ MigrationStep(o) \/ OpenFails(o) \/ Dies(o)
      PROVE  MigrationNext
  BY <1>3 DEF MigrationNext, Dies
<1>4. ASSUME NEW o \in Openers,
             \/ ImportStep(o) \/ ImportBatch(o)
             \/ \E moment \in Moments : ReadLegacy(o, moment)
      PROVE  [MigrationNext]_migrationVars
  BY <1>4, ImportStepIsAllowed DEF ImportBatch, ReadLegacy, Finishes, MigrationNext
<1>. QED
  BY <1>1, <1>2, <1>3, <1>4 DEF StoreNext

\* The product store, with every command on it, implements SchemaMigration.
THEOREM StoreImplementsMigration == StoreSpec => MigrationSpec
<1>1. StoreInit => MigrationInit
  BY DEF StoreInit, ImportInit
<1>. QED
  BY <1>1, StoreStepIsAllowed, PTL DEF StoreSpec, MigrationSpec

\* Whatever is imported, exported or interrupted meanwhile, the schema is what
\* the history says, and every command runs on a database that begins with the
\* scripts its code brings.
THEOREM StoreSchemaCorrect == StoreSpec => []SchemasAgree
BY StoreImplementsMigration, SchemaCorrect, PTL

-----------------------------------------------------------------------------
(* Blobs and rows *)

Tasks ==
    [step : {"idle"}]
    \cup [step : {"copy"}, stamp : Nat]
    \cup [step : {"compare"}, stamp : Nat, d : Digests]
    \cup [step : {"store", "find", "insert", "verify"}, d : Contents]
    \cup [step : {"reread"}, d : Contents, at : Moments]
    \cup [step : {"read"}, d : Digests]
    \cup [step : {"link"}, d : Digests, bytes : {"whole"}]
    \cup [step : {"batch"}, rows : SUBSET LegacyRows, at : Moments]

\* The store has the bytes, or something else has spoilt them.
Kept(d) == blobs[d] = "whole" \/ d \in harmed

\* What a process may rely on between its steps: if the file still has the
\* stamp it had when it was opened, the copy is of what it holds.
TaskOK(o) ==
    /\ task[o].step \in {"copy", "compare"} => task[o].stamp <= stamp
    /\ task[o].step = "compare" /\ task[o].stamp = stamp => task[o].d = file
    /\ task[o].step \in {"find", "insert", "verify", "reread"} => Kept(task[o].d)
    /\ task[o].step \in {"verify", "reread"} => sources[FromFile(task[o].d)].status = "stored"

Rows == [status : Statuses, at : Moments \cup {NoMoment}, transcribed : BOOLEAN]

\* A row that is there says what its origin allows.
RowsFit ==
    /\ sources \in [SourceIds -> Rows]
    /\ \A id \in SourceIds : sources[id].status = "none" => sources[id] = NoSource
    /\ \A d \in Digests : sources[FromFile(d)].status \in {"none", "stored"}
    /\ \A k \in Keys, d \in Contents :
        sources[[origin |-> "voice_memo", key |-> k, digest |-> d]].status \in {"none", "queued", "failed_retryable"}

StoreInv ==
    /\ task \in [Openers -> Tasks]
    /\ file \in Contents /\ stamp \in Nat
    /\ blobs \in [Digests -> {"none", "whole", "bad"}] /\ harmed \subseteq Digests
    /\ recordings \subseteq LegacyRows /\ snapshots \subseteq LegacyRows
    /\ \A o \in Openers : TaskOK(o)
    /\ RowsFit
    /\ SourcesAreKept

LEMMA FileIds ==
    /\ \A d \in Digests : FromFile(d) \in SourceIds
    /\ \A d, e \in Digests : FromFile(d) = FromFile(e) => d = e
BY DEF FromFile, SourceIds

LEMMA RowIds ==
    ASSUME NEW row \in LegacyRows, row.audio # NoHash
    PROVE  /\ row.key \in Keys /\ row.audio \in Contents
           /\ FromRow(row) = [origin |-> "voice_memo", key |-> row.key, digest |-> row.audio]
           /\ FromRow(row) \in SourceIds
           /\ \A d \in Digests : FromRow(row) # FromFile(d)
BY DEF LegacyRows, FromRow, SourceIds, FromFile

LEMMA StoreInvInit == StoreInit => StoreInv
<1>. SUFFICES ASSUME StoreInit PROVE StoreInv
  OBVIOUS
<1>1. task \in [Openers -> Tasks] /\ \A o \in Openers : task[o].step = "idle"
  BY DEF StoreInit, ImportInit, NoTask, Tasks
<1>2. NoSource \in Rows /\ NoSource.status = "none"
  BY DEF NoSource, Source, NoMoment, Rows, Statuses
<1>3. \A id \in SourceIds : sources[id] = NoSource
  BY DEF StoreInit, ImportInit
<1>4. RowsFit
  BY <1>2, <1>3, FileIds DEF StoreInit, ImportInit, RowsFit, SourceIds
<1>5. SourcesAreKept
  BY <1>2, <1>3, FileIds DEF StoreInit, ImportInit, SourcesAreKept, StoredIsKept
<1>. QED
  BY <1>1, <1>4, <1>5 DEF StoreInit, ImportInit, StoreInv, TaskOK

\* Steps that leave files and rows alone and take one process on to a task it
\* may have.
LEMMA OnlyTask ==
    ASSUME StoreInv, UNCHANGED <<fileVars, sources, recordings, snapshots>>,
           NEW o \in Openers, NEW new \in Tasks, Becomes(o, new), TaskOK(o)',
           \A d \in reported' \ reported : d \in Digests => sources[FromFile(d)].status = "stored" /\ d \in Contents /\ Kept(d)
    PROVE  StoreInv'
<1>1. task' \in [Openers -> Tasks] /\ \A p \in Openers : p # o => task'[p] = task[p]
  BY DEF Becomes, StoreInv
<1>2. \A p \in Openers : TaskOK(p)'
  BY <1>1 DEF StoreInv, TaskOK, Kept, fileVars
<1>3. SourcesAreKept'
  BY DEF StoreInv, SourcesAreKept, StoredIsKept, Kept, fileVars
<1>. QED
  BY <1>1, <1>2, <1>3 DEF StoreInv, RowsFit, fileVars

LEMMA NothingChanges ==
    ASSUME StoreInv, UNCHANGED <<importVars, legacyVars>>
    PROVE  StoreInv'
BY DEF StoreInv, TaskOK, Kept, RowsFit, SourcesAreKept, StoredIsKept, importVars, fileVars, legacyVars

LEMMA TaskOver ==
    ASSUME StoreInv, UNCHANGED <<fileVars, sources, reported, recordings, snapshots>>,
           NEW o \in Openers, Becomes(o, NoTask)
    PROVE  StoreInv'
<1>1. NoTask \in Tasks /\ task'[o].step = "idle"
  BY DEF NoTask, Tasks, Becomes, StoreInv
<1>. QED
  BY <1>1, OnlyTask DEF TaskOK

\* Rows may gain what no promise is about.
LEMMA SameStatuses ==
    ASSUME StoreInv, UNCHANGED <<file, stamp, blobs, harmed, reported, task, recordings, snapshots>>,
           sources' \in [SourceIds -> Rows],
           \A id \in SourceIds : sources'[id].status = sources[id].status,
           \A id \in SourceIds : sources[id].status = "none" => sources'[id] = sources[id]
    PROVE  StoreInv'
<1>1. \A d \in Digests : sources'[FromFile(d)].status = sources[FromFile(d)].status
  BY FileIds
<1>2. RowsFit'
  BY <1>1 DEF StoreInv, RowsFit, SourceIds
<1>3. ASSUME NEW o \in Openers PROVE TaskOK(o)'
  <2>1. task[o].step \in {"verify", "reread"} => task[o].d \in Digests
    BY DEF StoreInv, Tasks, Digests
  <2>. QED
    BY <1>1, <2>1 DEF StoreInv, TaskOK, Kept
<1>4. ASSUME NEW row \in snapshots, row.audio # NoHash
      PROVE  sources'[FromRow(row)].status = sources[FromRow(row)].status
  BY <1>4, RowIds DEF StoreInv
<1>. QED
  BY <1>1, <1>2, <1>3, <1>4 DEF StoreInv, SourcesAreKept, StoredIsKept

(* Steps around the store *)

LEMMA AroundKeepsInv ==
    ASSUME StoreInv, AroundImport, UNCHANGED legacyVars
    PROVE  StoreInv'
<1>1. ASSUME NEW text \in Contents, EditFile(text) PROVE StoreInv'
  <2>1. stamp' = stamp + 1 /\ file' = text /\ UNCHANGED <<blobs, harmed, sources, reported, task>>
    BY <1>1 DEF EditFile
  <2>2. ASSUME NEW o \in Openers PROVE TaskOK(o)'
    <3>1. task[o].step \in {"copy", "compare"} => task[o].stamp \in Nat
      BY DEF StoreInv, Tasks
    <3>. QED
      BY <2>1, <3>1 DEF StoreInv, TaskOK, Kept
  <2>. QED
    BY <2>1, <2>2 DEF StoreInv, RowsFit, SourcesAreKept, StoredIsKept, legacyVars
<1>2. ASSUME NEW d \in Digests, NEW state \in {"none", "bad"}, Harm(d, state) PROVE StoreInv'
  <2>1. /\ blobs' = [blobs EXCEPT ![d] = state] /\ harmed' = harmed \cup {d}
        /\ UNCHANGED <<file, stamp, sources, reported, task>>
    BY <1>2 DEF Harm
  <2>2. \A e \in Digests : Kept(e) => Kept(e)'
    BY <2>1 DEF Kept, StoreInv
  <2>3. ASSUME NEW o \in Openers PROVE TaskOK(o)'
    <3>1. task[o].step \in {"find", "insert", "verify", "reread"} => task[o].d \in Digests
      BY DEF StoreInv, Tasks, Digests
    <3>. QED
      BY <2>1, <2>2, <3>1 DEF StoreInv, TaskOK
  <2>4. SourcesAreKept'
    BY <2>1, <2>2 DEF StoreInv, SourcesAreKept, StoredIsKept, Kept, legacyVars
  <2>. QED
    BY <2>1, <2>3, <2>4 DEF StoreInv, RowsFit, legacyVars
<1>3. CASE UserWritesTarget
  BY <1>3 DEF UserWritesTarget, StoreInv, TaskOK, Kept, RowsFit, SourcesAreKept, StoredIsKept, legacyVars
<1>4. ASSUME NEW d \in Contents, TranscribeSource(d) PROVE StoreInv'
  <2>1. /\ sources' = [sources EXCEPT ![FromFile(d)] = [sources[FromFile(d)] EXCEPT !.transcribed = TRUE]]
        /\ sources[FromFile(d)].status = "stored" /\ UNCHANGED <<file, stamp, blobs, harmed, reported, task>>
    BY <1>4 DEF TranscribeSource, fileVars
  <2>2. FromFile(d) \in SourceIds
    BY FileIds DEF Digests
  <2>3. /\ sources' \in [SourceIds -> Rows]
        /\ \A id \in SourceIds : sources'[id].status = sources[id].status
        /\ \A id \in SourceIds : sources[id].status = "none" => sources'[id] = sources[id]
    BY <2>1, <2>2 DEF StoreInv, RowsFit, Rows
  <2>. QED
    BY <2>1, <2>3, SameStatuses DEF legacyVars
<1>. QED
  BY <1>1, <1>2, <1>3, <1>4 DEF AroundImport

(* Commands *)

LEMMA ImportKeepsInv ==
    ASSUME StoreInv, NEW o \in Openers, ImportStep(o), UNCHANGED legacyVars
    PROVE  StoreInv'
<1>0. /\ task[o] \in Tasks /\ TaskOK(o) /\ UNCHANGED <<recordings, snapshots>>
      /\ Contents \subseteq Digests
  BY DEF StoreInv, legacyVars, Digests
<1>1. CASE StartImport(o)
  <2>. DEFINE new == [step |-> "copy", stamp |-> stamp]
  <2>1. new \in Tasks /\ Becomes(o, new) /\ UNCHANGED <<fileVars, sources, reported>>
    BY <1>1 DEF StartImport, Tasks, StoreInv
  <2>2. TaskOK(o)'
    BY <2>1 DEF TaskOK, Becomes, StoreInv, fileVars
  <2>. QED
    BY <1>0, <2>1, <2>2, OnlyTask
<1>2. CASE CopyFile(o)
  <2>1. PICK d \in Digests : /\ stamp = task[o].stamp => d = file
                            /\ Becomes(o, [step |-> "compare", stamp |-> task[o].stamp, d |-> d])
    BY <1>2 DEF CopyFile
  <2>. DEFINE new == [step |-> "compare", stamp |-> task[o].stamp, d |-> d]
  <2>2. task[o].stamp \in Nat /\ task[o].stamp <= stamp
    BY <1>0, <1>2 DEF CopyFile, At, Tasks, TaskOK
  <2>3. new \in Tasks /\ Becomes(o, new) /\ UNCHANGED <<fileVars, sources, reported>>
    BY <1>2, <2>1, <2>2 DEF CopyFile, Tasks
  <2>4. TaskOK(o)'
    BY <2>1, <2>2, <2>3 DEF TaskOK, Becomes, StoreInv, fileVars
  <2>. QED
    BY <1>0, <2>3, <2>4, OnlyTask
<1>3. CASE AcceptCopy(o)
  <2>. DEFINE new == [step |-> "store", d |-> task[o].d]
  <2>1. task[o].d = file
    BY <1>0, <1>3 DEF AcceptCopy, At, Unchanged, TaskOK
  <2>2. new \in Tasks /\ Becomes(o, new) /\ UNCHANGED <<fileVars, sources, reported>>
    BY <1>3, <2>1 DEF AcceptCopy, Tasks, StoreInv
  <2>3. TaskOK(o)'
    BY <2>2 DEF TaskOK, Becomes, StoreInv
  <2>. QED
    BY <1>0, <2>2, <2>3, OnlyTask
<1>4. CASE RefuseCopy(o) \/ BlobIsBad(o)
  BY <1>0, <1>4, TaskOver DEF RefuseCopy, BlobIsBad, Finishes
<1>5. CASE StoreBlob(o)
  <2>1. /\ task[o].step = "store" /\ task[o].d \in Contents
        /\ blobs' = [blobs EXCEPT ![task[o].d] = "whole"]
        /\ task' = [task EXCEPT ![o] = [task[o] EXCEPT !.step = "find"]]
        /\ UNCHANGED <<file, stamp, harmed, sources, reported>>
    BY <1>0, <1>5 DEF StoreBlob, At, Becomes, Tasks
  <2>2. [task[o] EXCEPT !.step = "find"] \in Tasks /\ task[o].d \in Digests
    BY <1>0, <2>1 DEF Tasks
  <2>3. \A e \in Digests : Kept(e) => Kept(e)'
    BY <2>1 DEF Kept, StoreInv
  <2>4. ASSUME NEW p \in Openers PROVE TaskOK(p)'
    <3>1. CASE p = o
      <4>1. task'[o].step = "find" /\ task'[o].d = task[o].d
        BY <1>0, <2>1 DEF StoreInv, Tasks
      <4>2. Kept(task[o].d)'
        BY <2>1, <2>2 DEF Kept, StoreInv
      <4>. QED
        BY <3>1, <4>1, <4>2 DEF TaskOK, Kept
    <3>2. CASE p # o
      <4>1. task'[p] = task[p] /\ (task[p].step \in {"find", "insert", "verify", "reread"} => task[p].d \in Digests)
        BY <2>1, <3>2 DEF StoreInv, Tasks, Digests
      <4>. QED
        BY <2>1, <2>3, <4>1 DEF StoreInv, TaskOK, Kept
    <3>. QED
      BY <3>1, <3>2
  <2>5. SourcesAreKept'
    BY <1>0, <2>1, <2>3 DEF StoreInv, SourcesAreKept, StoredIsKept, Kept
  <2>6. blobs' \in [Digests -> {"none", "whole", "bad"}] /\ task' \in [Openers -> Tasks]
    BY <2>1, <2>2 DEF StoreInv
  <2>. QED
    BY <1>0, <2>1, <2>4, <2>5, <2>6 DEF StoreInv, RowsFit
<1>6. CASE FindSource(o)
  <2>. DEFINE next == IF sources[FromFile(task[o].d)] = NoSource THEN "insert" ELSE "verify"
  <2>. DEFINE new == [task[o] EXCEPT !.step = next]
  <2>1. /\ task[o].step = "find" /\ task[o].d \in Contents /\ Kept(task[o].d)
        /\ UNCHANGED <<fileVars, sources, reported>> /\ Becomes(o, new)
    BY <1>0, <1>6 DEF FindSource, At, Tasks, TaskOK
  <2>2. next \in {"insert", "verify"} /\ new \in Tasks /\ new.step = next /\ new.d = task[o].d
    BY <1>0, <2>1 DEF Tasks
  <2>3. next = "verify" => sources[FromFile(task[o].d)].status = "stored"
    BY <1>0, <2>1, FileIds DEF StoreInv, RowsFit
  <2>. HIDE DEF new, next
  <2>4. task'[o] = new
    BY <2>1 DEF Becomes, StoreInv
  <2>5. TaskOK(o)'
    BY <2>1, <2>2, <2>3, <2>4 DEF TaskOK, Kept, fileVars
  <2>. QED
    BY <1>0, <2>1, <2>2, <2>5, OnlyTask
<1>7. CASE VerifyKnown(o)
  <2>1. task[o].d \in Contents /\ Kept(task[o].d) /\ sources[FromFile(task[o].d)].status = "stored"
    BY <1>0, <1>7 DEF VerifyKnown, At, Tasks, TaskOK
  <2>2. NoTask \in Tasks /\ Becomes(o, NoTask) /\ UNCHANGED <<fileVars, sources>>
    BY <1>7 DEF VerifyKnown, Finishes, NoTask, Tasks
  <2>3. TaskOK(o)'
    BY <2>2 DEF TaskOK, Becomes, NoTask, StoreInv
  <2>4. reported' \ reported \subseteq {task[o].d}
    BY <1>7 DEF VerifyKnown
  <2>. QED
    BY <1>0, <2>1, <2>2, <2>3, <2>4, OnlyTask
<1>8. ASSUME NEW moment \in Moments, InsertSource(o, moment) PROVE StoreInv'
  <2>. DEFINE id == FromFile(task[o].d)
  <2>. DEFINE new == [step |-> "reread", d |-> task[o].d, at |-> moment]
  <2>1. /\ task[o].d \in Contents /\ Kept(task[o].d) /\ id \in SourceIds
        /\ UNCHANGED <<fileVars, reported>> /\ task' = [task EXCEPT ![o] = new]
        /\ sources' = IF sources[id] = NoSource THEN [sources EXCEPT ![id] = Stored(moment)] ELSE sources
    BY <1>0, <1>8, FileIds DEF InsertSource, At, Becomes, Tasks, TaskOK
  <2>2. Stored(moment) \in Rows /\ Stored(moment).status = "stored" /\ NoSource.status = "none"
    BY DEF Stored, Source, Rows, Statuses, NoSource
  <2>3. new \in Tasks /\ task'[o] = new
    BY <2>1 DEF Tasks, StoreInv
  <2>4. /\ sources' \in [SourceIds -> Rows] /\ sources'[id].status = "stored"
        /\ \A i \in SourceIds : i # id => sources'[i] = sources[i]
    BY <1>0, <2>1, <2>2 DEF StoreInv, RowsFit
  <2>5. \A d \in Digests : d # task[o].d => sources'[FromFile(d)] = sources[FromFile(d)]
    BY <1>0, <2>1, <2>4, FileIds
  <2>6. RowsFit'
    <3>1. \A k \in Keys, d \in Contents : [origin |-> "voice_memo", key |-> k, digest |-> d] \in SourceIds \ {id}
      BY DEF SourceIds, FromFile
    <3>. QED
      BY <2>4, <2>5, <3>1 DEF StoreInv, RowsFit
  <2>7. ASSUME NEW p \in Openers PROVE TaskOK(p)'
    <3>1. CASE p = o
      BY <2>1, <2>3, <2>4, <3>1 DEF TaskOK, Kept, fileVars
    <3>2. CASE p # o
      <4>1. task'[p] = task[p] /\ (task[p].step \in {"find", "insert", "verify", "reread"} => task[p].d \in Digests)
        BY <2>1, <3>2 DEF StoreInv, Tasks, Digests
      <4>. QED
        BY <2>1, <2>4, <2>5, <4>1 DEF StoreInv, TaskOK, Kept, fileVars
    <3>. QED
      BY <3>1, <3>2
  <2>8. SourcesAreKept'
    <3>1. StoredIsKept'
      BY <2>1, <2>4, <2>5 DEF StoreInv, SourcesAreKept, StoredIsKept, Kept, fileVars
    <3>2. ASSUME NEW row \in snapshots, row.audio # NoHash
          PROVE  sources'[FromRow(row)] = sources[FromRow(row)]
      BY <1>0, <2>1, <2>4, <3>2, RowIds DEF StoreInv
    <3>. QED
      BY <1>0, <3>1, <3>2 DEF StoreInv, SourcesAreKept
  <2>. QED
    BY <1>0, <2>1, <2>3, <2>6, <2>7, <2>8 DEF StoreInv, fileVars
<1>9. CASE RereadSource(o)
  <2>1. task[o].d \in Contents /\ Kept(task[o].d) /\ sources[FromFile(task[o].d)].status = "stored"
    BY <1>0, <1>9 DEF RereadSource, At, Tasks, TaskOK
  <2>2. NoTask \in Tasks /\ Becomes(o, NoTask) /\ UNCHANGED <<fileVars, sources>>
    BY <1>9 DEF RereadSource, Finishes, NoTask, Tasks
  <2>3. TaskOK(o)'
    BY <2>2 DEF TaskOK, Becomes, NoTask, StoreInv
  <2>4. reported' \ reported \subseteq {task[o].d}
    BY <1>9 DEF RereadSource
  <2>. QED
    BY <1>0, <2>1, <2>2, <2>3, <2>4, OnlyTask
<1>10. ASSUME NEW id \in SourceIds, StartExport(o, id) PROVE StoreInv'
  <2>. DEFINE new == [step |-> "read", d |-> id.digest]
  <2>1. UNCHANGED <<fileVars, sources, reported>> /\ (Becomes(o, new) \/ Becomes(o, NoTask))
    BY <1>10 DEF StartExport, Finishes
  <2>2. id.digest \in Digests
    BY DEF SourceIds, Digests
  <2>3. new \in Tasks /\ (Becomes(o, new) => TaskOK(o)')
    BY <2>2 DEF Tasks, Becomes, TaskOK, StoreInv
  <2>. QED
    BY <1>0, <2>1, <2>3, OnlyTask, TaskOver
<1>11. CASE ReadBlob(o)
  <2>. DEFINE new == [step |-> "link", d |-> task[o].d, bytes |-> "whole"]
  <2>1. UNCHANGED <<fileVars, sources, reported>> /\ (Becomes(o, new) \/ Becomes(o, NoTask))
    BY <1>11 DEF ReadBlob, Rehashed, Finishes
  <2>2. task[o].d \in Digests
    BY <1>0, <1>11 DEF ReadBlob, At, Tasks
  <2>3. new \in Tasks /\ (Becomes(o, new) => TaskOK(o)')
    BY <2>2 DEF Tasks, Becomes, TaskOK, StoreInv
  <2>. QED
    BY <1>0, <2>1, <2>3, OnlyTask, TaskOver
<1>12. CASE LinkTarget(o)
  <2>1. UNCHANGED <<file, stamp, blobs, harmed, sources, reported>> /\ task' = [task EXCEPT ![o] = NoTask]
    BY <1>12 DEF LinkTarget, Finishes, Becomes
  <2>2. NoTask \in Tasks /\ NoTask.step = "idle"
    BY DEF NoTask, Tasks
  <2>3. task' \in [Openers -> Tasks] /\ task'[o] = NoTask /\ \A p \in Openers : p # o => task'[p] = task[p]
    BY <2>1, <2>2 DEF StoreInv
  <2>4. \A p \in Openers : TaskOK(p)'
    BY <2>1, <2>2, <2>3 DEF StoreInv, TaskOK, Kept
  <2>. QED
    BY <1>0, <2>1, <2>3, <2>4 DEF StoreInv, RowsFit, SourcesAreKept, StoredIsKept
<1>. QED
  BY <1>1, <1>2, <1>3, <1>4, <1>5, <1>6, <1>7, <1>8, <1>9, <1>10, <1>11, <1>12 DEF ImportStep

LEMMA RewriteKeepsInv ==
    ASSUME StoreInv, NEW row \in LegacyRows, RewriteRow(row)
    PROVE  StoreInv'
BY DEF RewriteRow, StoreInv, TaskOK, Kept, RowsFit, SourcesAreKept, StoredIsKept, importVars, fileVars

LEMMA ReadLegacyKeepsInv ==
    ASSUME StoreInv, NEW o \in Openers, NEW moment \in Moments, ReadLegacy(o, moment)
    PROVE  StoreInv'
<1>. DEFINE new == [step |-> "batch", rows |-> recordings, at |-> moment]
<1>1. new \in Tasks /\ Becomes(o, new) /\ UNCHANGED <<fileVars, sources, reported, recordings, snapshots>>
  BY DEF ReadLegacy, Tasks, StoreInv, legacyVars
<1>2. TaskOK(o)'
  BY <1>1 DEF TaskOK, Becomes, StoreInv
<1>. QED
  BY <1>1, <1>2, OnlyTask

\* What a batch places are rows of their own, which nobody has written yet.
LEMMA BatchKeepsInv ==
    ASSUME StoreInv, NEW o \in Openers, ImportBatch(o)
    PROVE  /\ StoreInv'
           /\ \A id \in SourceIds : sources[id] # NoSource => sources'[id] = sources[id]
<1>. DEFINE rows == task[o].rows
<1>. DEFINE placed == New(rows)
<1>. DEFINE Row(id) == CHOOSE row \in placed : FromRow(row) = id
<1>. DEFINE Placed(id) == \E row \in placed : FromRow(row) = id
<1>1. /\ task[o].step = "batch" /\ rows \subseteq LegacyRows /\ task[o].at \in Moments
  BY DEF ImportBatch, At, StoreInv, Tasks
<1>2. /\ sources' = [id \in SourceIds |-> IF Placed(id) THEN Placeholder(Row(id), task[o].at) ELSE sources[id]]
      /\ snapshots' = snapshots \cup rows /\ task' = [task EXCEPT ![o] = NoTask]
      /\ UNCHANGED <<fileVars, reported, recordings>>
  BY DEF ImportBatch, Finishes, Becomes
<1>3. \A row \in placed : row \in LegacyRows /\ row.audio # NoHash /\ sources[FromRow(row)] = NoSource
  BY <1>1 DEF New
<1>4. \A row : /\ Placeholder(row, task[o].at) \in Rows
               /\ Placeholder(row, task[o].at).status \in {"queued", "failed_retryable"}
  BY <1>1 DEF Placeholder, Source, Rows, Statuses
<1>5. \A id \in SourceIds : Placed(id) => sources[id] = NoSource
  BY <1>3
<1>6. \A d \in Digests : ~Placed(FromFile(d))
  BY <1>3, RowIds
<1>7. NoSource.status = "none"
  BY DEF NoSource, Source
<1>. HIDE DEF placed, rows, Row, Placed
<1>8. /\ sources' \in [SourceIds -> Rows]
      /\ \A id \in SourceIds : IF Placed(id) THEN sources'[id].status \in {"queued", "failed_retryable"}
                                             ELSE sources'[id] = sources[id]
  BY <1>2, <1>4 DEF StoreInv, RowsFit
<1>9. \A d \in Digests : sources'[FromFile(d)] = sources[FromFile(d)]
  BY <1>6, <1>8, FileIds
<1>10. RowsFit'
  <2>1. \A id \in SourceIds : sources'[id].status = "none" => sources'[id] = NoSource
    BY <1>8 DEF StoreInv, RowsFit
  <2>2. \A k \in Keys, d \in Contents : [origin |-> "voice_memo", key |-> k, digest |-> d] \in SourceIds
    BY DEF SourceIds
  <2>3. \A k \in Keys, d \in Contents :
            sources'[[origin |-> "voice_memo", key |-> k, digest |-> d]].status \in {"none", "queued", "failed_retryable"}
    BY <1>8, <2>2 DEF StoreInv, RowsFit
  <2>. QED
    BY <1>8, <1>9, <2>1, <2>3 DEF StoreInv, RowsFit
<1>11. NoTask \in Tasks /\ NoTask.step = "idle"
  BY DEF NoTask, Tasks
<1>12. task' \in [Openers -> Tasks] /\ task'[o] = NoTask /\ \A p \in Openers : p # o => task'[p] = task[p]
  BY <1>2, <1>11 DEF StoreInv
<1>13. ASSUME NEW p \in Openers PROVE TaskOK(p)'
  <2>1. CASE p = o
    BY <1>11, <1>12, <2>1 DEF TaskOK
  <2>2. CASE p # o
    <3>1. task'[p] = task[p] /\ (task[p].step \in {"verify", "reread"} => task[p].d \in Digests)
      BY <1>12, <2>2 DEF StoreInv, Tasks, Digests
    <3>. QED
      BY <1>2, <1>9, <3>1 DEF StoreInv, TaskOK, Kept, fileVars
  <2>. QED
    BY <2>1, <2>2
<1>14. SourcesAreKept'
  <2>1. StoredIsKept'
    BY <1>2, <1>9 DEF StoreInv, SourcesAreKept, StoredIsKept, fileVars
  <2>2. ASSUME NEW row \in snapshots', row.audio # NoHash
        PROVE  sources'[FromRow(row)].status \in {"queued", "failed_retryable"}
    <3>1. row \in LegacyRows
      BY <1>1, <1>2 DEF StoreInv
    <3>2. FromRow(row) \in SourceIds
      BY <2>2, <3>1, RowIds
    <3>3. CASE Placed(FromRow(row))
      BY <1>8, <3>2, <3>3
    <3>4. CASE ~Placed(FromRow(row)) /\ row \in snapshots
      BY <1>8, <2>2, <3>2, <3>4 DEF StoreInv, SourcesAreKept
    <3>5. CASE ~Placed(FromRow(row)) /\ row \notin snapshots
      <4>1. row \in rows
        BY <1>2, <2>2, <3>5
      <4>2. sources[FromRow(row)] # NoSource
        BY <2>2, <3>5, <4>1 DEF Placed, placed, New
      <4>3. sources[FromRow(row)].status \in {"none", "queued", "failed_retryable"}
        BY <2>2, <3>1, RowIds DEF StoreInv, RowsFit
      <4>4. sources[FromRow(row)].status # "none"
        BY <3>2, <4>2 DEF StoreInv, RowsFit
      <4>. QED
        BY <1>8, <3>2, <3>5, <4>3, <4>4
    <3>. QED
      BY <3>3, <3>4, <3>5
  <2>. QED
    BY <2>1, <2>2 DEF SourcesAreKept
<1>15. \A id \in SourceIds : sources[id] # NoSource => sources'[id] = sources[id]
  BY <1>5, <1>8
<1>. QED
  BY <1>1, <1>2, <1>10, <1>12, <1>13, <1>14, <1>15 DEF StoreInv, fileVars

LEMMA StoreInvStep == StoreInv /\ [StoreNext]_storeVars => StoreInv'
<1>. SUFFICES ASSUME StoreInv, [StoreNext]_storeVars PROVE StoreInv'
  OBVIOUS
<1>1. CASE UNCHANGED storeVars
  BY <1>1, NothingChanges DEF storeVars
<1>2. CASE \E o \in Openers :
            \/ \E r \in Releases : OpenDb(o, r) /\ UNCHANGED <<importVars, legacyVars>>
            \/ MigrationStep(o) /\ UNCHANGED <<importVars, legacyVars>>
            \/ OpenFails(o) /\ UNCHANGED <<importVars, legacyVars>>
  BY <1>2, NothingChanges
<1>3. ASSUME NEW o \in Openers,
             \/ ImportStep(o) /\ UNCHANGED legacyVars
             \/ \E moment \in Moments : ReadLegacy(o, moment)
             \/ ImportBatch(o)
             \/ Dies(o) /\ UNCHANGED <<fileVars, sources, reported, legacyVars>>
      PROVE  StoreInv'
  BY <1>3, ImportKeepsInv, ReadLegacyKeepsInv, BatchKeepsInv, TaskOver DEF Dies, legacyVars
<1>4. CASE (AroundImport /\ UNCHANGED legacyVars) \/ \E row \in LegacyRows : RewriteRow(row)
  BY <1>4, AroundKeepsInv, RewriteKeepsInv
<1>. QED
  BY <1>1, <1>2, <1>3, <1>4 DEF StoreNext

\* However many processes import the same bytes or the same old rows at once,
\* and wherever they die: what is called stored is stored, and a placeholder
\* claims no bytes.
THEOREM StoreKeepsSources == StoreSpec => []SourcesAreKept
<1>1. StoreInv => SourcesAreKept
  BY DEF StoreInv
<1>. QED
  BY StoreInvInit, StoreInvStep, <1>1, PTL DEF StoreSpec

\* A row that is there may only gain its transcript.
LEMMA RowsStepOnce ==
    ASSUME StoreInv, [StoreNext]_storeVars,
           NEW id \in SourceIds, sources[id] # NoSource
    PROVE  sources'[id] \in {sources[id], [sources[id] EXCEPT !.transcribed = TRUE]}
<1>1. CASE UNCHANGED sources
  BY <1>1
<1>2. ASSUME NEW o \in Openers, ImportStep(o), sources' # sources
      PROVE  sources'[id] = sources[id]
  <2>1. PICK moment \in Moments : InsertSource(o, moment)
    BY <1>2 DEF ImportStep, StartImport, CopyFile, AcceptCopy, RefuseCopy, StoreBlob, BlobIsBad, FindSource,
       VerifyKnown, RereadSource, StartExport, ReadBlob, LinkTarget
  <2>. QED
    BY <2>1 DEF InsertSource, StoreInv, RowsFit
<1>3. ASSUME NEW o \in Openers, ImportBatch(o) PROVE sources'[id] = sources[id]
  BY <1>3, BatchKeepsInv
<1>4. ASSUME NEW d \in Contents, TranscribeSource(d)
      PROVE  sources'[id] \in {sources[id], [sources[id] EXCEPT !.transcribed = TRUE]}
  BY <1>4 DEF TranscribeSource, StoreInv, RowsFit
<1>5. CASE AroundImport
  BY <1>4, <1>5 DEF AroundImport, EditFile, Harm, UserWritesTarget
<1>. QED
  BY <1>1, <1>2, <1>3, <1>5
     DEF StoreNext, storeVars, importVars, ReadLegacy, RewriteRow

\* No importer and no legacy batch removes a source row or changes it, but for
\* its transcript, whichever releases and processes are at work.
THEOREM StoreWritesRowsOnce == StoreSpec => RowsAreWrittenOnce
<1>1. StoreInv /\ [StoreNext]_storeVars =>
        [\A id \in SourceIds :
            sources[id] # NoSource =>
                sources'[id] \in {sources[id], [sources[id] EXCEPT !.transcribed = TRUE]}]_sources
  BY RowsStepOnce
<1>. QED
  BY StoreInvInit, StoreInvStep, <1>1, PTL DEF StoreSpec, RowsAreWrittenOnce

\* An export writes only where nothing was, and only bytes it has hashed again.
THEOREM StoreExportsExactly == StoreSpec => ExportsAreExact
<1>1. StoreInv /\ [StoreNext]_storeVars =>
        [target' # target => target = Nothing /\ (target' = UsersOwn \/ target'.bytes = "whole")]_target
  <2>. SUFFICES ASSUME StoreInv, StoreNext, target' # target
                PROVE  target = Nothing /\ (target' = UsersOwn \/ target'.bytes = "whole")
    BY DEF storeVars, importVars, fileVars
  <2>1. CASE AroundImport
    BY <2>1 DEF AroundImport, EditFile, Harm, UserWritesTarget, TranscribeSource, fileVars
  <2>2. ASSUME NEW o \in Openers, ImportStep(o)
        PROVE  target = Nothing /\ target'.bytes = "whole"
    <3>1. LinkTarget(o)
      BY <2>2 DEF ImportStep, StartImport, CopyFile, AcceptCopy, RefuseCopy, StoreBlob, BlobIsBad, FindSource,
         VerifyKnown, InsertSource, RereadSource, StartExport, ReadBlob, fileVars
    <3>2. task[o].bytes = "whole"
      BY <3>1 DEF LinkTarget, At, StoreInv, Tasks
    <3>. QED
      BY <3>1, <3>2 DEF LinkTarget
  <2>. QED
    BY <2>1, <2>2 DEF StoreNext, importVars, fileVars, ReadLegacy, ImportBatch, RewriteRow
<1>. QED
  BY StoreInvInit, StoreInvStep, <1>1, PTL DEF StoreSpec, ExportsAreExact
-----------------------------------------------------------------------------
(* Types *)

\* The rest of the types of a migration.
WriterInv ==
    /\ draft \in Seq(Scripts)
    /\ writer \in Openers \cup {Nobody}
    /\ release \in [Openers -> Releases \cup {NoRelease}]
    /\ upsets \in 0..MaxUpsets

LEMMA WriterInvStep == MigrationInv /\ WriterInv /\ [MigrationNext]_migrationVars => WriterInv'
<1>. SUFFICES ASSUME MigrationInv, WriterInv, [MigrationNext]_migrationVars PROVE WriterInv'
  OBVIOUS
<1>. USE DEF WriterInv
<1>0. MaxUpsets \in Nat /\ << >> \in Seq(Scripts)
  BY MigrationAssumption
<1>1. ASSUME NEW o \in Openers, NEW r \in Releases, OpenDb(o, r) PROVE WriterInv'
  BY <1>1 DEF OpenDb, dbVars
<1>2. ASSUME NEW o \in Openers, SkipScript(o) \/ BeginScript(o) \/ OpenReturns(o) PROVE WriterInv'
  BY <1>2 DEF SkipScript, BeginScript, OpenReturns, dbVars, MigrationInv, MigrationTypeOK
<1>3. ASSUME NEW o \in Openers, RunStatements(o) PROVE WriterInv'
  <2>1. version[o] \in 1..Len(release[o]) /\ release[o] \in Seq(Scripts)
    BY <1>3 DEF RunStatements, MigrationInv, MigrationTypeOK, KeepsUp, InTransaction
  <2>2. release[o][version[o]] \in Scripts
    BY <2>1, ElementOfSeq
  <2>. QED
    BY <1>3, <2>2, AppendProperties DEF RunStatements
<1>4. ASSUME NEW o \in Openers, RecordScript(o) PROVE WriterInv'
  BY <1>0, <1>4 DEF RecordScript
<1>5. ASSUME NEW o \in Openers, Shut(o) PROVE /\ draft' \in Seq(Scripts)
                                             /\ writer' \in Openers \cup {Nobody}
                                             /\ release' \in [Openers -> Releases \cup {NoRelease}]
  BY <1>0, <1>5 DEF Shut
<1>6. ASSUME NEW o \in Openers, OpenFails(o) \/ CloseDb(o) \/ Breaks(o) PROVE WriterInv'
  <2>1. Shut(o)
    BY <1>6 DEF OpenFails, RefuseScript, OpenRaises, CloseDb, Breaks
  <2>2. upsets' \in 0..MaxUpsets
    BY <1>0, <1>6 DEF OpenFails, RefuseScript, OpenRaises, CloseDb, Breaks, Upset
  <2>. QED
    BY <1>5, <2>1, <2>2
<1>7. CASE Elsewhere \/ UNCHANGED migrationVars
  BY <1>0, <1>7 DEF Elsewhere, Upset, migrationVars, dbVars, openVars
<1>. QED
  BY <1>1, <1>2, <1>3, <1>4, <1>6, <1>7 DEF MigrationNext, MigrationStep

\* The stamp changes with an upset each time, and only bytes are reported.
CountsInv == stamp <= upsets /\ reported \subseteq Digests

LEMMA CountsInvStep ==
    ASSUME StoreInv, WriterInv, CountsInv, [StoreNext]_storeVars
    PROVE  CountsInv'
<1>0. stamp \in Nat /\ upsets \in Nat
  BY DEF StoreInv, WriterInv
<1>1. ASSUME UNCHANGED <<stamp, reported>>, upsets' \in {upsets, upsets + 1} PROVE CountsInv'
  BY <1>0, <1>1 DEF CountsInv
<1>2. CASE UNCHANGED storeVars
  BY <1>1, <1>2 DEF storeVars, migrationVars, importVars, fileVars
<1>3. ASSUME NEW o \in Openers,
             \/ \E r \in Releases : OpenDb(o, r)
             \/ MigrationStep(o)
             \/ OpenFails(o)
             \/ Breaks(o)
      PROVE  upsets' \in {upsets, upsets + 1}
  BY <1>3 DEF OpenDb, MigrationStep, SkipScript, BeginScript, RunStatements, RecordScript, OpenReturns,
              OpenFails, RefuseScript, OpenRaises, Breaks, Upset
<1>4. ASSUME NEW o \in Openers, ImportStep(o) PROVE CountsInv'
  <2>1. UNCHANGED <<stamp, upsets>>
    BY <1>4 DEF ImportStep, StartImport, CopyFile, AcceptCopy, RefuseCopy, StoreBlob, BlobIsBad, FindSource,
       VerifyKnown, InsertSource, RereadSource, StartExport, ReadBlob, LinkTarget, Finishes, CloseDb,
       migrationVars, fileVars
  <2>2. CASE UNCHANGED reported
    BY <2>1, <2>2 DEF CountsInv
  <2>3. CASE VerifyKnown(o) \/ RereadSource(o)
    <3>1. task[o].d \in Digests
      BY <2>3 DEF VerifyKnown, RereadSource, At, StoreInv, Tasks, Digests
    <3>. QED
      BY <2>1, <2>3, <3>1 DEF VerifyKnown, RereadSource, CountsInv
  <2>. QED
    BY <1>4, <2>2, <2>3 DEF ImportStep, StartImport, CopyFile, AcceptCopy, RefuseCopy, StoreBlob, BlobIsBad,
       FindSource, InsertSource, StartExport, ReadBlob, LinkTarget
<1>5. ASSUME NEW o \in Openers, ImportBatch(o) \/ \E moment \in Moments : ReadLegacy(o, moment) PROVE CountsInv'
  BY <1>1, <1>5 DEF ImportBatch, ReadLegacy, Finishes, CloseDb, migrationVars, fileVars
<1>6. CASE AroundImport
  BY <1>0, <1>6 DEF AroundImport, EditFile, Harm, UserWritesTarget, TranscribeSource, Upset,
                    migrationVars, fileVars, CountsInv
<1>7. ASSUME NEW row \in LegacyRows, RewriteRow(row) PROVE CountsInv'
  BY <1>1, <1>7 DEF RewriteRow, Upset, importVars, fileVars
<1>. QED
  BY <1>1, <1>2, <1>3, <1>4, <1>5, <1>6, <1>7 DEF StoreNext, Dies, importVars, fileVars

\* Every variable of the store keeps its type, for any number of processes and
\* releases; the file is stamped no oftener than something happens.
THEOREM StoreTypeCorrect == StoreSpec => []StoreTypeOK
<1>1. StoreInit => WriterInv /\ CountsInv
  <2>1. MaxUpsets \in Nat
    BY MigrationAssumption
  <2>. QED
    BY <2>1 DEF StoreInit, ImportInit, MigrationInit, WriterInv, CountsInv
<1>2. StoreInit => MigrationInv
  BY InvInit DEF StoreInit, ImportInit
<1>3. MigrationInv /\ StoreInv /\ WriterInv /\ CountsInv => StoreTypeOK
  BY MigrationAssumption DEF MigrationInv, MigrationTypeOK, StoreInv, WriterInv, CountsInv, RowsFit, Rows, StoreTypeOK
<1>4. StoreInv /\ WriterInv /\ CountsInv /\ [StoreNext]_storeVars => CountsInv'
  BY CountsInvStep
<1>. QED
  BY <1>1, <1>2, <1>3, <1>4, StoreInvInit, StoreInvStep, InvStep, WriterInvStep, StoreStepIsAllowed, PTL DEF StoreSpec
=============================================================================
