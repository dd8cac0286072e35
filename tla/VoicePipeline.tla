----------------------------- MODULE VoicePipeline -----------------------------
(***************************************************************************)
(* scripts/process_voice_memos.py: one scan of the Voice Memos folder, from *)
(* hashing a recording to pushing the Wiki it was compiled into, with       *)
(* write_raw of import_voice_memos.py and publish_head of ReleaseGate.      *)
(*                                                                         *)
(* ingest.lock lets one scan run at a time, so the scan is one process,    *)
(* run.stage is its program counter and the other fields of run its        *)
(* locals; they are lost when it dies.  Around it Voice Memos replaces      *)
(* recordings; a person edits and commits the Wiki, takes things out of it,*)
(* moves HEAD and pulls; other clones push.                                *)
(*                                                                         *)
(* compile_wiki is one step: AtomicWiki, which CompileTransaction           *)
(* implements, says that it is all or nothing even across a crash.  What a *)
(* compile writes about a source is the source itself, as an item of the   *)
(* Wiki; a Wiki is the set of its items.                                   *)
(***************************************************************************)
EXTENDS ReleaseGate

CONSTANTS
    Recordings,
    Versions,       \* contents a recording goes through: 1, 2, ...
    Modes,          \* XWIKI_PIPELINE_MODE of the scans; pushing is on, and nothing is skipped
    Edits,          \* things a person does to the Wiki, each once: what EditWiki writes, or Interferes
    Unsafe,         \* those that wiki_lint reports as errors once they are written
    NoRaw           \* a row without raw_path

Raws == [key : Recordings, sha : 1..Versions, text : 1..Versions]

ASSUME PipelineAssumption ==
    /\ Versions \in Nat \ {0}
    /\ Unsafe \subseteq Edits
    /\ Edits \cap Raws = {} /\ NoRaw \notin Raws
    /\ Modes \subseteq {"legacy", "review_first"}

VARIABLES
    audio,      \* version of each recording in the folder; 0: not there
    settled,    \* recordings nobody has touched for --min-age
    rows,       \* ingest.sqlite
    raws,       \* files under raw/voice
    work,       \* items in wiki/, index.md and log.md
    edited,     \* those of Edits made so far
    withdrawn,  \* observer: raws a person has taken out of the files or from under HEAD
    tree,       \* those of each commit
    candidates, \* private proposals
    barren,     \* observer: raws the model found nothing to write about
    run         \* the scan

diskVars == <<rows, raws, work, tree, candidates, barren>>
worldVars == <<audio, settled, edited, withdrawn>>
pipeVars == <<worldVars, diskVars, run, gateVars>>

Statuses == {"raw_ready", "failed", "publish_pending", "compiled",
             "proposal_pending", "reviewed_no_change"}
NoRow == [sha |-> 0, raw |-> NoRaw, status |-> "none"]
Settled == {"raw_ready", "compiled", "publish_pending", "proposal_pending", "reviewed_no_change"}
Stages == {"off", "scan", "hear", "write", "save", "compile", "mark", "publish", "commit", "head", "release"}
NoRun == [stage |-> "off", mode |-> "legacy", todo |-> {}, key |-> NoRaw, sha |-> 0, text |-> 0,
          raw |-> NoRaw, sources |-> {}, next |-> "none"]

Published == IF remote = NoCommit THEN {} ELSE tree[remote]
With(status) == {k \in Recordings : rows[k].status = status}
Busy == run.stage # "off"
Dirty == work # tree[head]

-----------------------------------------------------------------------------
PipeInit ==
    /\ GateInit
    /\ remote = 1
    /\ audio = [r \in Recordings |-> 0]
    /\ settled = {}
    /\ edited = {}
    /\ withdrawn = {}
    /\ rows = [k \in Recordings |-> NoRow]
    /\ raws = {}
    /\ work = {}
    /\ tree = [c \in Commits |-> {}]
    /\ candidates = {}
    /\ barren = {}
    /\ run = NoRun

(* The world around a scan *)

\* A recording arrives from iCloud, or is trimmed or downloaded again.
Record(r) ==
    /\ audio[r] < Versions
    /\ audio' = [audio EXCEPT ![r] = @ + 1]
    /\ settled' = settled \ {r}
    /\ UNCHANGED <<edited, withdrawn, diskVars, run, gateVars>>

Settle(r) ==
    /\ audio[r] > 0 /\ r \notin settled
    /\ settled' = settled \cup {r}
    /\ UNCHANGED <<audio, edited, withdrawn, diskVars, run, gateVars>>

EditWiki(e) ==
    /\ e \notin edited
    /\ edited' = edited \cup {e}
    /\ work' = work \cup {e}
    /\ UNCHANGED <<audio, settled, withdrawn, rows, raws, tree, candidates, barren, run, gateVars>>

\* A person takes out again what wiki_lint complains about.
RepairWiki ==
    /\ work \cap Unsafe # {}
    /\ work' = work \ Unsafe
    /\ UNCHANGED <<worldVars, rows, raws, tree, candidates, barren, run, gateVars>>

\* Commit the whole of wiki/, index.md and log.md.
CommitWork(c) ==
    /\ MakeCommit(c, past[head])
    /\ head' = c
    /\ tree' = [tree EXCEPT ![c] = work]

\* A person commits what passes the lint.
PersonCommitsWiki ==
    /\ Dirty /\ work \cap Unsafe = {}
    /\ \E c \in Commits : CommitWork(c)
    /\ UNCHANGED <<worldVars, rows, raws, work, candidates, barren, run>>
    /\ UNCHANGED <<remote, journal, gate, manifest, pushed, faults>>

\* Another clone pushes something that is not about voice memos.
OtherClonePushes ==
    /\ OtherPushes
    /\ tree' = [c \in Commits |-> IF c \in past'[remote'] \ Made THEN tree[remote] ELSE tree[c]]
    /\ UNCHANGED <<worldVars, rows, raws, work, candidates, barren, run>>

MergeBases(c, d) ==
    LET common == past[c] \cap past[d]
    IN {b \in common : \A e \in common : b \in past[e] => e = b}

\* Three-way merge: what one side alone holds is kept if no merge base holds
\* it, for then the other side has not taken it out.
Merged ==
    LET base == UNION {tree[b] : b \in MergeBases(head, remote)}
    IN (tree[head] \cap tree[remote]) \cup ((tree[head] \cup tree[remote]) \ base)

\* Bounded as an edit.
Interferes == \E e \in Edits \ edited : edited' = edited \cup {e}

PersonPullsWiki ==
    /\ ~Dirty
    /\ PersonPulls
    /\ IF Busy THEN Interferes ELSE UNCHANGED edited
    /\ tree' = IF head' = remote THEN tree ELSE [tree EXCEPT ![head'] = Merged]
    /\ work' = tree'[head']
    /\ UNCHANGED <<audio, settled, withdrawn, rows, raws, candidates, barren, run>>

\* The files become kept and HEAD becomes c; what they held and no longer hold
\* is withdrawn.  Bounded as an edit and as a fault.
TakeBack(kept, c) ==
    /\ Interferes
    /\ faults < MaxFaults
    /\ faults' = faults + 1
    /\ work' = kept
    /\ head' = c
    /\ withdrawn' = withdrawn \cup (Raws \cap ((work \ kept) \cup (tree[head] \ tree[c])))
    /\ UNCHANGED <<audio, settled, rows, raws, tree, candidates, barren, run>>
    /\ UNCHANGED <<past, remote, journal, gate, manifest, pushed>>

\* git restore, or a page removed by hand.
PersonDiscards ==
    \E kept \in {tree[head]} \cup {work \ {x} : x \in Raws} :
        kept # work /\ TakeBack(kept, head)

\* git checkout, which may carry uncommitted edits along; git reset, with the
\* files or without.
PersonSwitchesWiki ==
    \E c \in Made \ {head} :
        \E kept \in {work, tree[c], tree[c] \cup (work \ tree[head])} : TakeBack(kept, c)

(* One scan *)

Goes(from, to) == run.stage = from /\ run' = [run EXCEPT !.stage = to]

\* The same, and the locals of what is done are forgotten.
GoesOn(from, to) ==
    run.stage = from /\ run' = [NoRun EXCEPT !.stage = to, !.mode = run.mode, !.todo = run.todo]

\* exclusive_lock, recover_transactions, open_state, discover_recordings.
StartScan(mode) ==
    /\ ~Busy
    /\ run' = [NoRun EXCEPT !.stage = "scan", !.mode = mode,
                            !.todo = {r \in Recordings : audio[r] > 0}]
    /\ UNCHANGED <<worldVars, diskVars, gateVars>>

\* Fault: a recording is known by its status alone.
OnceIsEnough(k) == rows[k].status \in Settled

\* Same bytes as last time, and nothing went wrong with them.
AlreadyTaken(k) ==
    /\ rows[k].sha = audio[k]
    /\ rows[k].status \in Settled

\* stable_audio_hash says None, or the row says done.
SkipMemo(k) ==
    /\ run.stage = "scan" /\ k \in run.todo
    /\ k \notin settled \/ AlreadyTaken(k)
    /\ run' = [run EXCEPT !.todo = @ \ {k}]
    /\ UNCHANGED <<worldVars, diskVars, gateVars>>

\* Fault: the hash is computed and not kept.
ForgetsHash(k) ==
    /\ run.stage = "scan" /\ k \in run.todo
    /\ k \in settled /\ ~AlreadyTaken(k)
    /\ run' = [run EXCEPT !.stage = "hear", !.todo = @ \ {k}, !.key = k]
    /\ UNCHANGED <<worldVars, diskVars, gateVars>>

HashMemo(k) ==
    /\ run.stage = "scan" /\ k \in run.todo
    /\ k \in settled /\ ~AlreadyTaken(k)
    /\ run' = [run EXCEPT !.stage = "hear", !.todo = @ \ {k}, !.key = k, !.sha = audio[k]]
    /\ UNCHANGED <<worldVars, diskVars, gateVars>>

\* transcribe, and the transcript cache.
Transcribe ==
    /\ run.stage = "hear"
    /\ run' = [run EXCEPT !.stage = "write", !.text = audio[run.key]]
    /\ UNCHANGED <<worldVars, diskVars, gateVars>>

\* Fault: the file of the recording is written again.
WritesOver ==
    /\ run.stage = "write"
    /\ LET raw == [key |-> run.key, sha |-> audio[run.key], text |-> run.text]
       IN /\ raws' = {x \in raws : x.key # run.key} \cup {raw}
          /\ run' = [run EXCEPT !.stage = "save", !.raw = raw]
    /\ UNCHANGED <<worldVars, rows, work, tree, candidates, barren, gateVars>>

\* write_raw hashes the audio again.  The name of a revision is a hash of its
\* content: another content is another file, the same content the same file.
WriteRaw ==
    /\ run.stage = "write"
    /\ LET raw == [key |-> run.key, sha |-> audio[run.key], text |-> run.text]
       IN /\ raws' = raws \cup {raw}
          /\ run' = [run EXCEPT !.stage = "save", !.raw = raw]
    /\ UNCHANGED <<worldVars, rows, work, tree, candidates, barren, gateVars>>

SaveRawReady ==
    /\ GoesOn("save", "scan")
    /\ rows' = [rows EXCEPT ![run.key] = [sha |-> run.sha, raw |-> run.raw, status |-> "raw_ready"]]
    /\ UNCHANGED <<worldVars, raws, work, tree, candidates, barren, gateVars>>

\* Any exception on the way: the row keeps the raw_path it had.
MemoFails ==
    /\ faults < MaxFaults
    /\ \E stage \in {"hear", "write", "save"} : GoesOn(stage, "scan")
    /\ rows' = [rows EXCEPT ![run.key] = [sha |-> run.sha, raw |-> @.raw, status |-> "failed"]]
    /\ faults' = faults + 1
    /\ UNCHANGED <<worldVars, raws, work, tree, candidates, barren>>
    /\ UNCHANGED <<past, head, remote, journal, gate, manifest, pushed>>

PendingSources == {rows[k].raw : k \in With("raw_ready")} \cap raws
Compiles == run.stage = "scan" /\ run.todo = {} /\ PendingSources # {}
NothingToCompile ==
    /\ run.todo = {} /\ ~Compiles
    /\ Goes("scan", "publish")
    /\ UNCHANGED <<worldVars, diskVars, gateVars>>

\* Uncommitted edits: exit 75.
Pause ==
    /\ Compiles /\ Dirty
    /\ run' = NoRun
    /\ UNCHANGED <<worldVars, diskVars, gateVars>>

CheckClean ==
    /\ Compiles /\ ~Dirty
    /\ run' = [run EXCEPT !.stage = "compile", !.sources = PendingSources]
    /\ UNCHANGED <<worldVars, diskVars, gateVars>>

CompileLegacy ==
    /\ run.stage = "compile" /\ run.mode = "legacy"
    /\ \E told \in SUBSET run.sources :
        /\ work' = work \cup told
        /\ barren' = barren \cup (run.sources \ told)
    /\ run' = [run EXCEPT !.stage = "mark", !.next = "publish_pending"]
    /\ UNCHANGED <<worldVars, rows, raws, tree, candidates, gateVars>>

CompilePrivately ==
    /\ run.stage = "compile" /\ run.mode = "review_first"
    /\ \/ /\ candidates' = candidates \cup run.sources
          /\ run' = [run EXCEPT !.stage = "mark", !.next = "proposal_pending"]
       \/ /\ run' = [run EXCEPT !.stage = "mark", !.next = "reviewed_no_change"]
          /\ UNCHANGED candidates
    /\ UNCHANGED <<worldVars, rows, raws, work, tree, barren, gateVars>>

\* The model fails or times out, the Wiki was edited meanwhile, or the data
\* may not leave the machine: exit 75.
CompileFails ==
    /\ faults < MaxFaults
    /\ run.stage = "compile"
    /\ run' = NoRun
    /\ faults' = faults + 1
    /\ UNCHANGED <<worldVars, diskVars>>
    /\ UNCHANGED <<past, head, remote, journal, gate, manifest, pushed>>

Marked(keys, status) == [k \in Recordings |-> IF k \in keys THEN [rows[k] EXCEPT !.status = status] ELSE rows[k]]

MarkCompiled ==
    /\ GoesOn("mark", "publish")
    /\ rows' = Marked({k \in Recordings : rows[k].raw \in run.sources}, run.next)
    /\ UNCHANGED <<worldVars, raws, work, tree, candidates, barren, gateVars>>

\* Fault: the mode is not asked again once rows wait to be published.
PublishesInAnyMode == With("publish_pending") # {}

MustPublish == run.mode = "legacy" /\ With("publish_pending") # {}

EndScan ==
    /\ run.stage = "publish" /\ ~MustPublish
    /\ run' = NoRun
    /\ UNCHANGED <<worldVars, diskVars, gateVars>>

\* lint_wiki, over the files as they are.
Lint ==
    /\ MustPublish /\ work \cap Unsafe = {}
    /\ Goes("publish", "commit")
    /\ UNCHANGED <<worldVars, diskVars, gateVars>>

LintRefuses ==
    /\ run.stage = "publish" /\ MustPublish /\ work \cap Unsafe # {}
    /\ run' = NoRun
    /\ UNCHANGED <<worldVars, diskVars, gateVars>>

\* git add; git commit --only: all of the knowledge paths, as they are now.
CommitKnowledge ==
    /\ run.stage = "commit" /\ Dirty
    /\ \E c \in Commits : CommitWork(c)
    /\ run' = [run EXCEPT !.stage = "head"]
    /\ UNCHANGED <<worldVars, rows, raws, work, candidates, barren>>
    /\ UNCHANGED <<remote, journal, gate, manifest, pushed, faults>>

NothingToCommit ==
    /\ ~Dirty
    /\ Goes("commit", "head")
    /\ UNCHANGED <<worldVars, diskVars, gateVars>>

\* No remote, or git fails: exit 75.
CommitFails ==
    /\ faults < MaxFaults
    /\ run.stage = "commit"
    /\ run' = NoRun
    /\ faults' = faults + 1
    /\ UNCHANGED <<worldVars, diskVars>>
    /\ UNCHANGED <<past, head, remote, journal, gate, manifest, pushed>>

OpenGate ==
    /\ Goes("head", "release")
    /\ ReadHead
    /\ UNCHANGED <<worldVars, diskVars>>

PassGate ==
    /\ run.stage = "release"
    /\ GateStep
    /\ UNCHANGED <<worldVars, diskVars, run>>

GateTrips ==
    /\ run.stage = "release"
    /\ GateFault
    /\ UNCHANGED <<worldVars, diskVars, run>>

\* Fault: the failure is reported, and the rows are marked all the same.
MarksAnyway ==
    /\ run.stage = "release" /\ gate = "idle"
    /\ rows' = Marked(With("publish_pending"), "compiled")
    /\ run' = NoRun
    /\ UNCHANGED <<worldVars, raws, work, tree, candidates, barren, gateVars>>

\* publish_head has raised: publish_pending stays, exit 75.
PublishLater ==
    /\ run.stage = "release" /\ gate = "idle"
    /\ run' = NoRun
    /\ UNCHANGED <<worldVars, diskVars, gateVars>>

MarkPublished ==
    /\ run.stage = "release"
    /\ PublishReturns
    /\ rows' = Marked(With("publish_pending"), "compiled")
    /\ run' = NoRun
    /\ UNCHANGED <<worldVars, raws, work, tree, candidates, barren>>

\* The process dies.
Crash ==
    /\ faults < MaxFaults
    /\ Busy
    /\ run' = NoRun
    /\ gate' = "idle" /\ manifest' = NoCommit
    /\ faults' = faults + 1
    /\ UNCHANGED <<worldVars, diskVars, past, head, remote, journal, pushed>>

ScanStep ==
    \/ \E k \in Recordings : SkipMemo(k) \/ HashMemo(k)
    \/ Transcribe \/ WriteRaw \/ SaveRawReady
    \/ NothingToCompile \/ Pause \/ CheckClean \/ CompileLegacy \/ CompilePrivately \/ MarkCompiled
    \/ EndScan \/ Lint \/ LintRefuses \/ CommitKnowledge \/ NothingToCommit
    \/ OpenGate \/ PassGate \/ PublishLater \/ MarkPublished

Start == \E mode \in Modes : StartScan(mode)
Fault == MemoFails \/ CompileFails \/ CommitFails \/ GateTrips \/ Crash
Outside ==
    \/ \E r \in Recordings : Record(r) \/ Settle(r)
    \/ \E e \in Edits : EditWiki(e)
    \/ RepairWiki \/ PersonCommitsWiki \/ PersonPullsWiki \/ OtherClonePushes
    \/ PersonDiscards \/ PersonSwitchesWiki

PipeNext == Start \/ ScanStep \/ Fault \/ Outside

PipeSpec == PipeInit /\ [][PipeNext]_pipeVars

\* launchd starts a scan again and again, with auto-publish whatever is tried
\* by hand in between; a scan that has not died goes on; recordings are left
\* alone in the end.
ScanFairness ==
    /\ SF_pipeVars(StartScan("legacy"))
    /\ WF_pipeVars(ScanStep)
    /\ \A r \in Recordings : WF_pipeVars(Settle(r))

ScanSpec == PipeSpec /\ ScanFairness

\* A person reads the log: what the lint reports is repaired, uncommitted
\* knowledge files, which pause every scan, are committed, and a branch that
\* has diverged is pulled between two scans.
TendedSpec ==
    /\ ScanSpec
    /\ WF_pipeVars(RepairWiki)
    /\ WF_pipeVars(PersonCommitsWiki)
    /\ SF_pipeVars(PersonPullsWiki)

-----------------------------------------------------------------------------
Items == Raws \cup Edits

\* Types.
PipeTypeOK ==
    /\ GateTypeOK
    /\ audio \in [Recordings -> 0..Versions]
    /\ settled \subseteq Recordings
    /\ edited \subseteq Edits
    /\ withdrawn \subseteq Raws
    /\ rows \in [Recordings -> {NoRow} \cup [sha : 1..Versions, raw : Raws \cup {NoRaw}, status : Statuses]]
    /\ raws \cup candidates \cup barren \subseteq Raws
    /\ work \subseteq Items
    /\ tree \in [Commits -> SUBSET Items]
    /\ run.stage \in Stages
    /\ gate # "idle" => run.stage = "release"

\* What the database, the Wiki, its commits and the proposals refer to as
\* evidence is still there as it was: a re-transcription writes a revision,
\* and a scan that dies between the file and the row loses nothing.
EvidenceKept ==
    LET referred == {rows[k].raw : k \in Recordings} \cup work \cup candidates \cup UNION {tree[c] : c \in Commits}
    IN (referred \cap Raws) \subseteq raws

\* "compiled" in auto-publish mode: what the recording had to say is on the
\* remote branch, whoever committed, moved HEAD, pushed, failed or died in
\* between - unless a person has taken it out of the files, or from under HEAD:
\* the last update of a scan marks every waiting row, whatever HEAD holds.
CompiledIsPublished ==
    \A k \in With("compiled") : rows[k].raw \in Published \cup barren \cup withdrawn

\* A scan in review-first mode pushes nothing, also when legacy rows still wait
\* in publish_pending.
ReviewFirstNeverPushes ==
    [][pushed' # pushed => run.mode = "legacy"]_pipeVars

\* Whatever happens on the way - a recording replaced while it is transcribed,
\* failures, crashes, edits, HEAD moved, a scan in the other mode - the last
\* version of every recording is in the end transcribed, and published or
\* proposed, or a person has taken it out.
RecordingsArrive ==
    <>[](\A r \in Recordings : audio[r] > 0 =>
            /\ rows[r].sha = audio[r]
            /\ rows[r].raw \in raws /\ rows[r].raw.text = audio[r]
            /\ \/ rows[r].status = "compiled" /\ rows[r].raw \in Published \cup barren \cup withdrawn
               \/ rows[r].status = "proposal_pending" /\ rows[r].raw \in candidates
               \/ rows[r].status = "reviewed_no_change")

\* "After a failed push publish_pending is kept; the next scan tries again"
\* (scripts/docs/automation.md:43).
PendingIsPublished ==
    \A k \in Recordings : rows[k].status = "publish_pending" ~> rows[k].status = "compiled"
=============================================================================
