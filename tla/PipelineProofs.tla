---------------------------- MODULE PipelineProofs ----------------------------
(***************************************************************************)
(* Machine-checked: a recording that the database calls compiled is in the *)
(* published Wiki unless a person has taken it out, and no evidence is     *)
(* lost, for any number of recordings, versions, edits, commits and        *)
(* faults, with HEAD moving at any step.                                   *)
(***************************************************************************)
EXTENDS VoicePipeline, ReleaseGateProofs

\* What a commit says of recordings.
Knows(c) == tree[c] \cap Raws

\* What may be missing from where a row says it is: the model had nothing to
\* say, or a person has taken it out.
Excused == barren \cup withdrawn

\* The Wiki forgets a recording only if a person takes it out, and so no commit
\* knows more than the files, or less than a commit before it, but for those.
TreesGrow ==
    /\ \A c \in Made :
        /\ Knows(c) \subseteq work \cup withdrawn
        /\ \A d \in past[c] : Knows(d) \subseteq Knows(c) \cup withdrawn
    /\ \A c \in Commits \ Made : Knows(c) = {}

Locals == [stage : Stages, mode : {"legacy", "review_first"}, todo : SUBSET Recordings,
           key : Recordings \cup {NoRaw}, sha : 0..Versions, text : 0..Versions,
           raw : Raws \cup {NoRaw}, sources : SUBSET Raws, next : Statuses \cup {"none"}]

LEMMA NoRunIsTyped == NoRun \in Locals
BY PipelineAssumption DEF NoRun, Locals, Stages

\* What the scan holds in its locals.
ScanOK ==
    /\ run \in Locals
    /\ run.todo \subseteq {r \in Recordings : audio[r] > 0}
    /\ run.stage \in {"hear", "write", "save"} =>
        run.key \in Recordings /\ audio[run.key] > 0 /\ run.sha \in 1..Versions
    /\ run.stage \in {"write", "save"} => run.text \in 1..Versions
    /\ run.stage = "save" => run.raw \in raws
    /\ run.sources \subseteq raws
    /\ run.stage = "mark" => run.next \in {"publish_pending", "proposal_pending", "reviewed_no_change"}

EvidenceInv ==
    /\ \A k \in Recordings : rows[k].raw \in raws \cup {NoRaw}
    /\ candidates \subseteq raws
    /\ work \cap Raws \subseteq raws
    /\ withdrawn \subseteq raws

Pending == {rows[k].raw : k \in With("publish_pending")}

\* Recordings that wait to be published are in the files; once the commit is
\* made they are in HEAD, and then in the commit of the manifest, unless they
\* are excused.
PendingInv ==
    /\ run.stage = "mark" /\ run.next = "publish_pending" => run.sources \subseteq work \cup Excused
    /\ Pending \subseteq (work \cap Raws) \cup Excused
    /\ run.stage \in {"head", "release"} => Pending \subseteq Knows(head) \cup Excused
    /\ gate # "idle" => Pending \subseteq Knows(manifest) \cup Excused

Compiled == {rows[k].raw : k \in With("compiled")}

CompiledInv ==
    /\ remote \in Made
    /\ Compiled \subseteq Knows(remote) \cup Excused

PipeInv ==
    /\ PipeTypeOK
    /\ ScanOK
    /\ GateInv
    /\ TreesGrow
    /\ EvidenceInv
    /\ PendingInv
    /\ CompiledInv

-----------------------------------------------------------------------------
LEMMA PipeInvInit == PipeInit => PipeInv
<1>. SUFFICES ASSUME PipeInit PROVE PipeInv
  OBVIOUS
<1>1. GateInv /\ remote \in Made
  BY GateInvInit DEF PipeInit, GateInv, GateTypeOK, Made, Commits, GateInit
<1>2. PipeTypeOK
  BY <1>1, PipelineAssumption DEF PipeInit, PipeTypeOK, GateInv, NoRun, Stages, GateInit
<1>3. \A c \in Commits : Knows(c) = {}
  BY DEF PipeInit, Knows
<1>4. TreesGrow
  BY <1>1, <1>3 DEF GateInv, PastIsClosed, TreesGrow, Made
<1>5. Pending = {} /\ Compiled = {}
  BY DEF PipeInit, Pending, Compiled, With, NoRow
<1>6. ScanOK
  BY NoRunIsTyped DEF PipeInit, ScanOK, NoRun
<1>. QED
  BY <1>1, <1>2, <1>4, <1>5, <1>6
     DEF PipeInit, PipeInv, EvidenceInv, PendingInv, CompiledInv, NoRun, NoRow, GateInit

(* The gate under a scan *)

\* A fault elsewhere, the death of the publisher, or a person who takes
\* something back.
GateForgets ==
    /\ UNCHANGED <<past, remote, journal, pushed>>
    /\ head' \in Made
    /\ <<gate', manifest'>> \in {<<gate, manifest>>, <<"idle", NoCommit>>}
    /\ faults' \in 0..MaxFaults

LEMMA ForgettingKeepsGateInv ==
    ASSUME GateInv, GateForgets
    PROVE  GateInv'
BY DEF GateInv, GateForgets, GateTypeOK, PastIsClosed, VerifiedIsOnBranch, ConfirmedIsPublished, Made, Behind, Gates

LEMMA PipeStepOfGate ==
    ASSUME PipeInv, [PipeNext]_pipeVars
    PROVE  [GateNext]_gateVars \/ GateForgets
<1>0. /\ faults \in 0..MaxFaults /\ MaxFaults \in Nat /\ (faults < MaxFaults => faults + 1 \in 0..MaxFaults)
      /\ head \in Made
  BY GateAssumption DEF PipeInv, GateInv, GateTypeOK
<1>1. CASE UNCHANGED pipeVars
  BY <1>1 DEF pipeVars
<1>2. CASE Start
  BY <1>2 DEF Start, StartScan
<1>3. CASE Outside
  <2>1. CASE PersonCommitsWiki
    BY <2>1 DEF PersonCommitsWiki, CommitWork, GateNext, PersonCommits
  <2>2. CASE PersonPullsWiki \/ OtherClonePushes
    BY <2>2 DEF PersonPullsWiki, OtherClonePushes, GateNext
  <2>3. CASE PersonDiscards \/ PersonSwitchesWiki
    BY <2>3, <1>0 DEF PersonDiscards, PersonSwitchesWiki, TakeBack, GateForgets
  <2>. QED
    BY <1>3, <2>1, <2>2, <2>3 DEF Outside, Record, Settle, EditWiki, RepairWiki
<1>4. CASE Fault
  <2>1. CASE MemoFails \/ CompileFails \/ CommitFails \/ Crash
    BY <2>1, <1>0 DEF MemoFails, CompileFails, CommitFails, Crash, GateForgets
  <2>2. CASE GateTrips
    BY <2>2 DEF GateTrips, GateNext
  <2>. QED
    BY <1>4, <2>1, <2>2 DEF Fault
<1>5. CASE ScanStep
  <2>1. CASE CommitKnowledge
    BY <2>1 DEF CommitKnowledge, CommitWork, GateNext, PersonCommits
  <2>2. CASE OpenGate \/ PassGate \/ MarkPublished
    BY <2>2 DEF OpenGate, PassGate, MarkPublished, GateNext
  <2>. QED
    BY <1>5, <2>1, <2>2 DEF ScanStep, SkipMemo, HashMemo, Transcribe, WriteRaw, SaveRawReady, NothingToCompile,
       Pause, CheckClean, CompileLegacy, CompilePrivately, MarkCompiled, EndScan, Lint, LintRefuses,
       NothingToCommit, PublishLater
<1>. QED
  BY <1>1, <1>2, <1>3, <1>4, <1>5 DEF PipeNext

LEMMA PipeKeepsGateInv ==
    ASSUME PipeInv, [PipeNext]_pipeVars
    PROVE  GateInv' /\ Advances
<1>1. CASE GateForgets
  BY <1>1, ForgettingKeepsGateInv, SamePastAdvances DEF PipeInv, GateForgets
<1>. QED
  BY <1>1, PipeStepOfGate, GateStepKeepsInv DEF PipeInv

-----------------------------------------------------------------------------
(* The Wiki and its commits *)

\* What happens to the knowledge of recordings in any step.
KnowledgeGrows ==
    /\ TreesGrow'
    /\ withdrawn \subseteq withdrawn'
    /\ \A c \in Made : Knows(c)' = Knows(c)
    /\ \A c : c = head => Knows(c) \subseteq Knows(head)' \cup withdrawn'
    /\ work \cap Raws \subseteq work' \cup withdrawn'

\* The steps that make no commit and touch none.
LEMMA SameTreesGrow ==
    ASSUME PipeInv, work \cap Raws \subseteq work', UNCHANGED <<past, head, tree, withdrawn>>
    PROVE  KnowledgeGrows
BY DEF PipeInv, KnowledgeGrows, TreesGrow, Knows, Made

\* What is taken back is withdrawn.
LEMMA TakeBackGrows ==
    ASSUME PipeInv, NEW kept, NEW c \in Made, TakeBack(kept, c)
    PROVE  KnowledgeGrows
<1>1. UNCHANGED <<past, tree>> /\ work' = kept /\ head' = c
  BY DEF TakeBack
<1>2. withdrawn' = withdrawn \cup (Raws \cap ((work \ kept) \cup (tree[head] \ tree[c])))
  BY DEF TakeBack
<1>3. Made' = Made /\ \A d \in Commits : Knows(d)' = Knows(d)
  BY <1>1 DEF Made, Knows
<1>4. work \cap Raws \subseteq work' \cup withdrawn' /\ withdrawn \subseteq withdrawn'
  BY <1>1, <1>2
<1>5. Knows(head) \subseteq Knows(c) \cup withdrawn' /\ Knows(head)' = Knows(c)
  BY <1>1, <1>2 DEF Knows
<1>6. TreesGrow'
  <2>1. \A d \in Made : d \in Commits /\ past[d] \subseteq Made /\ Knows(d) \subseteq (work \cap Raws) \cup withdrawn
    BY DEF PipeInv, GateInv, PastIsClosed, TreesGrow, Knows, Made
  <2>2. \A d \in Made : /\ Knows(d)' \subseteq work' \cup withdrawn'
                        /\ \A e \in past'[d] : Knows(e)' \subseteq Knows(d)' \cup withdrawn'
    BY <1>1, <1>3, <1>4, <2>1 DEF PipeInv, TreesGrow
  <2>. QED
    BY <1>3, <2>2 DEF PipeInv, TreesGrow
<1>. QED
  BY <1>3, <1>4, <1>5, <1>6 DEF KnowledgeGrows, Made

\* A commit that knows what those before it and HEAD know, and no more than the
\* files: of the files as they are, or of a merge.
LEMMA NewCommitGrows ==
    ASSUME PipeInv, NEW c \in Commits, NEW S \in SUBSET Made, NEW items,
           MakeCommit(c, S), \A d \in S : past[d] \subseteq S,
           tree' = [tree EXCEPT ![c] = items], head' \in {head, c}, UNCHANGED withdrawn,
           head' = c => Knows(head) \subseteq items \cup withdrawn,
           work \cap Raws \subseteq work' \cup withdrawn,
           items \cap Raws \subseteq work' \cup withdrawn,
           \A d \in S : Knows(d) \subseteq items \cup withdrawn
    PROVE  KnowledgeGrows
<1>1. /\ Made' = Made \cup {c} /\ c \notin Made
      /\ \A d \in Made : past'[d] = past[d]
      /\ past'[c] = {c} \cup S
  BY MadeCommitIsClosed DEF PipeInv
<1>2. tree \in [Commits -> SUBSET Items] /\ Made \subseteq Commits /\ head \in Made
  BY DEF PipeInv, PipeTypeOK, GateInv, GateTypeOK, Made
<1>3. Knows(c)' = items \cap Raws /\ \A d \in Commits : d # c => Knows(d)' = Knows(d)
  BY <1>2 DEF Knows
<1>4. \A d \in Made : d \in Commits /\ d # c /\ past[d] \subseteq Made /\ Knows(d)' = Knows(d)
  BY <1>1, <1>2, <1>3 DEF PipeInv, GateInv, PastIsClosed
<1>5. TreesGrow'
  <2>1. \A d \in Made : /\ Knows(d)' \subseteq work' \cup withdrawn'
                        /\ \A e \in past'[d] : Knows(e)' \subseteq Knows(d)' \cup withdrawn'
    <3>1. \A d \in Made : Knows(d) \subseteq (work \cap Raws) \cup withdrawn
      BY DEF PipeInv, TreesGrow, Knows
    <3>. QED
      BY <1>1, <1>4, <3>1 DEF PipeInv, TreesGrow
  <2>2. /\ Knows(c)' \subseteq work' \cup withdrawn'
        /\ \A e \in past'[c] : Knows(e)' \subseteq Knows(c)' \cup withdrawn'
    <3>1. \A e \in S : Knows(e)' \subseteq (items \cap Raws) \cup withdrawn
      BY <1>4 DEF Knows
    <3>. QED
      BY <1>1, <1>3, <3>1
  <2>3. \A d \in Commits \ Made' : Knows(d)' = {}
    BY <1>1, <1>3 DEF PipeInv, TreesGrow
  <2>. QED
    BY <1>1, <2>1, <2>2, <2>3 DEF TreesGrow
<1>6. Knows(head) \subseteq Knows(head)' \cup withdrawn'
  <2>1. CASE head' = c
    <3>1. Knows(head)' = items \cap Raws
      BY <1>3, <2>1 DEF Knows
    <3>. QED
      BY <2>1, <3>1 DEF Knows
  <2>2. CASE head' = head
    <3>1. Knows(head)' = Knows(head)
      BY <1>2, <1>4, <2>2 DEF Knows
    <3>. QED
      BY <3>1
  <2>. QED
    BY <2>1, <2>2
<1>. QED
  BY <1>4, <1>5, <1>6 DEF KnowledgeGrows

LEMMA CommitGrows ==
    ASSUME PipeInv, NEW c \in Commits, CommitWork(c), UNCHANGED <<work, withdrawn>>
    PROVE  KnowledgeGrows
<1>1. head \in Made /\ past[head] \in SUBSET Made /\ \A d \in past[head] : past[d] \subseteq past[head]
  BY BranchIsClosed DEF PipeInv, GateInv, GateTypeOK
<1>2. \A d \in past[head] \cup {head} : Knows(d) \subseteq work \cup withdrawn
  BY <1>1 DEF PipeInv, TreesGrow
<1>. QED
  BY <1>1, <1>2, NewCommitGrows DEF CommitWork

LEMMA OtherCloneGrows ==
    ASSUME PipeInv, OtherClonePushes
    PROVE  KnowledgeGrows
<1>1. remote \in Made /\ past[remote] \in SUBSET Made /\ \A d \in past[remote] : past[d] \subseteq past[remote]
  BY BranchIsClosed DEF PipeInv, CompiledInv
<1>2. PICK c \in Commits : MakeCommit(c, past[remote]) /\ remote' = c
  BY DEF OtherClonePushes, OtherPushes
<1>3. c \notin Made /\ past'[c] = {c} \cup past[remote]
  BY <1>1, <1>2, MadeCommitIsClosed DEF PipeInv
<1>4. past'[remote'] \ Made = {c}
  BY <1>1, <1>2, <1>3
<1>5. tree \in [Commits -> SUBSET Items] /\ tree' = [d \in Commits |-> IF d = c THEN tree[remote] ELSE tree[d]]
  BY <1>4 DEF OtherClonePushes, PipeInv, PipeTypeOK
<1>6. tree' = [tree EXCEPT ![c] = tree[remote]]
  BY <1>5
<1>7. UNCHANGED <<work, head, withdrawn>> /\ head \in Made
  BY DEF OtherClonePushes, OtherPushes, worldVars, PipeInv, GateInv, GateTypeOK
<1>8. /\ tree[remote] \cap Raws \subseteq work \cup withdrawn
      /\ \A d \in past[remote] : Knows(d) \subseteq tree[remote] \cup withdrawn
  BY <1>1 DEF PipeInv, TreesGrow, Knows
<1>. QED
  BY <1>1, <1>2, <1>3, <1>6, <1>7, <1>8, NewCommitGrows

\* A merge loses only what a merge base has and a side has not, and whatever a
\* side has lost since then was withdrawn.
LEMMA MergeKeeps ==
    ASSUME PipeInv, head \in Made, remote \in Made
    PROVE  Knows(head) \cup Knows(remote) \subseteq Merged \cup withdrawn
<1>. SUFFICES ASSUME NEW x \in Knows(head) \cup Knows(remote), x \notin Merged
              PROVE  x \in withdrawn
  OBVIOUS
<1>1. PICK b \in MergeBases(head, remote) : x \in tree[b]
  BY DEF Merged, Knows
<1>2. b \in past[head] /\ b \in past[remote]
  BY DEF MergeBases
<1>3. x \in Knows(b) /\ (x \notin Knows(head) \/ x \notin Knows(remote))
  BY <1>1 DEF Knows, Merged
<1>. QED
  BY <1>2, <1>3 DEF PipeInv, TreesGrow

LEMMA PullGrows ==
    ASSUME PipeInv, PersonPullsWiki
    PROVE  KnowledgeGrows
<1>1. head \in Made /\ remote \in Made /\ work = tree[head] /\ UNCHANGED <<remote, withdrawn>>
  BY DEF PersonPullsWiki, PersonPulls, Dirty, worldVars, PipeInv, GateInv, GateTypeOK, CompiledInv
<1>2. tree \in [Commits -> SUBSET Items] /\ Made \subseteq Commits
  BY DEF PipeInv, PipeTypeOK, Made
<1>3. CASE head \in past[remote]
  <2>1. head' = remote /\ past' = past /\ tree' = tree /\ work' = tree[remote]
    BY <1>3 DEF PersonPullsWiki, PersonPulls
  <2>2. Made' = Made /\ \A d \in Commits : Knows(d)' = Knows(d)
    BY <2>1 DEF Made, Knows
  <2>3. Knows(head) \subseteq Knows(remote) \cup withdrawn /\ Knows(head)' = Knows(remote)
    BY <1>1, <1>3, <2>1 DEF PipeInv, TreesGrow, Knows
  <2>4. \A d \in Made : past[d] \subseteq Made /\ Knows(d) \subseteq Knows(remote) \cup withdrawn
    BY <1>1, <2>3 DEF PipeInv, GateInv, PastIsClosed, TreesGrow, Knows
  <2>5. TreesGrow'
    <3>1. \A d \in Made : Knows(d)' \subseteq work' \cup withdrawn'
      BY <1>1, <1>2, <2>1, <2>2, <2>4 DEF Knows
    <3>2. \A d \in Made : \A e \in past'[d] : Knows(e)' \subseteq Knows(d)' \cup withdrawn'
      BY <1>1, <1>2, <2>1, <2>2, <2>4 DEF PipeInv, TreesGrow
    <3>. QED
      BY <2>2, <3>1, <3>2 DEF PipeInv, TreesGrow
  <2>6. work \cap Raws \subseteq work' \cup withdrawn'
    BY <1>1, <2>1, <2>3 DEF Knows
  <2>. QED
    BY <1>1, <1>2, <2>2, <2>3, <2>5, <2>6 DEF KnowledgeGrows
<1>4. CASE head \notin past[remote]
  <2>1. PICK c \in Commits : MakeCommit(c, past[head] \cup past[remote]) /\ head' = c
    BY <1>4 DEF PersonPullsWiki, PersonPulls
  <2>2. /\ (past[head] \cup past[remote]) \in SUBSET Made
        /\ \A d \in past[head] \cup past[remote] : past[d] \subseteq past[head] \cup past[remote]
    BY <1>1, BranchIsClosed DEF PipeInv
  <2>3. c \notin Made
    BY <2>1, <2>2, MadeCommitIsClosed DEF PipeInv
  <2>4. tree' = [tree EXCEPT ![c] = Merged] /\ work' = Merged
    BY <1>1, <1>2, <2>1, <2>3 DEF PersonPullsWiki
  <2>5. Knows(head) \cup Knows(remote) \subseteq Merged \cup withdrawn /\ work \cap Raws = Knows(head)
    BY <1>1, MergeKeeps DEF Knows
  <2>6. \A d \in past[head] \cup past[remote] : Knows(d) \subseteq Merged \cup withdrawn
    BY <1>1, <2>5 DEF PipeInv, TreesGrow
  <2>. QED
    BY <1>1, <2>1, <2>2, <2>4, <2>5, <2>6, NewCommitGrows
<1>. QED
  BY <1>3, <1>4

LEMMA KnowledgeOnlyGrows ==
    ASSUME PipeInv, [PipeNext]_pipeVars
    PROVE  KnowledgeGrows
<1>1. CASE UNCHANGED pipeVars
  BY <1>1, SameTreesGrow DEF pipeVars, worldVars, diskVars, gateVars
<1>2. CASE Start
  BY <1>2, SameTreesGrow DEF Start, StartScan, worldVars, diskVars, gateVars
<1>3. CASE Outside
  <2>1. CASE PersonCommitsWiki
    BY <2>1, CommitGrows DEF PersonCommitsWiki, worldVars
  <2>2. CASE RepairWiki
    <3>1. Unsafe \cap Raws = {}
      BY PipelineAssumption
    <3>. QED
      BY <2>2, <3>1, SameTreesGrow DEF RepairWiki, worldVars, gateVars
  <2>3. CASE \/ \E r \in Recordings : Record(r) \/ Settle(r)
             \/ \E e \in Edits : EditWiki(e)
    BY <2>3, SameTreesGrow DEF Record, Settle, EditWiki, gateVars, diskVars
  <2>4. CASE PersonDiscards \/ PersonSwitchesWiki
    <3>1. head \in Made
      BY DEF PipeInv, GateInv, GateTypeOK
    <3>. QED
      BY <2>4, <3>1, TakeBackGrows DEF PersonDiscards, PersonSwitchesWiki
  <2>. QED
    BY <1>3, <2>1, <2>2, <2>3, <2>4, PullGrows, OtherCloneGrows DEF Outside
<1>4. CASE Fault
  BY <1>4, SameTreesGrow DEF Fault, MemoFails, CompileFails, CommitFails, GateTrips, GateFault, PushUnanswered,
     PublishFails, Crash, worldVars, diskVars, gitVars
<1>5. CASE ScanStep
  <2>1. CASE CommitKnowledge
    BY <2>1, CommitGrows DEF CommitKnowledge, worldVars
  <2>2. CASE OpenGate \/ PassGate \/ MarkPublished
    BY <2>2, SameTreesGrow DEF OpenGate, ReadHead, PassGate, GateStep, Prepare, AskRemote, Push, PushRefused,
       VerifyRemote, Confirm, HeadHasMoved, MarkPublished, PublishReturns, worldVars, diskVars, gitVars
  <2>3. CASE \/ \E k \in Recordings : SkipMemo(k) \/ HashMemo(k)
             \/ Transcribe \/ WriteRaw \/ SaveRawReady \/ NothingToCompile \/ Pause \/ CheckClean
             \/ CompileLegacy \/ CompilePrivately \/ MarkCompiled \/ EndScan \/ Lint \/ LintRefuses
             \/ NothingToCommit \/ PublishLater
    BY <2>3, SameTreesGrow DEF SkipMemo, HashMemo, Transcribe, WriteRaw, SaveRawReady, NothingToCompile, Pause,
       CheckClean, CompileLegacy, CompilePrivately, MarkCompiled, EndScan, Lint, LintRefuses,
       NothingToCommit, PublishLater, worldVars, diskVars, gateVars
  <2>. QED
    BY <1>5, <2>1, <2>2, <2>3 DEF ScanStep
<1>. QED
  BY <1>1, <1>2, <1>3, <1>4, <1>5 DEF PipeNext

-----------------------------------------------------------------------------
(* Types and evidence *)

Files == <<audio, settled, edited, withdrawn, rows, raws, work, tree, candidates, barren>>

TypesInv ==
    /\ PipeTypeOK
    /\ ScanOK
    /\ EvidenceInv

\* The scan ends, is not there, or goes on with nothing but its mode and the
\* rest of its list.
LEMMA FreshRunOK ==
    ASSUME PipeInv, UNCHANGED <<audio, raws>>, NEW stage \in {"off", "scan", "publish", "commit", "head"},
           \/ run' = NoRun
           \/ run' = [NoRun EXCEPT !.stage = stage, !.mode = run.mode, !.todo = run.todo]
    PROVE  ScanOK'
<1>1. run \in Locals /\ NoRun \in Locals /\ stage \in Stages
  BY NoRunIsTyped DEF PipeInv, ScanOK, Stages
<1>2. CASE run' = NoRun
  BY <1>1, <1>2 DEF ScanOK, NoRun
<1>3. CASE run' = [NoRun EXCEPT !.stage = stage, !.mode = run.mode, !.todo = run.todo]
  <2>1. run' \in Locals
    BY <1>1, <1>3 DEF Locals
  <2>2. run'.stage = stage /\ run'.mode = run.mode /\ run'.todo = run.todo /\ run'.sources = {}
    BY <1>1, <1>3 DEF Locals, NoRun
  <2>. QED
    BY <2>1, <2>2 DEF PipeInv, ScanOK
<1>. QED
  BY <1>2, <1>3

\* Steps that touch no file and end the scan, or take it to a stage without
\* claims of its own.
LEMMA StageOnlyTypes ==
    ASSUME PipeInv, UNCHANGED Files, GateInv',
           gate' # "idle" => run'.stage = "release",
           \/ run' = NoRun
           \/ run' = run
           \/ \E stage \in {"scan", "compile", "publish", "commit", "head", "release"} :
                run' = [run EXCEPT !.stage = stage]
    PROVE  TypesInv'
<1>1. ScanOK'
  <2>1. CASE run' = NoRun
    BY <2>1, FreshRunOK DEF Files
  <2>2. CASE run' = run
    BY <2>2 DEF PipeInv, ScanOK, Files
  <2>3. ASSUME NEW stage \in {"scan", "compile", "publish", "commit", "head", "release"},
               run' = [run EXCEPT !.stage = stage]
        PROVE  ScanOK'
    BY <2>3 DEF PipeInv, ScanOK, Locals, Stages, Files
  <2>. QED
    BY <2>1, <2>2, <2>3
<1>2. run'.stage \in Stages
  BY <1>1 DEF ScanOK, Locals
<1>3. PipeTypeOK'
  BY <1>2 DEF PipeInv, PipeTypeOK, GateInv, Files, Items
<1>. QED
  BY <1>1, <1>3 DEF PipeInv, TypesInv, EvidenceInv, Files

\* Marking changes the status of rows that are there, and nothing else.
LEMMA MarkedIsTyped ==
    ASSUME PipeInv, NEW keys, NEW status \in Statuses,
           \A k \in keys : rows[k] # NoRow
    PROVE  /\ Marked(keys, status) \in
                [Recordings -> {NoRow} \cup [sha : 1..Versions, raw : Raws \cup {NoRaw}, status : Statuses]]
           /\ \A k \in Recordings :
                /\ Marked(keys, status)[k].raw = rows[k].raw
                /\ Marked(keys, status)[k].status = IF k \in keys THEN status ELSE rows[k].status
BY DEF Marked, PipeInv, PipeTypeOK

\* Steps that put a scan on another leg and change files.
LEMMA ScanTypes ==
    ASSUME PipeInv, ScanStep, GateInv'
    PROVE  TypesInv'
<1>0. /\ run \in Locals /\ raws \in SUBSET Raws /\ audio \in [Recordings -> 0..Versions]
      /\ Versions \in Nat /\ NoRaw \notin Raws
  BY PipelineAssumption DEF PipeInv, ScanOK, PipeTypeOK
<1>1. ASSUME NEW k \in Recordings, SkipMemo(k) PROVE TypesInv'
  <2>1. run' = [run EXCEPT !.todo = run.todo \ {k}]
    BY <1>1 DEF SkipMemo
  <2>2. ScanOK'
    BY <1>0, <1>1, <2>1 DEF SkipMemo, PipeInv, ScanOK, Locals, diskVars, worldVars
  <2>. QED
    BY <1>1, <2>2 DEF SkipMemo, PipeInv, TypesInv, PipeTypeOK, EvidenceInv, GateInv, ScanOK, Locals, Items, diskVars, worldVars, gateVars
<1>2. ASSUME NEW k \in Recordings, HashMemo(k) PROVE TypesInv'
  <2>1. run' = [run EXCEPT !.stage = "hear", !.todo = run.todo \ {k}, !.key = k, !.sha = audio[k]] /\ audio[k] > 0
    BY <1>2 DEF HashMemo, PipeInv, ScanOK
  <2>2. audio[k] \in 1..Versions
    BY <1>0, <2>1
  <2>3. run' \in Locals
    BY <1>0, <2>1, <2>2 DEF Locals, Stages
  <2>4. ScanOK'
    BY <1>0, <1>2, <2>1, <2>2, <2>3 DEF HashMemo, PipeInv, ScanOK, Locals, diskVars, worldVars
  <2>. QED
    BY <1>2, <2>4 DEF HashMemo, PipeInv, TypesInv, PipeTypeOK, EvidenceInv, GateInv, ScanOK, Locals, Items, diskVars, worldVars, gateVars
<1>3. CASE Transcribe
  <2>1. run.key \in Recordings /\ audio[run.key] \in 1..Versions
    BY <1>0, <1>3 DEF Transcribe, PipeInv, ScanOK
  <2>2. run' = [run EXCEPT !.stage = "write", !.text = audio[run.key]]
    BY <1>3 DEF Transcribe
  <2>3. run' \in Locals
    BY <1>0, <2>1, <2>2 DEF Locals, Stages
  <2>4. ScanOK'
    BY <1>0, <1>3, <2>1, <2>2, <2>3 DEF Transcribe, PipeInv, ScanOK, Locals, diskVars, worldVars
  <2>. QED
    BY <1>3, <2>4 DEF Transcribe, PipeInv, TypesInv, PipeTypeOK, EvidenceInv, GateInv, ScanOK, Locals, Items, diskVars, worldVars, gateVars
<1>4. CASE WriteRaw
  <2>. DEFINE raw == [key |-> run.key, sha |-> audio[run.key], text |-> run.text]
  <2>1. run.key \in Recordings /\ audio[run.key] \in 1..Versions /\ run.text \in 1..Versions
    BY <1>0, <1>4 DEF WriteRaw, PipeInv, ScanOK
  <2>2. raw \in Raws
    BY <2>1 DEF Raws
  <2>3. run' = [run EXCEPT !.stage = "save", !.raw = raw] /\ raws' = raws \cup {raw}
    BY <1>4 DEF WriteRaw
  <2>. HIDE DEF raw
  <2>4. run' \in Locals
    BY <1>0, <2>2, <2>3 DEF Locals, Stages
  <2>5. ScanOK'
    BY <1>0, <1>4, <2>2, <2>3, <2>4 DEF WriteRaw, PipeInv, ScanOK, Locals, worldVars
  <2>. QED
    BY <1>0, <1>4, <2>2, <2>3, <2>5 DEF WriteRaw, PipeInv, TypesInv, PipeTypeOK, EvidenceInv, GateInv, ScanOK, Locals, Items, worldVars, gateVars
<1>5. CASE SaveRawReady
  <2>. DEFINE row == [sha |-> run.sha, raw |-> run.raw, status |-> "raw_ready"]
  <2>1. run.key \in Recordings /\ run.sha \in 1..Versions /\ run.raw \in raws
    BY <1>5 DEF SaveRawReady, GoesOn, PipeInv, ScanOK
  <2>2. row \in [sha : 1..Versions, raw : Raws \cup {NoRaw}, status : Statuses] /\ row.raw \in raws
    BY <1>0, <2>1 DEF Statuses
  <2>3. rows' = [rows EXCEPT ![run.key] = row]
    BY <1>5 DEF SaveRawReady
  <2>. HIDE DEF row
  <2>4. ScanOK'
    BY <1>5, FreshRunOK DEF SaveRawReady, GoesOn, worldVars
  <2>5. rows' \in [Recordings -> {NoRow} \cup [sha : 1..Versions, raw : Raws \cup {NoRaw}, status : Statuses]]
    BY <2>1, <2>2, <2>3 DEF PipeInv, PipeTypeOK
  <2>6. \A k \in Recordings : rows'[k].raw \in raws \cup {NoRaw}
    BY <2>1, <2>2, <2>3 DEF PipeInv, PipeTypeOK, EvidenceInv
  <2>7. run'.stage \in Stages /\ gate' = "idle"
    BY <1>5, <2>4 DEF SaveRawReady, GoesOn, gateVars, PipeInv, PipeTypeOK, ScanOK, Locals
  <2>. QED
    BY <1>5, <2>4, <2>5, <2>6, <2>7 DEF SaveRawReady, PipeInv, TypesInv, PipeTypeOK, EvidenceInv, GateInv, Items, worldVars
<1>6. CASE \/ NothingToCompile \/ Pause \/ EndScan \/ Lint \/ LintRefuses \/ NothingToCommit \/ OpenGate
           \/ PublishLater
  <2>1. UNCHANGED Files
    BY <1>6 DEF NothingToCompile, Pause, EndScan, Lint, LintRefuses, NothingToCommit, OpenGate, PublishLater,
                Files, worldVars, diskVars
  <2>2. gate' # "idle" => run'.stage = "release"
    BY <1>0, <1>6 DEF NothingToCompile, Pause, EndScan, Lint, LintRefuses, NothingToCommit, OpenGate, PublishLater,
       Compiles, MustPublish, Goes, ReadHead, gateVars, PipeInv, PipeTypeOK, Locals
  <2>3. \/ run' = NoRun
        \/ \E stage \in {"scan", "compile", "publish", "commit", "head", "release"} :
             run' = [run EXCEPT !.stage = stage]
    BY <1>6 DEF NothingToCompile, Pause, EndScan, Lint, LintRefuses, NothingToCommit, OpenGate, PublishLater, Goes
  <2>. QED
    BY <2>1, <2>2, <2>3, StageOnlyTypes
<1>7. CASE PassGate
  BY <1>7, StageOnlyTypes DEF PassGate, Files, worldVars, diskVars
<1>8. CASE CheckClean
  <2>1. run' = [run EXCEPT !.stage = "compile", !.sources = PendingSources] /\ PendingSources \subseteq raws
    BY <1>8 DEF CheckClean, PendingSources
  <2>2. run' \in Locals
    BY <1>0, <2>1 DEF Locals, Stages
  <2>3. ScanOK'
    BY <1>0, <1>8, <2>1, <2>2 DEF CheckClean, PipeInv, ScanOK, Locals, worldVars, diskVars
  <2>. QED
    BY <1>8, <2>3 DEF CheckClean, Compiles, PipeInv, TypesInv, PipeTypeOK, EvidenceInv, GateInv, ScanOK, Locals, Items,
       worldVars, diskVars, gateVars
<1>9. CASE CompileLegacy \/ CompilePrivately
  <2>1. PICK next \in {"publish_pending", "proposal_pending", "reviewed_no_change"} :
            run' = [run EXCEPT !.stage = "mark", !.next = next]
    BY <1>9 DEF CompileLegacy, CompilePrivately
  <2>2. run' \in Locals
    BY <1>0, <2>1 DEF Locals, Stages, Statuses
  <2>3. ScanOK'
    BY <1>0, <1>9, <2>1, <2>2 DEF CompileLegacy, CompilePrivately, PipeInv, ScanOK, Locals, worldVars
  <2>4. run.sources \subseteq raws /\ run.stage = "compile"
    BY <1>9 DEF CompileLegacy, CompilePrivately, PipeInv, ScanOK
  <2>5. run'.stage \in Stages /\ gate = "idle"
    BY <1>0, <2>2, <2>4 DEF Locals, PipeInv, PipeTypeOK
  <2>6. work' \subseteq work \cup raws /\ candidates' \subseteq candidates \cup raws /\ barren' \subseteq barren \cup raws
    BY <1>9, <2>4 DEF CompileLegacy, CompilePrivately
  <2>. QED
    BY <1>0, <1>9, <2>3, <2>5, <2>6 DEF CompileLegacy, CompilePrivately, PipeInv, TypesInv, PipeTypeOK, EvidenceInv, GateInv, Items,
       worldVars, gateVars
<1>10. CASE MarkCompiled
  <2>. DEFINE keys == {k \in Recordings : rows[k].raw \in run.sources}
  <2>1. /\ run.next \in Statuses /\ rows' = Marked(keys, run.next)
        /\ \A k \in keys : rows[k] # NoRow
    <3>1. run.next \in {"publish_pending", "proposal_pending", "reviewed_no_change"} /\ run.sources \subseteq Raws
      BY <1>0, <1>10 DEF MarkCompiled, GoesOn, PipeInv, ScanOK
    <3>. QED
      BY <1>0, <1>10, <3>1 DEF MarkCompiled, NoRow, Statuses
  <2>. HIDE DEF keys
  <2>2. ScanOK'
    BY <1>10, FreshRunOK DEF MarkCompiled, GoesOn, worldVars
  <2>3. run'.stage \in Stages /\ gate' = "idle"
    BY <1>10, <2>2 DEF MarkCompiled, GoesOn, gateVars, PipeInv, PipeTypeOK, ScanOK, Locals
  <2>4. /\ rows' \in [Recordings -> {NoRow} \cup [sha : 1..Versions, raw : Raws \cup {NoRaw}, status : Statuses]]
        /\ \A k \in Recordings : rows'[k].raw = rows[k].raw
    BY <2>1, MarkedIsTyped
  <2>. QED
    BY <1>10, <2>2, <2>3, <2>4 DEF MarkCompiled, PipeInv, TypesInv, PipeTypeOK, EvidenceInv, GateInv, Items, worldVars
<1>11. CASE MarkPublished
  <2>1. /\ "compiled" \in Statuses /\ rows' = Marked(With("publish_pending"), "compiled")
        /\ \A k \in With("publish_pending") : rows[k] # NoRow
    BY <1>11 DEF MarkPublished, Statuses, With, NoRow
  <2>2. ScanOK' /\ gate' = "idle"
    BY <1>11, FreshRunOK DEF MarkPublished, PublishReturns, Ends, worldVars
  <2>. QED
    BY <1>11, <2>1, <2>2, MarkedIsTyped DEF MarkPublished, PublishReturns, PipeInv, TypesInv, PipeTypeOK, EvidenceInv, GateInv, ScanOK,
       Locals, Items, worldVars
<1>12. CASE CommitKnowledge
  <2>1. PICK c \in Commits : CommitWork(c)
    BY <1>12 DEF CommitKnowledge
  <2>2. tree' \in [Commits -> SUBSET Items]
    BY <2>1 DEF CommitWork, PipeInv, PipeTypeOK
  <2>3. run' = [run EXCEPT !.stage = "head"] /\ UNCHANGED <<audio, raws>>
    BY <1>12 DEF CommitKnowledge, worldVars
  <2>4. ScanOK'
    BY <2>3 DEF PipeInv, ScanOK, Locals, Stages
  <2>. QED
    BY <1>12, <2>2, <2>3, <2>4 DEF CommitKnowledge, PipeInv, TypesInv, PipeTypeOK, EvidenceInv, GateInv, ScanOK, Locals, Items, worldVars
<1>. QED
  BY <1>1, <1>2, <1>3, <1>4, <1>5, <1>6, <1>7, <1>8, <1>9, <1>10, <1>11, <1>12 DEF ScanStep

LEMMA PipeTypes ==
    ASSUME PipeInv, [PipeNext]_pipeVars, GateInv'
    PROVE  TypesInv'
<1>1. CASE UNCHANGED pipeVars
  BY <1>1, StageOnlyTypes DEF pipeVars, worldVars, diskVars, gateVars, Files, PipeInv, PipeTypeOK
<1>2. ASSUME NEW mode \in Modes, StartScan(mode) PROVE TypesInv'
  <2>1. /\ mode \in {"legacy", "review_first"} /\ UNCHANGED Files /\ UNCHANGED gate
        /\ run.stage = "off"
        /\ run' = [NoRun EXCEPT !.stage = "scan", !.mode = mode, !.todo = {r \in Recordings : audio[r] > 0}]
    BY <1>2, PipelineAssumption DEF StartScan, Busy, Files, worldVars, diskVars, gateVars
  <2>2. run' \in Locals
    BY <2>1, NoRunIsTyped DEF Locals, Stages
  <2>3. run'.stage = "scan" /\ run'.todo = {r \in Recordings : audio[r] > 0} /\ run'.sources = {} /\ run'.mode = mode
    BY <2>1 DEF NoRun
  <2>4. ScanOK'
    BY <2>1, <2>2, <2>3 DEF ScanOK, Files
  <2>5. gate' = "idle" /\ run'.stage \in Stages
    BY <2>1, <2>3 DEF PipeInv, PipeTypeOK, Stages
  <2>. QED
    BY <2>1, <2>4, <2>5 DEF PipeInv, TypesInv, PipeTypeOK, EvidenceInv, GateInv, Files, Items
<1>3. CASE Outside
  <2>0. /\ head \in Made /\ remote \in Made /\ Made \subseteq Commits
        /\ tree \in [Commits -> SUBSET Items]
    BY DEF PipeInv, GateInv, GateTypeOK, CompiledInv, PipeTypeOK, Made
  <2>1. run' = run /\ UNCHANGED <<rows, raws, candidates, barren>> /\ (gate' = gate)
    BY <1>3 DEF Outside, Record, Settle, EditWiki, RepairWiki, PersonCommitsWiki, PersonPullsWiki, PersonPulls,
       OtherClonePushes, OtherPushes, PersonDiscards, PersonSwitchesWiki, TakeBack, diskVars, gateVars
  <2>2. /\ audio' \in [Recordings -> 0..Versions]
        /\ \A r \in Recordings : audio[r] > 0 => audio'[r] > 0
        /\ settled' \subseteq Recordings
        /\ edited' \subseteq Edits
    <3>1. CASE \E r \in Recordings : Record(r)
      <4>1. PICK r \in Recordings : Record(r)
        BY <3>1
      <4>2. audio[r] + 1 \in 0..Versions /\ audio' = [audio EXCEPT ![r] = audio[r] + 1] /\ audio[r] + 1 > 0
        BY <4>1, PipelineAssumption DEF Record, PipeInv, PipeTypeOK
      <4>. QED
        BY <4>1, <4>2 DEF Record, PipeInv, PipeTypeOK
    <3>2. CASE \E r \in Recordings : Settle(r)
      BY <3>2 DEF Settle, PipeInv, PipeTypeOK
    <3>4. CASE PersonDiscards \/ PersonSwitchesWiki
      BY <3>4 DEF PersonDiscards, PersonSwitchesWiki, TakeBack, Interferes, PipeInv, PipeTypeOK
    <3>3. CASE (\E e \in Edits : EditWiki(e)) \/ RepairWiki \/ PersonCommitsWiki \/ PersonPullsWiki \/ OtherClonePushes
      BY <3>3 DEF EditWiki, RepairWiki, PersonCommitsWiki, PersonPullsWiki, Interferes, OtherClonePushes, worldVars, PipeInv, PipeTypeOK
    <3>. QED
      BY <1>3, <3>1, <3>2, <3>3, <3>4 DEF Outside
  <2>3. /\ work' \subseteq work \cup Edits \cup UNION {tree[c] : c \in Commits}
        /\ withdrawn' \subseteq withdrawn \cup ((work \cup UNION {tree[c] : c \in Commits}) \cap Raws)
    <3>1. CASE PersonDiscards \/ PersonSwitchesWiki
      <4>1. PICK c \in Made : \E kept : TakeBack(kept, c) /\ kept \subseteq work \cup tree[c] \cup tree[head]
        BY <2>0, <3>1 DEF PersonDiscards, PersonSwitchesWiki
      <4>2. PICK kept : TakeBack(kept, c) /\ kept \subseteq work \cup tree[c] \cup tree[head]
        BY <4>1
      <4>. QED
        BY <2>0, <4>2 DEF TakeBack
    <3>2. CASE PersonPullsWiki
      <4>1. work' \subseteq tree[head] \cup tree[remote]
        <5>1. CASE head' = remote
          BY <3>2, <5>1 DEF PersonPullsWiki
        <5>2. CASE head' # remote
          <6>1. head' \in Commits
            BY <3>2, <5>2 DEF PersonPullsWiki, PersonPulls
          <6>. QED
            BY <2>0, <3>2, <5>2, <6>1 DEF PersonPullsWiki, Merged
        <5>. QED
          BY <5>1, <5>2
      <4>. QED
        BY <2>0, <3>2, <4>1 DEF PersonPullsWiki, worldVars
    <3>3. CASE \/ \E r \in Recordings : Record(r) \/ Settle(r)
               \/ \E e \in Edits : EditWiki(e)
               \/ RepairWiki \/ PersonCommitsWiki \/ OtherClonePushes
      BY <3>3 DEF Record, Settle, EditWiki, RepairWiki, PersonCommitsWiki, OtherClonePushes, diskVars, worldVars
    <3>. QED
      BY <1>3, <3>1, <3>2, <3>3 DEF Outside
  <2>4. tree' \in [Commits -> SUBSET Items]
    <3>1. CASE PersonCommitsWiki
      BY <3>1 DEF PersonCommitsWiki, CommitWork, PipeInv, PipeTypeOK
    <3>2. CASE PersonPullsWiki
      BY <2>0, <3>2 DEF PersonPullsWiki, Merged
    <3>3. CASE OtherClonePushes
      <4>1. remote \in Commits
        BY DEF PipeInv, CompiledInv, Made
      <4>. QED
        BY <3>3, <4>1 DEF OtherClonePushes, PipeInv, PipeTypeOK
    <3>4. CASE (\E r \in Recordings : Record(r) \/ Settle(r)) \/ (\E e \in Edits : EditWiki(e)) \/ RepairWiki
               \/ PersonDiscards \/ PersonSwitchesWiki
      BY <3>4 DEF Record, Settle, EditWiki, RepairWiki, PersonDiscards, PersonSwitchesWiki, TakeBack, diskVars,
         PipeInv, PipeTypeOK
    <3>. QED
      BY <1>3, <3>1, <3>2, <3>3, <3>4 DEF Outside
  <2>5. ScanOK'
    BY <2>1, <2>2 DEF PipeInv, ScanOK, PipeTypeOK
  <2>6. Edits \cap Raws = {}
    BY PipelineAssumption
  <2>7. UNION {tree[c] : c \in Commits} \subseteq Items /\ (UNION {tree[c] : c \in Commits}) \cap Raws \subseteq raws
    BY <2>0 DEF PipeInv, TreesGrow, Knows, EvidenceInv
  <2>. QED
    BY <2>1, <2>2, <2>3, <2>4, <2>5, <2>6, <2>7 DEF PipeInv, TypesInv, PipeTypeOK, EvidenceInv, GateInv, Items
<1>4. CASE Fault
  <2>1. CASE MemoFails
    <3>. DEFINE row == [sha |-> run.sha, raw |-> rows[run.key].raw, status |-> "failed"]
    <3>1. run.key \in Recordings /\ run.sha \in 1..Versions /\ rows' = [rows EXCEPT ![run.key] = row]
      BY <2>1 DEF MemoFails, GoesOn, PipeInv, ScanOK, PipeTypeOK
    <3>2. /\ row \in [sha : 1..Versions, raw : Raws \cup {NoRaw}, status : Statuses]
          /\ row.raw \in raws \cup {NoRaw}
      BY <3>1 DEF Statuses, PipeInv, PipeTypeOK, EvidenceInv
    <3>. HIDE DEF row
    <3>3. ScanOK' /\ run'.stage = "scan" /\ gate' = "idle"
      BY <2>1, FreshRunOK DEF MemoFails, GoesOn, worldVars, PipeInv, PipeTypeOK, NoRun
    <3>4. rows' \in [Recordings -> {NoRow} \cup [sha : 1..Versions, raw : Raws \cup {NoRaw}, status : Statuses]]
      BY <3>1, <3>2 DEF PipeInv, PipeTypeOK
    <3>5. \A k \in Recordings : rows'[k].raw \in raws \cup {NoRaw}
      BY <3>1, <3>2 DEF PipeInv, PipeTypeOK, EvidenceInv
    <3>. QED
      BY <2>1, <3>3, <3>4, <3>5 DEF MemoFails, worldVars, PipeInv, TypesInv, PipeTypeOK, EvidenceInv, GateInv, Items, Stages
  <2>2. CASE CompileFails \/ CommitFails \/ Crash
    <3>1. UNCHANGED Files /\ run' = NoRun /\ (gate' # "idle" => run'.stage = "release")
      BY <2>2 DEF CompileFails, CommitFails, Crash, Files, worldVars, diskVars, PipeInv, PipeTypeOK
    <3>. QED
      BY <3>1, StageOnlyTypes
  <2>3. CASE GateTrips
    BY <2>3, StageOnlyTypes DEF GateTrips, Files, worldVars, diskVars
  <2>. QED
    BY <1>4, <2>1, <2>2, <2>3 DEF Fault
<1>. QED
  BY <1>1, <1>2, <1>3, <1>4, ScanTypes DEF PipeNext, Start

-----------------------------------------------------------------------------
(* Waiting and published recordings *)

\* Steps that let nothing new wait, open no gate and make no promise about HEAD.
LEMMA PendingStays ==
    ASSUME PipeInv, KnowledgeGrows,
           Pending' \subseteq Pending, barren \subseteq barren',
           run'.stage = "mark" => run' = run,
           run'.stage \in {"head", "release"} => run.stage \in {"head", "release"},
           gate' # "idle" => gate # "idle" /\ manifest' = manifest
    PROVE  PendingInv'
<1>. Excused \subseteq Excused'
  BY DEF Excused, KnowledgeGrows
<1>. withdrawn' \subseteq Excused'
  BY DEF Excused
<1>1. Pending' \subseteq (work' \cap Raws) \cup Excused'
  BY DEF PipeInv, PendingInv, KnowledgeGrows
<1>2. ASSUME run'.stage = "mark", run'.next = "publish_pending"
      PROVE  run'.sources \subseteq work' \cup Excused'
  <2>1. run.sources \subseteq Raws /\ run.sources \subseteq work \cup Excused
    BY <1>2 DEF PipeInv, PendingInv, ScanOK, Locals
  <2>. QED
    BY <1>2, <2>1 DEF KnowledgeGrows
<1>3. run'.stage \in {"head", "release"} => Pending' \subseteq Knows(head)' \cup Excused'
  BY DEF PipeInv, PendingInv, KnowledgeGrows
<1>4. ASSUME gate' # "idle" PROVE Pending' \subseteq Knows(manifest)' \cup Excused'
  <2>1. manifest \in Made /\ manifest' = manifest /\ Pending \subseteq Knows(manifest) \cup Excused
    BY <1>4 DEF PipeInv, PendingInv, GateInv
  <2>2. Knows(manifest)' = Knows(manifest)
    BY <2>1 DEF KnowledgeGrows, Knows
  <2>. QED
    BY <2>1, <2>2
<1>. QED
  BY <1>1, <1>2, <1>3, <1>4 DEF PendingInv

\* Nothing that has been published is taken back.
LEMMA CompiledStays ==
    ASSUME PipeInv, KnowledgeGrows, Advances, GateInv',
           Compiled' \subseteq Compiled \cup Knows(remote) \cup Excused, barren \subseteq barren'
    PROVE  CompiledInv'
<1>. Excused \subseteq Excused' /\ withdrawn' \subseteq Excused'
  BY DEF Excused, KnowledgeGrows
<1>1. remote \in Made /\ remote \in past[remote] /\ NoCommit \notin Commits /\ Made \subseteq Commits
  BY GateAssumption DEF PipeInv, CompiledInv, GateInv, PastIsClosed, Made
<1>2. remote \in Behind(remote)
  BY <1>1 DEF Behind
<1>3. remote \in Behind(remote)'
  BY <1>2 DEF Advances
<1>4. remote' \in Made' /\ remote \in past'[remote']
  BY <1>3 DEF Advances, Behind
<1>5. Knows(remote) \subseteq {x \in tree'[remote'] : x \in Raws} \cup withdrawn'
  BY <1>1, <1>4 DEF KnowledgeGrows, TreesGrow, Knows
<1>6. Compiled \subseteq Knows(remote) \cup Excused
  BY DEF PipeInv, CompiledInv
<1>. QED
  BY <1>4, <1>5, <1>6 DEF CompiledInv, Knows

LEMMA RowsUnchanged ==
    ASSUME UNCHANGED rows
    PROVE  Pending' = Pending /\ Compiled' = Compiled
BY DEF Pending, Compiled, With

\* One row less waits, and none more is published.
LEMMA OneRowTaken ==
    ASSUME PipeInv, NEW k \in Recordings, NEW row, rows' = [rows EXCEPT ![k] = row],
           row.status \notin {"publish_pending", "compiled"}
    PROVE  Pending' \subseteq Pending /\ Compiled' \subseteq Compiled
<1>1. \A j \in Recordings : rows'[j] = IF j = k THEN row ELSE rows[j]
  BY DEF PipeInv, PipeTypeOK
<1>2. /\ \A j \in With("publish_pending")' : j \in With("publish_pending") /\ rows'[j] = rows[j]
      /\ \A j \in With("compiled")' : j \in With("compiled") /\ rows'[j] = rows[j]
  BY <1>1 DEF With
<1>. QED
  BY <1>2 DEF Pending, Compiled

LEMMA PipePromises ==
    ASSUME PipeInv, [PipeNext]_pipeVars, KnowledgeGrows, Advances, GateInv'
    PROVE  PendingInv' /\ CompiledInv'
<1>0. withdrawn \subseteq withdrawn'
  BY DEF KnowledgeGrows
<1>1. CASE UNCHANGED pipeVars
  BY <1>1, PendingStays, CompiledStays, RowsUnchanged DEF pipeVars, diskVars, gateVars
<1>2. CASE Start
  <2>1. UNCHANGED <<rows, barren, gate, manifest>> /\ run'.stage = "scan"
    BY <1>2 DEF Start, StartScan, diskVars, gateVars, NoRun
  <2>. QED
    BY <2>1, PendingStays, CompiledStays, RowsUnchanged
<1>3. CASE Outside
  <2>1. UNCHANGED <<rows, barren, run, gate, manifest>>
    BY <1>3 DEF Outside, Record, Settle, EditWiki, RepairWiki, PersonCommitsWiki, PersonPullsWiki, PersonPulls,
       OtherClonePushes, OtherPushes, PersonDiscards, PersonSwitchesWiki, TakeBack, diskVars, gateVars
  <2>. QED
    BY <2>1, PendingStays, CompiledStays, RowsUnchanged
<1>4. CASE Fault
  <2>1. CASE MemoFails
    <3>1. run.key \in Recordings /\ run'.stage = "scan" /\ gate' = gate /\ gate = "idle" /\ barren' = barren
      BY <2>1 DEF MemoFails, GoesOn, PipeInv, ScanOK, PipeTypeOK, NoRun
    <3>. DEFINE row == [sha |-> run.sha, raw |-> rows[run.key].raw, status |-> "failed"]
    <3>2. rows' = [rows EXCEPT ![run.key] = row] /\ row.status = "failed"
      BY <2>1, <3>1 DEF MemoFails, PipeInv, PipeTypeOK
    <3>. HIDE DEF row
    <3>3. Pending' \subseteq Pending /\ Compiled' \subseteq Compiled
      BY <3>1, <3>2, OneRowTaken
    <3>. QED
      BY <3>1, <3>3, PendingStays, CompiledStays
  <2>2. CASE CompileFails \/ CommitFails \/ Crash
    <3>1. UNCHANGED <<rows, barren>> /\ run'.stage = "off" /\ (gate' # "idle" => gate' = gate /\ manifest' = manifest)
      BY <2>2 DEF CompileFails, CommitFails, Crash, diskVars, NoRun
    <3>. QED
      BY <3>1, PendingStays, CompiledStays, RowsUnchanged
  <2>3. CASE GateTrips
    <3>1. UNCHANGED <<rows, barren, run>> /\ gate' = "idle"
      BY <2>3 DEF GateTrips, GateFault, PushUnanswered, PublishFails, Ends, diskVars
    <3>. QED
      BY <3>1, PendingStays, CompiledStays, RowsUnchanged
  <2>. QED
    BY <1>4, <2>1, <2>2, <2>3 DEF Fault
<1>5. CASE \/ \E k \in Recordings : SkipMemo(k) \/ HashMemo(k)
           \/ Transcribe \/ WriteRaw \/ NothingToCompile \/ Pause \/ CheckClean
           \/ EndScan \/ Lint \/ LintRefuses \/ PublishLater
  <2>1. UNCHANGED <<rows, barren, gate, manifest>>
    BY <1>5 DEF SkipMemo, HashMemo, Transcribe, WriteRaw, NothingToCompile, Pause, CheckClean, EndScan, Lint,
       LintRefuses, PublishLater, diskVars, gateVars
  <2>2. run'.stage \in {"scan", "hear", "write", "save", "publish", "off", "compile", "commit"}
    <3>1. run \in Locals
      BY DEF PipeInv, ScanOK
    <3>2. CASE (\E k \in Recordings : SkipMemo(k) \/ HashMemo(k)) \/ Transcribe \/ CheckClean
      BY <3>1, <3>2 DEF SkipMemo, HashMemo, Transcribe, CheckClean, Locals
    <3>3. CASE WriteRaw
      BY <3>1, <3>3 DEF WriteRaw, Locals
    <3>4. CASE NothingToCompile \/ Pause \/ EndScan \/ Lint \/ LintRefuses \/ PublishLater
      BY <3>1, <3>4 DEF NothingToCompile, Pause, EndScan, Lint, LintRefuses, PublishLater, Goes, NoRun, Locals
    <3>. QED
      BY <1>5, <3>2, <3>3, <3>4
  <2>. QED
    BY <2>1, <2>2, PendingStays, CompiledStays, RowsUnchanged
<1>6. CASE SaveRawReady
  <2>1. run.key \in Recordings /\ run'.stage = "scan" /\ UNCHANGED <<gate, manifest, barren>>
    BY <1>6 DEF SaveRawReady, GoesOn, PipeInv, ScanOK, NoRun, gateVars
  <2>. DEFINE row == [sha |-> run.sha, raw |-> run.raw, status |-> "raw_ready"]
  <2>2. rows' = [rows EXCEPT ![run.key] = row] /\ row.status = "raw_ready"
    BY <1>6 DEF SaveRawReady
  <2>. HIDE DEF row
  <2>3. Pending' \subseteq Pending /\ Compiled' \subseteq Compiled
    BY <2>1, <2>2, OneRowTaken
  <2>. QED
    BY <2>1, <2>3, PendingStays, CompiledStays
<1>7. CASE CompileLegacy \/ CompilePrivately
  <2>1. /\ UNCHANGED <<rows, gate, manifest>> /\ barren \subseteq barren' /\ run'.stage = "mark"
        /\ run'.sources = run.sources /\ gate = "idle"
    BY <1>7 DEF CompileLegacy, CompilePrivately, gateVars, PipeInv, PipeTypeOK, ScanOK, Locals
  <2>2. run'.next = "publish_pending" => run.sources \subseteq work' \cup Excused'
    BY <1>7 DEF CompileLegacy, CompilePrivately, Excused, PipeInv, ScanOK, Locals
  <2>3. CompiledInv'
    BY <2>1, CompiledStays, RowsUnchanged
  <2>. QED
    BY <1>0, <2>1, <2>2, <2>3, RowsUnchanged DEF Excused, PipeInv, PendingInv, KnowledgeGrows
<1>8. CASE MarkCompiled
  <2>. DEFINE keys == {k \in Recordings : rows[k].raw \in run.sources}
  <2>1. /\ run.next \in {"publish_pending", "proposal_pending", "reviewed_no_change"} /\ run.sources \subseteq Raws
        /\ rows' = Marked(keys, run.next) /\ run'.stage = "publish" /\ gate = "idle"
        /\ run.next = "publish_pending" => run.sources \subseteq work \cup Excused
        /\ UNCHANGED <<gate, barren, withdrawn, work>>
    BY <1>8 DEF MarkCompiled, GoesOn, PipeInv, ScanOK, Locals, PipeTypeOK, PendingInv, NoRun, gateVars, worldVars
  <2>2. \A k \in keys : rows[k] # NoRow /\ rows[k].raw \in run.sources
    BY <2>1, PipelineAssumption DEF NoRow
  <2>. HIDE DEF keys
  <2>3. \A k \in Recordings : /\ rows'[k].raw = rows[k].raw
                              /\ rows'[k].status = IF k \in keys THEN run.next ELSE rows[k].status
    BY <2>1, <2>2, MarkedIsTyped DEF Statuses
  <2>4. Compiled' \subseteq Compiled
    BY <2>1, <2>3 DEF Compiled, With
  <2>5. Pending' \subseteq Pending \cup (IF run.next = "publish_pending" THEN run.sources ELSE {})
    BY <2>1, <2>2, <2>3 DEF Pending, With
  <2>6. CompiledInv'
    BY <2>1, <2>4, CompiledStays
  <2>. QED
    BY <2>1, <2>5, <2>6 DEF Excused, PipeInv, PendingInv
<1>9. CASE MarkPublished
  <2>1. /\ rows' = Marked(With("publish_pending"), "compiled") /\ UNCHANGED barren
        /\ run'.stage = "off" /\ gate = "confirmed" /\ gate' = "idle"
    BY <1>9 DEF MarkPublished, PublishReturns, Ends, NoRun
  <2>2. \A k \in Recordings : /\ rows'[k].raw = rows[k].raw
                              /\ rows'[k].status = IF k \in With("publish_pending") THEN "compiled" ELSE rows[k].status
    BY <2>1, MarkedIsTyped DEF Statuses, With, NoRow
  <2>3. Pending' \subseteq Pending
    BY <2>2 DEF Pending, With
  <2>4. Compiled' \subseteq Compiled \cup Pending
    BY <2>2 DEF Compiled, Pending, With
  <2>5. manifest \in Behind(remote) /\ Pending \subseteq Knows(manifest) \cup Excused
    BY <2>1 DEF PipeInv, GateInv, VerifiedIsOnBranch, PendingInv
  <2>6. Knows(manifest) \subseteq Knows(remote) \cup Excused
    BY <2>5 DEF Behind, Excused, PipeInv, CompiledInv, TreesGrow
  <2>. QED
    BY <2>1, <2>3, <2>4, <2>5, <2>6, PendingStays, CompiledStays
<1>10. CASE CommitKnowledge \/ NothingToCommit
  <2>1. UNCHANGED <<rows, barren, withdrawn, gate, work>> /\ run'.stage = "head" /\ gate = "idle"
    BY <1>10 DEF CommitKnowledge, NothingToCommit, Goes, worldVars, diskVars, gateVars, PipeInv, PipeTypeOK, ScanOK, Locals
  <2>2. Knows(head)' = work \cap Raws
    <3>1. CASE CommitKnowledge
      <4>1. PICK c \in Commits : CommitWork(c)
        BY <3>1 DEF CommitKnowledge
      <4>. QED
        BY <4>1 DEF CommitWork, Knows, PipeInv, PipeTypeOK
    <3>2. CASE NothingToCommit
      BY <3>2 DEF NothingToCommit, Dirty, Knows, diskVars, gateVars
    <3>. QED
      BY <1>10, <3>1, <3>2
  <2>3. CompiledInv'
    BY <2>1, CompiledStays, RowsUnchanged
  <2>. QED
    BY <2>1, <2>2, <2>3, RowsUnchanged DEF Excused, PipeInv, PendingInv
<1>11. CASE OpenGate
  <2>1. UNCHANGED <<rows, barren, withdrawn, work, head, tree>> /\ run.stage = "head" /\ run'.stage = "release" /\ manifest' = head
    BY <1>11 DEF OpenGate, Goes, ReadHead, worldVars, diskVars, gitVars, PipeInv, ScanOK, Locals
  <2>2. CompiledInv'
    BY <2>1, CompiledStays, RowsUnchanged
  <2>. QED
    BY <2>1, <2>2, RowsUnchanged DEF Excused, PipeInv, PendingInv, Knows
<1>12. CASE PassGate
  <2>1. UNCHANGED <<rows, barren, run>> /\ gate # "idle"
    BY <1>12 DEF PassGate, GateStep, Prepare, AskRemote, Push, PushRefused, VerifyRemote, Confirm, HeadHasMoved,
                 Step, Ends, diskVars
  <2>2. gate' # "idle" => manifest' = manifest
    BY <1>12 DEF PassGate, GateStep, Prepare, AskRemote, Push, PushRefused, VerifyRemote, Confirm, HeadHasMoved,
                 Ends
  <2>. QED
    BY <2>1, <2>2, PendingStays, CompiledStays, RowsUnchanged
<1>. QED
  BY <1>1, <1>2, <1>3, <1>4, <1>5, <1>6, <1>7, <1>8, <1>9, <1>10, <1>11, <1>12 DEF PipeNext, ScanStep

-----------------------------------------------------------------------------
LEMMA PipeInvStep == PipeInv /\ [PipeNext]_pipeVars => PipeInv'
BY PipeKeepsGateInv, KnowledgeOnlyGrows, PipeTypes, PipePromises DEF PipeInv, TypesInv, KnowledgeGrows

LEMMA PipeInvGives == PipeInv => PipeTypeOK /\ EvidenceKept /\ CompiledIsPublished
<1>. SUFFICES ASSUME PipeInv PROVE PipeTypeOK /\ EvidenceKept /\ CompiledIsPublished
  OBVIOUS
<1>1. EvidenceKept
  <2>1. ASSUME NEW x \in Raws, NEW c \in Commits, x \in tree[c] PROVE x \in raws
    BY <2>1 DEF PipeInv, TreesGrow, Knows, EvidenceInv
  <2>2. \A k \in Recordings : rows[k].raw \in Raws => rows[k].raw \in raws
    BY PipelineAssumption DEF PipeInv, EvidenceInv
  <2>. QED
    BY <2>1, <2>2 DEF PipeInv, EvidenceInv, EvidenceKept
<1>2. CompiledIsPublished
  <2>1. remote \in Made /\ NoCommit \notin Made
    BY GateAssumption DEF PipeInv, CompiledInv, Made
  <2>2. \A k \in With("compiled") : rows[k].raw \in Compiled
    BY DEF Compiled
  <2>. QED
    BY <2>1, <2>2 DEF PipeInv, CompiledInv, Knows, Excused, CompiledIsPublished, Published
<1>. QED
  BY <1>1, <1>2 DEF PipeInv

\* Whoever commits, pushes, pulls, moves HEAD, fails or dies in between: what the
\* database calls compiled is on the remote branch, unless the model had nothing
\* to say about it or a person took it out; and what anything refers to as
\* evidence is there.
THEOREM PipelineCorrect == PipeSpec => [](PipeTypeOK /\ EvidenceKept /\ CompiledIsPublished)
BY PipeInvInit, PipeInvStep, PipeInvGives, PTL DEF PipeSpec

\* The part of a scan that publishes belongs to the legacy mode alone.
PublishesInLegacy == run.stage \in {"commit", "head", "release"} => run.mode = "legacy"

LEMMA PublishesInLegacyStep ==
    ASSUME PipeInv, PublishesInLegacy, [PipeNext]_pipeVars
    PROVE  PublishesInLegacy'
<1>0. run \in Locals
  BY DEF PipeInv, ScanOK
<1>1. CASE UNCHANGED pipeVars \/ Outside \/ GateTrips \/ PassGate
  BY <1>1 DEF pipeVars, PublishesInLegacy, Outside, Record, Settle, EditWiki, RepairWiki, PersonCommitsWiki,
     PersonPullsWiki, OtherClonePushes, PersonDiscards, PersonSwitchesWiki, TakeBack, GateTrips, PassGate
<1>2. CASE Start \/ Pause \/ EndScan \/ LintRefuses \/ PublishLater \/ MarkPublished
           \/ CompileFails \/ CommitFails \/ Crash
  <2>1. run'.stage \in {"scan", "off"}
    <3>1. CASE Start
      BY <3>1 DEF Start, StartScan, NoRun
    <3>2. CASE ~Start
      BY <1>2, <3>2 DEF Pause, EndScan, LintRefuses, PublishLater, MarkPublished, CompileFails, CommitFails, Crash, NoRun
    <3>. QED
      BY <3>1, <3>2
  <2>. QED
    BY <2>1 DEF PublishesInLegacy
<1>3. CASE SaveRawReady \/ MarkCompiled \/ MemoFails
  <2>1. run'.stage \in {"scan", "publish"}
    BY <1>3 DEF SaveRawReady, MarkCompiled, MemoFails, GoesOn, NoRun
  <2>. QED
    BY <2>1 DEF PublishesInLegacy
<1>4. CASE \/ \E k \in Recordings : SkipMemo(k) \/ HashMemo(k)
           \/ Transcribe \/ WriteRaw \/ NothingToCompile \/ CheckClean \/ CompileLegacy \/ CompilePrivately
  <2>1. run'.stage \in {"scan", "hear", "write", "save", "publish", "compile", "mark"}
    BY <1>0, <1>4 DEF SkipMemo, HashMemo, Transcribe, WriteRaw, NothingToCompile, CheckClean, CompileLegacy,
       CompilePrivately, Goes, Locals
  <2>. QED
    BY <2>1 DEF PublishesInLegacy
<1>5. CASE Lint \/ CommitKnowledge \/ NothingToCommit \/ OpenGate
  <2>1. run'.mode = run.mode /\ run.mode = "legacy"
    BY <1>0, <1>5 DEF Lint, MustPublish, CommitKnowledge, NothingToCommit, OpenGate, Goes, Locals, PublishesInLegacy
  <2>. QED
    BY <2>1 DEF PublishesInLegacy
<1>. QED
  BY <1>1, <1>2, <1>3, <1>4, <1>5 DEF PipeNext, Fault, ScanStep

\* A scan in review-first mode never puts anything on the remote branch.
THEOREM ReviewFirstIsPrivate == PipeSpec => ReviewFirstNeverPushes
<1>1. PipeInit => PublishesInLegacy
  BY DEF PipeInit, NoRun, PublishesInLegacy
<1>2. PipeInv /\ PublishesInLegacy /\ [PipeNext]_pipeVars => [pushed' # pushed => run.mode = "legacy"]_pipeVars
  <2>. SUFFICES ASSUME PipeInv, PublishesInLegacy, PipeNext, pushed' # pushed
                PROVE  run.mode = "legacy"
    BY DEF pipeVars, gateVars
  <2>1. PassGate \/ GateTrips
    BY DEF PipeNext, Start, StartScan, Outside, Record, Settle, EditWiki, RepairWiki, PersonCommitsWiki, PersonPullsWiki,
       PersonPulls, OtherClonePushes, OtherPushes, PersonDiscards, PersonSwitchesWiki, TakeBack, Fault, MemoFails, CompileFails, CommitFails, Crash, ScanStep, SkipMemo,
       HashMemo, Transcribe, WriteRaw, SaveRawReady, NothingToCompile, Pause, CheckClean, CompileLegacy,
       CompilePrivately, MarkCompiled, EndScan, Lint, LintRefuses, CommitKnowledge, NothingToCommit, OpenGate,
       ReadHead, PublishLater, MarkPublished, PublishReturns, gateVars
  <2>. QED
    BY <2>1 DEF PassGate, GateTrips, PublishesInLegacy
<1>. QED
  BY PipeInvInit, PipeInvStep, PublishesInLegacyStep, <1>1, <1>2, PTL DEF PipeSpec, ReviewFirstNeverPushes

\* What scans have pushed is accounted for in the journal, whoever moved HEAD
\* and wherever a scan died.
THEOREM ScansAreJournaled == PipeSpec => []JournalTellsOfPushes
<1>1. PipeInit => PushInv
  BY PushInvInit DEF PipeInit
<1>2. PipeInv /\ PushInv /\ [PipeNext]_pipeVars => PushInv'
  <2>. SUFFICES ASSUME PipeInv, PushInv, [PipeNext]_pipeVars PROVE PushInv'
    OBVIOUS
  <2>1. CASE [GateNext]_gateVars
    BY <2>1, GateStepKeepsPushInv DEF PipeInv
  <2>2. CASE GateForgets
    BY <2>2, SamePastAdvances, AdvanceKeepsPushInv DEF GateForgets, PipeInv
  <2>. QED
    BY <2>1, <2>2, PipeStepOfGate
<1>3. PushInv => JournalTellsOfPushes
  BY DEF PushInv
<1>. QED
  BY PipeInvInit, PipeInvStep, <1>1, <1>2, <1>3, PTL DEF PipeSpec
=============================================================================
