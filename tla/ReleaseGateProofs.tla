--------------------------- MODULE ReleaseGateProofs ---------------------------
(***************************************************************************)
(* Machine-checked: what the gate journals as confirmed is on the branch,  *)
(* what it has pushed is accounted for in the journal, and the workflow    *)
(* gives a receipt for what was served and is on the branch, for any       *)
(* number of commits, faults and read-backs.                               *)
(***************************************************************************)
EXTENDS DeploymentCheck, TLAPS

\* History only grows: a commit holds all that its ancestors hold.
PastIsClosed ==
    \A c \in Made :
        /\ c \in past[c] /\ past[c] \subseteq Made
        /\ \A d \in past[c] : past[d] \subseteq past[c]

\* Once the remote has answered with the manifest's commit it stays on the
\* branch, while publish_head still has to look at HEAD and write its journal.
VerifiedIsOnBranch == gate \in {"confirming", "confirmed"} => manifest \in Behind(remote)

GateInv ==
    /\ GateTypeOK
    /\ PastIsClosed
    /\ gate # "idle" => manifest \in Made
    /\ VerifiedIsOnBranch
    /\ ConfirmedIsPublished

LEMMA GateInvInit == GateInit => GateInv
<1>. SUFFICES ASSUME GateInit PROVE GateInv
  OBVIOUS
<1>1. 1 \in Commits /\ NoCommit \notin Commits
  BY GateAssumption DEF Commits
<1>2. \A c \in Commits : past[c] = IF c = 1 THEN {1} ELSE {}
  BY DEF GateInit
<1>3. Made = {1}
  BY <1>1, <1>2 DEF Made
<1>. QED
  BY <1>1, <1>2, <1>3, GateAssumption DEF GateInit, GateInv, GateTypeOK, PastIsClosed, VerifiedIsOnBranch,
     ConfirmedIsPublished, Gates, ReleaseStatuses, Made

\* What every step of the gate and of the people around it does to the
\* branches: no commit is lost or rewritten, and the remote only advances.
Advances ==
    /\ past' \in [Commits -> SUBSET Commits]
    /\ Made \subseteq Made' /\ \A c \in Made : past'[c] = past[c]
    /\ PastIsClosed'
    /\ remote' \in Made' \cup {NoCommit}
    /\ Behind(remote) \subseteq Behind(remote)'

LEMMA SamePastAdvances ==
    ASSUME GateInv, UNCHANGED <<past, remote>>
    PROVE  Advances
BY DEF GateInv, GateTypeOK, Advances, Made, Behind, PastIsClosed

LEMMA MadeCommitIsClosed ==
    ASSUME GateInv, NEW c, NEW S \in SUBSET Made, MakeCommit(c, S),
           \A d \in S : past[d] \subseteq S
    PROVE  /\ past' \in [Commits -> SUBSET Commits]
           /\ Made' = Made \cup {c} /\ c \in Commits /\ c \notin Made
           /\ \A d \in Made : past'[d] = past[d]
           /\ past'[c] = {c} \cup S
           /\ PastIsClosed'
<1>1. c \in Commits /\ c \notin Made /\ past' = [past EXCEPT ![c] = {c} \cup S]
  BY DEF MakeCommit
<1>2. past \in [Commits -> SUBSET Commits] /\ Made \subseteq Commits
  BY DEF GateInv, GateTypeOK, Made
<1>3. past' \in [Commits -> SUBSET Commits] /\ past'[c] = {c} \cup S
  BY <1>1, <1>2
<1>4. \A d \in Commits : d # c => past'[d] = past[d]
  BY <1>1, <1>2
<1>5. Made' = Made \cup {c}
  BY <1>1, <1>3, <1>4 DEF Made
<1>6. \A d \in Made : past'[d] = past[d]
  BY <1>1, <1>2, <1>4
<1>7. PastIsClosed'
  <2>. SUFFICES ASSUME NEW d \in Made'
                PROVE  /\ d \in past'[d] /\ past'[d] \subseteq Made'
                       /\ \A e \in past'[d] : past'[e] \subseteq past'[d]
    BY DEF PastIsClosed
  <2>1. CASE d = c
    BY <2>1, <1>3, <1>5, <1>6
  <2>2. CASE d \in Made
    <3>1. d \in past[d] /\ past[d] \subseteq Made /\ \A e \in past[d] : past[e] \subseteq past[d]
      BY <2>2 DEF GateInv, PastIsClosed
    <3>. QED
      BY <3>1, <2>2, <1>5, <1>6
  <2>. QED
    BY <2>1, <2>2, <1>5
<1>. QED
  BY <1>1, <1>3, <1>5, <1>6, <1>7

\* A branch of made commits holds its ancestors' ancestors.
LEMMA BranchIsClosed ==
    ASSUME GateInv, NEW b \in Made
    PROVE  past[b] \in SUBSET Made /\ \A d \in past[b] : past[d] \subseteq past[b]
BY DEF GateInv, PastIsClosed

LEMMA NewCommitAdvances ==
    ASSUME GateInv, NEW c, NEW S \in SUBSET Made, MakeCommit(c, S),
           \A d \in S : past[d] \subseteq S, UNCHANGED remote
    PROVE  Advances /\ c \in Made'
<1>1. NoCommit \notin Commits
  BY GateAssumption
<1>. QED
  BY MadeCommitIsClosed, <1>1 DEF GateInv, GateTypeOK, Advances, Behind

LEMMA PersonAdvances ==
    ASSUME GateInv, \/ PersonCommits \/ PersonPulls \/ \E c \in Commits : PersonSwitches(c)
    PROVE  Advances /\ head' \in Made'
<1>1. CASE PersonCommits
  BY <1>1, BranchIsClosed, NewCommitAdvances DEF PersonCommits, GateInv, GateTypeOK
<1>2. CASE \E c \in Commits : PersonSwitches(c)
  BY <1>2, SamePastAdvances DEF PersonSwitches, Made
<1>3. CASE PersonPulls
  <2>1. head \in Made /\ remote \in Made
    BY <1>3 DEF PersonPulls, GateInv, GateTypeOK
  <2>2. CASE head \in past[remote]
    BY <2>1, <2>2, <1>3, SamePastAdvances DEF PersonPulls, Made
  <2>3. CASE head \notin past[remote]
    <3>1. PICK c \in Commits : MakeCommit(c, past[head] \cup past[remote]) /\ head' = c
      BY <2>3, <1>3 DEF PersonPulls
    <3>2. /\ (past[head] \cup past[remote]) \in SUBSET Made
          /\ \A d \in past[head] \cup past[remote] : past[d] \subseteq past[head] \cup past[remote]
      BY <2>1, BranchIsClosed
    <3>3. UNCHANGED remote
      BY <1>3 DEF PersonPulls
    <3>. QED
      BY <3>1, <3>2, <3>3, NewCommitAdvances
  <2>. QED
    BY <2>2, <2>3
<1>. QED
  BY <1>1, <1>2, <1>3

LEMMA OtherAdvances ==
    ASSUME GateInv, OtherPushes
    PROVE  Advances
<1>1. remote \in Made /\ NoCommit \notin Commits
  BY GateAssumption DEF OtherPushes, GateInv, GateTypeOK
<1>2. PICK c \in Commits : MakeCommit(c, past[remote]) /\ remote' = c
  BY DEF OtherPushes
<1>. QED
  BY <1>1, <1>2, BranchIsClosed, MadeCommitIsClosed DEF Advances, Behind

\* git push, with or without an answer.
LEMMA PushAdvances ==
    ASSUME GateInv, Accepts(head), remote' = head, UNCHANGED past
    PROVE  Advances /\ head \in Made /\ past[head] \in SUBSET Made
<1>1. head \in Made /\ NoCommit \notin Commits
  BY GateAssumption DEF GateInv, GateTypeOK
<1>2. head \in Commits
  BY <1>1 DEF Made
<1>3. Made' = Made
  BY DEF Made
<1>4. Behind(remote) \subseteq past[head] /\ Behind(remote)' = past[head]
  BY <1>1, <1>2 DEF Accepts, Behind
<1>. QED
  BY <1>1, <1>3, <1>4, BranchIsClosed DEF Advances, GateInv, GateTypeOK, PastIsClosed

\* Whoever changes only the branches cannot make a confirmation untrue.
LEMMA AdvanceKeepsInv ==
    ASSUME GateInv, Advances, head' \in Made', UNCHANGED <<journal, gate, manifest, pushed, faults>>
    PROVE  GateInv'
BY DEF GateInv, GateTypeOK, Advances, VerifiedIsOnBranch, ConfirmedIsPublished

LEMMA GateStepKeepsInv ==
    ASSUME GateInv, [GateNext]_gateVars
    PROVE  GateInv' /\ Advances
<1>0. GateTypeOK /\ MaxFaults \in Nat /\ NoCommit \notin Commits
  BY GateAssumption DEF GateInv
<1>1. CASE UNCHANGED gateVars
  BY <1>1, SamePastAdvances DEF gateVars, GateInv, GateTypeOK, PastIsClosed, VerifiedIsOnBranch, ConfirmedIsPublished, Made, Behind
<1>2. CASE \/ PersonCommits \/ PersonPulls \/ \E c \in Commits : PersonSwitches(c)
  <2>1. UNCHANGED <<journal, gate, manifest, pushed, faults>>
    BY <1>2 DEF PersonCommits, PersonPulls, PersonSwitches
  <2>. QED
    BY <1>2, <2>1, PersonAdvances, AdvanceKeepsInv DEF Advances
<1>3. CASE OtherPushes
  <2>1. UNCHANGED <<head, journal, gate, manifest, pushed, faults>>
    BY <1>3 DEF OtherPushes
  <2>2. Advances
    BY <1>3, OtherAdvances
  <2>3. head' \in Made'
    BY <2>1, <2>2 DEF Advances, GateInv, GateTypeOK
  <2>. QED
    BY <2>1, <2>2, <2>3, AdvanceKeepsInv DEF Advances
<1>4. CASE ReadHead \/ AskRemote \/ PushRefused \/ PublishFails \/ HeadHasMoved \/ PublishReturns
  <2>1. UNCHANGED gitVars /\ journal' = journal /\ pushed' = pushed
    BY <1>4 DEF ReadHead, AskRemote, PushRefused, PublishFails, HeadHasMoved, PublishReturns
  <2>2. Advances
    BY <2>1, SamePastAdvances DEF gitVars
  <2>3. gate' \in Gates /\ manifest' \in Made \cup {NoCommit} /\ faults' \in 0..MaxFaults
    BY <1>4, <1>0 DEF ReadHead, AskRemote, PushRefused, PublishFails, HeadHasMoved, PublishReturns,
                      Step, Ends, Gates, GateTypeOK
  <2>4. gate' # "idle" => manifest' \in Made /\ gate' \notin {"confirming", "confirmed"}
    BY <1>4, <1>0 DEF ReadHead, AskRemote, PushRefused, PublishFails, HeadHasMoved, PublishReturns,
                      Step, Ends, GateInv, GateTypeOK
  <2>. QED
    BY <2>1, <2>2, <2>3, <2>4 DEF GateInv, GateTypeOK, Advances, gitVars, VerifiedIsOnBranch, ConfirmedIsPublished
<1>5. CASE Prepare
  <2>1. Advances
    BY <1>5, SamePastAdvances DEF Prepare, gitVars
  <2>2. manifest \in Made /\ UNCHANGED gitVars /\ UNCHANGED <<manifest, pushed, faults>> /\ gate' = "asking"
    BY <1>5 DEF Prepare, GateInv, Step
  <2>3. journal' \in [Commits -> ReleaseStatuses] /\ \A c \in Commits : journal'[c] = "git_confirmed" => journal[c] = "git_confirmed"
    BY <1>5, <2>2, <1>0 DEF Prepare, Recorded, GateTypeOK, ReleaseStatuses, Made
  <2>. QED
    BY <2>1, <2>2, <2>3 DEF GateInv, GateTypeOK, Advances, gitVars, VerifiedIsOnBranch, ConfirmedIsPublished, Gates
<1>6. CASE Push \/ PushUnanswered
  <2>1. Advances /\ head \in Made /\ UNCHANGED <<head, journal>>
    BY <1>6, PushAdvances DEF Push, PushUnanswered
  <2>. pushed' \in [Commits -> Made \cup {NoCommit}]
    BY <1>0, <1>6, <2>1 DEF Push, PushUnanswered, PushedHead, GateTypeOK
  <2>2. /\ gate' \in Gates /\ gate' \notin {"confirming", "confirmed"}
        /\ manifest' \in Made \cup {NoCommit} /\ faults' \in 0..MaxFaults
        /\ gate' # "idle" => manifest' \in Made
    BY <1>6, <1>0 DEF Push, PushUnanswered, Step, Ends, Gates, GateInv, GateTypeOK
  <2>. QED
    BY <2>1, <2>2 DEF GateInv, GateTypeOK, Advances, VerifiedIsOnBranch, ConfirmedIsPublished
<1>7. CASE VerifyRemote
  <2>1. UNCHANGED gitVars /\ UNCHANGED <<journal, pushed, faults>> /\ gate = "verifying"
    BY <1>7 DEF VerifyRemote, Step, Ends
  <2>2. Advances
    BY <2>1, SamePastAdvances DEF gitVars
  <2>3. manifest \in Made /\ manifest \in Commits
    BY <2>1 DEF GateInv, Made
  <2>4. remote = manifest => manifest \in Behind(remote)
    BY <2>3, <1>0 DEF Behind, GateInv, PastIsClosed
  <2>5. CASE remote = manifest
    BY <1>7, <2>1, <2>2, <2>3, <2>4, <2>5
       DEF VerifyRemote, Step, Gates, GateInv, GateTypeOK, Advances, gitVars, VerifiedIsOnBranch, ConfirmedIsPublished
  <2>6. CASE remote # manifest
    BY <1>7, <2>1, <2>2, <2>6
       DEF VerifyRemote, Ends, Gates, GateInv, GateTypeOK, Advances, gitVars, VerifiedIsOnBranch, ConfirmedIsPublished
  <2>. QED
    BY <2>5, <2>6
<1>8. CASE Confirm
  <2>1. Advances
    BY <1>8, SamePastAdvances DEF Confirm, gitVars
  <2>2. /\ manifest \in Made /\ manifest \in Behind(remote) /\ gate' = "confirmed"
        /\ UNCHANGED gitVars /\ UNCHANGED <<manifest, pushed, faults>>
    BY <1>8 DEF Confirm, GateInv, Step, VerifiedIsOnBranch
  <2>3. /\ journal' \in [Commits -> ReleaseStatuses]
        /\ \A c \in Commits : journal'[c] = "git_confirmed" => journal[c] = "git_confirmed" \/ c = manifest
    BY <1>8, <2>2, <1>0 DEF Confirm, Recorded, GateTypeOK, ReleaseStatuses, Made
  <2>. QED
    BY <2>1, <2>2, <2>3 DEF GateInv, GateTypeOK, Advances, gitVars, VerifiedIsOnBranch, ConfirmedIsPublished, Gates
<1>. QED
  BY <1>1, <1>2, <1>3, <1>4, <1>5, <1>6, <1>7, <1>8 DEF GateNext, GateStep, GateFault

\* Whatever the journal calls git_confirmed is on the remote branch, and stays
\* there, whoever moves HEAD or the branch: for any number of commits and faults.
THEOREM GateCorrect == GateSpec => [](GateTypeOK /\ ConfirmedIsPublished)
<1>1. GateInv => GateTypeOK /\ ConfirmedIsPublished
  BY DEF GateInv
<1>. QED
  BY GateInvInit, GateStepKeepsInv, <1>1, PTL DEF GateSpec

-----------------------------------------------------------------------------
(* "Journal before network I/O" *)

\* A publication that has not confirmed anything has its manifest on disk as
\* prepared; all that was pushed is on the branch; and once the remote has
\* answered with the manifest's commit, that commit contains what was pushed.
PushInv ==
    /\ gate \notin {"idle", "recording", "confirmed"} => journal[manifest] = "prepared"
    /\ \A m \in Commits : pushed[m] # NoCommit => pushed[m] \in Behind(remote)
    /\ gate = "confirming" /\ pushed[manifest] # NoCommit => pushed[manifest] \in past[manifest]
    /\ JournalTellsOfPushes

LEMMA PushInvInit == GateInit => PushInv
BY DEF GateInit, PushInv, JournalTellsOfPushes

\* What the branches gain takes nothing from what was pushed; the same if the
\* publication is over, or goes on before the remote has answered.
LEMMA AdvanceKeepsPushInv ==
    ASSUME GateInv, PushInv, Advances, UNCHANGED <<journal, pushed>>,
           \/ gate' = gate /\ manifest' = manifest
           \/ gate' \in {"idle", "recording"}
           \/ /\ gate \in {"asking", "pushing"} /\ gate' \in {"pushing", "verifying"}
              /\ manifest' = manifest
    PROVE  PushInv'
<1>1. \A m \in Commits : pushed[m] # NoCommit => pushed[m] \in Behind(remote)'
  BY DEF PushInv, Advances
<1>2. \A m \in Commits : pushed[m] \in past[m] => past'[m] = past[m]
  BY DEF Advances, Made
<1>3. JournalTellsOfPushes'
  BY <1>2 DEF PushInv, JournalTellsOfPushes
<1>4. gate' \notin {"idle", "recording", "confirmed"} => journal[manifest'] = "prepared"
  BY DEF PushInv
<1>5. gate' = "confirming" => manifest' = manifest /\ manifest \in Made /\ gate = "confirming"
  BY DEF GateInv
<1>. QED
  BY <1>1, <1>2, <1>3, <1>4, <1>5 DEF PushInv, Advances

LEMMA GateStepKeepsPushInv ==
    ASSUME GateInv, PushInv, [GateNext]_gateVars
    PROVE  PushInv'
<1>0. /\ journal \in [Commits -> ReleaseStatuses] /\ pushed \in [Commits -> Made \cup {NoCommit}]
      /\ head \in Made /\ Made \subseteq Commits /\ NoCommit \notin Commits
  BY GateAssumption DEF GateInv, GateTypeOK, Made
<1>. Advances
  BY GateStepKeepsInv
<1>1. CASE UNCHANGED gateVars
  BY <1>1, AdvanceKeepsPushInv DEF gateVars
<1>2. CASE PersonCommits \/ PersonPulls \/ OtherPushes \/ \E c \in Commits : PersonSwitches(c)
  BY <1>2, AdvanceKeepsPushInv DEF PersonCommits, PersonPulls, OtherPushes, PersonSwitches
<1>3. CASE ReadHead \/ AskRemote \/ PushRefused \/ HeadHasMoved \/ PublishFails \/ PublishReturns
  <2>1. UNCHANGED <<journal, pushed>>
    BY <1>3 DEF ReadHead, AskRemote, PushRefused, HeadHasMoved, PublishFails, PublishReturns
  <2>2. \/ gate' \in {"idle", "recording"}
        \/ gate = "asking" /\ gate' \in {"pushing", "verifying"} /\ manifest' = manifest
    BY <1>3 DEF ReadHead, AskRemote, PushRefused, HeadHasMoved, PublishFails, PublishReturns, Step, Ends
  <2>. QED
    BY <2>1, <2>2, AdvanceKeepsPushInv
<1>4. CASE Prepare
  <2>1. /\ manifest \in Made /\ gate' = "asking" /\ UNCHANGED <<past, remote, manifest, pushed>>
        /\ journal' = [journal EXCEPT ![manifest] = "prepared"]
    BY <1>4 DEF Prepare, Recorded, Step, gitVars, GateInv
  <2>. QED
    BY <1>0, <2>1 DEF PushInv, JournalTellsOfPushes, Behind
<1>5. CASE Push \/ PushUnanswered
  <2>1. /\ gate = "pushing" /\ manifest \in Made /\ UNCHANGED <<past, journal>>
        /\ (gate' = "verifying" /\ manifest' = manifest) \/ gate' = "idle"
        /\ remote' = head /\ pushed' = [pushed EXCEPT ![manifest] = head]
    BY <1>5 DEF Push, PushUnanswered, PushedHead, Step, Ends, GateInv
  <2>2. \A m \in Commits : pushed'[m] = IF m = manifest THEN head ELSE pushed[m]
    BY <1>0, <2>1
  <2>3. journal[manifest] = "prepared"
    BY <2>1 DEF PushInv
  <2>4. head \in Behind(remote)' /\ Behind(remote) \subseteq Behind(remote)'
    BY <1>0, <2>1 DEF Behind, Advances, GateInv, PastIsClosed
  <2>5. \A m \in Commits : pushed'[m] # NoCommit => pushed'[m] \in Behind(remote)'
    BY <2>2, <2>4 DEF PushInv
  <2>6. JournalTellsOfPushes'
    BY <2>1, <2>2, <2>3 DEF PushInv, JournalTellsOfPushes
  <2>. QED
    BY <2>1, <2>3, <2>5, <2>6 DEF PushInv
<1>6. CASE VerifyRemote
  <2>1. gate = "verifying" /\ UNCHANGED <<past, remote, journal, pushed>>
    BY <1>6 DEF VerifyRemote, Step, Ends, gitVars
  <2>2. CASE remote = manifest
    <3>1. gate' = "confirming" /\ manifest' = manifest /\ manifest \in Made
      BY <1>6, <2>1, <2>2 DEF VerifyRemote, Step, GateInv
    <3>2. Behind(remote) = past[manifest]
      BY <1>0, <2>2, <3>1 DEF Behind
    <3>3. pushed[manifest] # NoCommit => pushed[manifest] \in past[manifest]
      BY <1>0, <3>1, <3>2 DEF PushInv
    <3>. QED
      BY <2>1, <3>1, <3>3 DEF PushInv, JournalTellsOfPushes, Behind
  <2>3. CASE remote # manifest
    BY <1>6, <2>1, <2>3, AdvanceKeepsPushInv DEF VerifyRemote, Ends
  <2>. QED
    BY <2>2, <2>3
<1>7. CASE Confirm
  <2>1. /\ gate = "confirming" /\ manifest \in Made /\ gate' = "confirmed"
        /\ UNCHANGED <<past, remote, manifest, pushed>>
        /\ journal' = [journal EXCEPT ![manifest] = "git_confirmed"]
    BY <1>7 DEF Confirm, Recorded, Step, gitVars, GateInv
  <2>. QED
    BY <1>0, <2>1 DEF PushInv, JournalTellsOfPushes, Behind
<1>. QED
  BY <1>1, <1>2, <1>3, <1>4, <1>5, <1>6, <1>7 DEF GateNext, GateStep, GateFault

\* Whatever was pushed, the manifest it was pushed under is on disk, and is
\* confirmed only if its commit contains what was pushed: HEAD may move at any
\* step, pushes may go unanswered, and publishers die, any number of times.
THEOREM JournalCorrect == GateSpec => []JournalTellsOfPushes
<1>1. GateInv /\ PushInv /\ [GateNext]_gateVars => GateInv' /\ PushInv'
  BY GateStepKeepsInv, GateStepKeepsPushInv
<1>2. PushInv => JournalTellsOfPushes
  BY DEF PushInv
<1>. QED
  BY GateInvInit, PushInvInit, <1>1, <1>2, PTL DEF GateSpec

-----------------------------------------------------------------------------
(* The workflow that serves what was pushed *)

\* What is built, deployed or served has been the head of the branch, and is
\* on it for ever; what some edge answers with was served.
DeployInv ==
    /\ GateInv
    /\ deploy # "none" => checkout \in Behind(remote)
    /\ edges \subseteq served
    /\ ReceiptsAreEarned

LEMMA DeployInvInit == ReleaseInit => DeployInv
BY GateInvInit DEF ReleaseInit, DeployInv, ReceiptsAreEarned

\* The workflow leaves the repository alone.
LEMMA GateOrStutter == [ReleaseNext]_releaseVars => [GateNext]_gateVars
BY DEF ReleaseNext, releaseVars, DeployNext, StartWorkflow, DeployPages, Matched, TriesAgain, NotVerified,
       EdgeServes, EdgeExpires

LEMMA DeployStepKeepsInv == DeployInv /\ [ReleaseNext]_releaseVars => DeployInv'
<1>. SUFFICES ASSUME DeployInv, [ReleaseNext]_releaseVars PROVE DeployInv'
  OBVIOUS
<1>1. GateInv' /\ Behind(remote) \subseteq Behind(remote)'
  BY GateOrStutter, GateStepKeepsInv DEF DeployInv, Advances
<1>2. CASE UNCHANGED deployVars
  BY <1>1, <1>2 DEF deployVars, DeployInv, ReceiptsAreEarned
<1>3. CASE StartWorkflow
  <2>1. checkout' \in Behind(remote)
    BY <1>3, GateAssumption DEF StartWorkflow, DeployInv, GateInv, GateTypeOK, PastIsClosed, Behind
  <2>. QED
    BY <1>1, <1>3, <2>1 DEF StartWorkflow, DeployInv, ReceiptsAreEarned
<1>4. CASE Matched
  <2>1. checkout \in served /\ checkout \in Behind(remote)
    BY <1>4 DEF Matched, Matches, DeployInv
  <2>. QED
    BY <1>1, <1>4, <2>1 DEF Matched, DeployInv, ReceiptsAreEarned
<1>5. CASE DeployPages \/ TriesAgain \/ NotVerified \/ \E c \in Commits : EdgeServes(c) \/ EdgeExpires(c)
  BY <1>1, <1>5 DEF DeployPages, TriesAgain, NotVerified, EdgeServes, EdgeExpires, DeployInv, ReceiptsAreEarned
<1>. QED
  BY <1>2, <1>3, <1>4, <1>5 DEF ReleaseNext, DeployNext, releaseVars

\* Pushing, deploying and reading back together keep the gate's promises, and a
\* receipt is of a commit that was served and is on the branch.
THEOREM ReleaseCorrect ==
    ReleaseSpec => [](ConfirmedIsPublished /\ JournalTellsOfPushes /\ ReceiptsAreEarned)
<1>1. ReleaseInit => DeployInv /\ PushInv
  BY DeployInvInit, PushInvInit DEF ReleaseInit
<1>2. DeployInv /\ PushInv /\ [ReleaseNext]_releaseVars => DeployInv' /\ PushInv'
  BY DeployStepKeepsInv, GateOrStutter, GateStepKeepsPushInv DEF DeployInv
<1>3. DeployInv /\ PushInv => ConfirmedIsPublished /\ JournalTellsOfPushes /\ ReceiptsAreEarned
  BY DEF DeployInv, GateInv, PushInv
<1>. QED
  BY <1>1, <1>2, <1>3, PTL DEF ReleaseSpec
=============================================================================
