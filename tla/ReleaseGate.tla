------------------------------ MODULE ReleaseGate ------------------------------
(***************************************************************************)
(* publish_head (scripts/release_gate.py): build the manifest of HEAD,     *)
(* journal it "prepared", ask the remote, push if it differs, ask again,   *)
(* look at HEAD again, journal "git_confirmed".                            *)
(*                                                                         *)
(* One publisher runs at a time (ingest.lock), but the repository is also  *)
(* a person's: HEAD may move between any two steps, other clones push to   *)
(* the same branch, a push may be refused, or be accepted and still report *)
(* an error.  The two commands that build the manifest are one step.  Git  *)
(* itself is external: a commit is a number, known by its ancestors; a     *)
(* push without --force only advances a branch.                            *)
(***************************************************************************)
EXTENDS Naturals

CONSTANTS
    MaxCommits,     \* bound: commits ever made, in all clones
    OthersUntil,    \* bound: other clones make no commit above this number
    NoCommit,       \* the remote branch does not exist
    MaxFaults       \* bound: how many commands fail, or publishers die

Commits == 1..MaxCommits

ASSUME GateAssumption ==
    /\ MaxCommits \in Nat \ {0}
    /\ OthersUntil \in Nat
    /\ NoCommit \notin Commits
    /\ MaxFaults \in Nat

VARIABLES
    past,       \* of each commit: itself and its ancestors; {}: not made yet
    head,       \* commit of HEAD
    remote,     \* commit of refs/heads/<branch> at the remote
    journal,    \* .state/releases: the status of each commit, or "none"
    gate,       \* what publish_head does next
    manifest,   \* the commit its manifest is of
    pushed,     \* observer: the commit last pushed under the manifest of each commit
    faults

gitVars == <<past, head, remote>>
gateVars == <<past, head, remote, journal, gate, manifest, pushed, faults>>

Gates == {"idle", "recording", "asking", "pushing", "verifying", "confirming", "confirmed"}
ReleaseStatuses == {"none", "prepared", "git_confirmed"}

Made == {c \in Commits : past[c] # {}}
Behind(c) == IF c = NoCommit THEN {} ELSE past[c]   \* all that a branch at c holds

-----------------------------------------------------------------------------
GateInit ==
    /\ past = [c \in Commits |-> IF c = 1 THEN {1} ELSE {}]
    /\ head = 1
    /\ remote \in {1, NoCommit}
    /\ journal = [c \in Commits |-> "none"]
    /\ gate = "idle"
    /\ manifest = NoCommit
    /\ pushed = [c \in Commits |-> NoCommit]
    /\ faults = 0

(* The repository and its clones *)

\* A new commit on top of what those branches hold.
MakeCommit(c, heldBefore) ==
    /\ c \in Commits \ Made
    /\ \A d \in Commits \ Made : c <= d
    /\ past' = [past EXCEPT ![c] = {c} \cup heldBefore]

PersonCommits ==
    /\ \E c \in Commits : MakeCommit(c, past[head]) /\ head' = c
    /\ UNCHANGED <<remote, journal, gate, manifest, pushed, faults>>

\* git checkout, or git reset.
PersonSwitches(c) ==
    /\ c \in Made \ {head}
    /\ head' = c
    /\ UNCHANGED <<past, remote, journal, gate, manifest, pushed, faults>>

\* git pull: fast-forward, or a merge.
PersonPulls ==
    /\ remote \in Made \ past[head]
    /\ IF head \in past[remote]
       THEN head' = remote /\ UNCHANGED past
       ELSE \E c \in Commits : MakeCommit(c, past[head] \cup past[remote]) /\ head' = c
    /\ UNCHANGED <<remote, journal, gate, manifest, pushed, faults>>

\* Another clone, up to date, pushes a commit of its own.
OtherPushes ==
    /\ remote # NoCommit
    /\ \E c \in Commits : c <= OthersUntil /\ MakeCommit(c, past[remote]) /\ remote' = c
    /\ UNCHANGED <<head, journal, gate, manifest, pushed, faults>>

(* publish_head *)

Accepts(c) == c \in Made /\ Behind(remote) \subseteq past[c]

PushedHead == [pushed EXCEPT ![manifest] = head]

Step(from, to) == gate = from /\ gate' = to

\* publish_head returns or raises; its manifest is forgotten.
Ends(from) == gate = from /\ gate' = "idle" /\ manifest' = NoCommit

\* build_manifest: git rev-parse HEAD, and git ls-tree HEAD.
ReadHead ==
    /\ Step("idle", "recording")
    /\ manifest' = head
    /\ UNCHANGED <<gitVars, journal, pushed, faults>>

\* Fault: a status of its own.
RecordedAs(status) == [journal EXCEPT ![manifest] = <<status>>]

Recorded(status) == [journal EXCEPT ![manifest] = status]

\* Fault: nothing is written before the network is used.
PreparesNothing ==
    /\ Step("recording", "asking")
    /\ UNCHANGED <<gitVars, journal, manifest, pushed, faults>>

Prepare ==
    /\ Step("recording", "asking")
    /\ journal' = Recorded("prepared")
    /\ UNCHANGED <<gitVars, manifest, pushed, faults>>

AskRemote ==
    /\ IF remote = manifest THEN Step("asking", "verifying") ELSE Step("asking", "pushing")
    /\ UNCHANGED <<gitVars, journal, manifest, pushed, faults>>

\* git push HEAD:refs/heads/<branch>, whatever HEAD is now.
Push ==
    /\ Step("pushing", "verifying")
    /\ Accepts(head)
    /\ remote' = head
    /\ pushed' = PushedHead
    /\ UNCHANGED <<past, head, journal, manifest, faults>>

\* The remote took the push; the command failed all the same.
PushUnanswered ==
    /\ faults < MaxFaults
    /\ Ends("pushing")
    /\ Accepts(head)
    /\ remote' = head
    /\ pushed' = PushedHead
    /\ faults' = faults + 1
    /\ UNCHANGED <<past, head, journal>>

PushRefused ==
    /\ Ends("pushing")
    /\ ~Accepts(head)
    /\ UNCHANGED <<gitVars, journal, pushed, faults>>

\* Fault: the push is believed.
BelievesPush ==
    /\ Step("verifying", "confirming")
    /\ UNCHANGED <<gitVars, journal, manifest, pushed, faults>>

VerifyRemote ==
    /\ IF remote = manifest
       THEN Step("verifying", "confirming") /\ UNCHANGED manifest
       ELSE Ends("verifying")
    /\ UNCHANGED <<gitVars, journal, pushed, faults>>

Confirm ==
    /\ head = manifest
    /\ Step("confirming", "confirmed")
    /\ journal' = Recorded("git_confirmed")
    /\ UNCHANGED <<gitVars, manifest, pushed, faults>>

HeadHasMoved ==
    /\ head # manifest
    /\ Ends("confirming")
    /\ UNCHANGED <<gitVars, journal, pushed, faults>>

\* A git command fails, the disk is full, or the process dies.
PublishFails ==
    /\ faults < MaxFaults
    /\ \E g \in Gates \ {"idle", "confirmed"} : Ends(g)
    /\ faults' = faults + 1
    /\ UNCHANGED <<gitVars, journal, pushed>>

PublishReturns ==
    /\ Ends("confirmed")
    /\ UNCHANGED <<gitVars, journal, pushed, faults>>

\* What publish_head does once it has read HEAD.
GateStep ==
    Prepare \/ AskRemote \/ Push \/ PushRefused \/ VerifyRemote \/ Confirm \/ HeadHasMoved

GateFault == PushUnanswered \/ PublishFails

GateNext ==
    \/ PersonCommits
    \/ PersonPulls
    \/ OtherPushes
    \/ \E c \in Commits : PersonSwitches(c)
    \/ ReadHead
    \/ GateStep
    \/ GateFault
    \/ PublishReturns

GateSpec == GateInit /\ [][GateNext]_gateVars

-----------------------------------------------------------------------------
\* Types.
GateTypeOK ==
    /\ past \in [Commits -> SUBSET Commits]
    /\ head \in Made
    /\ remote \in Made \cup {NoCommit}
    /\ journal \in [Commits -> ReleaseStatuses]
    /\ gate \in Gates
    /\ manifest \in Made \cup {NoCommit}
    /\ pushed \in [Commits -> Made \cup {NoCommit}]
    /\ faults \in 0..MaxFaults

\* A commit journaled "git_confirmed" is part of the remote branch, and stays
\* so whatever is pushed after it, whoever moved HEAD or the branch meanwhile:
\* release_gate.py:179 believes no push.
ConfirmedIsPublished ==
    \A c \in Commits : journal[c] = "git_confirmed" => c \in Behind(remote)

\* "Journal before network I/O" (release_gate.py:158), also when HEAD moves and
\* another commit goes out: whatever was pushed, the manifest it was pushed
\* under is on disk, wherever the publisher died afterwards; and that manifest
\* is not called git_confirmed unless its commit contains all that was pushed
\* under it.
JournalTellsOfPushes ==
    \A m \in Commits :
        pushed[m] # NoCommit =>
            /\ journal[m] # "none"
            /\ journal[m] = "git_confirmed" => pushed[m] \in past[m]
=============================================================================
