----------------------------- MODULE PrivateReview -----------------------------
(***************************************************************************)
(* Review of what the model proposes (scripts/private_review.py): a        *)
(* candidate is captured under .state, approved there, and promoted into   *)
(* the public Wiki by a command of its own.                                *)
(*                                                                         *)
(* A candidate says of each path it changes what was there before and what *)
(* shall be there after; its name is the hash of that, so it is its own    *)
(* name here.  The three commands are run by hand, perhaps twice at once,  *)
(* while the Wiki is edited and files under .state may be damaged.         *)
(* MayRestore and DamageAnyTime say how far that may go; the record of a   *)
(* promotion does not depend on them, what it overwrites does.             *)
(*                                                                         *)
(* apply_transaction is one step, as AtomicWiki, which CompileTransaction  *)
(* implements, allows; one that dies half way is rolled back by the next.  *)
(***************************************************************************)
EXTENDS Naturals, FiniteSets

CONSTANTS
    Operators,      \* processes that promote
    Paths,
    Texts,
    NoFile,
    Originals,      \* trees the Wiki may start with
    Drafts,         \* trees the model may come up with
    ByHand,         \* what a person may write into a file, or NoFile
    Links,          \* <<text, path>>: that text links to that page
    Garbage,        \* what a damaged file holds
    MayRestore,     \* may a person, or the model, put back a text that a candidate was made from?
    DamageAnyTime,  \* may a file be damaged while a promotion reads it?
    MaxCaptured,    \* bound: candidates
    MaxEvents       \* bound: edits by hand, damages and crashes

Contents == Texts \cup {NoFile, Garbage}
Trees == [Paths -> Contents]
Candidates == UNION {[touched -> [before : Contents, after : Contents]] : touched \in (SUBSET Paths) \ {{}}}
NoCandidate == <<>>

ASSUME ReviewAssumption ==
    /\ Garbage \notin Texts /\ NoFile \notin Texts /\ Garbage # NoFile
    /\ Originals \cup Drafts \subseteq [Paths -> Texts \cup {NoFile}]
    /\ ByHand \subseteq Texts \cup {NoFile}
    /\ Links \subseteq Texts \X Paths
    /\ MayRestore \in BOOLEAN /\ DamageAnyTime \in BOOLEAN
    /\ MaxCaptured \in Nat /\ MaxEvents \in Nat

VARIABLES
    wiki,           \* the public files
    captured,       \* .state/review-candidates
    approved,       \* .state/approved-knowledge
    damaged,        \* <<store, candidate>> whose bytes are not what they were
    promotion,      \* .state/public-promotions: "none", "prepared", "applied_locally"
    interrupted,    \* an apply has died half way
    op,             \* each promotion: what it does next, and its locals
    applied,        \* observer: candidates that were put into the Wiki
    events

reviewVars == <<wiki, captured, approved, damaged, promotion, interrupted, op, applied, events>>

Idle == [at |-> "idle", candidate |-> NoCandidate, desired |-> NoCandidate, snapshot |-> NoCandidate]
Records == {"none", "prepared", "applied_locally"}
Record(c) == IF c \in DOMAIN promotion THEN promotion[c] ELSE "none"

\* The Wiki after a candidate, or after what was read of it.
Overlay(tree, c) == [p \in Paths |-> IF p \in DOMAIN c THEN c[p].after ELSE tree[p]]

\* No page links to a page that is not there.
Lints(tree) == \A p \in Paths : \A q \in Paths : <<tree[p], q>> \in Links => tree[q] # NoFile

\* _read_bundle: name, manifest and blobs agree.
Readable(c, store) ==
    /\ c \in IF store = "approved" THEN approved ELSE captured
    /\ <<store, c>> \notin damaged

\* _check_public_base.
BaseUnchanged(c) == \A p \in DOMAIN c : wiki[p] = c[p].before

-----------------------------------------------------------------------------
ReviewInit ==
    /\ wiki \in Originals
    /\ captured = {} /\ approved = {} /\ damaged = {} /\ applied = {}
    /\ promotion = <<>>
    /\ interrupted = FALSE
    /\ op = [o \in Operators |-> Idle]
    /\ events = 0

Happens == events < MaxEvents /\ events' = events + 1

\* No candidate was made from a file with that text.
IsNew(p, text) == \A c \in captured : p \in DOMAIN c => c[p].before # text

EditByHand(p, text) ==
    /\ Happens
    /\ wiki[p] # text
    /\ MayRestore \/ IsNew(p, text)
    /\ wiki' = [wiki EXCEPT ![p] = text]
    /\ UNCHANGED <<captured, approved, damaged, promotion, interrupted, op, applied>>

Damage(store, c) ==
    /\ Happens
    /\ Readable(c, store)
    /\ DamageAnyTime \/ \A o \in Operators : op[o].at = "idle"
    /\ damaged' = damaged \cup {<<store, c>>}
    /\ UNCHANGED <<wiki, captured, approved, promotion, interrupted, op, applied>>

\* capture_candidate: changed_paths between the staged tree and the draft.
\* A bundle of that name is there complete, or not at all.
Capture(draft) ==
    LET touched == {p \in Paths : draft[p] # wiki[p]}
        c == [p \in touched |-> [before |-> wiki[p], after |-> draft[p]]]
    IN  /\ touched # {}
        /\ MayRestore \/ \A p \in touched : IsNew(p, draft[p])
        /\ Cardinality(captured \cup {c}) <= MaxCaptured
        /\ captured' = captured \cup {c}
        /\ UNCHANGED <<wiki, approved, damaged, promotion, interrupted, op, applied, events>>

\* approve_private: a copy of a readable candidate; one that was approved
\* before is only read again, and may be refused for good.
ApprovePrivate(c) ==
    /\ Readable(c, "candidate") /\ BaseUnchanged(c)
    /\ approved' = approved \cup {c}
    /\ UNCHANGED <<wiki, captured, damaged, promotion, interrupted, op, applied, events>>

(* promote_public *)

Continues(o, from, to) == op[o].at = from /\ op' = [op EXCEPT ![o].at = to]
GivesUp(o) == op' = [op EXCEPT ![o] = Idle]

ReadApproved(o, c) ==
    /\ op[o].at = "idle"
    /\ Readable(c, "approved") /\ BaseUnchanged(c)
    /\ op' = [op EXCEPT ![o] = [Idle EXCEPT !.at = "staging", !.candidate = c]]
    /\ UNCHANGED <<wiki, captured, approved, damaged, promotion, interrupted, applied, events>>

\* The bytes to write are read from the blobs once more; the tree is copied,
\* overlaid and linted.
StageAndLint(o) ==
    LET c == op[o].candidate
        read == IF <<"approved", c>> \in damaged
                THEN [p \in DOMAIN c |-> [c[p] EXCEPT !.after = Garbage]] ELSE c
    IN  /\ op[o].at = "staging"
        /\ op' = [op EXCEPT ![o] = IF Lints(Overlay(wiki, read))
                                   THEN [@ EXCEPT !.at = "linted", !.desired = read] ELSE Idle]
        /\ UNCHANGED <<wiki, captured, approved, damaged, promotion, interrupted, applied, events>>

Snapshot(o) ==
    /\ op[o].at = "linted"
    /\ op' = [op EXCEPT ![o].at = "checking", ![o].snapshot = wiki]
    /\ UNCHANGED <<wiki, captured, approved, damaged, promotion, interrupted, applied, events>>

\* Fault: the base was checked when the promotion began.
CheckedBefore(o) ==
    /\ op[o].at = "checking"
    /\ Continues(o, "checking", "recording")
    /\ UNCHANGED <<wiki, captured, approved, damaged, promotion, interrupted, applied, events>>

CheckBase(o) ==
    /\ op[o].at = "checking"
    /\ IF BaseUnchanged(op[o].candidate) THEN Continues(o, "checking", "recording") ELSE GivesUp(o)
    /\ UNCHANGED <<wiki, captured, approved, damaged, promotion, interrupted, applied, events>>

\* Fault: a state nobody knows.
RecordedAs(c, state) == [d \in DOMAIN promotion \cup {c} |-> IF d = c THEN <<state>> ELSE promotion[d]]

Recorded(c, state) == [d \in DOMAIN promotion \cup {c} |-> IF d = c THEN state ELSE promotion[d]]

\* Fault: the record is written when all is done.
RecordsLater(o) ==
    /\ Continues(o, "recording", "applying")
    /\ UNCHANGED <<wiki, captured, approved, damaged, promotion, interrupted, applied, events>>

RecordIntent(o) ==
    /\ Continues(o, "recording", "applying")
    /\ promotion' = Recorded(op[o].candidate, "prepared")
    /\ UNCHANGED <<wiki, captured, approved, damaged, interrupted, applied, events>>

\* apply_transaction, in the lock: nothing to recover, the snapshot still holds.
Apply(o) ==
    /\ ~interrupted /\ wiki = op[o].snapshot
    /\ Continues(o, "applying", "applied")
    /\ wiki' = Overlay(wiki, op[o].desired)
    /\ applied' = applied \cup {op[o].candidate}
    /\ UNCHANGED <<captured, approved, damaged, promotion, interrupted, events>>

\* The Wiki was edited, or another promotion's rest had to be rolled back.
ApplyRefused(o) ==
    /\ op[o].at = "applying"
    /\ interrupted \/ wiki # op[o].snapshot
    /\ GivesUp(o)
    /\ interrupted' = FALSE
    /\ UNCHANGED <<wiki, captured, approved, damaged, promotion, applied, events>>

RecordApplied(o) ==
    /\ op[o].at = "applied"
    /\ GivesUp(o)
    /\ promotion' = Recorded(op[o].candidate, "applied_locally")
    /\ UNCHANGED <<wiki, captured, approved, damaged, interrupted, applied, events>>

\* The process dies; in the middle of the writes the journal remembers it.
Crash(o) ==
    /\ Happens
    /\ op[o].at # "idle"
    /\ GivesUp(o)
    /\ interrupted' \in IF op[o].at = "applying" /\ wiki = op[o].snapshot THEN BOOLEAN ELSE {interrupted}
    /\ UNCHANGED <<wiki, captured, approved, damaged, promotion, applied>>

Promote(o) ==
    \/ \E c \in approved : ReadApproved(o, c)
    \/ StageAndLint(o) \/ Snapshot(o) \/ CheckBase(o) \/ RecordIntent(o)
    \/ Apply(o) \/ ApplyRefused(o) \/ RecordApplied(o) \/ Crash(o)

ReviewNext ==
    \/ \E p \in Paths, text \in ByHand : EditByHand(p, text)
    \/ \E c \in captured : Damage("candidate", c)
    \/ \E c \in approved : Damage("approved", c)
    \/ \E draft \in Drafts : Capture(draft)
    \/ \E c \in captured : ApprovePrivate(c)
    \/ \E o \in Operators : Promote(o)

ReviewSpec == ReviewInit /\ [][ReviewNext]_reviewVars

-----------------------------------------------------------------------------
\* Types.
ReviewTypeOK ==
    /\ wiki \in Trees
    /\ captured \subseteq Candidates
    /\ approved \subseteq captured
    /\ damaged \subseteq {"candidate", "approved"} \X captured
    /\ promotion \in [DOMAIN promotion -> Records] /\ DOMAIN promotion \subseteq approved
    /\ interrupted \in BOOLEAN
    /\ applied \subseteq approved
    /\ events \in 0..MaxEvents

Applies(o) == op[o].at = "applying" /\ op'[o].at = "applied"

\* A promotion puts exactly an approved candidate into the Wiki, and only over
\* the very files it was made from: an edit made by hand, or by the other
\* promotion, before, during or between the checks is not lost
\* (private_review.py:251, :277 and :278).  Under MayRestore = FALSE and DamageAnyTime =
\* FALSE only: who puts an old text back during the checks, or damages a file
\* under .state after it was read, is not noticed.
OnlyApprovedOverItsBase ==
    [][\A o \in Operators : Applies(o) =>
            \E c \in approved : BaseUnchanged(c) /\ wiki' = Overlay(wiki, c)]_reviewVars

\* The intent is on disk before a public file changes: whatever was applied
\* has a record, also after a crash; and a record never claims an application
\* that has not been.
RecordsTellTheTruth ==
    /\ \A c \in applied : Record(c) # "none"
    /\ \A c \in captured : Record(c) = "applied_locally" => c \in applied

=============================================================================
