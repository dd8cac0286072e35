-------------------------- MODULE PrivateReviewProofs --------------------------
(***************************************************************************)
(* Machine-checked, for any number of operators, candidates, edits,        *)
(* damages and crashes: the records of promotions are true, whatever is    *)
(* restored or damaged meanwhile; and what is promoted is an approved      *)
(* candidate over its own base, if no old text is put back and nothing is  *)
(* damaged while a promotion runs.                                         *)
(***************************************************************************)
EXTENDS PrivateReview, TLAPS

\* Of the locals only the step and the candidate matter here.
Shaped(local) == {"at", "candidate", "desired", "snapshot"} \subseteq DOMAIN local

OpShaped ==
    /\ DOMAIN op = Operators
    /\ \A o \in Operators : Shaped(op[o])

\* What is on disk when a promotion has come to each of its steps.
PromotionOK(o) ==
    /\ op[o].at # "idle" => op[o].candidate \in approved
    /\ op[o].at \in {"applying", "applied"} => op[o].candidate \in DOMAIN promotion
    /\ op[o].at = "applied" => op[o].candidate \in applied

\* Every application has its record, and no record claims one that has not been.
RecordsFit ==
    /\ approved \subseteq captured
    /\ applied \subseteq approved
    /\ \A c \in DOMAIN promotion : promotion[c] \in {"prepared", "applied_locally"}
    /\ applied \subseteq DOMAIN promotion
    /\ \A c \in DOMAIN promotion : promotion[c] = "applied_locally" => c \in applied

ReviewInv ==
    /\ OpShaped
    /\ RecordsFit
    /\ \A o \in Operators : PromotionOK(o)

LEMMA ReviewInvInit == ReviewInit => ReviewInv
BY DEF ReviewInit, ReviewInv, OpShaped, Shaped, Idle, RecordsFit, PromotionOK

LEMMA ReviewInvGives == ReviewInv => RecordsTellTheTruth
BY DEF ReviewInv, RecordsFit, RecordsTellTheTruth, Record

\* Steps that only add candidates, approvals, records or applications.
Grows ==
    /\ captured \subseteq captured' /\ approved \subseteq approved' /\ applied \subseteq applied'
    /\ DOMAIN promotion \subseteq DOMAIN promotion'

\* The one promotion that moves has what its next step needs; the others keep theirs.
LEMMA OneMoves ==
    ASSUME ReviewInv, Grows, RecordsFit', NEW o \in Operators, NEW local,
           Shaped(local), op' = [op EXCEPT ![o] = local],
           local.at # "idle" => local.candidate \in approved',
           local.at \in {"applying", "applied"} => local.candidate \in DOMAIN promotion',
           local.at = "applied" => local.candidate \in applied'
    PROVE  ReviewInv'
<1>1. \A p \in Operators : op'[p] = IF p = o THEN local ELSE op[p]
  BY DEF ReviewInv, OpShaped
<1>2. OpShaped'
  BY <1>1 DEF ReviewInv, OpShaped
<1>3. \A p \in Operators : PromotionOK(p)'
  BY <1>1 DEF ReviewInv, PromotionOK, Grows
<1>. QED
  BY <1>2, <1>3 DEF ReviewInv

LEMMA NoneMoves ==
    ASSUME ReviewInv, Grows, RecordsFit', UNCHANGED op
    PROVE  ReviewInv'
BY DEF ReviewInv, OpShaped, PromotionOK, Grows

LEMMA PromoteKeepsInv ==
    ASSUME ReviewInv, NEW o \in Operators, Promote(o)
    PROVE  ReviewInv'
<1>0. Shaped(op[o]) /\ Shaped(Idle) /\ Idle.at = "idle" /\ RecordsFit /\ PromotionOK(o) /\ op[o] = op[o]
  BY DEF ReviewInv, OpShaped, Shaped, Idle
<1>1. ASSUME NEW c \in approved, ReadApproved(o, c) PROVE ReviewInv'
  <2>. DEFINE local == [Idle EXCEPT !.at = "staging", !.candidate = c]
  <2>1. Shaped(local) /\ local.at = "staging" /\ local.candidate = c
    BY <1>0 DEF Shaped
  <2>2. op' = [op EXCEPT ![o] = local] /\ Grows /\ RecordsFit' /\ approved' = approved
    BY <1>0, <1>1 DEF ReadApproved, Grows, RecordsFit
  <2>. HIDE DEF local
  <2>. QED
    BY <2>1, <2>2, OneMoves
<1>2. CASE StageAndLint(o)
  <2>1. PICK read : \/ op' = [op EXCEPT ![o] = [op[o] EXCEPT !.at = "linted", !.desired = read]]
                    \/ op' = [op EXCEPT ![o] = Idle]
    BY <1>2 DEF StageAndLint
  <2>. DEFINE local == [op[o] EXCEPT !.at = "linted", !.desired = read]
  <2>2. Shaped(local) /\ local.at = "linted" /\ local.candidate = op[o].candidate
    BY <1>0 DEF Shaped
  <2>3. Grows /\ RecordsFit' /\ approved' = approved /\ op[o].candidate \in approved
    BY <1>0, <1>2 DEF StageAndLint, Grows, RecordsFit, PromotionOK
  <2>. HIDE DEF local
  <2>4. op' = [op EXCEPT ![o] = local] \/ op' = [op EXCEPT ![o] = Idle]
    BY <2>1 DEF local
  <2>. QED
    BY <1>0, <2>2, <2>3, <2>4, OneMoves
<1>3. CASE Snapshot(o)
  <2>. DEFINE local == [op[o] EXCEPT !.at = "checking", !.snapshot = wiki]
  <2>1. Shaped(local) /\ local.at = "checking" /\ local.candidate = op[o].candidate
    BY <1>0 DEF Shaped
  <2>2. Grows /\ RecordsFit' /\ approved' = approved /\ op[o].candidate \in approved
    BY <1>0, <1>3 DEF Snapshot, Grows, RecordsFit, PromotionOK
  <2>3. op' = [op EXCEPT ![o] = local]
    BY <1>0, <1>3 DEF Snapshot, ReviewInv, OpShaped
  <2>. HIDE DEF local
  <2>. QED
    BY <2>1, <2>2, <2>3, OneMoves
<1>4. ASSUME NEW from, NEW to, Continues(o, from, to)
      PROVE  \E local : /\ Shaped(local) /\ local.at = to /\ local.candidate = op[o].candidate
                        /\ op' = [op EXCEPT ![o] = local]
  <2>. DEFINE local == [op[o] EXCEPT !.at = to]
  <2>1. Shaped(local) /\ local.at = to /\ local.candidate = op[o].candidate
    BY <1>0 DEF Shaped
  <2>2. op' = [op EXCEPT ![o] = local]
    BY <1>4 DEF Continues
  <2>. QED
    BY <2>1, <2>2
<1>5. CASE CheckBase(o)
  <2>1. Grows /\ RecordsFit' /\ approved' = approved /\ op[o].candidate \in approved
    BY <1>0, <1>5 DEF CheckBase, Grows, RecordsFit, PromotionOK
  <2>2. CASE Continues(o, "checking", "recording")
    BY <1>4, <2>1, <2>2, OneMoves
  <2>3. CASE GivesUp(o)
    BY <1>0, <2>1, <2>3, OneMoves DEF GivesUp
  <2>. QED
    BY <1>5, <2>2, <2>3 DEF CheckBase
<1>6. CASE RecordIntent(o)
  <2>1. /\ Continues(o, "recording", "applying") /\ op[o].candidate \in approved
        /\ promotion' = Recorded(op[o].candidate, "prepared")
        /\ UNCHANGED <<captured, approved, applied>>
    BY <1>0, <1>6 DEF RecordIntent, Continues, PromotionOK
  <2>2. /\ DOMAIN promotion' = DOMAIN promotion \cup {op[o].candidate}
        /\ promotion'[op[o].candidate] = "prepared"
        /\ \A d \in DOMAIN promotion : d # op[o].candidate => promotion'[d] = promotion[d]
    BY <2>1 DEF Recorded
  <2>3. Grows /\ RecordsFit' /\ op[o].candidate \in DOMAIN promotion'
    BY <1>0, <2>1, <2>2 DEF Grows, RecordsFit
  <2>. QED
    BY <1>4, <2>1, <2>3, OneMoves
<1>7. CASE Apply(o)
  <2>1. /\ Continues(o, "applying", "applied") /\ op[o].candidate \in approved
        /\ op[o].candidate \in DOMAIN promotion
        /\ applied' = applied \cup {op[o].candidate}
        /\ UNCHANGED <<captured, approved, promotion>>
    BY <1>0, <1>7 DEF Apply, Continues, PromotionOK
  <2>2. Grows /\ RecordsFit'
    BY <1>0, <2>1 DEF Grows, RecordsFit
  <2>. QED
    BY <1>4, <2>1, <2>2, OneMoves
<1>8. CASE ApplyRefused(o) \/ Crash(o)
  <2>1. Grows /\ RecordsFit' /\ GivesUp(o)
    BY <1>0, <1>8 DEF ApplyRefused, Crash, Grows, RecordsFit
  <2>. QED
    BY <1>0, <2>1, OneMoves DEF GivesUp
<1>9. CASE RecordApplied(o)
  <2>1. /\ GivesUp(o) /\ op[o].candidate \in applied
        /\ promotion' = Recorded(op[o].candidate, "applied_locally")
        /\ UNCHANGED <<captured, approved, applied>>
    BY <1>0, <1>9 DEF RecordApplied, PromotionOK
  <2>2. /\ DOMAIN promotion' = DOMAIN promotion \cup {op[o].candidate}
        /\ promotion'[op[o].candidate] = "applied_locally"
        /\ \A d \in DOMAIN promotion : d # op[o].candidate => promotion'[d] = promotion[d]
    BY <2>1 DEF Recorded
  <2>3. Grows /\ RecordsFit'
    BY <1>0, <2>1, <2>2 DEF Grows, RecordsFit
  <2>. QED
    BY <1>0, <2>1, <2>3, OneMoves DEF GivesUp
<1>. QED
  BY <1>1, <1>2, <1>3, <1>5, <1>6, <1>7, <1>8, <1>9 DEF Promote

LEMMA ReviewInvStep == ReviewInv /\ [ReviewNext]_reviewVars => ReviewInv'
<1>. SUFFICES ASSUME ReviewInv, [ReviewNext]_reviewVars PROVE ReviewInv'
  OBVIOUS
<1>1. CASE UNCHANGED reviewVars
  BY <1>1 DEF reviewVars, ReviewInv, OpShaped, RecordsFit, PromotionOK
<1>2. CASE \/ \E p \in Paths, text \in ByHand : EditByHand(p, text)
           \/ \E c \in captured : Damage("candidate", c)
           \/ \E c \in approved : Damage("approved", c)
  <2>1. UNCHANGED <<captured, approved, promotion, op, applied>>
    BY <1>2 DEF EditByHand, Damage
  <2>. QED
    BY <2>1, NoneMoves DEF Grows, ReviewInv, RecordsFit
<1>3. CASE (\E draft \in Drafts : Capture(draft)) \/ (\E c \in captured : ApprovePrivate(c))
  <2>1. /\ captured \subseteq captured' /\ approved \subseteq approved' /\ approved' \subseteq captured'
        /\ UNCHANGED <<promotion, op, applied>>
    BY <1>3 DEF Capture, ApprovePrivate, ReviewInv, RecordsFit
  <2>. QED
    BY <2>1, NoneMoves DEF Grows, ReviewInv, RecordsFit
<1>. QED
  BY <1>1, <1>2, <1>3, PromoteKeepsInv DEF ReviewNext

\* What was put into the public Wiki has its record, also after a crash, and no
\* record claims what has not been: even if texts are restored and files are
\* damaged at any time.
THEOREM RecordsCorrect == ReviewSpec => []RecordsTellTheTruth
BY ReviewInvInit, ReviewInvStep, ReviewInvGives, PTL DEF ReviewSpec

-----------------------------------------------------------------------------
(* The steps of a promotion *)

LEMMA ReviewInvariant == ReviewSpec => []ReviewInv
BY ReviewInvInit, ReviewInvStep, PTL DEF ReviewSpec

\* What StageAndLint reads of an approved candidate.
BytesRead(c) ==
    IF <<"approved", c>> \in damaged THEN [p \in DOMAIN c |-> [c[p] EXCEPT !.after = Garbage]] ELSE c

Goes(o, from, to) ==
    op[o].at = from /\ op'[o].at = to /\ op'[o].candidate = op[o].candidate

Reads(o) ==
    \E c \in approved : /\ ReadApproved(o, c) /\ op'[o].at = "staging" /\ op'[o].candidate = c
Stages(o) ==
    StageAndLint(o) /\ Goes(o, "staging", "linted") /\ op'[o].desired = BytesRead(op[o].candidate)
Looks(o) ==
    /\ Snapshot(o) /\ Goes(o, "linted", "checking")
    /\ op'[o].desired = op[o].desired /\ op'[o].snapshot = wiki
Advances(o) ==
    /\ \/ CheckBase(o) /\ Goes(o, "checking", "recording") /\ BaseUnchanged(op[o].candidate)
       \/ RecordIntent(o) /\ Goes(o, "recording", "applying")
       \/ Apply(o) /\ Goes(o, "applying", "applied")
    /\ op'[o].desired = op[o].desired /\ op'[o].snapshot = op[o].snapshot

\* A promotion moves alone, and to its next step or to its end.
LEMMA OneStep ==
    ASSUME OpShaped, NEW o \in Operators, Promote(o)
    PROVE  /\ \A p \in Operators \ {o} : op'[p] = op[p]
           /\ op'[o].at = "idle" \/ Reads(o) \/ Stages(o) \/ Looks(o) \/ Advances(o)
<1>0. Shaped(op[o]) /\ Idle.at = "idle" /\ Shaped(Idle)
  BY DEF OpShaped, Shaped, Idle
<1>1. ASSUME NEW local, op' = [op EXCEPT ![o] = local]
      PROVE  op'[o] = local /\ \A p \in Operators \ {o} : op'[p] = op[p]
  BY <1>1 DEF OpShaped
<1>2. CASE GivesUp(o)
  BY <1>0, <1>1, <1>2 DEF GivesUp
<1>3. ASSUME NEW c \in approved, ReadApproved(o, c)
      PROVE  Reads(o) /\ \A p \in Operators \ {o} : op'[p] = op[p]
  <2>. DEFINE local == [Idle EXCEPT !.at = "staging", !.candidate = c]
  <2>1. local.at = "staging" /\ local.candidate = c
    BY <1>0 DEF Shaped
  <2>2. op' = [op EXCEPT ![o] = local]
    BY <1>3 DEF ReadApproved
  <2>. HIDE DEF local
  <2>. QED
    BY <1>1, <1>3, <2>1, <2>2 DEF Reads
<1>4. CASE StageAndLint(o)
  <2>. DEFINE local == [op[o] EXCEPT !.at = "linted", !.desired = BytesRead(op[o].candidate)]
  <2>1. /\ local.at = "linted" /\ local.candidate = op[o].candidate
        /\ local.desired = BytesRead(op[o].candidate)
    BY <1>0 DEF Shaped
  <2>2. op' = [op EXCEPT ![o] = local] \/ GivesUp(o)
    BY <1>4 DEF StageAndLint, BytesRead, GivesUp
  <2>3. op[o].at = "staging"
    BY <1>4 DEF StageAndLint
  <2>. HIDE DEF local
  <2>. QED
    BY <1>1, <1>2, <1>4, <2>1, <2>2, <2>3 DEF Stages, Goes
<1>5. CASE Snapshot(o)
  <2>. DEFINE local == [op[o] EXCEPT !.at = "checking", !.snapshot = wiki]
  <2>1. /\ local.at = "checking" /\ local.candidate = op[o].candidate /\ local.desired = op[o].desired
        /\ local.snapshot = wiki
    BY <1>0 DEF Shaped
  <2>2. op' = [op EXCEPT ![o] = local] /\ op[o].at = "linted"
    BY <1>0, <1>5 DEF Snapshot, OpShaped
  <2>. HIDE DEF local
  <2>. QED
    BY <1>1, <1>5, <2>1, <2>2 DEF Looks, Goes
<1>6. ASSUME NEW from, NEW to, Continues(o, from, to)
      PROVE  /\ Goes(o, from, to) /\ op'[o].desired = op[o].desired /\ op'[o].snapshot = op[o].snapshot
             /\ \A p \in Operators \ {o} : op'[p] = op[p]
  <2>. DEFINE local == [op[o] EXCEPT !.at = to]
  <2>1. /\ local.at = to /\ local.candidate = op[o].candidate /\ local.desired = op[o].desired
        /\ local.snapshot = op[o].snapshot
    BY <1>0 DEF Shaped
  <2>2. op' = [op EXCEPT ![o] = local] /\ op[o].at = from
    BY <1>6 DEF Continues
  <2>. HIDE DEF local
  <2>. QED
    BY <1>1, <2>1, <2>2 DEF Goes
<1>7. CASE CheckBase(o) /\ Continues(o, "checking", "recording")
  <2>1. BaseUnchanged(op[o].candidate)
    BY <1>7 DEF CheckBase, GivesUp, Continues, Idle, OpShaped
  <2>. QED
    BY <1>6, <1>7, <2>1 DEF Advances
<1>8. CASE RecordIntent(o)
  BY <1>6, <1>8 DEF RecordIntent, Advances
<1>9. CASE Apply(o)
  BY <1>6, <1>9 DEF Apply, Advances
<1>. QED
  BY <1>2, <1>3, <1>4, <1>5, <1>7, <1>8, <1>9 DEF Promote, CheckBase, ApplyRefused, RecordApplied, Crash

-----------------------------------------------------------------------------
(* Types *)

LEMMA CandidateShape ==
    ASSUME NEW c \in Candidates
    PROVE  /\ DOMAIN c \subseteq Paths
           /\ \A p \in DOMAIN c : c[p].before \in Contents /\ c[p].after \in Contents
           /\ c = [p \in DOMAIN c |-> [before |-> c[p].before, after |-> c[p].after]]
<1>1. PICK touched \in (SUBSET Paths) \ {{}} : c \in [touched -> [before : Contents, after : Contents]]
  BY DEF Candidates
<1>. QED
  BY <1>1

LEMMA MakesCandidate ==
    ASSUME NEW touched \in SUBSET Paths, touched # {}, NEW c,
           c \in [touched -> [before : Contents, after : Contents]]
    PROVE  c \in Candidates
<1>1. touched \in (SUBSET Paths) \ {{}}
  OBVIOUS
<1>2. [touched -> [before : Contents, after : Contents]] \in
         {[t -> [before : Contents, after : Contents]] : t \in (SUBSET Paths) \ {{}}}
  BY <1>1
<1>. QED
  BY <1>2, Zenon DEF Candidates

LEMMA OverlayType ==
    ASSUME NEW tree \in Trees, NEW c \in Candidates
    PROVE  Overlay(tree, c) \in Trees
BY CandidateShape DEF Overlay, Trees

\* Reading a damaged blob gives a candidate all the same, though not the one
\* that was approved.
LEMMA BytesReadType == ASSUME NEW c \in Candidates PROVE BytesRead(c) \in Candidates
<1>1. PICK touched \in (SUBSET Paths) \ {{}} : c \in [touched -> [before : Contents, after : Contents]]
  BY DEF Candidates
<1>2. [p \in DOMAIN c |-> [c[p] EXCEPT !.after = Garbage]] \in [touched -> [before : Contents, after : Contents]]
  BY <1>1 DEF Contents
<1>. QED
  BY <1>1, <1>2, MakesCandidate DEF BytesRead

Lined == {"linted", "checking", "recording", "applying"}

DesiredOK(o) == op[o].at \in Lined => op[o].desired \in Candidates

ReviewTypeInv == ReviewTypeOK /\ \A o \in Operators : DesiredOK(o)

LEMMA PromoteKeepsType ==
    ASSUME ReviewInv, ReviewTypeInv, NEW o \in Operators, Promote(o)
    PROVE  ReviewTypeInv'
<1>0. op[o].at # "idle" => op[o].candidate \in approved
  BY DEF ReviewInv, PromotionOK
<1>1. /\ \A p \in Operators \ {o} : op'[p] = op[p]
      /\ op'[o].at = "idle" \/ Reads(o) \/ Stages(o) \/ Looks(o) \/ Advances(o)
  BY OneStep DEF ReviewInv
<1>2. DesiredOK(o)'
  <2>1. CASE Stages(o)
    <3>1. op[o].candidate \in Candidates
      BY <1>0, <2>1 DEF Stages, Goes, ReviewTypeInv, ReviewTypeOK
    <3>. QED
      BY <2>1, <3>1, BytesReadType DEF Stages, DesiredOK
  <2>2. CASE Looks(o) \/ Advances(o)
    BY <2>2 DEF Looks, Advances, Goes, ReviewTypeInv, DesiredOK, Lined
  <2>3. CASE op'[o].at = "idle" \/ Reads(o)
    BY <2>3 DEF Reads, DesiredOK, Lined
  <2>. QED
    BY <1>1, <2>1, <2>2, <2>3
<1>3. ASSUME NEW p \in Operators PROVE DesiredOK(p)'
  BY <1>1, <1>2 DEF ReviewTypeInv, DesiredOK
<1>4. wiki' \in Trees
  <2>1. CASE Apply(o)
    <3>1. op[o].desired \in Candidates
      BY <2>1 DEF Apply, Continues, ReviewTypeInv, DesiredOK, Lined
    <3>. QED
      BY <2>1, <3>1, OverlayType DEF Apply, ReviewTypeInv, ReviewTypeOK
  <2>2. CASE wiki' = wiki
    BY <2>2 DEF ReviewTypeInv, ReviewTypeOK
  <2>. QED
    BY <2>1, <2>2
       DEF Promote, ReadApproved, StageAndLint, Snapshot, CheckBase, RecordIntent, ApplyRefused, RecordApplied, Crash
<1>5. /\ promotion' \in [DOMAIN promotion' -> Records]
      /\ DOMAIN promotion' \subseteq approved
  <2>1. ASSUME NEW state \in Records, promotion' = Recorded(op[o].candidate, state), op[o].at # "idle"
        PROVE  /\ promotion' \in [DOMAIN promotion' -> Records]
               /\ DOMAIN promotion' \subseteq approved
    BY <1>0, <2>1 DEF Recorded, ReviewTypeInv, ReviewTypeOK
  <2>2. CASE promotion' = promotion
    BY <2>2 DEF ReviewTypeInv, ReviewTypeOK
  <2>3. CASE RecordIntent(o) \/ RecordApplied(o)
    BY <2>1, <2>3 DEF RecordIntent, RecordApplied, Continues, Records
  <2>. QED
    BY <2>2, <2>3
       DEF Promote, ReadApproved, StageAndLint, Snapshot, CheckBase, Apply, ApplyRefused, Crash
<1>6. /\ UNCHANGED <<captured, approved, damaged>>
      /\ interrupted' \in BOOLEAN
      /\ events' = events \/ Happens
      /\ applied' \subseteq approved
  BY <1>0 DEF Promote, ReadApproved, StageAndLint, Snapshot, CheckBase, RecordIntent, Apply, ApplyRefused,
              RecordApplied, Crash, Continues, ReviewTypeInv, ReviewTypeOK
<1>7. events' \in 0..MaxEvents
  BY <1>6, ReviewAssumption DEF Happens, ReviewTypeInv, ReviewTypeOK
<1>. QED
  BY <1>3, <1>4, <1>5, <1>6, <1>7 DEF ReviewTypeInv, ReviewTypeOK

LEMMA ReviewTypeStep == ReviewInv /\ ReviewTypeInv /\ [ReviewNext]_reviewVars => ReviewTypeInv'
<1>. SUFFICES ASSUME ReviewInv, ReviewTypeInv, [ReviewNext]_reviewVars PROVE ReviewTypeInv'
  OBVIOUS
<1>. USE DEF ReviewTypeInv, ReviewTypeOK, DesiredOK
<1>1. CASE UNCHANGED reviewVars
  BY <1>1 DEF reviewVars
<1>2. ASSUME Happens PROVE events' \in 0..MaxEvents
  BY <1>2, ReviewAssumption DEF Happens
<1>3. ASSUME NEW p \in Paths, NEW text \in ByHand, EditByHand(p, text) PROVE ReviewTypeInv'
  <2>1. wiki' \in Trees
    BY <1>3, ReviewAssumption DEF EditByHand, Trees, Contents
  <2>. QED
    BY <1>2, <1>3, <2>1 DEF EditByHand
<1>4. ASSUME NEW store \in {"candidate", "approved"}, NEW c \in captured, Damage(store, c) PROVE ReviewTypeInv'
  BY <1>2, <1>4 DEF Damage
<1>5. ASSUME NEW draft \in Drafts, Capture(draft) PROVE ReviewTypeInv'
  <2>. DEFINE touched == {p \in Paths : draft[p] # wiki[p]}
              c == [p \in touched |-> [before |-> wiki[p], after |-> draft[p]]]
  <2>1. draft \in Trees
    BY ReviewAssumption DEF Trees, Contents
  <2>2. c \in [touched -> [before : Contents, after : Contents]] /\ touched \in SUBSET Paths
    BY <2>1 DEF Trees
  <2>3. touched # {} /\ captured' = captured \cup {c}
    BY <1>5 DEF Capture
  <2>4. c \in Candidates
    <3>. HIDE DEF touched, c
    <3>. QED
      BY <2>2, <2>3, MakesCandidate
  <2>. HIDE DEF touched, c
  <2>. QED
    BY <1>5, <2>3, <2>4 DEF Capture
<1>6. ASSUME NEW c \in captured, ApprovePrivate(c) PROVE ReviewTypeInv'
  BY <1>6 DEF ApprovePrivate
<1>. QED
  BY <1>1, <1>3, <1>4, <1>5, <1>6, PromoteKeepsType DEF ReviewNext

LEMMA ReviewTypeInvariant == ReviewSpec => []ReviewTypeInv
<1>1. ReviewInit => ReviewTypeInv
  <2>. SUFFICES ASSUME ReviewInit PROVE ReviewTypeInv
    OBVIOUS
  <2>1. wiki \in Trees /\ events \in 0..MaxEvents
    BY ReviewAssumption DEF ReviewInit, Trees, Contents
  <2>2. promotion \in [DOMAIN promotion -> Records] /\ DOMAIN promotion = {}
    BY DEF ReviewInit
  <2>. QED
    BY <2>1, <2>2 DEF ReviewInit, ReviewTypeInv, ReviewTypeOK, DesiredOK, Lined, Idle
<1>. QED
  BY <1>1, ReviewTypeStep, ReviewInvariant, PTL DEF ReviewSpec

\* Candidates, approvals, damages and records stay what they are named
\* (ReviewTypeOK): what is approved was captured, what has a record or was
\* applied was approved.
THEOREM ReviewTypeCorrect == ReviewSpec => []ReviewTypeOK
<1>1. ReviewTypeInv => ReviewTypeOK
  BY DEF ReviewTypeInv
<1>. QED
  BY <1>1, ReviewTypeInvariant, PTL

-----------------------------------------------------------------------------
(***************************************************************************)
(* Promotion over the base.  promote_public compares contents, not         *)
(* versions: what it relies on is that a file which has left the base of a *)
(* candidate does not come back to it, and that the blobs it reads twice   *)
(* are the same both times.                                                *)
(***************************************************************************)
HandsOff == ~MayRestore /\ ~DamageAnyTime

\* A candidate changes what it touches, and a text that one candidate would
\* write and another was made from is not the way back to an earlier base.
NoWayBack ==
    /\ \A c \in captured : \A p \in DOMAIN c : c[p].after # c[p].before
    /\ \A c, d \in captured : \A p \in DOMAIN c \cap DOMAIN d :
          c[p].after = d[p].before => wiki[p] # c[p].before

\* How far the checks of a promotion have come: its bytes are the approved ones,
\* and the snapshot is the base wherever the Wiki is, at last everywhere.
OverBase(o) ==
    LET c == op[o].candidate IN
    /\ op[o].at # "idle" => <<"approved", c>> \notin damaged
    /\ op[o].at \in Lined => op[o].desired = c
    /\ op[o].at = "checking" => \A p \in DOMAIN c : wiki[p] = c[p].before => op[o].snapshot[p] = c[p].before
    /\ op[o].at \in {"recording", "applying"} => \A p \in DOMAIN c : op[o].snapshot[p] = c[p].before

BaseInv == NoWayBack /\ \A o \in Operators : OverBase(o)

\* Apply writes the approved candidate over its base.
LEMMA AppliesOverBase ==
    ASSUME ReviewInv, BaseInv, NEW o \in Operators, Apply(o)
    PROVE  LET c == op[o].candidate
           IN  c \in approved /\ BaseUnchanged(c) /\ wiki' = Overlay(wiki, c)
<1>1. op[o].at = "applying" /\ wiki = op[o].snapshot /\ wiki' = Overlay(wiki, op[o].desired)
  BY DEF Apply, Continues
<1>2. op[o].candidate \in approved
  BY <1>1 DEF ReviewInv, PromotionOK
<1>. QED
  BY <1>1, <1>2 DEF BaseInv, OverBase, Lined, BaseUnchanged

\* A file that has left the base of a candidate does not come back to it.
NeverBack == \A c \in captured : \A p \in DOMAIN c : wiki[p] # c[p].before => wiki'[p] # c[p].before

LEMMA WikiNeverBack ==
    ASSUME HandsOff, ReviewInv, ReviewTypeInv, BaseInv, [ReviewNext]_reviewVars
    PROVE  NeverBack
<1>0. \A c \in captured : c \in Candidates /\ DOMAIN c \subseteq Paths
  BY CandidateShape DEF ReviewTypeInv, ReviewTypeOK
<1>1. ASSUME NEW p \in Paths, NEW text \in ByHand, EditByHand(p, text) PROVE NeverBack
  <2>1. /\ \A q \in Paths : wiki'[q] = IF q = p THEN text ELSE wiki[q]
        /\ \A c \in captured : p \in DOMAIN c => c[p].before # text
    BY <1>1 DEF EditByHand, IsNew, HandsOff, ReviewTypeInv, ReviewTypeOK, Trees
  <2>. QED
    BY <1>0, <2>1 DEF NeverBack
<1>2. ASSUME NEW o \in Operators, Apply(o) PROVE NeverBack
  <2>. DEFINE c == op[o].candidate
  <2>1. c \in captured /\ BaseUnchanged(c) /\ wiki' = Overlay(wiki, c)
    BY <1>2, AppliesOverBase DEF ReviewInv, RecordsFit
  <2>2. ASSUME NEW d \in captured, NEW p \in DOMAIN d, wiki[p] # d[p].before PROVE wiki'[p] # d[p].before
    <3>1. wiki'[p] = IF p \in DOMAIN c THEN c[p].after ELSE wiki[p]
      BY <1>0, <2>1 DEF Overlay
    <3>2. p \in DOMAIN c => wiki[p] = c[p].before
      BY <2>1 DEF BaseUnchanged
    <3>3. p \in DOMAIN c /\ c[p].after = d[p].before => wiki[p] # c[p].before
      BY <2>1 DEF BaseInv, NoWayBack
    <3>. QED
      BY <2>2, <3>1, <3>2, <3>3
  <2>. QED
    BY <2>2 DEF NeverBack
<1>3. CASE wiki' = wiki
  BY <1>3 DEF NeverBack
<1>. QED
  BY <1>1, <1>2, <1>3
     DEF ReviewNext, Damage, Capture, ApprovePrivate, Promote, ReadApproved, StageAndLint, Snapshot, CheckBase,
         RecordIntent, ApplyRefused, RecordApplied, Crash, reviewVars

LEMMA NoWayBackStep ==
    ASSUME HandsOff, ReviewInv, ReviewTypeInv, BaseInv, NeverBack, [ReviewNext]_reviewVars
    PROVE  NoWayBack'
<1>1. CASE captured' = captured
  BY <1>1 DEF BaseInv, NoWayBack, NeverBack
<1>2. ASSUME NEW draft \in Drafts, Capture(draft) PROVE NoWayBack'
  <2>. DEFINE touched == {p \in Paths : draft[p] # wiki[p]}
              new == [p \in touched |-> [before |-> wiki[p], after |-> draft[p]]]
  <2>1. /\ captured' = captured \cup {new} /\ wiki' = wiki
        /\ \A p \in touched : IsNew(p, draft[p])
    BY <1>2 DEF Capture, HandsOff
  <2>2. /\ DOMAIN new = touched
        /\ \A p \in touched : new[p].before = wiki[p] /\ new[p].after = draft[p] /\ draft[p] # wiki[p]
    OBVIOUS
  <2>. HIDE DEF touched, new
  <2>3. \A c \in captured' : \A p \in DOMAIN c : c[p].after # c[p].before
    BY <2>1, <2>2 DEF BaseInv, NoWayBack
  <2>4. ASSUME NEW c \in captured', NEW d \in captured', NEW p \in DOMAIN c \cap DOMAIN d,
               c[p].after = d[p].before
        PROVE  wiki'[p] # c[p].before
    <3>1. CASE c \in captured /\ d \in captured
      BY <2>1, <2>4, <3>1 DEF BaseInv, NoWayBack
    <3>2. CASE c = new /\ d \in captured
      BY <2>1, <2>2, <2>4, <3>2 DEF IsNew
    <3>3. CASE d = new
      <4>1. c[p].after = wiki[p]
        BY <2>2, <2>4, <3>3
      <4>. QED
        BY <2>1, <2>3, <4>1
    <3>. QED
      BY <2>1, <3>1, <3>2, <3>3
  <2>. QED
    BY <2>3, <2>4 DEF NoWayBack
<1>. QED
  BY <1>1, <1>2
     DEF ReviewNext, EditByHand, Damage, ApprovePrivate, Promote, ReadApproved, StageAndLint, Snapshot, CheckBase,
         RecordIntent, Apply, ApplyRefused, RecordApplied, Crash, reviewVars

\* A promotion that does not move keeps what it has checked.
LEMMA OverBaseStays ==
    ASSUME ReviewInv, NeverBack, NEW o \in Operators, OverBase(o), op'[o] = op[o],
           op[o].at # "idle" => damaged' = damaged
    PROVE  OverBase(o)'
<1>1. op[o].at # "idle" => op[o].candidate \in captured
  BY DEF ReviewInv, PromotionOK, RecordsFit
<1>. QED
  BY <1>1 DEF OverBase, NeverBack

LEMMA PromoteStaysOverBase ==
    ASSUME ReviewInv, ReviewTypeInv, BaseInv, NeverBack, NEW o \in Operators, Promote(o)
    PROVE  \A p \in Operators : OverBase(p)'
<1>. DEFINE c == op[o].candidate
<1>0. /\ \A p \in Operators \ {o} : op'[p] = op[p]
      /\ op'[o].at = "idle" \/ Reads(o) \/ Stages(o) \/ Looks(o) \/ Advances(o)
      /\ damaged' = damaged
  BY OneStep DEF ReviewInv, Promote, ReadApproved, StageAndLint, Snapshot, CheckBase, RecordIntent, Apply,
                 ApplyRefused, RecordApplied, Crash
<1>1. OverBase(o) /\ (op[o].at # "idle" => c \in captured)
  BY DEF BaseInv, ReviewInv, PromotionOK, RecordsFit
<1>2. ASSUME op'[o].at = "idle" \/ Reads(o) PROVE OverBase(o)'
  BY <1>0, <1>2 DEF Reads, ReadApproved, Readable, OverBase, Lined
<1>3. ASSUME Stages(o) PROVE OverBase(o)'
  BY <1>0, <1>1, <1>3 DEF Stages, Goes, BytesRead, OverBase, Lined
<1>4. ASSUME Looks(o) PROVE OverBase(o)'
  <2>1. wiki' = wiki
    BY <1>4 DEF Looks, Snapshot
  <2>. QED
    BY <1>0, <1>1, <1>4, <2>1 DEF Looks, Goes, OverBase, Lined
<1>5. ASSUME Advances(o) PROVE OverBase(o)'
  <2>1. op[o].at \in Lined \cup {"applied"} /\ op'[o].at \in {"recording", "applying", "applied"}
        /\ op'[o].candidate = c /\ op'[o].desired = op[o].desired /\ op'[o].snapshot = op[o].snapshot
    BY <1>5 DEF Advances, Goes, Lined
  <2>2. op'[o].at \in {"recording", "applying"} => \A p \in DOMAIN c : op[o].snapshot[p] = c[p].before
    BY <1>1, <1>5 DEF Advances, Goes, OverBase, BaseUnchanged
  <2>3. op[o].at \in Lined
    BY <1>5 DEF Advances, Goes, Lined
  <2>. QED
    BY <1>0, <1>1, <2>1, <2>2, <2>3 DEF OverBase, Lined
<1>6. ASSUME NEW p \in Operators, p # o PROVE OverBase(p)'
  BY <1>0, <1>6, OverBaseStays DEF BaseInv
<1>. QED
  BY <1>0, <1>2, <1>3, <1>4, <1>5, <1>6

LEMMA BaseInvStep ==
    ASSUME HandsOff, ReviewInv, ReviewTypeInv, BaseInv, [ReviewNext]_reviewVars
    PROVE  BaseInv'
<1>1. NeverBack
  BY WikiNeverBack
<1>2. NoWayBack'
  BY <1>1, NoWayBackStep
<1>3. ASSUME NEW store, NEW c, Damage(store, c), NEW o \in Operators PROVE op'[o] = op[o] /\ op[o].at = "idle"
  BY <1>3 DEF Damage, HandsOff
<1>4. CASE UNCHANGED <<op, damaged>>
  BY <1>1, <1>2, <1>4, OverBaseStays DEF BaseInv
<1>5. CASE \E store, c : Damage(store, c)
  BY <1>1, <1>2, <1>3, <1>5, OverBaseStays DEF BaseInv
<1>6. ASSUME NEW o \in Operators, Promote(o) PROVE BaseInv'
  BY <1>1, <1>2, <1>6, PromoteStaysOverBase DEF BaseInv
<1>. QED
  BY <1>4, <1>5, <1>6 DEF ReviewNext, EditByHand, Capture, ApprovePrivate, reviewVars

\* A promotion writes an approved candidate, whole, and over the very files it was
\* made from (OnlyApprovedOverItsBase): the check before the transaction and the
\* snapshot compared in the lock leave no room for an edit, or for another
\* promotion, in between.  As contents are compared and not versions, this takes
\* that nobody puts an old text back (MayRestore); and as blobs are read twice, that
\* none is damaged between the two readings (DamageAnyTime).
THEOREM PromotionIsOverBase ==
    ASSUME MayRestore = FALSE, DamageAnyTime = FALSE
    PROVE  ReviewSpec => OnlyApprovedOverItsBase
<1>. HandsOff
  BY DEF HandsOff
<1>1. ReviewInit => BaseInv
  BY DEF ReviewInit, BaseInv, NoWayBack, OverBase, Lined, Idle
<1>2. ReviewInv /\ ReviewTypeInv /\ BaseInv /\ [ReviewNext]_reviewVars => BaseInv'
  BY BaseInvStep
<1>3. ReviewInv /\ ReviewTypeInv /\ BaseInv /\ [ReviewNext]_reviewVars =>
        [\A o \in Operators : Applies(o) =>
            \E c \in approved : BaseUnchanged(c) /\ wiki' = Overlay(wiki, c)]_reviewVars
  <2>. SUFFICES ASSUME ReviewInv, BaseInv, ReviewNext, NEW o \in Operators, Applies(o)
                PROVE  \E c \in approved : BaseUnchanged(c) /\ wiki' = Overlay(wiki, c)
    BY DEF Applies, reviewVars
  <2>1. Apply(o)
    <3>1. op'[o] # op[o]
      BY DEF Applies
    <3>2. PICK p \in Operators : Promote(p)
      BY <3>1 DEF ReviewNext, EditByHand, Damage, Capture, ApprovePrivate
    <3>3. p = o
      BY <3>1, <3>2, OneStep DEF ReviewInv
    <3>4. op'[o].at = "idle" \/ Reads(o) \/ Stages(o) \/ Looks(o) \/ Advances(o)
      BY <3>2, <3>3, OneStep DEF ReviewInv
    <3>. QED
      BY <3>4 DEF Applies, Reads, ReadApproved, Stages, Looks, Advances, Goes
  <2>. QED
    BY <2>1, AppliesOverBase
<1>. QED
  BY <1>1, <1>2, <1>3, ReviewInvariant, ReviewTypeInvariant, PTL DEF ReviewSpec, OnlyApprovedOverItsBase
=============================================================================
