-------------------------- MODULE JobLifecycleProofs --------------------------
(***************************************************************************)
(* Machine-checked: what the queue promises, for any number of jobs,        *)
(* budgets and results.  JobQueueProofs shows that the queue keeps it.      *)
(***************************************************************************)
EXTENDS JobLifecycle, TLAPS

\* A job is never started more often than its budget allows.
WithinBudget == \A j \in Jobs : tries[j] <= budget[j]

\* A job that was not enqueued was not started either: the budget it gets cannot
\* be too small already.
NotStartedBefore == \A j \in Jobs : phase[j] = "absent" => tries[j] = 0

LifecycleInv == TypeOK /\ WithinBudget /\ NotStartedBefore /\ PublishedIffCompleted

LEMMA ReleasedPhase ==
    ASSUME TypeOK, NEW S \in SUBSET Jobs
    PROVE  /\ \A j \in Jobs : Released(j) \in {"failed_retryable", "failed_terminal"}
           /\ TakenBack(S) \in [Jobs -> Phases]
           /\ \A j \in Jobs : TakenBack(S)[j] = "completed" <=> j \notin S /\ phase[j] = "completed"
BY DEF TypeOK, Released, TakenBack, Phases, Pending, Settled

LEMMA LifecycleInvInit == Init => LifecycleInv
BY DEF Init, LifecycleInv, TypeOK, WithinBudget, NotStartedBefore, PublishedIffCompleted, Phases

\* Taking jobs back, with or without starting one of them.
LEMMA TakingBackKeepsInv ==
    ASSUME LifecycleInv, NEW S \in SUBSET Jobs, Sweep(S) \/ \E j \in Jobs : Start(S, j)
    PROVE  LifecycleInv'
<1>1. TypeOK /\ UNCHANGED <<budget, published>> /\ \A j \in S : phase[j] = "processing"
  BY DEF LifecycleInv, Sweep, Start
<1>2. /\ phase' \in [Jobs -> Phases]
      /\ \A j \in Jobs : phase'[j] = "completed" <=> phase[j] = "completed"
  <2>1. CASE Sweep(S)
    BY <1>1, <2>1, ReleasedPhase DEF Sweep
  <2>2. ASSUME NEW j \in Jobs, Start(S, j)
        PROVE  phase' \in [Jobs -> Phases] /\ \A k \in Jobs : phase'[k] = "completed" <=> phase[k] = "completed"
    <3>1. TakenBack(S)[j] # "completed" /\ phase' = [TakenBack(S) EXCEPT ![j] = "processing"]
      BY <2>2 DEF Start, Pending
    <3>. QED
      BY <1>1, <3>1, ReleasedPhase DEF Phases
  <2>. QED
    BY <2>1, <2>2
<1>3. \A j \in Jobs : phase'[j] = "absent" => phase[j] = "absent" /\ tries'[j] = tries[j]
  BY <1>1 DEF Sweep, Start, TakenBack, Released, Pending, TypeOK
<1>4. tries' \in [Jobs -> 0..10] /\ \A j \in Jobs : tries'[j] <= budget[j]
  BY <1>1 DEF Sweep, Start, TypeOK, LifecycleInv, WithinBudget
<1>. QED
  BY <1>1, <1>2, <1>3, <1>4 DEF LifecycleInv, TypeOK, WithinBudget, NotStartedBefore, PublishedIffCompleted

\* A step on the phase of one job that neither publishes nor takes back a result.
LEMMA PhaseKeepsInv ==
    ASSUME LifecycleInv, NEW j \in Jobs, phase[j] # "completed",
           NEW p \in Phases \ {"absent", "completed"}, phase' = [phase EXCEPT ![j] = p],
           UNCHANGED <<tries, budget, published>>
    PROVE  LifecycleInv'
BY DEF LifecycleInv, TypeOK, WithinBudget, NotStartedBefore, PublishedIffCompleted

LEMMA LifecycleInvStep == LifecycleInv /\ [Next]_lifecycleVars => LifecycleInv'
<1>. SUFFICES ASSUME LifecycleInv, [Next]_lifecycleVars PROVE LifecycleInv'
  OBVIOUS
<1>1. CASE UNCHANGED lifecycleVars
  BY <1>1 DEF lifecycleVars, LifecycleInv, TypeOK, WithinBudget, NotStartedBefore, PublishedIffCompleted
<1>2. ASSUME NEW j \in Jobs, NEW b \in Budgets, Enqueue(j, b) PROVE LifecycleInv'
  <2>1. phase' \in [Jobs -> Phases] /\ \A k \in Jobs : phase'[k] = "completed" <=> phase[k] = "completed"
    BY <1>2 DEF Enqueue, LifecycleInv, TypeOK, Phases, Pending
  <2>. QED
    BY <1>2, <2>1, LifecycleAssumption DEF Enqueue, LifecycleInv, TypeOK, WithinBudget, NotStartedBefore, PublishedIffCompleted
<1>3. CASE \E S \in SUBSET Jobs : Sweep(S) \/ \E j \in Jobs : Start(S, j)
  BY <1>3, TakingBackKeepsInv
<1>4. ASSUME NEW j \in Jobs, NEW r \in Results, Finish(j, r) PROVE LifecycleInv'
  <2>1. "completed" \in Phases /\ r # NoResult
    BY LifecycleAssumption DEF Phases, Settled
  <2>. QED
    BY <1>4, <2>1 DEF Finish, LifecycleInv, TypeOK, WithinBudget, NotStartedBefore, PublishedIffCompleted
<1>5. ASSUME NEW j \in Jobs, (\E p \in Phases : Fail(j, p)) \/ Retry(j) \/ Cancel(j) PROVE LifecycleInv'
  BY <1>5, PhaseKeepsInv DEF Fail, Retry, Cancel, Released, Phases, Pending, Settled
<1>. QED
  BY <1>1, <1>2, <1>3, <1>4, <1>5 DEF Next

\* A job has its result exactly when it is completed, and was never started
\* more often than whoever enqueued it allowed.
THEOREM LifecycleCorrect == Spec => [](TypeOK /\ PublishedIffCompleted /\ WithinBudget)
<1>1. LifecycleInv => TypeOK /\ PublishedIffCompleted /\ WithinBudget
  BY DEF LifecycleInv
<1>. QED
  BY LifecycleInvInit, LifecycleInvStep, <1>1, PTL DEF Spec
=============================================================================
