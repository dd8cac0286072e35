---------------------------- MODULE JobLifecycle ----------------------------
(***************************************************************************)
(* What the transcription queue promises to whoever enqueued a job, with   *)
(* no clock, no lease and no row layout: a job is started at most          *)
(* budget-many times, publishes at most one result, and once settled stays *)
(* settled.  JobQueue is shown to implement this module.                   *)
(*                                                                         *)
(* Losing the claim on a job is one abstract event: several abandoned jobs *)
(* are taken back in one transaction, and the same transaction may start   *)
(* one of them again (job_repository.py, claim calls _recover_locked).     *)
(***************************************************************************)
EXTENDS Naturals

CONSTANTS
    Jobs,       \* job identities: one per (source, model)
    Budgets,    \* the max_attempts values a job may be enqueued with
    Results,    \* transcript revisions a job may publish
    NoResult    \* result_revision_id IS NULL

ASSUME LifecycleAssumption ==
    /\ Budgets \subseteq 1..10
    /\ NoResult \notin Results

VARIABLES
    phase,      \* [Jobs -> Phases]
    tries,      \* how often each job was started
    budget,     \* how often each job may be started
    published   \* the published result of each job

lifecycleVars == <<phase, tries, budget, published>>

Pending  == {"queued", "failed_retryable"}
Settled  == {"completed", "failed_terminal", "cancelled"}
Phases   == {"absent", "processing"} \cup Pending \cup Settled

-----------------------------------------------------------------------------
Init ==
    /\ phase = [j \in Jobs |-> "absent"]
    /\ tries = [j \in Jobs |-> 0]
    /\ budget = [j \in Jobs |-> 0]
    /\ published = [j \in Jobs |-> NoResult]

\* A new job is queued with its attempt budget.
Enqueue(j, b) ==
    /\ phase[j] = "absent"
    /\ phase' = [phase EXCEPT ![j] = "queued"]
    /\ budget' = [budget EXCEPT ![j] = b]
    /\ UNCHANGED <<tries, published>>

\* Fault: the outcome of the attempt is taken for the phase of the job.
ReleasedAsOutcome(j) == "interrupted"

\* The phase of a job whose worker gave up or was given up.
Released(j) == IF tries[j] < budget[j] THEN "failed_retryable" ELSE "failed_terminal"

\* The phases once the jobs of S, all processing, have been taken back.
TakenBack(S) == [j \in Jobs |-> IF j \in S THEN Released(j) ELSE phase[j]]

\* The jobs of S are taken back from their workers.
Sweep(S) ==
    /\ S # {}
    /\ \A j \in S : phase[j] = "processing"
    /\ phase' = TakenBack(S)
    /\ UNCHANGED <<tries, budget, published>>

\* The jobs of S are taken back and j, perhaps one of them, is started.
Start(S, j) ==
    /\ \A k \in S : phase[k] = "processing"
    /\ TakenBack(S)[j] \in Pending
    /\ tries[j] < budget[j]
    /\ phase' = [TakenBack(S) EXCEPT ![j] = "processing"]
    /\ tries' = [tries EXCEPT ![j] = @ + 1]
    /\ UNCHANGED <<budget, published>>

\* The worker of j publishes result r.
Finish(j, r) ==
    /\ phase[j] = "processing"
    /\ phase' = [phase EXCEPT ![j] = "completed"]
    /\ published' = [published EXCEPT ![j] = r]
    /\ UNCHANGED <<tries, budget>>

\* The worker of j reports a failure, worth another try or not.
Fail(j, p) ==
    /\ phase[j] = "processing"
    /\ p \in {Released(j), "failed_terminal"}
    /\ phase' = [phase EXCEPT ![j] = p]
    /\ UNCHANGED <<tries, budget, published>>

\* Fault: a retry by hand starts counting anew.
RetryFromZero(j) ==
    /\ phase[j] = "failed_retryable"
    /\ phase' = [phase EXCEPT ![j] = "queued"]
    /\ tries' = [tries EXCEPT ![j] = 0]
    /\ UNCHANGED <<budget, published>>

\* The user sends a failed job back to the queue without waiting.
Retry(j) ==
    /\ phase[j] = "failed_retryable"
    /\ tries[j] < budget[j]
    /\ phase' = [phase EXCEPT ![j] = "queued"]
    /\ UNCHANGED <<tries, budget, published>>

\* Fault: a job can be given up after it has published.
CancelLate(j) ==
    /\ phase[j] \notin {"absent", "cancelled"}
    /\ phase' = [phase EXCEPT ![j] = "cancelled"]
    /\ UNCHANGED <<tries, budget, published>>

\* The user gives the job up.
Cancel(j) ==
    /\ phase[j] \in Pending \cup {"processing"}
    /\ phase' = [phase EXCEPT ![j] = "cancelled"]
    /\ UNCHANGED <<tries, budget, published>>

Next ==
    \/ \E j \in Jobs, b \in Budgets : Enqueue(j, b)
    \/ \E S \in SUBSET Jobs : Sweep(S)
    \/ \E S \in SUBSET Jobs, j \in Jobs : Start(S, j)
    \/ \E j \in Jobs, r \in Results : Finish(j, r)
    \/ \E j \in Jobs, p \in Phases : Fail(j, p)
    \/ \E j \in Jobs : Retry(j)
    \/ \E j \in Jobs : Cancel(j)

Spec == Init /\ [][Next]_lifecycleVars

(***************************************************************************)
(* Someone keeps running xwiki-jobs run-once, so a pending job is started  *)
(* sooner or later, and a processing one does not stay so for ever: its    *)
(* worker answers, or its lease runs out and the next claim sweeps it.     *)
(* Nobody is obliged to enqueue, retry or cancel.                          *)
(***************************************************************************)
Attended(j) ==
    /\ SF_lifecycleVars(\E S \in SUBSET Jobs : Start(S, j))
    /\ WF_lifecycleVars(\/ \E S \in SUBSET Jobs : j \in S /\ Sweep(S)
                        \/ \E r \in Results : Finish(j, r)
                        \/ \E p \in Phases : Fail(j, p))

FairSpec == Spec /\ \A j \in Jobs : Attended(j)

-----------------------------------------------------------------------------
\* Every phase, count and result is of its kind.
TypeOK ==
    /\ phase \in [Jobs -> Phases]
    /\ tries \in [Jobs -> 0..10]
    /\ budget \in [Jobs -> 0..10]
    /\ published \in [Jobs -> Results \cup {NoResult}]

\* A result is there exactly when the job is completed.
PublishedIffCompleted ==
    \A j \in Jobs : published[j] # NoResult <=> phase[j] = "completed"

\* "No infinite retry": every job that was enqueued settles in the end,
\* whatever fails or is interrupted on the way, and never leaves that state.
EveryJobSettles ==
    \A j \in Jobs : phase[j] # "absent" ~> [](phase[j] \in Settled)
=============================================================================
