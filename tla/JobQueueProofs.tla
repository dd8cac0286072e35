--------------------------- MODULE JobQueueProofs ---------------------------
(***************************************************************************)
(* Machine-checked facts about JobQueue, for every set of sources, models  *)
(* and revisions, every budget up to ten and every setting of the times:   *)
(* its invariants, what a transaction may do to one job and from that what *)
(* no step ever does, and that JobQueue implements JobLifecycle.           *)
(***************************************************************************)
EXTENDS JobQueue, TLAPS

\* The instants an operation may use are points in time.
LEMMA InstantsAreTimes == ASSUME TypeOK, NEW t \in Instants PROVE t \in Nat
BY DEF Instants, TypeOK

\* A backoff is a duration, for every attempt a job can make.
LEMMA BackoffType == ASSUME NEW n \in Numbers PROVE Backoff(n) \in Nat
<1>1. PowersOfTwo[n] \in Nat
  BY DEF Numbers, PowersOfTwo
<1>2. BackoffBase * PowersOfTwo[n] \in Nat
  BY <1>1, QueueAssumption
<1>. QED
  BY <1>2, QueueAssumption DEF Backoff

\* Recovery keeps the columns it writes well typed.
LEMMA RecoveryType ==
    ASSUME TypeOK, NEW t \in Nat
    PROVE  /\ RecoveredStatus(t) \in [Jobs -> Statuses]
           /\ RecoveredToken(t) \in [Jobs -> Nat]
           /\ RecoveredExpires(t) \in [Jobs -> Nat \cup {NoTime}]
           /\ RecoveredRetryAfter(t) \in [Jobs -> Nat \cup {NoTime}]
           /\ RecoveredError(t) \in [Jobs -> WorkerCodes \cup {NoError, "WORKER_INTERRUPTED"}]
           /\ RecoveredAttempt(t) \in [Jobs -> [Numbers -> Outcomes]]
<1>1. RecoveredStatus(t) \in [Jobs -> Statuses]
  BY DEF TypeOK, RecoveredStatus, Recovered, InterruptedStatus, Statuses, Claimable, Terminal
<1>2. RecoveredToken(t) \in [Jobs -> Nat]
  BY DEF TypeOK, RecoveredToken, Recovered, NoToken
<1>3. RecoveredExpires(t) \in [Jobs -> Nat \cup {NoTime}]
  BY DEF TypeOK, RecoveredExpires, Recovered
<1>4. RecoveredRetryAfter(t) \in [Jobs -> Nat \cup {NoTime}]
  BY DEF TypeOK, RecoveredRetryAfter, Recovered
<1>5. RecoveredError(t) \in [Jobs -> WorkerCodes \cup {NoError, "WORKER_INTERRUPTED"}]
  BY DEF TypeOK, RecoveredError, Recovered
<1>6. RecoveredAttempt(t) \in [Jobs -> [Numbers -> Outcomes]]
  BY DEF TypeOK, RecoveredAttempt, Recovered, CloseOpen, Outcomes, Finished
<1>. QED
  BY <1>1, <1>2, <1>3, <1>4, <1>5, <1>6

\* Closing one attempt keeps the table of attempts well typed.
LEMMA CloseAttemptType ==
    ASSUME TypeOK, NEW l \in leases, NEW o \in Finished
    PROVE  CloseAttempt(l, o) \in [Jobs -> [Numbers -> Outcomes]]
BY DEF TypeOK, CloseAttempt, Lease, Outcomes

\* Counters count.
LEMMA CountsAreNumbers ==
    ASSUME TypeOK
    PROVE  issued \in Nat /\ \A j \in Jobs : count[j] \in Nat /\ token[j] \in Nat
<1>1. issued \in Nat /\ count \in [Jobs -> 0..10] /\ token \in [Jobs -> Nat]
  BY DEF TypeOK
<1>2. ASSUME NEW j \in Jobs PROVE count[j] \in Nat /\ token[j] \in Nat
  BY <1>1
<1>. QED
  BY <1>1, <1>2

\* A lease names a job, a token and an attempt.
LEMMA LeaseType ==
    ASSUME TypeOK, NEW l \in leases
    PROVE  l.job \in Jobs /\ l.token \in Nat /\ l.number \in Numbers /\ l.number \in Nat
BY DEF TypeOK, Lease, Numbers

\* A job that a claim starts has an attempt number left.
LEMMA ClaimNumber ==
    ASSUME TypeOK, NEW m, NEW j \in Jobs, NEW t, j \in Oldest(m, t)
    PROVE  count[j] < max[j] /\ count[j] + 1 \in Numbers
BY DEF Oldest, Due, TypeOK, Numbers

\* A job in the hands of a worker was counted as an attempt.  Without this fact
\* TypeOK is not inductive: the backoff of a failure is defined from the first
\* attempt on.
StartedIsCounted == \A j \in Jobs : status[j] = "processing" => count[j] \in Numbers

TypeInv == TypeOK /\ StartedIsCounted

\* TypeInv holds in every reachable state.
THEOREM TypeInvariant == Spec => []TypeInv
<1>1. Init => TypeInv
  BY DEF Init, TypeInv, TypeOK, StartedIsCounted, Statuses, Outcomes, NoTime, NoToken
<1>2. TypeInv /\ [Next]_queueVars => TypeInv'
  <2> SUFFICES ASSUME TypeInv, [Next]_queueVars PROVE TypeInv'
    OBVIOUS
  <2>. USE InstantsAreTimes DEF TypeInv, TypeOK, StartedIsCounted,
           jobVars, leaseVars, outputVars, worldVars
  <2>1. ASSUME NEW j \in Jobs, NEW budget \in Budgets, NEW t \in Instants,
               Enqueue(j, budget, t)
        PROVE  TypeInv'
    BY <2>1, QueueAssumption DEF Enqueue, Statuses, Claimable
  <2>2. ASSUME NEW t \in Instants, RecoverExpired(t) PROVE TypeInv'
    BY <2>2, RecoveryType DEF RecoverExpired, RecoveredStatus, Recovered, InterruptedStatus
  <2>3. ASSUME NEW m \in Models, NEW j \in Jobs, NEW t \in Instants, Claim(m, j, t)
        PROVE  TypeInv'
    <3>1. count[j] + 1 \in Numbers
      BY <2>3, ClaimNumber DEF Claim
    <3>2. FreshToken \in Nat /\ t + LeaseSeconds \in Nat
      BY QueueAssumption DEF FreshToken
    <3>3. leases' \subseteq Lease
      BY <2>3, <3>1, <3>2 DEF Claim, Lease
    <3>4. attempt' \in [Jobs -> [Numbers -> Outcomes]]
      <4>1. RecoveredAttempt(t) \in [Jobs -> [Numbers -> Outcomes]]
        BY RecoveryType
      <4>2. attempt' = [RecoveredAttempt(t) EXCEPT ![j][count[j] + 1] = "open"]
        BY <2>3 DEF Claim
      <4>3. "open" \in Outcomes
        BY DEF Outcomes
      <4>. HIDE DEF TypeInv, TypeOK, StartedIsCounted
      <4>. QED
        BY <3>1, <4>1, <4>2, <4>3
    <3>5. count' \in [Jobs -> 0..10]
      BY <2>3, <3>1 DEF Claim, Numbers
    <3>6. /\ status' \in [Jobs -> Statuses]
          /\ token' \in [Jobs -> Nat]
          /\ expires' \in [Jobs -> Nat \cup {NoTime}]
          /\ retryAfter' \in [Jobs -> Nat \cup {NoTime}]
          /\ error' \in [Jobs -> WorkerCodes \cup {NoError, "WORKER_INTERRUPTED"}]
      BY <2>3, <3>2, RecoveryType DEF Claim, Statuses
    <3>7. StartedIsCounted'
      BY <2>3, <3>1 DEF Claim, RecoveredStatus, Recovered, InterruptedStatus
    <3>. QED
      BY <2>3, <3>2, <3>3, <3>4, <3>5, <3>6, <3>7 DEF Claim
  <2>4. ASSUME NEW l \in leases, NEW t \in Instants, Renew(l, t) PROVE TypeInv'
    BY <2>4, QueueAssumption DEF Renew, Lease
  <2>5. ASSUME NEW l \in leases, NEW id \in Revisions, NEW text \in Texts,
               NEW t \in Instants, Complete(l, id, text, t)
        PROVE  TypeInv'
    <3>1. l.job \in Jobs /\ SourceOf(l.job) \in Sources /\ ModelOf(l.job) \in Models
      BY DEF Lease, Jobs, SourceOf, ModelOf
    <3>2. revision' \subseteq RevisionRow
      BY <2>5, <3>1 DEF Complete, Stored, RevisionRow
    <3>3. attempt' \in [Jobs -> [Numbers -> Outcomes]]
      BY <2>5, CloseAttemptType DEF Complete, Finished
    <3>. QED
      BY <2>5, <3>1, <3>2, <3>3
      DEF Complete, Pointed, GiveUpLease, Statuses, Terminal, NoToken
  <2>6. ASSUME NEW l \in leases, NEW code \in FailureCodes, NEW retryable \in BOOLEAN,
               NEW t \in Instants, Fail(l, code, retryable, t)
        PROVE  TypeInv'
    <3>1. l.job \in Jobs
      BY DEF Lease
    <3>2. attempt' \in [Jobs -> [Numbers -> Outcomes]]
      BY <2>6, CloseAttemptType DEF Fail, Finished
    <3>3. retryAfter' \in [Jobs -> Nat \cup {NoTime}]
      BY <2>6, <3>1, BackoffType DEF Fail, Holds
    <3>. QED
      BY <2>6, <3>1, <3>2, <3>3, QueueAssumption
      DEF Fail, GiveUpLease, Statuses, Claimable, Terminal, NoToken
  <2>7. ASSUME NEW j \in Jobs, Retry(j) PROVE TypeInv'
    BY <2>7 DEF Retry, Statuses, Claimable
  <2>8. ASSUME NEW j \in Jobs, Cancel(j) PROVE TypeInv'
    BY <2>8 DEF Cancel, CloseOpen, GiveUpLease, Statuses, Terminal, Outcomes,
                Finished, NoToken
  <2>9. CASE Tick
    BY <2>9 DEF Tick
  <2>10. CASE UNCHANGED queueVars
    BY <2>10 DEF queueVars
  <2>. QED
    BY <2>1, <2>2, <2>3, <2>4, <2>5, <2>6, <2>7, <2>8, <2>9, <2>10 DEF Next
<1>. QED
  BY <1>1, <1>2, PTL DEF Spec

\* Every operation keeps every column of its type (JobQueue!TypeOK), so no
\* transaction of the repository is refused by a CHECK constraint.
THEOREM TypeCorrect == Spec => []TypeOK
<1>1. TypeInv => TypeOK
  BY DEF TypeInv
<1>. QED
  BY <1>1, TypeInvariant, PTL

-----------------------------------------------------------------------------
(***************************************************************************)
(* Attempts, budgets and tokens.  A lease stays with its holder after the  *)
(* queue has given the job to somebody else, so what is inductive speaks   *)
(* of every lease ever handed out: its token was issued, its attempt was   *)
(* counted, and it is the current one only if its attempt is the newest.   *)
(***************************************************************************)
TokensAreIssued ==
    /\ \A j \in Jobs : token[j] <= issued
    /\ \A l \in leases : l.token <= issued /\ l.number <= count[l.job]

\* Where there is no row there is no attempt: what a new row starts from.
AbsentIsBlank == \A j \in Jobs : status[j] = "absent" => count[j] = 0

HistoryInv ==
    /\ AbsentIsBlank
    /\ AttemptsMatchJob
    /\ BudgetRespected
    /\ TokensAreIssued
    /\ OnlyNewestLeaseCurrent

\* What recovery makes of a job: it was processing, and is retryable only with
\* budget left.
LEMMA InterruptedJobs ==
    ASSUME TypeOK, NEW t, NEW j \in Expired(t)
    PROVE  /\ j \in Jobs
           /\ status[j] = "processing"
           /\ InterruptedStatus(j) \in {"failed_retryable", "failed_terminal"}
           /\ InterruptedStatus(j) = "failed_retryable" => count[j] < max[j]
BY DEF Expired, InterruptedStatus, TypeOK

\* The holder of a current lease works on the newest attempt, which is open.
LEMMA HolderIsNewest ==
    ASSUME TypeInv, HistoryInv, NEW l \in leases, NEW t, Holds(l, t)
    PROVE  /\ l.job \in Jobs
           /\ status[l.job] = "processing"
           /\ l.number = count[l.job]
           /\ count[l.job] \in Numbers
           /\ attempt[l.job][l.number] = "open"
BY DEF TypeInv, TypeOK, StartedIsCounted, HistoryInv, AttemptsMatchJob,
       OnlyNewestLeaseCurrent, Holds, Lease

\* What closing the attempt of such a lease does to the table of attempts.
LEMMA ClosesNewest ==
    ASSUME TypeInv, HistoryInv, NEW l \in leases, NEW t, Holds(l, t), NEW o \in Finished,
           NEW j \in Jobs, NEW n \in Numbers
    PROVE  CloseAttempt(l, o)[j][n] = IF j = l.job /\ n = count[j] THEN o ELSE attempt[j][n]
BY HolderIsNewest DEF CloseAttempt, TypeInv, TypeOK

\* A worker that answers under its lease leaves everything consistent, when the
\* status it leaves behind has the budget it needs.
LEMMA LeaseGivenUp ==
    ASSUME TypeInv, HistoryInv, NEW l \in leases, NEW t, Holds(l, t),
           UNCHANGED <<count, max, leases, issued>>,
           NEW s \in Terminal \cup {"failed_retryable"}, NEW o \in Finished,
           s = "failed_retryable" => count[l.job] < max[l.job],
           status' = [status EXCEPT ![l.job] = s],
           token' = [token EXCEPT ![l.job] = NoToken],
           attempt' = CloseAttempt(l, o)
    PROVE  HistoryInv'
<1>. USE HolderIsNewest DEF TypeInv, TypeOK
<1>1. AttemptsMatchJob'
  <2>1. ASSUME NEW j \in Jobs, NEW n \in Numbers
        PROVE  attempt'[j][n] = IF j = l.job /\ n = count[j] THEN o ELSE attempt[j][n]
    BY ClosesNewest
  <2>. QED
    BY <2>1 DEF HistoryInv, AttemptsMatchJob, Finished, Terminal
<1>2. BudgetRespected' /\ AbsentIsBlank' /\ TokensAreIssued'
  BY DEF HistoryInv, BudgetRespected, AbsentIsBlank, TokensAreIssued, Claimable,
         Terminal, NoToken
<1>3. OnlyNewestLeaseCurrent'
  BY DEF HistoryInv, OnlyNewestLeaseCurrent, Terminal
<1>. QED
  BY <1>1, <1>2, <1>3 DEF HistoryInv

\* The attempts, counts and tokens of every job stay consistent.
THEOREM HistoryInvariant == Spec => []HistoryInv
<1>1. Init => HistoryInv
  BY DEF Init, HistoryInv, AbsentIsBlank, AttemptsMatchJob, BudgetRespected, TokensAreIssued,
         OnlyNewestLeaseCurrent, Claimable, Numbers, NoToken
<1>2. TypeInv /\ HistoryInv /\ [Next]_queueVars => HistoryInv'
  <2> SUFFICES ASSUME TypeInv, HistoryInv, [Next]_queueVars PROVE HistoryInv'
    OBVIOUS
  <2>0. TypeOK
    BY DEF TypeInv
  <2>. USE <2>0, InstantsAreTimes DEF jobVars, leaseVars, outputVars, worldVars,
           HistoryInv, AbsentIsBlank, BudgetRespected, TokensAreIssued
  <2>1. ASSUME NEW j \in Jobs, NEW budget \in Budgets, NEW t \in Instants,
               Enqueue(j, budget, t)
        PROVE  HistoryInv'
    <3>1. count[j] = 0 /\ budget \in 1..10
      BY <2>1, QueueAssumption DEF Enqueue, CanInsert
    <3>. QED
      BY <2>1, <3>1 DEF Enqueue, TypeOK, AttemptsMatchJob, OnlyNewestLeaseCurrent, Claimable, Numbers
  <2>2. ASSUME NEW t \in Instants, RecoverExpired(t) PROVE HistoryInv'
    <3>1. \A j \in Jobs : /\ status'[j] = IF j \in Expired(t) THEN InterruptedStatus(j) ELSE status[j]
                          /\ token'[j] = IF j \in Expired(t) THEN NoToken ELSE token[j]
      BY <2>2 DEF RecoverExpired, RecoveredStatus, RecoveredToken, Recovered
    <3>2. \A j \in Jobs, n \in Numbers :
             attempt'[j][n] = IF j \in Expired(t) /\ attempt[j][n] = "open"
                              THEN "interrupted" ELSE attempt[j][n]
      BY <2>2 DEF RecoverExpired, RecoveredAttempt, Recovered, CloseOpen
    <3>3. UNCHANGED <<count, max, leases, issued>>
      BY <2>2 DEF RecoverExpired
    <3>4. AttemptsMatchJob'
      BY <3>1, <3>2, <3>3, InterruptedJobs DEF AttemptsMatchJob
    <3>5. BudgetRespected' /\ AbsentIsBlank'
      BY <3>1, <3>3, InterruptedJobs DEF Claimable
    <3>6. TokensAreIssued'
      BY <3>1, <3>3 DEF TypeOK, NoToken
    <3>7. OnlyNewestLeaseCurrent'
      BY <3>1, <3>3, InterruptedJobs DEF OnlyNewestLeaseCurrent
    <3>. QED
      BY <3>4, <3>5, <3>6, <3>7
  <2>3. ASSUME NEW m \in Models, NEW j \in Jobs, NEW t \in Instants, Claim(m, j, t)
        PROVE  HistoryInv'
    <3>. DEFINE number == count[j] + 1
    <3>1. count[j] < max[j] /\ number \in Numbers
      BY <2>3, ClaimNumber DEF Claim
    <3>2. \A k \in Jobs :
             /\ status'[k] = IF k = j THEN "processing"
                             ELSE IF k \in Expired(t) THEN InterruptedStatus(k) ELSE status[k]
             /\ token'[k] = IF k = j THEN issued + 1
                            ELSE IF k \in Expired(t) THEN NoToken ELSE token[k]
             /\ count'[k] = IF k = j THEN number ELSE count[k]
      BY <2>3 DEF Claim, FreshToken, RecoveredStatus, RecoveredToken, Recovered, TypeOK
    <3>3. \A k \in Jobs, n \in Numbers :
             attempt'[k][n] = IF k = j /\ n = number THEN "open"
                              ELSE IF k \in Expired(t) /\ attempt[k][n] = "open"
                              THEN "interrupted" ELSE attempt[k][n]
      <4>1. RecoveredAttempt(t) \in [Jobs -> [Numbers -> Outcomes]]
        BY RecoveryType
      <4>2. \A k \in Jobs, n \in Numbers : RecoveredAttempt(t)[k][n] =
               IF k \in Expired(t) /\ attempt[k][n] = "open" THEN "interrupted" ELSE attempt[k][n]
        BY DEF RecoveredAttempt, Recovered, CloseOpen
      <4>3. attempt' = [RecoveredAttempt(t) EXCEPT ![j][number] = "open"]
        BY <2>3 DEF Claim
      <4>. HIDE DEF number
      <4>. QED
        BY <3>1, <4>1, <4>2, <4>3
    <3>4. /\ max' = max
          /\ issued' = issued + 1
          /\ leases' = leases \cup {[job |-> j, token |-> issued + 1, number |-> number]}
      BY <2>3 DEF Claim, FreshToken
    <3>5. status[j] = "processing" => j \in Expired(t)
      BY <2>3 DEF Claim, Oldest, Due, RecoveredStatus, Recovered, Claimable
    <3>. HIDE DEF HistoryInv, AbsentIsBlank, BudgetRespected, TokensAreIssued
    <3>6. AttemptsMatchJob'
      <4>1. AttemptsMatchJob
        BY DEF HistoryInv
      <4>2. ASSUME NEW n \in Numbers
            PROVE  /\ attempt'[j][n] # "none" <=> n <= number
                   /\ attempt'[j][n] = "open" <=> n = number
        <5>1. /\ attempt[j][n] # "none" <=> n <= count[j]
              /\ attempt[j][n] = "open" => j \in Expired(t)
          BY <4>1, <3>5 DEF AttemptsMatchJob
        <5>2. attempt'[j][n] = IF n = number THEN "open"
                               ELSE IF j \in Expired(t) /\ attempt[j][n] = "open"
                               THEN "interrupted" ELSE attempt[j][n]
          BY <3>3
        <5>3. n \in Nat /\ count[j] \in Nat
          BY CountsAreNumbers DEF Numbers
        <5>. QED
          BY <5>1, <5>2, <5>3
      <4>3. ASSUME NEW k \in Jobs, k # j, NEW n \in Numbers
            PROVE  /\ attempt'[k][n] # "none" <=> n <= count[k]
                   /\ attempt'[k][n] = "open" <=> n = count[k] /\ status'[k] = "processing"
        BY <4>1, <3>2, <3>3, <4>3, InterruptedJobs DEF AttemptsMatchJob
      <4>. QED
        BY <3>2, <4>2, <4>3 DEF AttemptsMatchJob
    <3>7. BudgetRespected' /\ AbsentIsBlank'
      <4>1. BudgetRespected /\ AbsentIsBlank
        BY DEF HistoryInv
      <4>2. max[j] \in Nat /\ count[j] \in Nat
        BY CountsAreNumbers DEF TypeOK
      <4>3. number <= max[j] /\ number # 0
        BY <3>1, <4>2
      <4>. HIDE DEF number
      <4>4. BudgetRespected'
        BY <3>2, <3>4, <4>1, <4>3, InterruptedJobs DEF BudgetRespected, Claimable
      <4>5. AbsentIsBlank'
        BY <3>2, <4>1, InterruptedJobs DEF AbsentIsBlank
      <4>. QED
        BY <4>4, <4>5
    <3>8. TokensAreIssued'
      <4>1. TokensAreIssued
        BY DEF HistoryInv
      <4>2. issued \in Nat /\ \A k \in Jobs : count[k] \in Nat /\ token[k] \in Nat
        BY CountsAreNumbers
      <4>3. \A k \in Jobs : token'[k] <= issued'
        BY <3>2, <3>4, <4>1, <4>2 DEF TokensAreIssued, NoToken
      <4>4. ASSUME NEW l \in leases' PROVE l.token <= issued' /\ l.number <= count'[l.job]
        <5>1. CASE l \in leases
          <6>1. l.token \in Nat /\ l.number \in Nat /\ l.job \in Jobs
            BY <5>1, LeaseType
          <6>2. l.token <= issued /\ l.number <= count[l.job]
            BY <4>1, <5>1 DEF TokensAreIssued
          <6>3. count[l.job] \in Nat /\ count[j] \in Nat
            BY <4>2, <6>1
          <6>4. count'[l.job] = count[l.job] \/ count'[l.job] = count[l.job] + 1
            BY <3>2, <6>1
          <6>. QED
            BY <3>4, <4>2, <6>1, <6>2, <6>3, <6>4
        <5>2. CASE l = [job |-> j, token |-> issued + 1, number |-> number]
          <6>1. l.job = j /\ l.token = issued + 1 /\ l.number = number
            BY <5>2
          <6>2. number \in Nat
            BY <3>1 DEF Numbers
          <6>. HIDE DEF number
          <6>. QED
            BY <3>2, <3>4, <4>2, <6>1, <6>2
        <5>. QED
          BY <3>4, <5>1, <5>2
      <4>. QED
        BY <4>3, <4>4 DEF TokensAreIssued
    <3>9. OnlyNewestLeaseCurrent'
      <4>1. OnlyNewestLeaseCurrent /\ TokensAreIssued
        BY DEF HistoryInv
      <4>2. issued \in Nat /\ count[j] \in Nat /\ number = count[j] + 1
        BY CountsAreNumbers
      <4>. HIDE DEF number
      <4>3. ASSUME NEW l \in leases', NEW k \in Jobs, status'[k] = "processing"
            PROVE  token'[k] = l.token <=> l.job = k /\ l.number = count'[k]
        <5>1. CASE l \in leases /\ k = j
          <6>1. /\ l.token \in Nat /\ l.token <= issued
                /\ l.number \in Nat /\ l.number <= count[l.job]
            BY <4>1, <5>1, LeaseType DEF TokensAreIssued
          <6>2. token'[k] = issued + 1 /\ count'[k] = number
            BY <3>2, <5>1
          <6>. QED
            BY <4>2, <5>1, <6>1, <6>2
        <5>2. CASE l \in leases /\ k # j
          <6>1. status[k] = "processing" /\ token'[k] = token[k] /\ count'[k] = count[k]
            BY <3>2, <4>3, <5>2, InterruptedJobs
          <6>. QED
            BY <4>1, <5>2, <6>1 DEF OnlyNewestLeaseCurrent
        <5>3. CASE l = [job |-> j, token |-> issued + 1, number |-> number]
          <6>1. l.job = j /\ l.token = issued + 1 /\ l.number = number
            BY <5>3
          <6>2. k # j => token'[k] = token[k]
            BY <3>2, <4>3, InterruptedJobs
          <6>3. token[k] \in Nat /\ token[k] <= issued
            BY <4>1 DEF TokensAreIssued, TypeOK
          <6>. QED
            BY <3>2, <4>2, <6>1, <6>2, <6>3
        <5>. QED
          BY <3>4, <5>1, <5>2, <5>3
      <4>. QED
        BY <4>3 DEF OnlyNewestLeaseCurrent
    <3>. QED
      BY <3>6, <3>7, <3>8, <3>9 DEF HistoryInv
  <2>4. ASSUME NEW l \in leases, NEW t \in Instants, Renew(l, t) PROVE HistoryInv'
    BY <2>4 DEF Renew, HistoryInv, AttemptsMatchJob, BudgetRespected, TokensAreIssued,
                OnlyNewestLeaseCurrent
  <2>5. ASSUME NEW l \in leases, NEW id \in Revisions, NEW text \in Texts,
               NEW t \in Instants, Complete(l, id, text, t)
        PROVE  HistoryInv'
    <3>1. Holds(l, t) /\ UNCHANGED <<count, max, leases, issued>>
      BY <2>5 DEF Complete
    <3>2. /\ status' = [status EXCEPT ![l.job] = "completed"]
          /\ token' = [token EXCEPT ![l.job] = NoToken]
      BY <2>5 DEF Complete, GiveUpLease
    <3>3. attempt' = CloseAttempt(l, "completed")
      BY <2>5 DEF Complete
    <3>. QED
      BY <3>1, <3>2, <3>3, LeaseGivenUp DEF Finished, Terminal
  <2>6. ASSUME NEW l \in leases, NEW code \in FailureCodes, NEW retryable \in BOOLEAN,
               NEW t \in Instants, Fail(l, code, retryable, t)
        PROVE  HistoryInv'
    <3>1. Holds(l, t) /\ UNCHANGED <<count, max, leases, issued>>
      BY <2>6 DEF Fail
    <3>2. PICK s \in {"failed_retryable", "failed_terminal"} :
             /\ status' = [status EXCEPT ![l.job] = s]
             /\ s = "failed_retryable" => count[l.job] < max[l.job]
      BY <2>6 DEF Fail
    <3>3. /\ token' = [token EXCEPT ![l.job] = NoToken]
          /\ attempt' = CloseAttempt(l, "failed")
      BY <2>6 DEF Fail, GiveUpLease
    <3>. QED
      BY <3>1, <3>2, <3>3, LeaseGivenUp DEF Finished, Terminal
  <2>7. ASSUME NEW j \in Jobs, Retry(j) PROVE HistoryInv'
    BY <2>7 DEF Retry, CanRetry, TypeOK, HistoryInv, AttemptsMatchJob, BudgetRespected,
                TokensAreIssued, OnlyNewestLeaseCurrent, Claimable
  <2>8. ASSUME NEW j \in Jobs, Cancel(j) PROVE HistoryInv'
    <3>1. \A n \in Numbers : attempt'[j][n] = IF attempt[j][n] = "open" THEN "cancelled"
                                              ELSE attempt[j][n]
      BY <2>8 DEF Cancel, CloseOpen, TypeOK
    <3>2. \A k \in Jobs : k # j => attempt'[k] = attempt[k]
      BY <2>8 DEF Cancel, TypeOK
    <3>3. AttemptsMatchJob'
      BY <2>8, <3>1, <3>2 DEF Cancel, TypeOK, AttemptsMatchJob
    <3>4. BudgetRespected' /\ AbsentIsBlank' /\ TokensAreIssued' /\ OnlyNewestLeaseCurrent'
      BY <2>8 DEF Cancel, GiveUpLease, TypeOK, OnlyNewestLeaseCurrent, Claimable, NoToken
    <3>. QED
      BY <3>3, <3>4
  <2>9. CASE Tick
    BY <2>9 DEF Tick, HistoryInv, AttemptsMatchJob, BudgetRespected, TokensAreIssued,
                OnlyNewestLeaseCurrent
  <2>10. CASE UNCHANGED queueVars
    BY <2>10 DEF queueVars, HistoryInv, AttemptsMatchJob, BudgetRespected,
                 TokensAreIssued, OnlyNewestLeaseCurrent
  <2>. QED
    BY <2>1, <2>2, <2>3, <2>4, <2>5, <2>6, <2>7, <2>8, <2>9, <2>10 DEF Next
<1>. QED
  BY <1>1, <1>2, TypeInvariant, PTL DEF Spec

\* Of all the workers that ever held a job, only the one of its newest attempt
\* can still act on it (OnlyNewestLeaseCurrent), the attempt history agrees with
\* the job (AttemptsMatchJob), and what waits has attempts left
\* (BudgetRespected): claim, _assert_lease and _recover_locked together.
THEOREM HistoryCorrect ==
    Spec => [](AttemptsMatchJob /\ BudgetRespected /\ OnlyNewestLeaseCurrent)
<1>1. HistoryInv => AttemptsMatchJob /\ BudgetRespected /\ OnlyNewestLeaseCurrent
  BY DEF HistoryInv
<1>. QED
  BY <1>1, HistoryInvariant, PTL

-----------------------------------------------------------------------------
(* What a step may do to job j *)

Untouched(j) ==
    /\ status'[j] = status[j] /\ count'[j] = count[j] /\ max'[j] = max[j]
    /\ error'[j] = error[j] /\ result'[j] = result[j] /\ retryAfter'[j] = retryAfter[j]
    /\ attempt'[j] = attempt[j]

Inserted(j) ==
    /\ status[j] = "absent" /\ status'[j] = "queued"
    /\ count'[j] = count[j] /\ error'[j] = error[j]
    /\ retryAfter'[j] = retryAfter[j] /\ attempt'[j] = attempt[j]

\* Recovery takes the job back; after that a claim may start it anew.
TakenBack(j) == status[j] = "processing" /\ expires[j] <= now

Interrupted(j) ==
    /\ TakenBack(j)
    /\ status'[j] \in {"failed_retryable", "failed_terminal"}
    /\ count'[j] = count[j] /\ error'[j] = "WORKER_INTERRUPTED" /\ retryAfter'[j] = NoTime
    /\ \A n \in Numbers :
        attempt'[j][n] = IF attempt[j][n] = "open" THEN "interrupted" ELSE attempt[j][n]

Claimed(j) ==
    /\ status[j] \in Claimable \/ TakenBack(j)
    /\ status'[j] = "processing"
    /\ count'[j] = count[j] + 1 /\ error'[j] = NoError /\ retryAfter'[j] = NoTime
    /\ \A n \in Numbers :
        attempt'[j][n] = IF n = count[j] + 1 THEN "open"
                         ELSE IF attempt[j][n] = "open" THEN "interrupted" ELSE attempt[j][n]

Answered(j, outcome) ==
    /\ status[j] = "processing" /\ expires[j] + ClockLag > now
    /\ count'[j] = count[j]
    /\ \A n \in Numbers :
        attempt'[j][n] = IF n = count[j] THEN outcome ELSE attempt[j][n]

Completed(j) ==
    /\ Answered(j, "completed")
    /\ status'[j] = "completed" /\ error'[j] = NoError /\ retryAfter'[j] = NoTime

Failed(j) ==
    /\ Answered(j, "failed")
    /\ status'[j] \in {"failed_retryable", "failed_terminal"} /\ error'[j] \in WorkerCodes

Retried(j) ==
    /\ status[j] = "failed_retryable" /\ status'[j] = "queued"
    /\ count'[j] = count[j] /\ error'[j] = NoError /\ retryAfter'[j] = NoTime
    /\ attempt'[j] = attempt[j]

Cancelled(j) ==
    /\ status[j] \in Claimable \cup {"processing"} /\ status'[j] = "cancelled"
    /\ count'[j] = count[j] /\ error'[j] = error[j] /\ retryAfter'[j] = NoTime
    /\ \A n \in Numbers :
        attempt'[j][n] = IF attempt[j][n] = "open" THEN "cancelled" ELSE attempt[j][n]

QuietRowStep(j) ==
    \/ Untouched(j) \/ Inserted(j) \/ Interrupted(j) \/ Claimed(j)
    \/ Completed(j) \/ Retried(j) \/ Cancelled(j)

RowStep(j) == QuietRowStep(j) \/ Failed(j)

\* Next, without the reports of failures.
QuietNext ==
    \/ \E j \in Jobs, budget \in Budgets, t \in Instants : Enqueue(j, budget, t)
    \/ \E t \in Instants : RecoverExpired(t)
    \/ \E m \in Models, j \in Jobs, t \in Instants : Claim(m, j, t)
    \/ \E l \in leases, t \in Instants : Renew(l, t)
    \/ \E l \in leases, id \in Revisions, text \in Texts, t \in Instants : Complete(l, id, text, t)
    \/ \E j \in Jobs : Retry(j) \/ Cancel(j)
    \/ Tick

\* The instant of a transaction lies at most ClockLag behind the clock.
LEMMA InstantsAreRecent ==
    ASSUME TypeOK, NEW t \in Instants
    PROVE  t \in Nat /\ now \in Nat /\ t <= now /\ now <= t + ClockLag
BY QueueAssumption DEF Instants, TypeOK

\* A row that recovery takes back has a lease that is over.
LEMMA ExpiredIsTakenBack ==
    ASSUME TypeOK, NEW t \in Instants, NEW j \in Expired(t)
    PROVE  j \in Jobs /\ TakenBack(j)
<1>1. expires[j] \in Int /\ expires[j] <= t /\ j \in Jobs /\ status[j] = "processing"
  BY DEF Expired, TypeOK, NoTime
<1>. QED
  BY <1>1, InstantsAreRecent DEF TakenBack

\* A lease that holds at some instant has not been over for longer than the lag.
LEMMA HeldIsRecent ==
    ASSUME TypeOK, NEW l \in leases, NEW t \in Instants, Holds(l, t)
    PROVE  expires[l.job] + ClockLag > now
<1>1. expires[l.job] \in Int /\ expires[l.job] > t
  BY LeaseType DEF Holds, TypeOK, NoTime
<1>. QED
  BY <1>1, InstantsAreRecent, QueueAssumption

\* recover_expired sees only the rows whose lease is over.
LEMMA RecoverStep ==
    ASSUME TypeInv, HistoryInv, NEW t \in Instants, RecoverExpired(t), NEW j \in Jobs
    PROVE  Untouched(j) \/ Interrupted(j)
<1>0. TypeOK
  BY DEF TypeInv
<1>1. CASE j \in Expired(t)
  BY <1>0, <1>1, ExpiredIsTakenBack, InterruptedJobs
     DEF RecoverExpired, RecoveredStatus, RecoveredError, RecoveredRetryAfter, RecoveredAttempt, Recovered,
         CloseOpen, Interrupted
<1>2. CASE j \notin Expired(t)
  BY <1>2 DEF RecoverExpired, RecoveredStatus, RecoveredError, RecoveredRetryAfter, RecoveredAttempt, Recovered,
              Untouched
<1>. QED
  BY <1>1, <1>2

\* So does a claim, which then starts one job.
LEMMA ClaimStep ==
    ASSUME TypeInv, HistoryInv, NEW m \in Models, NEW i \in Jobs, NEW t \in Instants, Claim(m, i, t),
           NEW j \in Jobs
    PROVE  Untouched(j) \/ Interrupted(j) \/ (j = i /\ Claimed(j))
<1>0. TypeOK
  BY DEF TypeInv
<1>1. CASE j # i /\ j \in Expired(t)
  BY <1>0, <1>1, ExpiredIsTakenBack, InterruptedJobs, RecoveryType
     DEF Claim, RecoveredStatus, RecoveredError, RecoveredRetryAfter, RecoveredAttempt, Recovered,
         CloseOpen, Interrupted, TypeOK
<1>2. CASE j # i /\ j \notin Expired(t)
  BY <1>0, <1>2 DEF Claim, RecoveredStatus, RecoveredError, RecoveredRetryAfter, RecoveredAttempt, Recovered,
              Untouched, TypeOK
<1>3. CASE j = i
  <2>1. count[j] + 1 \in Numbers
    BY <1>0, <1>3, ClaimNumber DEF Claim
  <2>2. status[j] \in Claimable \/ TakenBack(j)
    <3>1. j \in Expired(t) => TakenBack(j)
      BY <1>0, ExpiredIsTakenBack
    <3>2. RecoveredStatus(t)[j] \in Claimable
      BY <1>3 DEF Claim, Oldest, Due
    <3>. QED
      BY <3>1, <3>2 DEF RecoveredStatus, Recovered
  <2>3. /\ status'[j] = "processing" /\ count'[j] = count[j] + 1
        /\ error'[j] = NoError /\ retryAfter'[j] = NoTime
    <3>1. /\ RecoveredStatus(t) \in [Jobs -> Statuses]
          /\ RecoveredRetryAfter(t) \in [Jobs -> Nat \cup {NoTime}]
          /\ RecoveredError(t) \in [Jobs -> WorkerCodes \cup {NoError, "WORKER_INTERRUPTED"}]
          /\ count \in [Jobs -> 0..10]
      BY <1>0, RecoveryType, InstantsAreTimes DEF TypeOK
    <3>. QED
      BY <1>3, <3>1 DEF Claim
  <2>4. ASSUME NEW n \in Numbers
        PROVE  attempt'[j][n] = IF n = count[j] + 1 THEN "open"
                                ELSE IF attempt[j][n] = "open" THEN "interrupted" ELSE attempt[j][n]
    <3>1. attempt[j][n] = "open" => j \in Expired(t)
      BY <1>3, <1>0 DEF Claim, Oldest, Due, RecoveredStatus, Recovered, Claimable, HistoryInv, AttemptsMatchJob
    <3>2. attempt' = [RecoveredAttempt(t) EXCEPT ![j][count[j] + 1] = "open"]
      BY <1>3 DEF Claim
    <3>3. RecoveredAttempt(t)[j][n] =
            IF j \in Expired(t) /\ attempt[j][n] = "open" THEN "interrupted" ELSE attempt[j][n]
      BY DEF RecoveredAttempt, Recovered, CloseOpen
    <3>4. RecoveredAttempt(t) \in [Jobs -> [Numbers -> Outcomes]]
      BY <1>0, RecoveryType, InstantsAreTimes
    <3>. DEFINE number == count[j] + 1
    <3>5. number \in Numbers /\ attempt' = [RecoveredAttempt(t) EXCEPT ![j][number] = "open"]
      BY <2>1, <3>2
    <3>. HIDE DEF number
    <3>6. attempt'[j][n] = IF n = number THEN "open" ELSE RecoveredAttempt(t)[j][n]
      BY <3>4, <3>5
    <3>. QED
      BY <3>1, <3>3, <3>6 DEF number
  <2>. QED
    BY <1>3, <2>2, <2>3, <2>4 DEF Claimed
<1>. QED
  BY <1>1, <1>2, <1>3

\* An answer closes the newest attempt of the job of the lease and no other.
LEMMA AnswerStep ==
    ASSUME TypeInv, HistoryInv, NEW l \in leases, NEW t \in Instants, Holds(l, t),
           NEW o \in {"completed", "failed"}, attempt' = CloseAttempt(l, o), count' = count
    PROVE  /\ l.job \in Jobs
           /\ Answered(l.job, o)
           /\ \A j \in Jobs : j # l.job => attempt'[j] = attempt[j]
<1>0. TypeOK
  BY DEF TypeInv
<1>1. l.job \in Jobs /\ status[l.job] = "processing" /\ expires[l.job] + ClockLag > now
  BY <1>0, HolderIsNewest, HeldIsRecent
<1>2. \A n \in Numbers : attempt'[l.job][n] = IF n = count[l.job] THEN o ELSE attempt[l.job][n]
  BY <1>1, ClosesNewest DEF Finished
<1>3. \A j \in Jobs : j # l.job => attempt'[j] = attempt[j]
  BY <1>0 DEF CloseAttempt, TypeOK
<1>. QED
  BY <1>1, <1>2, <1>3 DEF Answered

\* Every transaction but a failure does one of the other things to every job.
LEMMA QuietRowSteps ==
    ASSUME TypeInv, HistoryInv, [QuietNext]_queueVars, NEW j \in Jobs
    PROVE  QuietRowStep(j)
<1>0. TypeOK
  BY DEF TypeInv
<1>1. ASSUME NEW i \in Jobs, NEW budget \in Budgets, NEW t \in Instants, Enqueue(i, budget, t)
      PROVE  Untouched(j) \/ Inserted(j)
  BY <1>0, <1>1 DEF Enqueue, CanInsert, Untouched, Inserted, TypeOK
<1>2. ASSUME NEW l \in leases, NEW t \in Instants, Renew(l, t) PROVE Untouched(j)
  BY <1>2 DEF Renew, Untouched
<1>3. ASSUME NEW l \in leases, NEW id \in Revisions, NEW text \in Texts, NEW t \in Instants,
             Complete(l, id, text, t)
      PROVE  Untouched(j) \/ Completed(j)
  <2>1. /\ l.job \in Jobs
        /\ Answered(l.job, "completed")
        /\ \A k \in Jobs : k # l.job => attempt'[k] = attempt[k]
    BY <1>3, AnswerStep DEF Complete
  <2>. QED
    BY <1>0, <1>3, <2>1 DEF Complete, Untouched, Completed, TypeOK
<1>4. ASSUME NEW i \in Jobs, Retry(i) PROVE Untouched(j) \/ Retried(j)
  BY <1>0, <1>4 DEF Retry, CanRetry, Untouched, Retried, TypeOK
<1>5. ASSUME NEW i \in Jobs, Cancel(i) PROVE Untouched(j) \/ Cancelled(j)
  BY <1>0, <1>5 DEF Cancel, CloseOpen, Untouched, Cancelled, TypeOK
<1>6. CASE Tick \/ UNCHANGED queueVars
  BY <1>6 DEF Tick, Untouched, QuietRowStep, queueVars, jobVars
<1>. QED
  BY <1>1, <1>2, <1>3, <1>4, <1>5, <1>6, RecoverStep, ClaimStep DEF QuietNext, QuietRowStep

\* A failure does it to the job of the lease, with the code the worker gave.
LEMMA FailStep ==
    ASSUME TypeInv, HistoryInv, NEW l \in leases, NEW code \in FailureCodes, NEW retryable \in BOOLEAN,
           NEW t \in Instants, Fail(l, code, retryable, t), NEW j \in Jobs
    PROVE  IF j = l.job
           THEN Failed(j) /\ error'[j] = code /\ (~retryable => status'[j] = "failed_terminal")
           ELSE Untouched(j)
<1>0. TypeOK
  BY DEF TypeInv
<1>1. /\ l.job \in Jobs
      /\ Answered(l.job, "failed")
      /\ \A k \in Jobs : k # l.job => attempt'[k] = attempt[k]
  BY AnswerStep DEF Fail
<1>2. CASE j # l.job
  BY <1>0, <1>1, <1>2 DEF Fail, Untouched, TypeOK
<1>3. CASE j = l.job
  <2>1. /\ status'[j] \in {"failed_retryable", "failed_terminal"} /\ error'[j] = code
        /\ ~retryable => status'[j] = "failed_terminal"
    BY <1>0, <1>3 DEF Fail, TypeOK
  <2>. QED
    BY <1>1, <1>3, <2>1, QueueAssumption DEF Failed
<1>. QED
  BY <1>2, <1>3

\* Every transaction does one of these things to every job.
LEMMA RowSteps ==
    ASSUME TypeInv, HistoryInv, [Next]_queueVars, NEW j \in Jobs
    PROVE  RowStep(j)
<1>1. CASE [QuietNext]_queueVars
  BY <1>1, QuietRowSteps DEF RowStep
<1>2. ASSUME NEW l \in leases, NEW code \in FailureCodes, NEW retryable \in BOOLEAN, NEW t \in Instants,
             Fail(l, code, retryable, t)
      PROVE  RowStep(j)
  BY <1>2, FailStep DEF RowStep, QuietRowStep
<1>. QED
  BY <1>1, <1>2 DEF Next, QuietNext

\* A newer attempt has another number.
LEMMA NumbersAreCounted ==
    ASSUME TypeInv, HistoryInv, NEW j \in Jobs, NEW n \in Numbers
    PROVE  /\ count[j] \in Nat /\ n \in Nat
           /\ attempt[j][n] # "none" => n # count[j] + 1
           /\ attempt[j][n] = "open" <=> n = count[j] /\ status[j] = "processing"
BY CountsAreNumbers DEF TypeInv, HistoryInv, AttemptsMatchJob, Numbers

\* A terminal job is left alone by every transaction but those that do not see it.
LEMMA TerminalIsLeftAlone ==
    ASSUME TypeInv, HistoryInv, [Next]_queueVars, NEW j \in Jobs, status[j] \in Terminal
    PROVE  Untouched(j)
BY RowSteps DEF RowStep, QuietRowStep, Inserted, Interrupted, Claimed, TakenBack, Completed, Failed, Answered,
                Retried, Cancelled, Claimable, Terminal

\* An attempt that has ended is neither the open one nor the next.
LEMMA FinishedIsLeftAlone ==
    ASSUME TypeInv, HistoryInv, [Next]_queueVars, NEW j \in Jobs, NEW n \in Numbers,
           attempt[j][n] \in Finished
    PROVE  attempt'[j][n] = attempt[j][n]
<1>1. attempt[j][n] # "open" /\ n # count[j] + 1 /\ ~(n = count[j] /\ status[j] = "processing")
  BY NumbersAreCounted DEF Finished
<1>. QED
  BY <1>1, RowSteps DEF RowStep, QuietRowStep, Untouched, Inserted, Interrupted, Claimed, Completed, Failed, Answered,
                Retried, Cancelled

\* An open attempt ends because its lease is over, or under its lease.
LEMMA OpenIsEnded ==
    ASSUME TypeInv, HistoryInv, [Next]_queueVars, NEW j \in Jobs, NEW n \in Numbers,
           attempt[j][n] = "open"
    PROVE  /\ attempt'[j][n] = "interrupted" => expires[j] <= now
           /\ attempt'[j][n] \in {"completed", "failed"} => expires[j] + ClockLag > now
<1>1. status[j] = "processing" /\ n # count[j] + 1
  BY NumbersAreCounted
<1>. QED
  BY <1>1, RowSteps DEF RowStep, QuietRowStep, Untouched, Inserted, Interrupted, Claimed, TakenBack, Completed, Failed,
                Answered, Retried, Cancelled, Claimable

\* Jobs that are over and attempts that have ended stay as they are (HistoryIsKept),
\* whichever worker, person or recovery writes to the tables, and however late.
THEOREM HistoryIsNeverRewritten == Spec => HistoryIsKept
<1>1. TypeInv /\ HistoryInv /\ [Next]_queueVars =>
        [/\ \A j \in Jobs : status[j] \in Terminal =>
              /\ status'[j] = status[j]
              /\ count'[j] = count[j]
              /\ max'[j] = max[j]
              /\ error'[j] = error[j]
              /\ result'[j] = result[j]
              /\ attempt'[j] = attempt[j]
         /\ \A j \in Jobs, n \in Numbers :
              attempt[j][n] \in Finished => attempt'[j][n] = attempt[j][n]]_queueVars
  BY TerminalIsLeftAlone, FinishedIsLeftAlone DEF Untouched
<1>. QED
  BY <1>1, TypeInvariant, HistoryInvariant, PTL DEF Spec, HistoryIsKept

\* No job is taken from a lease that runs, and no answer is taken without one:
\* _recover_locked and _assert_lease, with a clock read before the lock.
THEOREM LeasesAreRespected == Spec => LiveLeaseNotStolen /\ AnswerNeedsLease
<1>1. TypeInv /\ HistoryInv /\ [Next]_queueVars =>
        [\A j \in Jobs, n \in Numbers :
            attempt[j][n] = "open" /\ attempt'[j][n] = "interrupted"
                => expires[j] <= now]_queueVars
  BY OpenIsEnded
<1>2. TypeInv /\ HistoryInv /\ [Next]_queueVars =>
        [\A j \in Jobs, n \in Numbers :
            attempt[j][n] = "open" /\ attempt'[j][n] \in {"completed", "failed"}
                => expires[j] + ClockLag > now]_queueVars
  BY OpenIsEnded
<1>. QED
  BY <1>1, <1>2, TypeInvariant, HistoryInvariant, PTL DEF Spec, LiveLeaseNotStolen, AnswerNeedsLease

-----------------------------------------------------------------------------
(* The order of claims *)

\* Only a job that waits has a backoff.
BackoffIsWaiting == \A j \in Jobs : status[j] = "processing" => retryAfter[j] = NoTime

\* claim clears retry_after, and nothing sets it while the job is processing.
THEOREM BackoffInvariant == Spec => []BackoffIsWaiting
<1>1. Init => BackoffIsWaiting
  BY DEF Init, BackoffIsWaiting
<1>2. TypeInv /\ HistoryInv /\ BackoffIsWaiting /\ [Next]_queueVars => BackoffIsWaiting'
  BY RowSteps DEF BackoffIsWaiting, RowStep, QuietRowStep, Untouched, Inserted, Interrupted, Claimed, Completed, Failed, Answered,
                  Retried, Cancelled
<1>. QED
  BY <1>1, <1>2, TypeInvariant, HistoryInvariant, PTL DEF Spec

\* What is due stays due.
LEMMA DueStaysDue ==
    ASSUME TypeOK, NEW m, NEW t \in Int, NEW u \in Int, t <= u
    PROVE  Due(m, t) \subseteq Due(m, u)
<1>. SUFFICES ASSUME NEW j \in Due(m, t) PROVE j \in Due(m, u)
  OBVIOUS
<1>1. j \in Jobs /\ expires[j] \in Int /\ retryAfter[j] \in Int
  BY DEF Due, TypeOK, NoTime
<1>2. CASE j \in Expired(t)
  <2>1. j \in Expired(u)
    BY <1>1, <1>2 DEF Expired
  <2>. QED
    BY <1>1, <1>2, <2>1 DEF Due, RecoveredStatus, RecoveredRetryAfter, Recovered, NoTime
<1>3. CASE j \notin Expired(t)
  <2>1. status[j] \in Claimable /\ retryAfter[j] <= t /\ j \notin Expired(u)
    BY <1>1, <1>3 DEF Due, RecoveredStatus, RecoveredRetryAfter, Recovered, Expired, Claimable
  <2>. QED
    BY <1>1, <2>1 DEF Due, RecoveredStatus, RecoveredRetryAfter, Recovered
<1>. QED
  BY <1>2, <1>3

\* Only a claim starts a job, and it takes one of the oldest that are due.
LEMMA ClaimedInOrder ==
    ASSUME TypeInv, HistoryInv, BackoffIsWaiting, [Next]_queueVars, NEW j \in Jobs, count'[j] > count[j]
    PROVE  /\ retryAfter[j] <= now
           /\ \A k \in Due(ModelOf(j), now - ClockLag) : created[k] >= created[j]
<1>0. TypeOK /\ count[j] \in Nat
  BY CountsAreNumbers DEF TypeInv
<1>1. PICK m \in Models, i \in Jobs, t \in Instants : Claim(m, i, t)
  <2>1. count' # count
    BY <1>0
  <2>. QED
    BY <2>1 DEF Next, Enqueue, RecoverExpired, Renew, Complete, Fail, Retry, Cancel, Tick, queueVars, jobVars
<1>2. i = j
  BY <1>0, <1>1 DEF Claim, TypeOK
<1>3. j \in Oldest(m, t)
  BY <1>1, <1>2 DEF Claim
<1>4. t \in Nat /\ now \in Nat /\ t <= now /\ now - ClockLag <= t /\ now - ClockLag \in Int
  BY <1>0, InstantsAreRecent, QueueAssumption
<1>5. retryAfter[j] <= now
  <2>1. retryAfter[j] \in Int
    BY <1>0 DEF TypeOK, NoTime
  <2>2. CASE j \in Expired(t)
    BY <1>4, <2>2 DEF Expired, BackoffIsWaiting, NoTime
  <2>3. CASE j \notin Expired(t)
    BY <1>3, <1>4, <2>1, <2>3 DEF Oldest, Due, RecoveredRetryAfter, Recovered
  <2>. QED
    BY <2>2, <2>3
<1>6. ASSUME NEW k \in Due(ModelOf(j), now - ClockLag) PROVE created[k] >= created[j]
  <2>1. ModelOf(j) = m
    BY <1>3 DEF Oldest, Due
  <2>2. k \in Due(m, t)
    BY <1>0, <1>4, <2>1, <1>6, DueStaysDue
  <2>3. created[j] <= created[k]
    BY <1>3, <2>2 DEF Oldest
  <2>4. created[j] \in Nat /\ created[k] \in Nat
    BY <1>0, <2>2 DEF TypeOK, Due
  <2>. QED
    BY <2>3, <2>4
<1>. QED
  BY <1>5, <1>6

\* claim starts no job before its backoff is over and passes over none that has
\* waited longer (ClaimsInOrder), recovered rows included.
THEOREM ClaimsKeepOrder == Spec => ClaimsInOrder
<1>1. TypeInv /\ HistoryInv /\ BackoffIsWaiting /\ [Next]_queueVars =>
        [\A j \in Jobs : count'[j] > count[j] =>
            /\ retryAfter[j] <= now
            /\ \A k \in Due(ModelOf(j), now - ClockLag) :
                  created[k] >= created[j]]_queueVars
  BY ClaimedInOrder
<1>. QED
  BY <1>1, TypeInvariant, HistoryInvariant, BackoffInvariant, PTL DEF Spec, ClaimsInOrder

-----------------------------------------------------------------------------
(* The last attempt explains the job *)

Explained(j) ==
    /\ status[j] \in {"failed_retryable", "failed_terminal"} =>
          attempt[j][count[j]] = IF error[j] = "WORKER_INTERRUPTED" THEN "interrupted" ELSE "failed"
    /\ \A n \in Numbers : attempt[j][n] = "completed" <=> n = count[j] /\ status[j] = "completed"

\* A job that has failed or completed has been started.
OutcomesAreCounted ==
    \A j \in Jobs : status[j] \in {"failed_retryable", "failed_terminal", "completed"} => count[j] \in Numbers

ExplainInv == OutcomesAreCounted /\ \A j \in Jobs : Explained(j)

\* Each kind of step writes status, error and attempt together.
LEMMA RowStaysExplained ==
    ASSUME TypeInv, HistoryInv, ExplainInv, NEW j \in Jobs, RowStep(j)
    PROVE  Explained(j)' /\ (status'[j] \in {"failed_retryable", "failed_terminal", "completed"} => count'[j] \in Numbers)
<1>0. /\ Explained(j)
      /\ status[j] \in {"failed_retryable", "failed_terminal", "completed", "processing"} => count[j] \in Numbers
      /\ \A n \in Numbers :
            /\ count[j] \in Nat /\ n \in Nat
            /\ attempt[j][n] # "none" => n # count[j] + 1
            /\ attempt[j][n] = "open" <=> n = count[j] /\ status[j] = "processing"
  BY NumbersAreCounted DEF ExplainInv, OutcomesAreCounted, TypeInv, StartedIsCounted
<1>1. CASE Untouched(j) \/ Inserted(j) \/ Retried(j)
  BY <1>0, <1>1 DEF Untouched, Inserted, Retried, Explained
<1>2. CASE Interrupted(j)
  BY <1>0, <1>2 DEF Interrupted, TakenBack, Explained
<1>3. CASE Claimed(j)
  BY <1>0, <1>3 DEF Claimed, TakenBack, Explained, Claimable
<1>4. CASE Completed(j)
  BY <1>0, <1>4 DEF Completed, Answered, Explained
<1>5. CASE Failed(j)
  BY <1>0, <1>5 DEF Failed, Answered, Explained, WorkerCodes
<1>6. CASE Cancelled(j)
  BY <1>0, <1>6 DEF Cancelled, Explained, Claimable
<1>. QED
  BY <1>1, <1>2, <1>3, <1>4, <1>5, <1>6 DEF RowStep, QuietRowStep

\* The last row of job_attempts agrees with status and error_code of the job
\* (LastAttemptExplainsJob), though they are written by separate statements.
THEOREM JobsAreExplained == Spec => []LastAttemptExplainsJob
<1>1. Init => ExplainInv
  BY DEF Init, ExplainInv, OutcomesAreCounted, Explained
<1>2. TypeInv /\ HistoryInv /\ ExplainInv /\ [Next]_queueVars => ExplainInv'
  BY RowSteps, RowStaysExplained DEF ExplainInv, OutcomesAreCounted
<1>3. ExplainInv => LastAttemptExplainsJob
  BY DEF ExplainInv, Explained, LastAttemptExplainsJob
<1>. QED
  BY <1>1, <1>2, <1>3, TypeInvariant, HistoryInvariant, PTL DEF Spec

-----------------------------------------------------------------------------
(* What is published *)

\* A step completes a job under its lease, or leaves everything published alone.
Publishes ==
    \E j \in Jobs, id \in Revisions :
        /\ status[j] = "processing"
        /\ status' = [status EXCEPT ![j] = "completed"]
        /\ result' = [result EXCEPT ![j] = id]
        /\ transcript' = [transcript EXCEPT ![SourceOf(j)] = id]
        /\ \E r \in revision' : r.id = id /\ r.source = SourceOf(j) /\ r.model = ModelOf(j)

\* Only complete publishes; revisions are never removed.
LEMMA PublishedOrNot ==
    ASSUME TypeInv, HistoryInv, [Next]_queueVars
    PROVE  /\ revision \subseteq revision'
           /\ \/ Publishes
              \/ /\ UNCHANGED <<result, transcript>>
                 /\ \A j \in Jobs : status'[j] = "completed" <=> status[j] = "completed"
<1>0. TypeOK
  BY DEF TypeInv
<1>1. ASSUME NEW l \in leases, NEW id \in Revisions, NEW text \in Texts, NEW t \in Instants,
             Complete(l, id, text, t)
      PROVE  revision \subseteq revision' /\ Publishes
  <2>. DEFINE row == [id |-> id, source |-> SourceOf(l.job), model |-> ModelOf(l.job), text |-> text]
  <2>1. /\ l.job \in Jobs /\ status[l.job] = "processing"
        /\ status' = [status EXCEPT ![l.job] = "completed"]
        /\ result' = [result EXCEPT ![l.job] = id]
        /\ transcript' = [transcript EXCEPT ![SourceOf(l.job)] = id]
        /\ revision' = Stored(row) /\ IdAgrees(row)
    BY <1>0, <1>1, LeaseType DEF Complete, Holds, Pointed
  <2>2. row \in Stored(row) /\ revision \subseteq Stored(row)
    <3>1. ASSUME NEW r \in revision, r.id = row.id PROVE row \in revision
      BY <2>1, <3>1 DEF IdAgrees
    <3>. HIDE DEF row
    <3>. QED
      BY <3>1 DEF Stored
  <2>3. \E r \in revision' : r.id = id /\ r.source = SourceOf(l.job) /\ r.model = ModelOf(l.job)
    BY <2>1, <2>2
  <2>. QED
    BY <2>1, <2>2, <2>3 DEF Publishes
<1>2. CASE ~\E l \in leases, id \in Revisions, text \in Texts, t \in Instants : Complete(l, id, text, t)
  <2>1. UNCHANGED <<revision, result, transcript>>
    BY <1>2 DEF Next, Enqueue, RecoverExpired, Claim, Renew, Fail, Retry, Cancel, Tick,
                queueVars, outputVars, jobVars
  <2>2. ASSUME NEW j \in Jobs PROVE status'[j] = "completed" <=> status[j] = "completed"
    <3>1. CASE \E t \in Instants : RecoverExpired(t) \/ \E m \in Models, i \in Jobs : Claim(m, i, t)
      BY <3>1, RecoverStep, ClaimStep DEF Untouched, Interrupted, Claimed, TakenBack, Claimable
    <3>2. CASE \/ \E i \in Jobs, budget \in Budgets, t \in Instants : Enqueue(i, budget, t)
               \/ \E l \in leases, t \in Instants : Renew(l, t)
               \/ Tick \/ UNCHANGED queueVars
               \/ \E i \in Jobs : Retry(i) \/ Cancel(i)
      BY <1>0, <3>2 DEF Enqueue, CanInsert, Renew, Tick, Retry, CanRetry, Cancel, Claimable, queueVars, jobVars, TypeOK
    <3>3. ASSUME NEW l \in leases, NEW code \in FailureCodes, NEW retryable \in BOOLEAN, NEW t \in Instants,
                 Fail(l, code, retryable, t)
          PROVE  status'[j] = "completed" <=> status[j] = "completed"
      <4>1. l.job \in Jobs /\ status[l.job] = "processing"
        BY <1>0, <3>3, LeaseType DEF Fail, Holds
      <4>2. PICK s \in {"failed_retryable", "failed_terminal"} : status' = [status EXCEPT ![l.job] = s]
        BY <3>3 DEF Fail
      <4>. QED
        BY <1>0, <4>1, <4>2 DEF TypeOK
    <3>. QED
      BY <1>2, <3>1, <3>2, <3>3 DEF Next
  <2>. QED
    BY <2>1, <2>2
<1>. QED
  BY <1>1, <1>2

\* A completed job names a revision of its own source and model, and a source points
\* to the result of one of its jobs: the four tables complete writes agree.
THEOREM PublishedIsRight == Spec => [](CompletedHasItsRevision /\ PointerIsAResult)
<1>1. Init => CompletedHasItsRevision /\ PointerIsAResult
  BY DEF Init, CompletedHasItsRevision, PointerIsAResult
<1>2. TypeInv /\ HistoryInv /\ CompletedHasItsRevision /\ [Next]_queueVars => CompletedHasItsRevision'
  <2>. SUFFICES ASSUME TypeInv, HistoryInv, CompletedHasItsRevision, [Next]_queueVars, NEW j \in Jobs
                PROVE  /\ result'[j] # NoRevision <=> status'[j] = "completed"
                       /\ status'[j] = "completed" =>
                             \E r \in revision' : r.id = result'[j] /\ r.source = SourceOf(j) /\ r.model = ModelOf(j)
    BY DEF CompletedHasItsRevision
  <2>1. /\ result[j] # NoRevision <=> status[j] = "completed"
        /\ status[j] = "completed" =>
              \E r \in revision' : r.id = result[j] /\ r.source = SourceOf(j) /\ r.model = ModelOf(j)
    BY PublishedOrNot DEF CompletedHasItsRevision
  <2>2. CASE Publishes
    BY <2>1, <2>2, QueueAssumption DEF Publishes, TypeInv, TypeOK
  <2>. QED
    BY <2>1, <2>2, PublishedOrNot
<1>3. TypeInv /\ HistoryInv /\ PointerIsAResult /\ [Next]_queueVars => PointerIsAResult'
  <2>. DEFINE Results(s) == {result[j] : j \in {k \in Jobs : SourceOf(k) = s /\ status[k] = "completed"}}
              Good(s) == IF Results(s) = {} THEN transcript[s] = NoRevision ELSE transcript[s] \in Results(s)
  <2>. SUFFICES ASSUME TypeInv, HistoryInv, PointerIsAResult, [Next]_queueVars, NEW s \in Sources
                PROVE  Good(s)'
    BY DEF PointerIsAResult
  <2>1. Good(s)
    BY DEF PointerIsAResult
  <2>2. CASE Publishes
    <3>1. PICK j \in Jobs, id \in Revisions :
             /\ status[j] = "processing"
             /\ status' = [status EXCEPT ![j] = "completed"]
             /\ result' = [result EXCEPT ![j] = id]
             /\ transcript' = [transcript EXCEPT ![SourceOf(j)] = id]
      BY <2>2 DEF Publishes
    <3>2. SourceOf(j) \in Sources
      BY DEF Jobs, SourceOf
    <3>3. CASE SourceOf(j) = s
      <4>1. transcript'[s] = id /\ status'[j] = "completed" /\ result'[j] = id
        BY <3>1, <3>2, <3>3 DEF TypeInv, TypeOK
      <4>2. id \in Results(s)'
        BY <3>3, <4>1
      <4>. QED
        BY <4>1, <4>2
    <3>4. CASE SourceOf(j) # s
      <4>1. /\ transcript'[s] = transcript[s]
            /\ \A k \in Jobs : SourceOf(k) = s => status'[k] = status[k] /\ result'[k] = result[k]
        BY <3>1, <3>4 DEF TypeInv, TypeOK
      <4>2. Results(s)' = Results(s)
        BY <4>1
      <4>. QED
        BY <2>1, <4>1, <4>2
    <3>. QED
      BY <3>3, <3>4
  <2>3. CASE /\ UNCHANGED <<result, transcript>>
             /\ \A j \in Jobs : status'[j] = "completed" <=> status[j] = "completed"
    <3>1. Results(s)' = Results(s)
      BY <2>3
    <3>. QED
      BY <2>1, <2>3, <3>1
  <2>. QED
    BY <2>2, <2>3, PublishedOrNot
<1>. QED
  BY <1>1, <1>2, <1>3, TypeInvariant, HistoryInvariant, PTL DEF Spec

-----------------------------------------------------------------------------
(* The promise *)

\* Recovery decides by budget as the promise does.
LEMMA RecoveredAsPromised ==
    ASSUME TypeOK, NEW t
    PROVE  RecoveredStatus(t) = Lifecycle!TakenBack(Expired(t))
<1>1. ASSUME NEW j \in Jobs PROVE InterruptedStatus(j) = Lifecycle!Released(j)
  <2>1. count[j] \in Nat /\ max[j] \in Nat
    BY CountsAreNumbers DEF TypeOK
  <2>. QED
    BY <2>1 DEF InterruptedStatus, Lifecycle!Released
<1>. QED
  BY <1>1 DEF RecoveredStatus, Recovered, Lifecycle!TakenBack

\* A claim is the abstract start after the abstract sweep.
LEMMA StartAsPromised ==
    ASSUME TypeInv, HistoryInv, NEW m \in Models, NEW j \in Jobs, NEW t \in Instants, Claim(m, j, t)
    PROVE  Lifecycle!Start(Expired(t), j)
<1>0. TypeOK
  BY DEF TypeInv
<1>1. RecoveredStatus(t) = Lifecycle!TakenBack(Expired(t))
  BY <1>0, RecoveredAsPromised
<1>2. RecoveredStatus(t)[j] \in Claimable /\ count[j] < max[j]
  BY <1>0, ClaimNumber DEF Claim, Oldest, Due
<1>3. /\ status' = [RecoveredStatus(t) EXCEPT ![j] = "processing"]
      /\ count' = [count EXCEPT ![j] = count[j] + 1]
      /\ UNCHANGED <<max, result>>
  BY DEF Claim
<1>4. \A k \in Expired(t) : status[k] = "processing"
  BY <1>0, InterruptedJobs
<1>. QED
  BY <1>1, <1>2, <1>3, <1>4 DEF Lifecycle!Start, Lifecycle!Pending, Claimable

\* JobQueue implements JobLifecycle (ImplementsLifecycle): every transaction is an
\* abstract event or invisible.
THEOREM QueueKeepsPromise == Spec => ImplementsLifecycle
<1>1. Init => Lifecycle!Init
  BY DEF Init, Lifecycle!Init
<1>2. TypeInv /\ HistoryInv /\ [Next]_queueVars => [Lifecycle!Next]_(Lifecycle!lifecycleVars)
  <2>. SUFFICES ASSUME TypeInv, HistoryInv, [Next]_queueVars
                PROVE  Lifecycle!Next \/ UNCHANGED Lifecycle!lifecycleVars
    OBVIOUS
  <2>0. TypeOK /\ \A t \in Instants : t \in Nat
    BY InstantsAreTimes DEF TypeInv
  <2>1. ASSUME NEW j \in Jobs, NEW budget \in Budgets, NEW t \in Instants, Enqueue(j, budget, t)
        PROVE  Lifecycle!Enqueue(j, budget)
    BY <2>1 DEF Enqueue, CanInsert, Lifecycle!Enqueue
  <2>2. ASSUME NEW t \in Instants, RecoverExpired(t) PROVE Lifecycle!Sweep(Expired(t))
    <3>1. RecoveredStatus(t) = Lifecycle!TakenBack(Expired(t))
      BY <2>0, RecoveredAsPromised
    <3>. QED
      BY <2>0, <2>2, <3>1, InterruptedJobs DEF RecoverExpired, Lifecycle!Sweep
  <2>3. ASSUME NEW l \in leases, NEW id \in Revisions, NEW text \in Texts, NEW t \in Instants,
               Complete(l, id, text, t)
        PROVE  l.job \in Jobs /\ Lifecycle!Finish(l.job, id)
    BY <2>0, <2>3, LeaseType DEF Complete, Holds, Lifecycle!Finish
  <2>4. ASSUME NEW l \in leases, NEW code \in FailureCodes, NEW retryable \in BOOLEAN, NEW t \in Instants,
               Fail(l, code, retryable, t)
        PROVE  l.job \in Jobs /\ \E p \in Lifecycle!Phases : Lifecycle!Fail(l.job, p)
    <3>1. l.job \in Jobs /\ status[l.job] = "processing" /\ UNCHANGED <<count, max, result>>
      BY <2>0, <2>4, LeaseType DEF Fail, Holds
    <3>2. PICK s \in {"failed_retryable", "failed_terminal"} :
             /\ status' = [status EXCEPT ![l.job] = s]
             /\ s = "failed_retryable" => count[l.job] < max[l.job]
      BY <2>4 DEF Fail
    <3>3. s \in {Lifecycle!Released(l.job), "failed_terminal"} /\ s \in Lifecycle!Phases
      BY <3>2 DEF Lifecycle!Released, Lifecycle!Phases, Lifecycle!Pending, Lifecycle!Settled
    <3>. QED
      BY <3>1, <3>2, <3>3 DEF Lifecycle!Fail
  <2>5. ASSUME NEW j \in Jobs, Retry(j) PROVE Lifecycle!Retry(j)
    BY <2>5 DEF Retry, CanRetry, Lifecycle!Retry
  <2>6. ASSUME NEW j \in Jobs, Cancel(j) PROVE Lifecycle!Cancel(j)
    BY <2>6 DEF Cancel, Lifecycle!Cancel, Claimable, Lifecycle!Pending
  <2>7. CASE \/ \E l \in leases, t \in Instants : Renew(l, t)
             \/ Tick \/ UNCHANGED queueVars
    BY <2>7 DEF Renew, Tick, queueVars, jobVars, Lifecycle!lifecycleVars
  <2>. QED
    BY <2>1, <2>2, <2>3, <2>4, <2>5, <2>6, <2>7, StartAsPromised, InterruptedJobs, <2>0 DEF Next, Lifecycle!Next
<1>. QED
  BY <1>1, <1>2, TypeInvariant, HistoryInvariant, PTL DEF Spec, ImplementsLifecycle, Lifecycle!Spec
=============================================================================
