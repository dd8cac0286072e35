------------------------------ MODULE JobQueue ------------------------------
(***************************************************************************)
(* JobRepository: the durable queue of local transcription jobs            *)
(* (src/xwiki/infrastructure/sqlite/job_repository.py, tables jobs,        *)
(* job_attempts, transcript_revisions and sources of the product           *)
(* database).                                                              *)
(*                                                                         *)
(* Every operation is one BEGIN IMMEDIATE ... COMMIT transaction, hence    *)
(* one action.  A caller reads the wall clock BEFORE it waits for the      *)
(* write lock, so an action uses an instant t that may lie up to ClockLag  *)
(* behind the clock at its commit; the same lag stands for a clock that    *)
(* was stepped back a little.  A lease, once handed out, stays in leases   *)
(* for ever: its holder may call back late, twice, or never.               *)
(***************************************************************************)
EXTENDS Integers

CONSTANTS
    Sources,        \* source_id values
    StoredSources,  \* those with status 'stored' or 'transcribing'
    Models,         \* model_key values
    Revisions,      \* revision_id values
    Texts,          \* transcript texts, by SHA-256
    NoRevision,     \* NULL in a revision_id column
    Budgets,        \* max_attempts values callers ask for
    FailureCodes,   \* error codes a worker reports
    LeaseSeconds,   \* duration of a lease
    BackoffBase,    \* 15 seconds in the code
    BackoffCap,     \* 3600 seconds in the code
    ClockLag,       \* how stale a caller's instant may be
    Horizon         \* bound: the clock stops here

NoTime == -1        \* NULL in a time column
NoToken == 0        \* NULL in lease_token
NoError == "none"   \* NULL in an error_code column

\* ERROR_CODES, without the one that recovery writes: fail() would take that
\* too, but no worker reports it.
WorkerCodes ==
    {"TRANSCRIBER_UNAVAILABLE", "MODEL_NOT_FOUND", "INVALID_TRANSCRIPT",
     "SOURCE_MISSING", "SOURCE_CORRUPT", "TRANSCRIBER_FAILED",
     "TRANSCRIPT_STORAGE_FAILED", "UNEXPECTED_FAILURE"}

ASSUME QueueAssumption ==
    /\ StoredSources \subseteq Sources
    /\ NoRevision \notin Revisions
    /\ Budgets \subseteq 1..10
    /\ FailureCodes \subseteq WorkerCodes
    /\ LeaseSeconds \in Nat \ {0}
    /\ BackoffBase \in Nat
    /\ BackoffCap \in Nat
    /\ ClockLag \in Nat
    /\ Horizon \in Nat

VARIABLES
    (* table jobs, one function per column *)
    status,     \* "absent" where there is no row
    created,    \* created_at
    count,      \* attempt_count
    max,        \* max_attempts
    token,      \* lease_token
    expires,    \* lease_expires_at
    retryAfter, \* retry_after
    error,      \* error_code
    result,     \* result_revision_id
    (* the other tables *)
    attempt,    \* job_attempts: [Jobs -> [Numbers -> Outcomes]]
    revision,   \* rows of transcript_revisions
    transcript, \* sources.transcript_revision_id
    (* the world around them *)
    leases,     \* the JobLease values ever handed out
    issued,     \* how many tokens uuid4 has produced
    now         \* the wall clock

leaseVars  == <<token, expires>>
jobVars    == <<status, created, count, max, token, expires, retryAfter, error, result>>
outputVars == <<revision, transcript>>
worldVars  == <<leases, issued, now>>
queueVars  == <<jobVars, attempt, outputVars, worldVars>>

\* The idempotency key of a job is a hash of its source and its model.
Jobs == Sources \X Models
SourceOf(j) == j[1]
ModelOf(j) == j[2]

Numbers == 1..10    \* attempt_number; CHECK (max_attempts <= 10)

Claimable == {"queued", "failed_retryable"}
Terminal  == {"completed", "failed_terminal", "cancelled"}
Statuses  == {"absent", "processing"} \cup Claimable \cup Terminal

\* "open" is a row with finished_at IS NULL, "none" no row at all.
Finished == {"interrupted", "completed", "failed", "cancelled"}
Outcomes == {"none", "open"} \cup Finished

RevisionRow == [id : Revisions, source : Sources, model : Models, text : Texts]

Lease == [job : Jobs, token : Nat, number : Numbers]

\* The instants a transaction committing now may have been given.
Instants == {t \in 0..now : now - ClockLag <= t}

-----------------------------------------------------------------------------
Init ==
    /\ status     = [j \in Jobs |-> "absent"]
    /\ created    = [j \in Jobs |-> 0]
    /\ count      = [j \in Jobs |-> 0]
    /\ max        = [j \in Jobs |-> 0]
    /\ token      = [j \in Jobs |-> NoToken]
    /\ expires    = [j \in Jobs |-> NoTime]
    /\ retryAfter = [j \in Jobs |-> NoTime]
    /\ error      = [j \in Jobs |-> NoError]
    /\ result     = [j \in Jobs |-> NoRevision]
    /\ attempt    = [j \in Jobs |-> [n \in Numbers |-> "none"]]
    /\ revision   = {}
    /\ transcript = [s \in Sources |-> NoRevision]
    /\ leases     = {}
    /\ issued     = 0
    /\ now        = 0

\* A job is inserted for a source whose bytes are stored, once.
CanInsert(j) == SourceOf(j) \in StoredSources /\ status[j] = "absent"

\* enqueue: INSERT ... ON CONFLICT(idempotency_key) DO NOTHING.  Enqueueing a
\* known job again returns it as it is.
Enqueue(j, budget, t) ==
    /\ CanInsert(j)
    /\ status' = [status EXCEPT ![j] = "queued"]
    /\ created' = [created EXCEPT ![j] = t]
    /\ max' = [max EXCEPT ![j] = budget]
    /\ UNCHANGED <<count, leaseVars, retryAfter, error, result>>
    /\ UNCHANGED <<attempt, outputVars, worldVars>>

\* Fault: recovery does not look at the end of the lease.
ExpiredOrNot(t) == {j \in Jobs : status[j] = "processing"}

\* _recover_locked: the rows it takes back at instant t.
Expired(t) == {j \in Jobs : status[j] = "processing" /\ expires[j] <= t}

\* Fault: the outcome of the attempt is written as the status of the job.
OutcomeAsStatus(j) == "interrupted"

\* The status of a job that was taken back.
InterruptedStatus(j) ==
    IF count[j] >= max[j] THEN "failed_terminal" ELSE "failed_retryable"

\* Fault: the open attempt is forgotten.
CloseNone(j, o) == attempt[j]

\* Fault: the UPDATE also hits attempts that are finished.
CloseAll(j, o) ==
    [n \in Numbers |-> IF attempt[j][n] # "none" THEN o ELSE attempt[j][n]]

\* UPDATE job_attempts SET outcome = o WHERE job_id = j AND finished_at IS NULL
CloseOpen(j, o) ==
    [n \in Numbers |-> IF attempt[j][n] = "open" THEN o ELSE attempt[j][n]]

\* The columns _recover_locked writes, after it has run at instant t.
Recovered(t, column, value(_)) ==
    [j \in Jobs |-> IF j \in Expired(t) THEN value(j) ELSE column[j]]

RecoveredStatus(t) == Recovered(t, status, InterruptedStatus)
RecoveredToken(t) == Recovered(t, token, LAMBDA j : NoToken)
RecoveredExpires(t) == Recovered(t, expires, LAMBDA j : NoTime)
RecoveredRetryAfter(t) == Recovered(t, retryAfter, LAMBDA j : NoTime)

\* Fault: the error code is left as it was.
RecoveredSilently(t) == error

RecoveredError(t) == Recovered(t, error, LAMBDA j : "WORKER_INTERRUPTED")
RecoveredAttempt(t) == Recovered(t, attempt, LAMBDA j : CloseOpen(j, "interrupted"))

\* recover_expired, and a claim that finds nothing to do.
RecoverExpired(t) ==
    /\ Expired(t) # {}
    /\ status' = RecoveredStatus(t)
    /\ token' = RecoveredToken(t)
    /\ expires' = RecoveredExpires(t)
    /\ retryAfter' = RecoveredRetryAfter(t)
    /\ error' = RecoveredError(t)
    /\ attempt' = RecoveredAttempt(t)
    /\ UNCHANGED <<created, count, max, result, outputVars, worldVars>>

\* The rows the SELECT of claim picks from at instant t, after recovery.
Due(m, t) ==
    {j \in Jobs : /\ ModelOf(j) = m
                  /\ RecoveredStatus(t)[j] \in Claimable
                  /\ RecoveredRetryAfter(t)[j] <= t   \* NoTime is below any instant
                  /\ count[j] < max[j]}

\* Fault: no ORDER BY.
AnyDue(m, t) == Due(m, t)

\* ORDER BY created_at, job_id LIMIT 1.  The order of the job_id hashes is
\* arbitrary: any of the oldest may come first.
Oldest(m, t) == {j \in Due(m, t) : \A k \in Due(m, t) : created[j] <= created[k]}

\* Fault: every worker gets the same token.
SharedToken == 1

\* uuid4().hex: a token that no other lease carries.
FreshToken == issued + 1

\* claim: expired leases are recovered and the oldest due job of model m is
\* leased, with a new token and a new attempt, in the same transaction.
Claim(m, j, t) ==
    LET number == count[j] + 1
    IN  /\ j \in Oldest(m, t)
        /\ attempt[j][number] = "none"     \* UNIQUE(job_id, attempt_number)
        /\ issued' = FreshToken
        /\ status' = [RecoveredStatus(t) EXCEPT ![j] = "processing"]
        /\ count' = [count EXCEPT ![j] = number]
        /\ token' = [RecoveredToken(t) EXCEPT ![j] = FreshToken]
        /\ expires' = [RecoveredExpires(t) EXCEPT ![j] = t + LeaseSeconds]
        /\ retryAfter' = [RecoveredRetryAfter(t) EXCEPT ![j] = NoTime]
        /\ error' = [RecoveredError(t) EXCEPT ![j] = NoError]
        /\ attempt' = [RecoveredAttempt(t) EXCEPT ![j][number] = "open"]
        /\ leases' = leases \cup {[job |-> j, token |-> FreshToken, number |-> number]}
        /\ UNCHANGED <<created, max, result, outputVars, now>>

\* Fault: a lease is good until somebody takes the job away.
HoldsToken(l, t) == status[l.job] = "processing" /\ token[l.job] = l.token

\* _assert_lease: the holder of lease l still owns its job at instant t.
Holds(l, t) ==
    /\ status[l.job] = "processing"
    /\ token[l.job] = l.token
    /\ expires[l.job] > t

\* renew; without the lease it returns False and changes nothing.
Renew(l, t) ==
    /\ Holds(l, t)
    /\ expires' = [expires EXCEPT ![l.job] = t + LeaseSeconds]
    /\ UNCHANGED <<status, created, count, max, token, retryAfter, error, result>>
    /\ UNCHANGED <<attempt, outputVars, worldVars>>

\* UPDATE job_attempts ... WHERE attempt_id = l.attempt_id AND finished_at IS NULL
CloseAttempt(l, o) ==
    IF attempt[l.job][l.number] = "open"
    THEN [attempt EXCEPT ![l.job][l.number] = o]
    ELSE attempt

\* lease_token = NULL, lease_expires_at = NULL
GiveUpLease(j) ==
    /\ token' = [token EXCEPT ![j] = NoToken]
    /\ expires' = [expires EXCEPT ![j] = NoTime]

SameContent(r1, r2) ==
    r1.source = r2.source /\ r1.model = r2.model /\ r1.text = r2.text

\* INSERT ... ON CONFLICT(revision_id) DO NOTHING
Stored(row) ==
    IF \E r \in revision : r.id = row.id THEN revision ELSE revision \cup {row}

\* Fault: a row already stored under the id is not compared.
IdUnchecked(row) == TRUE

\* ConflictError unless the row stored under the id is this one.
IdAgrees(row) == \A r \in revision : r.id = row.id => r = row

\* UNIQUE(source_id, text_sha256, engine, model)
ContentUnique(row) == \A r \in revision : SameContent(r, row) => r.id = row.id

\* Fault: the source keeps its pointer.
PointerKept(l, id) == transcript

\* UPDATE sources SET transcript_revision_id
Pointed(l, id) == [transcript EXCEPT ![SourceOf(l.job)] = id]

\* complete: the revision, the transcript pointer of the source, the job and
\* the attempt commit together, or none of them does.
Complete(l, id, text, t) ==
    LET row == [id |-> id, source |-> SourceOf(l.job),
                model |-> ModelOf(l.job), text |-> text]
    IN  /\ Holds(l, t)
        /\ IdAgrees(row)
        /\ ContentUnique(row)
        /\ revision' = Stored(row)
        /\ transcript' = Pointed(l, id)
        /\ status' = [status EXCEPT ![l.job] = "completed"]
        /\ result' = [result EXCEPT ![l.job] = id]
        /\ GiveUpLease(l.job)
        /\ retryAfter' = [retryAfter EXCEPT ![l.job] = NoTime]
        /\ error' = [error EXCEPT ![l.job] = NoError]
        /\ attempt' = CloseAttempt(l, "completed")
        /\ UNCHANGED <<created, count, max, worldVars>>

PowersOfTwo == <<1, 2, 4, 8, 16, 32, 64, 128, 256, 512>>

\* min(3600, 15 * 2 ** (attempt_count - 1))
Backoff(n) ==
    LET delay == BackoffBase * PowersOfTwo[n]
    IN  IF delay < BackoffCap THEN delay ELSE BackoffCap

\* fail: a retryable failure with budget left waits for its backoff.
Fail(l, code, retryable, t) ==
    LET j == l.job
        canRetry == retryable /\ count[j] < max[j]
    IN  /\ Holds(l, t)
        /\ status' = [status EXCEPT ![j] = IF canRetry THEN "failed_retryable"
                                                       ELSE "failed_terminal"]
        /\ error' = [error EXCEPT ![j] = code]
        /\ retryAfter' = [retryAfter EXCEPT ![j] = IF canRetry THEN t + Backoff(count[j])
                                                               ELSE NoTime]
        /\ GiveUpLease(j)
        /\ attempt' = CloseAttempt(l, "failed")
        /\ UNCHANGED <<created, count, max, result, outputVars, worldVars>>

\* Fault: a terminal failure may be retried as well.
CanRetryTerminal(j) ==
    status[j] \in {"failed_retryable", "failed_terminal"} /\ count[j] < max[j]

\* WHERE ... status = 'failed_retryable' AND attempt_count < max_attempts
CanRetry(j) == status[j] = "failed_retryable" /\ count[j] < max[j]

\* retry: the user does not wait for retry_after.
Retry(j) ==
    /\ CanRetry(j)
    /\ status' = [status EXCEPT ![j] = "queued"]
    /\ retryAfter' = [retryAfter EXCEPT ![j] = NoTime]
    /\ error' = [error EXCEPT ![j] = NoError]
    /\ UNCHANGED <<created, count, max, leaseVars, result>>
    /\ UNCHANGED <<attempt, outputVars, worldVars>>

\* cancel: takes the lease away from a worker, if there is one.
Cancel(j) ==
    /\ status[j] \in Claimable \cup {"processing"}
    /\ status' = [status EXCEPT ![j] = "cancelled"]
    /\ retryAfter' = [retryAfter EXCEPT ![j] = NoTime]
    /\ GiveUpLease(j)
    /\ attempt' = [attempt EXCEPT ![j] = CloseOpen(j, "cancelled")]
    /\ UNCHANGED <<created, count, max, error, result, outputVars, worldVars>>

Tick ==
    /\ now < Horizon
    /\ now' = now + 1
    /\ UNCHANGED <<jobVars, attempt, outputVars, leases, issued>>

Next ==
    \/ \E j \in Jobs, budget \in Budgets, t \in Instants : Enqueue(j, budget, t)
    \/ \E t \in Instants : RecoverExpired(t)
    \/ \E m \in Models, j \in Jobs, t \in Instants : Claim(m, j, t)
    \/ \E l \in leases, t \in Instants : Renew(l, t)
    \/ \E l \in leases, id \in Revisions, text \in Texts, t \in Instants :
          Complete(l, id, text, t)
    \/ \E l \in leases, code \in FailureCodes, retryable \in BOOLEAN, t \in Instants :
          Fail(l, code, retryable, t)
    \/ \E j \in Jobs : Retry(j)
    \/ \E j \in Jobs : Cancel(j)
    \/ Tick

Spec == Init /\ [][Next]_queueVars

-----------------------------------------------------------------------------
(* Invariants *)

\* Every column holds a value of its type.
TypeOK ==
    /\ status \in [Jobs -> Statuses]
    /\ created \in [Jobs -> Nat]
    /\ count \in [Jobs -> 0..10]
    /\ max \in [Jobs -> 0..10]
    /\ token \in [Jobs -> Nat]
    /\ expires \in [Jobs -> Nat \cup {NoTime}]
    /\ retryAfter \in [Jobs -> Nat \cup {NoTime}]
    /\ error \in [Jobs -> WorkerCodes \cup {NoError, "WORKER_INTERRUPTED"}]
    /\ result \in [Jobs -> Revisions \cup {NoRevision}]
    /\ attempt \in [Jobs -> [Numbers -> Outcomes]]
    /\ revision \subseteq RevisionRow
    /\ transcript \in [Sources -> Revisions \cup {NoRevision}]
    /\ leases \subseteq Lease
    /\ issued \in Nat
    /\ now \in Nat

\* The attempt history agrees with the job row: attempts 1..count exist and no
\* other, and an attempt is unfinished exactly when it is the newest one of a
\* job that is processing.
AttemptsMatchJob ==
    \A j \in Jobs, n \in Numbers :
        /\ attempt[j][n] # "none" <=> n <= count[j]
        /\ attempt[j][n] = "open" <=> n = count[j] /\ status[j] = "processing"

\* The last attempt explains the state of its job: a failed job was failed by
\* its worker or interrupted, as its error code says, and a job is completed
\* exactly when one of its attempts is, the last one.
LastAttemptExplainsJob ==
    \A j \in Jobs :
        LET last == count[j] IN
        /\ status[j] \in {"failed_retryable", "failed_terminal"} =>
              attempt[j][last] = IF error[j] = "WORKER_INTERRUPTED"
                                 THEN "interrupted" ELSE "failed"
        /\ \A n \in Numbers : attempt[j][n] = "completed" <=>
              n = last /\ status[j] = "completed"

\* A worker that was superseded can never act again: of all the leases ever
\* handed out for a processing job, only the one of its newest attempt
\* carries the token in the row; and no other job knows that token.
OnlyNewestLeaseCurrent ==
    \A l \in leases, j \in Jobs :
        status[j] = "processing" =>
            (token[j] = l.token <=> l.job = j /\ l.number = count[j])

\* What waits can still be claimed: a queued or retryable job has attempts
\* left, and no job was ever started more often than it was enqueued for.
BudgetRespected ==
    \A j \in Jobs : /\ count[j] <= max[j]
                    /\ status[j] \in Claimable => count[j] < max[j]

\* "Never a false completed job": a completed job, and no other, names a
\* revision, and that revision is a transcript of this source by this model.
CompletedHasItsRevision ==
    \A j \in Jobs :
        /\ result[j] # NoRevision <=> status[j] = "completed"
        /\ status[j] = "completed" =>
              \E r \in revision : /\ r.id = result[j]
                                  /\ r.source = SourceOf(j)
                                  /\ r.model = ModelOf(j)

\* The transcript pointer of a source and its completed jobs agree: it points
\* to the result of one of them, and to nothing as long as there is none.
PointerIsAResult ==
    \A s \in Sources :
        LET results == {result[j] : j \in {k \in Jobs : SourceOf(k) = s /\
                                                       status[k] = "completed"}}
        IN  IF results = {} THEN transcript[s] = NoRevision
                            ELSE transcript[s] \in results

-----------------------------------------------------------------------------
(* What a step may never do *)

\* A terminal job and its history are never touched again, nor is it silently
\* reset by another enqueue; and a finished attempt of any job keeps its outcome
\* for ever.
HistoryIsKept ==
    [][/\ \A j \in Jobs : status[j] \in Terminal =>
            /\ status'[j] = status[j]
            /\ count'[j] = count[j]
            /\ max'[j] = max[j]
            /\ error'[j] = error[j]
            /\ result'[j] = result[j]
            /\ attempt'[j] = attempt[j]
       /\ \A j \in Jobs, n \in Numbers :
            attempt[j][n] \in Finished => attempt'[j][n] = attempt[j][n]]_queueVars

\* Nobody takes a job from a worker whose lease has not run out: recovery
\* interrupts an attempt only after the end of its (last renewed) lease.
LiveLeaseNotStolen ==
    [][\A j \in Jobs, n \in Numbers :
          attempt[j][n] = "open" /\ attempt'[j][n] = "interrupted"
              => expires[j] <= now]_queueVars

\* A worker commits an answer only under its lease, give or take the time the
\* transaction waited for the write lock.
AnswerNeedsLease ==
    [][\A j \in Jobs, n \in Numbers :
          attempt[j][n] = "open" /\ attempt'[j][n] \in {"completed", "failed"}
              => expires[j] + ClockLag > now]_queueVars

\* A claim starts no job before its backoff is over, and passes over none of
\* the same model that has waited longer and is due at any instant the claim
\* may have used.
ClaimsInOrder ==
    [][\A j \in Jobs : count'[j] > count[j] =>
          /\ retryAfter[j] <= now
          /\ \A k \in Due(ModelOf(j), now - ClockLag) :
                created[k] >= created[j]]_queueVars

-----------------------------------------------------------------------------
\* The queue keeps what JobLifecycle promises.
Lifecycle == INSTANCE JobLifecycle
                 WITH Results <- Revisions, NoResult <- NoRevision, phase <- status,
                      tries <- count, budget <- max, published <- result

ImplementsLifecycle == Lifecycle!Spec
=============================================================================
