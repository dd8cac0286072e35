------------------------ MODULE TranscriptionService ------------------------
(***************************************************************************)
(* TranscriptionService.run_once: workers that claim a job from JobQueue,  *)
(* transcribe its recording while a heartbeat thread renews the lease, and *)
(* publish the transcript (src/xwiki/application/transcription_service.py, *)
(* with the private blob stores of infrastructure/file_store.py).          *)
(*                                                                         *)
(* Every database call is an action of JobQueue.  Between two of them a    *)
(* worker may be killed, the clock may run on, other workers may act, and  *)
(* files on disk may be damaged.                                           *)
(***************************************************************************)
EXTENDS JobQueue

CONSTANTS
    Workers,        \* processes or threads that call run_once
    Noise,          \* texts heard in a damaged recording
    NoText,
    NoLease,
    BeatInterval    \* a third of LeaseSeconds, and at least a second

ASSUME ServiceAssumption ==
    /\ Revisions = Sources \X Models \X Texts   \* the id hashes just these
    /\ {"SOURCE_CORRUPT", "SOURCE_MISSING", "TRANSCRIBER_FAILED", "TRANSCRIPT_STORAGE_FAILED"}
          \subseteq FailureCodes                 \* a worker reports these at least
    /\ Noise \subseteq Texts
    /\ NoText \notin Texts
    /\ BeatInterval \in Nat \ {0}
    /\ 3 * BeatInterval <= LeaseSeconds          \* leases are of 3 seconds or more

VARIABLES
    (* the private stores *)
    sound,      \* the original bytes of each source
    kept,       \* the blob of each transcript text
    (* the locals of run_once *)
    pc,
    held,       \* lease
    text,       \* what _run_claimed has heard, or revision.text_sha256
    failure,    \* code
    (* the heartbeat thread *)
    beat,       \* "lost" is the event lost
    beatAt,     \* when it went to sleep
    lingering   \* the lease of a thread that outlived its join

storeVars   == <<sound, kept>>
runVars     == <<pc, held, text, failure>>
beatVars    == <<beat, beatAt, lingering>>
serviceVars == <<queueVars, storeVars, runVars, beatVars>>

Steps == {"idle", "verify", "listen", "recheck", "save", "settle", "answer"}

SourceCodes == {"SOURCE_CORRUPT", "SOURCE_MISSING"}

\* TranscriptionFailure.retryable, and the except clauses of run_once.
Retryable(code) ==
    code \in {"TRANSCRIBER_FAILED", "TRANSCRIPT_STORAGE_FAILED", "UNEXPECTED_FAILURE"}

\* What else transcribe, or anything around it, may raise.
ModelCodes == FailureCodes \ (SourceCodes \cup {"TRANSCRIPT_STORAGE_FAILED"})

SourceHeld(w) == SourceOf(held[w].job)

-----------------------------------------------------------------------------
ServiceInit ==
    /\ Init
    /\ sound = [s \in Sources |-> "intact"]
    /\ kept = [x \in Texts |-> "absent"]
    /\ pc = [w \in Workers |-> "idle"]
    /\ held = [w \in Workers |-> NoLease]
    /\ text = [w \in Workers |-> NoText]
    /\ failure = [w \in Workers |-> NoError]
    /\ beat = [w \in Workers |-> "off"]
    /\ beatAt = [w \in Workers |-> 0]
    /\ lingering = [w \in Workers |-> NoLease]

Goto(w, s) == pc' = [pc EXCEPT ![w] = s]

\* enqueue: the bytes of the source are verified first.
EnqueueVerified(j, budget, t) ==
    /\ sound[SourceOf(j)] = "intact"
    /\ Enqueue(j, budget, t)
    /\ UNCHANGED <<storeVars, runVars, beatVars>>

\* run_once claims a job and starts the heartbeat.
Start(w, m, j, t) ==
    /\ pc[w] = "idle"
    /\ Claim(m, j, t)
    /\ Goto(w, "verify")
    /\ \E l \in leases' \ leases : held' = [held EXCEPT ![w] = l]
    /\ beat' = [beat EXCEPT ![w] = "on"]
    /\ beatAt' = [beatAt EXCEPT ![w] = now]
    /\ UNCHANGED <<storeVars, text, failure, lingering>>

\* run_once is over: returned, raised, or killed.
RunEnds(w) ==
    /\ Goto(w, "idle")
    /\ held' = [held EXCEPT ![w] = NoLease]
    /\ text' = [text EXCEPT ![w] = NoText]
    /\ failure' = [failure EXCEPT ![w] = NoError]

(* _run_claimed *)

\* An exception in _run_claimed becomes an error code.
FailsWith(w, code) ==
    /\ Goto(w, "settle")
    /\ failure' = [failure EXCEPT ![w] = code]
    /\ text' = [text EXCEPT ![w] = NoText]

\* Fault: a code that the queue does not accept.
CodeOfItsOwn(w) == "SOURCE_DAMAGED"

\* Fault: every BlobError is taken for a missing file.
AlwaysMissing(w) == "SOURCE_MISSING"

\* BlobError: its message tells a wrong hash from a missing file.
BlobCode(w) ==
    IF sound[SourceHeld(w)] = "damaged" THEN "SOURCE_CORRUPT" ELSE "SOURCE_MISSING"

VerifySource(w) ==
    /\ pc[w] = "verify"
    /\ IF sound[SourceHeld(w)] = "intact"
       THEN Goto(w, "listen") /\ UNCHANGED <<text, failure>>
       ELSE FailsWith(w, BlobCode(w))
    /\ UNCHANGED <<queueVars, storeVars, held, beatVars>>

\* The native model runs: what it hears depends on the bytes it finds now.
Listen(w, x) ==
    /\ pc[w] = "listen"
    /\ x \in Noise <=> sound[SourceHeld(w)] # "intact"
    /\ text' = [text EXCEPT ![w] = x]
    /\ Goto(w, "recheck")
    /\ UNCHANGED <<queueVars, storeVars, held, failure, beatVars>>

\* The model is not there, refuses, or breaks; or an operating system call
\* around it fails.
ModelFails(w, code) ==
    /\ \/ pc[w] = "listen" /\ code \in ModelCodes
       \/ pc[w] \in {"verify", "recheck"} /\ code = "TRANSCRIBER_FAILED"
    /\ FailsWith(w, code)
    /\ UNCHANGED <<queueVars, storeVars, held, beatVars>>

\* Fault: the recording is not looked at again after the model has run.
TrustsModel(w) == TRUE

\* The recording is still the one its hash names.
StillIntact(w) == sound[SourceHeld(w)] = "intact"

Recheck(w) ==
    /\ pc[w] = "recheck"
    /\ IF StillIntact(w)
       THEN Goto(w, "save") /\ UNCHANGED <<text, failure>>
       ELSE FailsWith(w, BlobCode(w))
    /\ UNCHANGED <<queueVars, storeVars, held, beatVars>>

\* put_text: os.replace of a synced file, or nothing when the blob is there.
SaveText(w) ==
    /\ pc[w] = "save"
    /\ kept[text[w]] # "damaged"
    /\ kept' = [kept EXCEPT ![text[w]] = "intact"]
    /\ Goto(w, "settle")
    /\ UNCHANGED <<queueVars, sound, held, text, failure, beatVars>>

\* The blob is there and damaged, or the disk refuses.
SaveFails(w) ==
    /\ pc[w] = "save"
    /\ FailsWith(w, "TRANSCRIPT_STORAGE_FAILED")
    /\ UNCHANGED <<queueVars, storeVars, held, beatVars>>

\* stop.wait(interval) has timed out.
BeatDue(w) == now >= beatAt[w] + BeatInterval

(* The answer *)

\* stop.set() and join(timeout): the thread may still be waiting for the
\* database.  If the lease was lost the result is not committed.
StopHeartbeat(w, outlives) ==
    /\ pc[w] = "settle"
    /\ beat' = [beat EXCEPT ![w] = "off"]
    /\ lingering' = [lingering EXCEPT ![w] = IF outlives THEN held[w] ELSE NoLease]
    /\ outlives => beat[w] = "on" /\ BeatDue(w)
    /\ IF beat[w] = "lost"
       THEN RunEnds(w)
       ELSE Goto(w, "answer") /\ UNCHANGED <<held, text, failure>>
    /\ UNCHANGED <<queueVars, storeVars, beatAt>>

\* verify_blob of the text, then complete.
Publish(w, t) ==
    /\ pc[w] = "answer" /\ failure[w] = NoError
    /\ kept[text[w]] = "intact"
    /\ Complete(held[w], <<SourceHeld(w), ModelOf(held[w].job), text[w]>>, text[w], t)
    /\ RunEnds(w)
    /\ UNCHANGED <<storeVars, beatVars>>

Report(w, t) ==
    /\ pc[w] = "answer" /\ failure[w] # NoError
    /\ Fail(held[w], failure[w], Retryable(failure[w]), t)
    /\ RunEnds(w)
    /\ UNCHANGED <<storeVars, beatVars>>

\* StaleLease from complete or fail, or BlobError for the saved text: run_once
\* raises and the job is left as it is.
AnswerRefused(w, t) ==
    /\ pc[w] = "answer"
    /\ \/ ~Holds(held[w], t)
       \/ failure[w] = NoError /\ kept[text[w]] # "intact"
    /\ RunEnds(w)
    /\ UNCHANGED <<queueVars, storeVars, beatVars>>

(* _heartbeat *)

\* Fault: the thread wakes up and renews nothing.
BeatsUnheard(w, t) ==
    /\ beat[w] = "on" /\ BeatDue(w)
    /\ beatAt' = [beatAt EXCEPT ![w] = now]
    /\ UNCHANGED <<queueVars, storeVars, runVars, beat, lingering>>

Heartbeat(w, t) ==
    /\ beat[w] = "on" /\ BeatDue(w)
    /\ Renew(held[w], t)
    /\ beatAt' = [beatAt EXCEPT ![w] = now]
    /\ UNCHANGED <<storeVars, runVars, beat, lingering>>

\* renew returned False, or the database refused.
HeartbeatLost(w) ==
    /\ beat[w] = "on" /\ BeatDue(w)
    /\ beat' = [beat EXCEPT ![w] = "lost"]
    /\ UNCHANGED <<queueVars, storeVars, runVars, beatAt, lingering>>

\* The last renewal of a thread that nobody waits for any more.
LateHeartbeat(w, t) ==
    /\ lingering[w] # NoLease
    /\ lingering' = [lingering EXCEPT ![w] = NoLease]
    /\ Renew(lingering[w], t) \/ UNCHANGED queueVars
    /\ UNCHANGED <<storeVars, runVars, beat, beatAt>>

(* The world *)

\* The process dies, heartbeat included; the lease stays in the database.
Kill(w) ==
    /\ pc[w] # "idle"
    /\ RunEnds(w)
    /\ beat' = [beat EXCEPT ![w] = "off"]
    /\ lingering' = [lingering EXCEPT ![w] = NoLease]
    /\ UNCHANGED <<queueVars, storeVars, beatAt>>

\* Bytes on disk rot, or somebody deletes the file.
DamageSource(s) ==
    /\ \/ sound[s] = "intact" /\ sound' = [sound EXCEPT ![s] = "damaged"]
       \/ sound[s] # "missing" /\ sound' = [sound EXCEPT ![s] = "missing"]
    /\ UNCHANGED <<queueVars, kept, runVars, beatVars>>

DamageText(x) ==
    /\ kept[x] = "intact"
    /\ \E state \in {"damaged", "missing"} : kept' = [kept EXCEPT ![x] = state]
    /\ UNCHANGED <<queueVars, sound, runVars, beatVars>>

\* xwiki-jobs recover, retry and cancel.
Administer ==
    /\ \/ \E t \in Instants : RecoverExpired(t)
       \/ \E j \in Jobs : Retry(j)
       \/ \E j \in Jobs : Cancel(j)
    /\ UNCHANGED <<storeVars, runVars, beatVars>>

TimePasses == Tick /\ UNCHANGED <<storeVars, runVars, beatVars>>

WorkerStep(w) ==
    \/ \E m \in Models, j \in Jobs, t \in Instants : Start(w, m, j, t)
    \/ VerifySource(w)
    \/ \E x \in Texts : Listen(w, x)
    \/ \E code \in FailureCodes : ModelFails(w, code)
    \/ Recheck(w)
    \/ SaveText(w)
    \/ SaveFails(w)
    \/ \E outlives \in BOOLEAN : StopHeartbeat(w, outlives)
    \/ \E t \in Instants : Publish(w, t)
    \/ \E t \in Instants : Report(w, t)
    \/ \E t \in Instants : AnswerRefused(w, t)
    \/ \E t \in Instants : Heartbeat(w, t)
    \/ HeartbeatLost(w)
    \/ \E t \in Instants : LateHeartbeat(w, t)
    \/ Kill(w)

Surroundings ==
    \/ \E j \in Jobs, budget \in Budgets, t \in Instants : EnqueueVerified(j, budget, t)
    \/ Administer
    \/ \E s \in Sources : DamageSource(s)
    \/ \E x \in Texts : DamageText(x)

ServiceNext ==
    \/ \E w \in Workers : WorkerStep(w)
    \/ Surroundings
    \/ TimePasses

ServiceSpec == ServiceInit /\ [][ServiceNext]_serviceVars

-----------------------------------------------------------------------------
\* Every variable of the workers and the stores holds a value of its type.
ServiceTypeOK ==
    /\ sound \in [Sources -> {"intact", "damaged", "missing"}]
    /\ kept \in [Texts -> {"absent", "intact", "damaged", "missing"}]
    /\ pc \in [Workers -> Steps]
    /\ held \in [Workers -> leases \cup {NoLease}]
    /\ text \in [Workers -> Texts \cup {NoText}]
    /\ failure \in [Workers -> WorkerCodes \cup {NoError}]
    /\ beat \in [Workers -> {"off", "on", "lost"}]
    /\ beatAt \in [Workers -> Nat]
    /\ lingering \in [Workers -> leases \cup {NoLease}]

\* "Crashes can leave harmless unreferenced blobs, never a false completed
\* job": the text of every revision in the database is, or was, in the store,
\* and is not what a model heard in bytes that were not the source any more.
RevisionsAreTrue ==
    \A r \in revision : kept[r.text] # "absent" /\ r.text \notin Noise

\* A job says its source is missing or corrupt only if it is, and is then not
\* tried again.
SourceErrorsAreTrue ==
    \A j \in Jobs : error[j] \in SourceCodes /\ status[j] # "cancelled" =>
        /\ status[j] = "failed_terminal"
        /\ sound[SourceOf(j)] # "intact"
        /\ error[j] = "SOURCE_MISSING" => sound[SourceOf(j)] = "missing"

\* "A slow native transcriber does not make another worker steal the same
\* active job": no job is taken back from a worker whose heartbeat has beaten
\* within its interval, however long the model has been running.
BeatingWorkerKeepsJob ==
    [][\A w \in Workers :
          beat[w] = "on" /\ now <= beatAt[w] + BeatInterval =>
              LET j == held[w].job
                  n == held[w].number
              IN  ~(attempt[j][n] = "open" /\ attempt'[j][n] = "interrupted")]_serviceVars
=============================================================================
