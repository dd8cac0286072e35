---------------------- MODULE TranscriptionServiceProofs ----------------------
(***************************************************************************)
(* Machine-checked: the workers use the queue as JobQueue allows, what     *)
(* they publish or report is true, and a heartbeat keeps their jobs, for   *)
(* any number of workers, recordings, texts and damages.                   *)
(***************************************************************************)
EXTENDS TranscriptionService, JobQueueProofs

(* What a worker holds at each step, and that it asks nothing else of the queue *)

WorkerOK(w) ==
    /\ pc[w] = "idle" => beat[w] = "off"
    /\ pc[w] # "idle" => held[w] \in leases
    /\ pc[w] = "answer" => beat[w] = "off"
    /\ pc[w] \in {"idle", "verify", "listen", "recheck", "save"} => failure[w] = NoError
    /\ pc[w] \in {"recheck", "save"} => text[w] \in Texts
    /\ pc[w] \in {"settle", "answer"} /\ failure[w] = NoError => text[w] \in Texts

LocalInv ==
    /\ sound \in [Sources -> {"intact", "damaged", "missing"}]
    /\ kept \in [Texts -> {"absent", "intact", "damaged", "missing"}]
    /\ pc \in [Workers -> Steps]
    /\ held \in [Workers -> leases \cup {NoLease}]
    /\ text \in [Workers -> Texts \cup {NoText}]
    /\ failure \in [Workers -> FailureCodes \cup {NoError}]
    /\ beat \in [Workers -> {"off", "on", "lost"}]
    /\ lingering \in [Workers -> leases \cup {NoLease}]
    /\ \A l \in leases : l.job \in Jobs
    /\ \A w \in Workers : WorkerOK(w)

LEMMA CodesAreReported ==
    /\ SourceCodes \subseteq FailureCodes /\ ModelCodes \subseteq FailureCodes
    /\ "TRANSCRIBER_FAILED" \in FailureCodes /\ "TRANSCRIPT_STORAGE_FAILED" \in FailureCodes
    /\ FailureCodes \subseteq WorkerCodes /\ NoError \notin FailureCodes
BY ServiceAssumption, QueueAssumption DEF SourceCodes, ModelCodes, WorkerCodes, NoError

LEMMA BlobCodeIsSourceCode == ASSUME NEW w PROVE BlobCode(w) \in SourceCodes
BY DEF BlobCode, SourceCodes

\* The lease a worker got is one the queue knows.
LEMMA StartKeepsLocal ==
    ASSUME LocalInv, NEW w \in Workers, NEW m, NEW j \in Jobs, NEW t, Start(w, m, j, t)
    PROVE  LocalInv'
<1>1. leases \subseteq leases' /\ \A l \in leases' : l.job \in Jobs
  BY DEF Start, Claim, LocalInv
<1>2. PICK l \in leases' : held' = [held EXCEPT ![w] = l]
  BY DEF Start
<1>. QED
  BY <1>1, <1>2 DEF Start, Goto, LocalInv, WorkerOK, storeVars, Steps

LEMMA FailsWithKeepsLocal ==
    ASSUME LocalInv, NEW w \in Workers, pc[w] # "idle", NEW code \in FailureCodes, FailsWith(w, code),
           UNCHANGED <<sound, kept, held, beat, lingering, leases>>
    PROVE  LocalInv'
BY CodesAreReported DEF FailsWith, Goto, LocalInv, WorkerOK, Steps

LEMMA RunEndsKeepsLocal ==
    ASSUME LocalInv, NEW w \in Workers, RunEnds(w), UNCHANGED <<sound, kept, leases>>,
           beat' \in [Workers -> {"off", "on", "lost"}], beat'[w] = "off",
           \A v \in Workers \ {w} : beat'[v] = beat[v],
           lingering' \in [Workers -> leases \cup {NoLease}]
    PROVE  LocalInv'
BY DEF RunEnds, Goto, LocalInv, WorkerOK, Steps

LEMMA WorkerKeepsLocal ==
    ASSUME LocalInv, NEW w \in Workers, WorkerStep(w)
    PROVE  LocalInv'
<1>. USE CodesAreReported
<1>1. CASE VerifySource(w)
  <2>1. UNCHANGED <<sound, kept, held, beat, lingering, leases>> /\ pc[w] = "verify"
    BY <1>1 DEF VerifySource, storeVars, beatVars, queueVars, worldVars
  <2>2. CASE FailsWith(w, BlobCode(w))
    BY <2>1, <2>2, BlobCodeIsSourceCode, FailsWithKeepsLocal
  <2>3. CASE Goto(w, "listen") /\ UNCHANGED <<text, failure>>
    BY <2>1, <2>3 DEF Goto, LocalInv, WorkerOK, Steps
  <2>. QED
    BY <1>1, <2>2, <2>3 DEF VerifySource
<1>2. ASSUME NEW x \in Texts, Listen(w, x) PROVE LocalInv'
  BY <1>2 DEF Listen, Goto, LocalInv, WorkerOK, Steps, storeVars, beatVars, queueVars, worldVars
<1>3. ASSUME NEW code \in FailureCodes, ModelFails(w, code) PROVE LocalInv'
  <2>1. UNCHANGED <<sound, kept, held, beat, lingering, leases>> /\ pc[w] # "idle" /\ FailsWith(w, code)
    BY <1>3 DEF ModelFails, storeVars, beatVars, queueVars, worldVars
  <2>. QED
    BY <2>1, FailsWithKeepsLocal
<1>4. CASE Recheck(w)
  <2>1. UNCHANGED <<sound, kept, held, beat, lingering, leases>> /\ pc[w] = "recheck"
    BY <1>4 DEF Recheck, storeVars, beatVars, queueVars, worldVars
  <2>2. CASE FailsWith(w, BlobCode(w))
    BY <2>1, <2>2, BlobCodeIsSourceCode, FailsWithKeepsLocal
  <2>3. CASE Goto(w, "save") /\ UNCHANGED <<text, failure>>
    BY <2>1, <2>3 DEF Goto, LocalInv, WorkerOK, Steps
  <2>. QED
    BY <1>4, <2>2, <2>3 DEF Recheck
<1>5. CASE SaveText(w)
  BY <1>5 DEF SaveText, Goto, LocalInv, WorkerOK, Steps, beatVars, queueVars, worldVars
<1>6. CASE SaveFails(w)
  <2>1. /\ UNCHANGED <<sound, kept, held, beat, lingering, leases>> /\ pc[w] # "idle"
        /\ FailsWith(w, "TRANSCRIPT_STORAGE_FAILED")
    BY <1>6 DEF SaveFails, storeVars, beatVars, queueVars, worldVars
  <2>. QED
    BY <2>1, FailsWithKeepsLocal
<1>7. ASSUME NEW outlives \in BOOLEAN, StopHeartbeat(w, outlives) PROVE LocalInv'
  <2>1. /\ UNCHANGED <<sound, kept, leases>> /\ pc[w] = "settle"
        /\ beat' = [beat EXCEPT ![w] = "off"]
        /\ lingering' \in [Workers -> leases \cup {NoLease}]
    BY <1>7 DEF StopHeartbeat, storeVars, queueVars, worldVars, LocalInv
  <2>2. CASE RunEnds(w)
    BY <2>1, <2>2, RunEndsKeepsLocal DEF LocalInv
  <2>3. CASE Goto(w, "answer") /\ UNCHANGED <<held, text, failure>>
    BY <2>1, <2>3 DEF Goto, LocalInv, WorkerOK, Steps
  <2>. QED
    BY <1>7, <2>2, <2>3 DEF StopHeartbeat
<1>8. CASE \E t \in Instants : Publish(w, t) \/ Report(w, t) \/ AnswerRefused(w, t)
  <2>1. UNCHANGED <<sound, kept, leases, beat, lingering>> /\ pc[w] = "answer" /\ RunEnds(w)
    BY <1>8 DEF Publish, Report, AnswerRefused, Complete, Fail, storeVars, beatVars, queueVars, worldVars
  <2>. QED
    BY <2>1, RunEndsKeepsLocal DEF LocalInv, WorkerOK
<1>9. CASE (\E t \in Instants : Heartbeat(w, t) \/ LateHeartbeat(w, t)) \/ HeartbeatLost(w)
  <2>1. UNCHANGED <<sound, kept, leases, pc, held, text, failure>>
    BY <1>9 DEF Heartbeat, LateHeartbeat, HeartbeatLost, Renew, storeVars, runVars, queueVars, worldVars
  <2>2. beat' = beat \/ (beat[w] = "on" /\ beat' = [beat EXCEPT ![w] = "lost"])
    BY <1>9 DEF Heartbeat, LateHeartbeat, HeartbeatLost
  <2>3. lingering' \in [Workers -> leases \cup {NoLease}]
    BY <1>9 DEF Heartbeat, LateHeartbeat, HeartbeatLost, LocalInv
  <2>. QED
    BY <2>1, <2>2, <2>3 DEF LocalInv, WorkerOK
<1>10. CASE Kill(w)
  BY <1>10, RunEndsKeepsLocal DEF Kill, LocalInv, storeVars, queueVars, worldVars
<1>. QED
  BY <1>1, <1>2, <1>3, <1>4, <1>5, <1>6, <1>7, <1>8, <1>9, <1>10, StartKeepsLocal DEF WorkerStep

\* Nothing else touches the locals of a worker.
LEMMA OthersKeepLocal ==
    ASSUME LocalInv, Surroundings \/ TimePasses \/ UNCHANGED serviceVars
    PROVE  LocalInv'
<1>1. UNCHANGED <<runVars, beatVars, leases>>
  BY DEF Surroundings, EnqueueVerified, Administer, DamageSource, DamageText, TimePasses, serviceVars, queueVars,
         worldVars, Enqueue, RecoverExpired, Retry, Cancel, Tick
<1>2. /\ sound' \in [Sources -> {"intact", "damaged", "missing"}]
      /\ kept' \in [Texts -> {"absent", "intact", "damaged", "missing"}]
  BY DEF Surroundings, EnqueueVerified, Administer, DamageSource, DamageText, TimePasses, serviceVars, storeVars,
         LocalInv
<1>. QED
  BY <1>1, <1>2 DEF LocalInv, WorkerOK, runVars, beatVars

LEMMA LocalInvInit == ServiceInit => LocalInv
BY DEF ServiceInit, Init, LocalInv, WorkerOK, Steps

LEMMA LocalInvStep == LocalInv /\ [ServiceNext]_serviceVars => LocalInv'
BY WorkerKeepsLocal, OthersKeepLocal DEF ServiceNext

\* A worker calls the queue with a lease the queue gave out, a code it knows and
\* a revision of the source and the model of its job.
LEMMA WorkerUsesQueue ==
    ASSUME LocalInv, NEW w \in Workers, WorkerStep(w)
    PROVE  [QuietNext]_queueVars \/ \E t \in Instants : Report(w, t)
<1>1. ASSUME NEW t \in Instants, Publish(w, t) PROVE QuietNext
  <2>1. held[w] \in leases /\ text[w] \in Texts
    BY <1>1 DEF Publish, LocalInv, WorkerOK
  <2>2. <<SourceHeld(w), ModelOf(held[w].job), text[w]>> \in Revisions
    BY <2>1, ServiceAssumption DEF LocalInv, SourceHeld, SourceOf, ModelOf, Jobs
  <2>. QED
    BY <1>1, <2>1, <2>2 DEF Publish, QuietNext
<1>2. ASSUME NEW t \in Instants, Heartbeat(w, t) PROVE QuietNext
  BY <1>2 DEF Heartbeat, LocalInv, WorkerOK, QuietNext
<1>3. ASSUME NEW t \in Instants, LateHeartbeat(w, t) PROVE [QuietNext]_queueVars
  BY <1>3 DEF LateHeartbeat, LocalInv, QuietNext
<1>4. ASSUME NEW m \in Models, NEW j \in Jobs, NEW t \in Instants, Start(w, m, j, t) PROVE QuietNext
  BY <1>4 DEF Start, QuietNext
<1>. QED
  BY <1>1, <1>2, <1>3, <1>4
     DEF WorkerStep, VerifySource, Listen, ModelFails, Recheck, SaveText, SaveFails, StopHeartbeat, AnswerRefused,
         HeartbeatLost, Kill

LEMMA OthersUseQueue ==
    ASSUME Surroundings \/ TimePasses \/ UNCHANGED serviceVars
    PROVE  [QuietNext]_queueVars
BY DEF Surroundings, EnqueueVerified, Administer, DamageSource, DamageText, TimePasses, QuietNext, serviceVars

\* A report is a failure of a job the worker was given.
LEMMA ReportIsFailure ==
    ASSUME LocalInv, NEW w \in Workers, NEW t \in Instants, Report(w, t)
    PROVE  /\ held[w] \in leases /\ failure[w] \in FailureCodes /\ Retryable(failure[w]) \in BOOLEAN
           /\ Fail(held[w], failure[w], Retryable(failure[w]), t)
           /\ Next
<1>1. held[w] \in leases /\ failure[w] \in FailureCodes /\ Retryable(failure[w]) \in BOOLEAN
  BY DEF Report, LocalInv, WorkerOK, Retryable
<1>. QED
  BY <1>1 DEF Report, Next

LEMMA ServiceUsesQueue ==
    ASSUME LocalInv, [ServiceNext]_serviceVars
    PROVE  /\ [Next]_queueVars
           /\ [QuietNext]_queueVars \/ \E w \in Workers, t \in Instants : Report(w, t)
<1>1. [QuietNext]_queueVars \/ \E w \in Workers, t \in Instants : Report(w, t)
  BY OthersUseQueue, WorkerUsesQueue DEF ServiceNext
<1>2. QuietNext => Next
  BY DEF QuietNext, Next
<1>. QED
  BY <1>1, <1>2, ReportIsFailure

LEMMA LocalInvariant == ServiceSpec => []LocalInv
BY LocalInvInit, LocalInvStep, PTL DEF ServiceSpec

\* The workers, their heartbeats and whoever recovers, retries or cancels do
\* nothing to the tables that JobQueue does not allow: what is proved of JobQueue
\* holds of the whole service.
THEOREM ServiceImplementsQueue == ServiceSpec => Spec
<1>1. ServiceInit => Init
  BY DEF ServiceInit
<1>2. LocalInv /\ [ServiceNext]_serviceVars => [Next]_queueVars
  BY ServiceUsesQueue
<1>. QED
  BY <1>1, <1>2, LocalInvariant, PTL DEF ServiceSpec, Spec

THEOREM ServiceQueueInvariant == ServiceSpec => [](TypeInv /\ HistoryInv)
BY ServiceImplementsQueue, TypeInvariant, HistoryInvariant, PTL

-----------------------------------------------------------------------------
(* What a worker publishes or reports is true *)

\* Bytes that were heard as noise were not the source any more, and never will
\* be again; so what passed the second look is not noise.  A text that is to be
\* published was saved.  A report about the source was true when it was made,
\* and stays so.
TruthOK(w) ==
    /\ pc[w] = "recheck" /\ text[w] \in Noise => sound[SourceHeld(w)] # "intact"
    /\ pc[w] \in {"save", "settle", "answer"} => text[w] \notin Noise
    /\ pc[w] \in {"settle", "answer"} /\ failure[w] = NoError => kept[text[w]] # "absent"
    /\ failure[w] \in SourceCodes => sound[SourceHeld(w)] # "intact"
    /\ failure[w] = "SOURCE_MISSING" => sound[SourceHeld(w)] = "missing"

TruthInv ==
    /\ RevisionsAreTrue
    /\ SourceErrorsAreTrue
    /\ \A w \in Workers : TruthOK(w)

\* Bytes that are damaged stay so, and a blob once stored is never unheard of.
OnlyRots ==
    /\ \A s \in Sources :
        /\ sound[s] # "intact" => sound'[s] # "intact"
        /\ sound[s] = "missing" => sound'[s] = "missing"
    /\ \A x \in Texts : kept[x] # "absent" => kept'[x] # "absent"

LEMMA ServiceOnlyRots ==
    ASSUME LocalInv, [ServiceNext]_serviceVars
    PROVE  OnlyRots
<1>1. UNCHANGED sound \/ \E s \in Sources : DamageSource(s)
  BY DEF ServiceNext, Surroundings, EnqueueVerified, Administer, DamageText, TimePasses, serviceVars, storeVars,
         WorkerStep, Start, VerifySource, Listen, ModelFails, Recheck, SaveText, SaveFails, StopHeartbeat, Publish,
         Report, AnswerRefused, Heartbeat, HeartbeatLost, LateHeartbeat, Kill
<1>2. \/ UNCHANGED kept
      \/ \E x \in Texts : DamageText(x)
      \/ \E w \in Workers : SaveText(w)
  BY DEF ServiceNext, Surroundings, EnqueueVerified, Administer, DamageSource, TimePasses, serviceVars, storeVars,
         WorkerStep, Start, VerifySource, Listen, ModelFails, Recheck, SaveFails, StopHeartbeat, Publish,
         Report, AnswerRefused, Heartbeat, HeartbeatLost, LateHeartbeat, Kill
<1>3. \A s \in Sources : /\ sound[s] # "intact" => sound'[s] # "intact"
                         /\ sound[s] = "missing" => sound'[s] = "missing"
  BY <1>1 DEF DamageSource, LocalInv
<1>4. \A x \in Texts : kept[x] # "absent" => kept'[x] # "absent"
  BY <1>2 DEF DamageText, SaveText, LocalInv
<1>. QED
  BY <1>3, <1>4 DEF OnlyRots

\* The locals of a worker stay true while the world rots around it.
LEMMA TruthStays ==
    ASSUME LocalInv, OnlyRots, NEW w \in Workers, TruthOK(w),
           UNCHANGED <<pc[w], held[w], text[w], failure[w]>>
    PROVE  TruthOK(w)'
<1>1. pc[w] # "idle" => SourceHeld(w) \in Sources
  BY DEF LocalInv, WorkerOK, SourceHeld, SourceOf, Jobs
<1>2. pc[w] = "idle" => failure[w] = NoError
  BY DEF LocalInv, WorkerOK
<1>3. SourceHeld(w)' = SourceHeld(w)
  BY DEF SourceHeld
<1>. QED
  BY <1>1, <1>2, <1>3 DEF TruthOK, OnlyRots, LocalInv, WorkerOK, SourceCodes, NoError, Steps

\* What a worker finds out it found out about the bytes as they are.
LEMMA FailureIsTrue ==
    ASSUME LocalInv, NEW w \in Workers, pc[w] # "idle", NEW code \in FailureCodes, FailsWith(w, code),
           UNCHANGED <<sound, kept, held>>,
           code \in SourceCodes => code = BlobCode(w) /\ sound[SourceHeld(w)] # "intact"
    PROVE  TruthOK(w)'
<1>1. SourceHeld(w)' = SourceHeld(w) /\ SourceHeld(w) \in Sources
  BY DEF LocalInv, WorkerOK, SourceHeld, SourceOf, Jobs
<1>2. pc'[w] = "settle" /\ failure'[w] = code /\ text'[w] = NoText
  BY DEF FailsWith, Goto, LocalInv
<1>3. text'[w] \notin Noise
  BY <1>2, ServiceAssumption
<1>4. code \in SourceCodes => sound[SourceHeld(w)] # "intact"
  OBVIOUS
<1>5. code = "SOURCE_MISSING" => sound[SourceHeld(w)] = "missing"
  BY <1>1 DEF SourceCodes, BlobCode, LocalInv
<1>6. code # NoError
  BY CodesAreReported
<1>. QED
  BY <1>1, <1>2, <1>3, <1>4, <1>5, <1>6 DEF TruthOK

LEMMA WorkerStaysTrue ==
    ASSUME LocalInv, OnlyRots, NEW w \in Workers, TruthOK(w), WorkerStep(w)
    PROVE  TruthOK(w)'
<1>. USE CodesAreReported
<1>1. ASSUME NEW m \in Models, NEW j \in Jobs, NEW t \in Instants, Start(w, m, j, t) PROVE TruthOK(w)'
  <2>1. pc'[w] = "verify" /\ failure'[w] = NoError
    BY <1>1 DEF Start, Goto, LocalInv, WorkerOK
  <2>. QED
    BY <2>1 DEF TruthOK, SourceCodes, NoError
<1>2. CASE VerifySource(w) \/ Recheck(w)
  <2>1. UNCHANGED <<sound, kept, held>> /\ pc[w] \in {"verify", "recheck"}
    BY <1>2 DEF VerifySource, Recheck, storeVars
  <2>2. CASE FailsWith(w, BlobCode(w)) /\ sound[SourceHeld(w)] # "intact"
    BY <2>1, <2>2, BlobCodeIsSourceCode, FailureIsTrue
  <2>3. CASE /\ pc[w] = "verify" => pc'[w] = "listen"
             /\ pc[w] = "recheck" => pc'[w] = "save" /\ sound[SourceHeld(w)] = "intact"
             /\ UNCHANGED <<text, failure>>
    <3>1. failure[w] = NoError
      BY <2>1 DEF LocalInv, WorkerOK
    <3>. QED
      BY <2>1, <2>3, <3>1 DEF TruthOK, SourceCodes, NoError
  <2>. QED
    BY <1>2, <2>2, <2>3 DEF VerifySource, Recheck, StillIntact, Goto, LocalInv
<1>3. ASSUME NEW x \in Texts, Listen(w, x) PROVE TruthOK(w)'
  <2>1. /\ pc'[w] = "recheck" /\ text'[w] = x /\ failure'[w] = NoError
        /\ SourceHeld(w)' = SourceHeld(w) /\ sound' = sound
        /\ x \in Noise => sound[SourceHeld(w)] # "intact"
    BY <1>3 DEF Listen, Goto, LocalInv, WorkerOK, SourceHeld, storeVars
  <2>. QED
    BY <2>1 DEF TruthOK, SourceCodes, NoError
<1>4. CASE (\E code \in FailureCodes : ModelFails(w, code)) \/ SaveFails(w)
  <2>1. PICK code \in FailureCodes \ SourceCodes :
           FailsWith(w, code) /\ UNCHANGED <<sound, kept, held>> /\ pc[w] # "idle"
    BY <1>4 DEF ModelFails, SaveFails, ModelCodes, SourceCodes, storeVars
  <2>. QED
    BY <2>1, FailureIsTrue
<1>5. CASE SaveText(w)
  <2>1. /\ pc[w] = "save" /\ pc'[w] = "settle" /\ failure'[w] = NoError /\ text'[w] = text[w]
        /\ text[w] \in Texts
    BY <1>5 DEF SaveText, Goto, LocalInv, WorkerOK
  <2>2. kept'[text'[w]] = "intact"
    BY <1>5, <2>1 DEF SaveText, LocalInv
  <2>. QED
    BY <2>1, <2>2 DEF TruthOK, SourceCodes, NoError
<1>6. CASE RunEnds(w)
  <2>1. pc'[w] = "idle" /\ failure'[w] = NoError
    BY <1>6 DEF RunEnds, Goto, LocalInv
  <2>. QED
    BY <2>1 DEF TruthOK, SourceCodes, NoError
<1>7. ASSUME NEW outlives \in BOOLEAN, StopHeartbeat(w, outlives), ~RunEnds(w) PROVE TruthOK(w)'
  <2>1. /\ pc[w] = "settle" /\ pc'[w] = "answer"
        /\ UNCHANGED <<sound, kept, held, text, failure>>
    BY <1>7 DEF StopHeartbeat, Goto, LocalInv, storeVars
  <2>. QED
    BY <2>1 DEF TruthOK, SourceHeld
<1>8. CASE UNCHANGED runVars
  BY <1>8, TruthStays DEF runVars
<1>. QED
  BY <1>1, <1>2, <1>3, <1>4, <1>5, <1>6, <1>7, <1>8
     DEF WorkerStep, Publish, Report, AnswerRefused, Heartbeat, HeartbeatLost, LateHeartbeat, Kill

\* Nobody writes to the locals of another worker.
LEMMA OthersStayTrue ==
    ASSUME LocalInv, OnlyRots, NEW w \in Workers, TruthOK(w), [ServiceNext]_serviceVars, ~WorkerStep(w)
    PROVE  TruthOK(w)'
<1>1. CASE UNCHANGED runVars
  BY <1>1, TruthStays DEF runVars
<1>2. ASSUME NEW v \in Workers \ {w}, WorkerStep(v) PROVE UNCHANGED <<pc[w], held[w], text[w], failure[w]>>
  BY <1>2 DEF LocalInv, WorkerStep, Start, VerifySource, Listen, ModelFails, Recheck, SaveText, SaveFails,
              StopHeartbeat, Publish, Report, AnswerRefused, Heartbeat, HeartbeatLost, LateHeartbeat, Kill, RunEnds,
              FailsWith, Goto, runVars
<1>. QED
  BY <1>1, <1>2, TruthStays
     DEF ServiceNext, Surroundings, EnqueueVerified, Administer, DamageSource, DamageText, TimePasses, serviceVars

\* A transcript is published by a worker that has looked twice.
LEMMA RevisionsStayTrue ==
    ASSUME LocalInv, OnlyRots, TypeOK, RevisionsAreTrue, \A w \in Workers : TruthOK(w),
           [ServiceNext]_serviceVars
    PROVE  RevisionsAreTrue'
<1>1. \/ revision' = revision
      \/ \E w \in Workers, t \in Instants : Publish(w, t)
  BY DEF ServiceNext, Surroundings, EnqueueVerified, Administer, DamageSource, DamageText, TimePasses, serviceVars,
         WorkerStep, Start, VerifySource, Listen, ModelFails, Recheck, SaveText, SaveFails, StopHeartbeat, Report,
         AnswerRefused, Heartbeat, HeartbeatLost, LateHeartbeat, Kill, queueVars, outputVars, Enqueue, Claim, Renew,
         Fail, RecoverExpired, Retry, Cancel, Tick
<1>2. \A r \in revision : r.text \in Texts
  BY DEF TypeOK, RevisionRow
<1>3. CASE revision' = revision
  BY <1>2, <1>3 DEF RevisionsAreTrue, OnlyRots
<1>4. ASSUME NEW w \in Workers, NEW t \in Instants, Publish(w, t) PROVE RevisionsAreTrue'
  <2>1. text[w] \notin Noise /\ kept[text[w]] # "absent" /\ text[w] \in Texts
    BY <1>4 DEF Publish, TruthOK, LocalInv, WorkerOK
  <2>2. \A r \in revision' : r \in revision \/ r.text = text[w]
    BY <1>4 DEF Publish, Complete, Stored
  <2>. QED
    BY <1>2, <2>1, <2>2 DEF RevisionsAreTrue, OnlyRots
<1>. QED
  BY <1>1, <1>3, <1>4

\* A source error gets into the table through a report only, and nothing that
\* happens to its job later makes it untrue.
LEMMA SourceErrorsStayTrue ==
    ASSUME LocalInv, OnlyRots, TypeInv, HistoryInv, SourceErrorsAreTrue, \A w \in Workers : TruthOK(w),
           [ServiceNext]_serviceVars
    PROVE  SourceErrorsAreTrue'
<1>. DEFINE ErrorOK(j) ==
        error[j] \in SourceCodes /\ status[j] # "cancelled" =>
            /\ status[j] = "failed_terminal"
            /\ sound[SourceOf(j)] # "intact"
            /\ error[j] = "SOURCE_MISSING" => sound[SourceOf(j)] = "missing"
<1>1. ASSUME NEW j \in Jobs, QuietRowStep(j) PROVE ErrorOK(j)'
  <2>1. ErrorOK(j) /\ SourceOf(j) \in Sources
    BY DEF SourceErrorsAreTrue, SourceOf, Jobs
  <2>2. "WORKER_INTERRUPTED" \notin SourceCodes /\ NoError \notin SourceCodes
    BY DEF SourceCodes, NoError
  <2>. QED
    BY <1>1, <2>1, <2>2 DEF OnlyRots, QuietRowStep, Untouched, Inserted, Interrupted, Claimed, Completed, Retried,
                            Cancelled
<1>2. ASSUME NEW w \in Workers, NEW t \in Instants, Report(w, t), NEW j \in Jobs PROVE ErrorOK(j)'
  <2>1. CASE j = held[w].job
    <3>1. /\ error'[j] = failure[w]
          /\ failure[w] \in SourceCodes => status'[j] = "failed_terminal"
      <4>1. PICK retryable \in BOOLEAN : retryable = Retryable(failure[w])
        BY <1>2, ReportIsFailure
      <4>2. held[w] \in leases /\ failure[w] \in FailureCodes /\ Fail(held[w], failure[w], retryable, t)
        BY <1>2, <4>1, ReportIsFailure
      <4>3. error'[j] = failure[w] /\ (~retryable => status'[j] = "failed_terminal")
        BY <2>1, <4>2, FailStep
      <4>. QED
        BY <4>1, <4>3 DEF Retryable, SourceCodes
    <3>2. SourceHeld(w) = SourceOf(j) /\ SourceOf(j) \in Sources
      BY <2>1 DEF SourceHeld, SourceOf, Jobs
    <3>. QED
      BY <3>1, <3>2 DEF TruthOK, OnlyRots
  <2>2. CASE j # held[w].job
    BY <1>1, <1>2, <2>2, ReportIsFailure, FailStep DEF QuietRowStep
  <2>. QED
    BY <2>1, <2>2
<1>3. \A j \in Jobs : ErrorOK(j)'
  BY <1>1, <1>2, ServiceUsesQueue, QuietRowSteps
<1>. QED
  BY <1>3 DEF SourceErrorsAreTrue

LEMMA TruthInvariant == ServiceSpec => []TruthInv
<1>1. ServiceInit => TruthInv
  BY DEF ServiceInit, Init, TruthInv, TruthOK, RevisionsAreTrue, SourceErrorsAreTrue, SourceCodes, NoError
<1>2. LocalInv /\ TypeInv /\ HistoryInv /\ TruthInv /\ [ServiceNext]_serviceVars => TruthInv'
  BY ServiceOnlyRots, WorkerStaysTrue, OthersStayTrue, RevisionsStayTrue, SourceErrorsStayTrue DEF TruthInv, TypeInv
<1>. QED
  BY <1>1, <1>2, LocalInvariant, ServiceQueueInvariant, PTL DEF ServiceSpec

-----------------------------------------------------------------------------
(* A heartbeat keeps the job *)

\* While an attempt stays open its lease is only ever extended, from an instant
\* that lies at most ClockLag behind the clock.
LEMMA OpenLeaseIsExtended ==
    ASSUME TypeInv, HistoryInv, [Next]_queueVars, NEW j \in Jobs, NEW n \in Numbers,
           attempt[j][n] = "open", attempt'[j][n] = "open"
    PROVE  expires'[j] = expires[j] \/ expires'[j] + ClockLag >= now + LeaseSeconds
<1>0. TypeOK /\ QueueAssumption
  BY QueueAssumption DEF TypeInv
<1>1. status[j] = "processing" /\ n = count[j] /\ n # count[j] + 1
  BY NumbersAreCounted
<1>2. status'[j] = "processing" /\ Untouched(j)
  BY <1>1, RowSteps DEF RowStep, QuietRowStep, Untouched, Inserted, Interrupted, Claimed, Completed, Failed,
                        Answered, Retried, Cancelled, Claimable
<1>3. ASSUME NEW t \in Instants, j \in Expired(t), status'[j] = RecoveredStatus(t)[j] PROVE FALSE
  BY <1>2, <1>3 DEF RecoveredStatus, Recovered, InterruptedStatus
<1>4. ASSUME NEW t \in Instants, RecoverExpired(t) PROVE expires'[j] = expires[j]
  BY <1>3, <1>4 DEF RecoverExpired, RecoveredExpires, Recovered
<1>5. ASSUME NEW m \in Models, NEW i \in Jobs, NEW t \in Instants, Claim(m, i, t)
      PROVE  expires'[j] = expires[j]
  <2>1. j # i
    <3>1. j = i => count'[j] = count[j] + 1
      BY <1>0, <1>5 DEF Claim, TypeOK
    <3>. QED
      BY <1>0, <1>2, <3>1, CountsAreNumbers DEF Untouched
  <2>2. RecoveredStatus(t) \in [Jobs -> Statuses] /\ RecoveredExpires(t) \in [Jobs -> Nat \cup {NoTime}]
    BY <1>0, RecoveryType, InstantsAreTimes
  <2>3. status'[j] = RecoveredStatus(t)[j] /\ expires'[j] = RecoveredExpires(t)[j]
    BY <1>5, <2>1, <2>2 DEF Claim
  <2>. QED
    BY <1>3, <2>3 DEF RecoveredExpires, Recovered
<1>6. ASSUME NEW l \in leases, NEW t \in Instants, Renew(l, t)
      PROVE  expires'[j] = expires[j] \/ expires'[j] + ClockLag >= now + LeaseSeconds
  <2>1. t \in Nat /\ now \in Nat /\ now <= t + ClockLag
    BY <1>0, InstantsAreRecent
  <2>2. expires'[j] = expires[j] \/ expires'[j] = t + LeaseSeconds
    BY <1>0, <1>6 DEF Renew, TypeOK
  <2>. QED
    BY <1>0, <2>1, <2>2 DEF QueueAssumption
<1>7. ASSUME NEW l \in leases, GiveUpLease(l.job), status'[l.job] # "processing" PROVE expires'[j] = expires[j]
  BY <1>0, <1>2, <1>7 DEF GiveUpLease, TypeOK
<1>8. ASSUME NEW l \in leases, NEW t \in Instants,
             \/ \E id \in Revisions, x \in Texts : Complete(l, id, x, t)
             \/ \E code \in FailureCodes, retryable \in BOOLEAN : Fail(l, code, retryable, t)
      PROVE  expires'[j] = expires[j]
  <2>1. GiveUpLease(l.job) /\ status'[l.job] # "processing"
    BY <1>0, <1>8, LeaseType DEF Complete, Fail, TypeOK
  <2>. QED
    BY <1>7, <2>1
<1>9. ASSUME NEW i \in Jobs, Cancel(i) PROVE expires'[j] = expires[j]
  BY <1>0, <1>2, <1>9 DEF Cancel, GiveUpLease, TypeOK
<1>. QED
  BY <1>4, <1>5, <1>6, <1>8, <1>9 DEF Next, Enqueue, Retry, Tick, leaseVars, queueVars, jobVars

\* A lease that was handed out is never opened a second time.
LEMMA HeldIsNotReopened ==
    ASSUME TypeInv, HistoryInv, [Next]_queueVars, NEW l \in leases, attempt'[l.job][l.number] = "open"
    PROVE  attempt[l.job][l.number] = "open"
<1>0. TypeOK
  BY DEF TypeInv
<1>1. l.job \in Jobs /\ l.number \in Numbers /\ l.number \in Nat
  BY <1>0, LeaseType
<1>2. count[l.job] \in Nat /\ l.number <= count[l.job]
  BY <1>0, <1>1, CountsAreNumbers DEF HistoryInv, TokensAreIssued
<1>3. l.number # count[l.job] + 1
  BY <1>1, <1>2
<1>. QED
  BY <1>1, <1>3, RowSteps DEF RowStep, QuietRowStep, Untouched, Inserted, Interrupted, Claimed, Completed, Failed,
                              Answered, Retried, Cancelled

\* The lease of a worker whose heartbeat beats runs from the last beat, but for
\* the lag of the instant that beat used.
BeatOK(w) ==
    beat[w] = "on" =>
        /\ beatAt[w] <= now
        /\ attempt[held[w].job][held[w].number] = "open" =>
              expires[held[w].job] + ClockLag >= beatAt[w] + LeaseSeconds

BeatInv == beatAt \in [Workers -> Nat] /\ \A w \in Workers : BeatOK(w)

\* What happens to the queue between two beats keeps it so.
LEMMA BeatStays ==
    ASSUME LocalInv, TypeInv, TypeOK', HistoryInv, [Next]_queueVars, BeatInv, NEW w \in Workers,
           beat'[w] = "on" => beat[w] = "on", held'[w] = held[w], beatAt'[w] = beatAt[w]
    PROVE  BeatOK(w)'
<1>. SUFFICES ASSUME beat[w] = "on" PROVE BeatOK(w)'
  BY DEF BeatOK
<1>. DEFINE j == held[w].job
            n == held[w].number
<1>0. TypeOK /\ QueueAssumption
  BY QueueAssumption DEF TypeInv
<1>1. held[w] \in leases /\ j \in Jobs /\ n \in Numbers
  BY <1>0, LeaseType DEF LocalInv, WorkerOK
<1>2. now \in Nat /\ now' \in Nat /\ now <= now' /\ beatAt[w] \in Nat /\ beatAt[w] <= now
  <2>1. now' = now \/ now' = now + 1
    BY DEF Next, Enqueue, RecoverExpired, Claim, Renew, Complete, Fail, Retry, Cancel, Tick, queueVars, worldVars
  <2>. QED
    BY <1>0, <2>1 DEF TypeOK, BeatInv, BeatOK
<1>3. ASSUME attempt'[j][n] = "open" PROVE expires'[j] + ClockLag >= beatAt[w] + LeaseSeconds
  <2>1. attempt[j][n] = "open"
    BY <1>1, <1>3, HeldIsNotReopened
  <2>2. expires[j] + ClockLag >= beatAt[w] + LeaseSeconds
    BY <2>1 DEF BeatInv, BeatOK
  <2>3. expires'[j] = expires[j] \/ expires'[j] + ClockLag >= now + LeaseSeconds
    BY <1>1, <1>3, <2>1, OpenLeaseIsExtended
  <2>4. expires'[j] \in Int
    BY <1>1 DEF TypeOK, NoTime
  <2>. QED
    BY <1>0, <1>2, <2>2, <2>3, <2>4 DEF QueueAssumption
<1>. QED
  BY <1>2, <1>3 DEF BeatOK

\* A claim and a beat start the lease anew.
LEMMA BeatStarts ==
    ASSUME TypeInv, NEW w \in Workers, NEW t \in Instants, now' = now, beatAt'[w] = now,
           expires'[held'[w].job] = t + LeaseSeconds
    PROVE  BeatOK(w)'
<1>1. t \in Nat /\ now \in Nat /\ now <= t + ClockLag
  BY InstantsAreRecent DEF TypeInv
<1>. QED
  BY <1>1, QueueAssumption DEF BeatOK

LEMMA BeatInvStep ==
    ASSUME LocalInv, TypeInv, TypeOK', HistoryInv, BeatInv, [ServiceNext]_serviceVars
    PROVE  BeatInv'
<1>0. TypeOK /\ now \in Nat /\ QueueAssumption
  BY QueueAssumption DEF TypeInv, TypeOK
<1>1. [Next]_queueVars
  BY ServiceUsesQueue
<1>2. ASSUME NEW w \in Workers, NEW m \in Models, NEW j \in Jobs, NEW t \in Instants, Start(w, m, j, t)
      PROVE  /\ BeatOK(w)' /\ beatAt' = [beatAt EXCEPT ![w] = now]
             /\ \A v \in Workers \ {w} : beat'[v] = beat[v] /\ held'[v] = held[v]
  <2>1. leases' \ leases \subseteq {[job |-> j, token |-> FreshToken, number |-> count[j] + 1]}
    BY <1>2 DEF Start, Claim
  <2>2. held'[w].job = j
    BY <1>2, <2>1 DEF Start, LocalInv
  <2>3. RecoveredExpires(t) \in [Jobs -> Nat \cup {NoTime}]
    BY <1>0, RecoveryType, InstantsAreTimes
  <2>4. expires'[j] = t + LeaseSeconds /\ now' = now
    BY <1>2, <2>3 DEF Start, Claim
  <2>. QED
    BY <1>2, <2>2, <2>4, BeatStarts DEF Start, BeatInv, LocalInv
<1>3. ASSUME NEW w \in Workers, NEW t \in Instants, Heartbeat(w, t)
      PROVE  /\ BeatOK(w)' /\ beatAt' = [beatAt EXCEPT ![w] = now]
             /\ \A v \in Workers \ {w} : beat'[v] = beat[v] /\ held'[v] = held[v]
  <2>1. held[w] \in leases /\ held[w].job \in Jobs
    BY <1>3 DEF Heartbeat, LocalInv, WorkerOK
  <2>2. expires'[held'[w].job] = t + LeaseSeconds /\ now' = now
    BY <1>0, <1>3, <2>1 DEF Heartbeat, Renew, TypeOK, runVars, worldVars
  <2>. QED
    BY <1>3, <2>2, BeatStarts DEF Heartbeat, BeatInv, runVars
<1>4. ASSUME NEW w \in Workers, BeatOK(w)', beatAt' = [beatAt EXCEPT ![w] = now],
             \A v \in Workers \ {w} : beat'[v] = beat[v] /\ held'[v] = held[v]
      PROVE  BeatInv'
  <2>1. ASSUME NEW v \in Workers \ {w} PROVE BeatOK(v)'
    <3>1. beatAt'[v] = beatAt[v]
      BY <1>4 DEF BeatInv
    <3>. QED
      BY <1>1, <1>4, <3>1, BeatStays
  <2>. QED
    BY <1>0, <1>4, <2>1 DEF BeatInv
<1>5. ASSUME beatAt' = beatAt, \A w \in Workers : beat'[w] = "on" => beat[w] = "on" /\ held'[w] = held[w]
      PROVE  BeatInv'
  <2>1. ASSUME NEW w \in Workers PROVE BeatOK(w)'
    BY <1>1, <1>5, BeatStays DEF BeatOK
  <2>. QED
    BY <1>5, <2>1 DEF BeatInv
<1>6. ASSUME NEW w \in Workers, WorkerStep(w),
             \A m \in Models, j \in Jobs, t \in Instants : ~Start(w, m, j, t),
             \A t \in Instants : ~Heartbeat(w, t)
      PROVE  beatAt' = beatAt /\ \A v \in Workers : beat'[v] = "on" => beat[v] = "on" /\ held'[v] = held[v]
  <2>1. beatAt' = beatAt
    BY <1>6 DEF WorkerStep, VerifySource, Listen, ModelFails, Recheck, SaveText, SaveFails, StopHeartbeat, Publish,
                Report, AnswerRefused, HeartbeatLost, LateHeartbeat, Kill, beatVars
  <2>2. \/ held' = held /\ (beat' = beat \/ \E s \in {"off", "lost"} : beat' = [beat EXCEPT ![w] = s])
        \/ RunEnds(w) /\ (beat' = [beat EXCEPT ![w] = "off"] \/ (pc[w] = "answer" /\ beat' = beat))
    BY <1>6 DEF WorkerStep, VerifySource, Listen, ModelFails, Recheck, SaveText, SaveFails, StopHeartbeat, Publish,
                Report, AnswerRefused, HeartbeatLost, LateHeartbeat, Kill, beatVars, runVars
  <2>. QED
    BY <2>1, <2>2 DEF LocalInv, WorkerOK, RunEnds
<1>7. ASSUME NEW w \in Workers, WorkerStep(w) PROVE BeatInv'
  <2>1. CASE \E m \in Models, j \in Jobs, t \in Instants : Start(w, m, j, t)
    BY <2>1, <1>2, <1>4
  <2>2. CASE \E t \in Instants : Heartbeat(w, t)
    BY <2>2, <1>3, <1>4
  <2>. QED
    BY <1>5, <1>6, <1>7, <2>1, <2>2
<1>8. CASE UNCHANGED beatVars /\ UNCHANGED runVars
  BY <1>5, <1>8 DEF beatVars, runVars
<1>. QED
  BY <1>7, <1>8
     DEF ServiceNext, Surroundings, EnqueueVerified, Administer, DamageSource, DamageText, TimePasses, serviceVars

LEMMA BeatInvariant == ServiceSpec => []BeatInv
<1>1. ServiceInit => BeatInv
  BY DEF ServiceInit, BeatInv, BeatOK
<1>2. LocalInv /\ TypeInv /\ TypeOK' /\ HistoryInv /\ BeatInv /\ [ServiceNext]_serviceVars => BeatInv'
  BY BeatInvStep
<1>3. TypeInv => TypeOK
  BY DEF TypeInv
<1>. QED
  BY <1>1, <1>2, <1>3, LocalInvariant, ServiceQueueInvariant, PTL DEF ServiceSpec

\* What is published was in the store and is not what was heard in bytes that
\* were not the source any more (RevisionsAreTrue); a source that is said to be
\* missing or corrupt is, and its job is over (SourceErrorsAreTrue): whatever
\* rots or disappears, and whenever a worker is killed or loses its lease.
THEOREM ServiceIsTruthful == ServiceSpec => [](ServiceTypeOK /\ RevisionsAreTrue /\ SourceErrorsAreTrue)
<1>1. LocalInv /\ BeatInv => ServiceTypeOK
  BY CodesAreReported DEF LocalInv, BeatInv, ServiceTypeOK
<1>2. TruthInv => RevisionsAreTrue /\ SourceErrorsAreTrue
  BY DEF TruthInv
<1>. QED
  BY <1>1, <1>2, LocalInvariant, BeatInvariant, TruthInvariant, PTL

\* A worker whose heartbeat has beaten within its interval does not lose its job
\* to recovery (BeatingWorkerKeepsJob), if a transaction waits for less than two
\* intervals for the write lock, as three intervals fit in a lease.  The busy
\* timeout of the database is 30 seconds and the interval of the default lease
\* of 180 seconds is 60; a lease of 45 seconds or less is not covered.
THEOREM HeartbeatKeepsJob ==
    ASSUME ClockLag < 2 * BeatInterval
    PROVE  ServiceSpec => BeatingWorkerKeepsJob
<1>1. ASSUME LocalInv, TypeInv, HistoryInv, BeatInv, [Next]_queueVars, NEW w \in Workers,
             beat[w] = "on", now <= beatAt[w] + BeatInterval
      PROVE  LET j == held[w].job
                 n == held[w].number
             IN  ~(attempt[j][n] = "open" /\ attempt'[j][n] = "interrupted")
  <2>. DEFINE j == held[w].job
              n == held[w].number
  <2>. SUFFICES ASSUME attempt[j][n] = "open", attempt'[j][n] = "interrupted" PROVE FALSE
    OBVIOUS
  <2>1. TypeOK /\ j \in Jobs /\ n \in Numbers
    BY <1>1, LeaseType DEF TypeInv, LocalInv, WorkerOK
  <2>2. expires[j] <= now
    BY <1>1, <2>1, OpenIsEnded
  <2>3. expires[j] + ClockLag >= beatAt[w] + LeaseSeconds
    BY <1>1 DEF BeatInv, BeatOK
  <2>4. now \in Nat /\ beatAt[w] \in Nat /\ expires[j] \in Int
    BY <1>1, <2>1 DEF TypeOK, BeatInv, NoTime
  <2>. QED
    BY <1>1, <2>2, <2>3, <2>4, QueueAssumption, ServiceAssumption
<1>2. LocalInv /\ TypeInv /\ HistoryInv /\ BeatInv /\ [ServiceNext]_serviceVars =>
        [\A w \in Workers :
          beat[w] = "on" /\ now <= beatAt[w] + BeatInterval =>
              LET j == held[w].job
                  n == held[w].number
              IN  ~(attempt[j][n] = "open" /\ attempt'[j][n] = "interrupted")]_serviceVars
  BY <1>1, ServiceUsesQueue
<1>. QED
  BY <1>2, LocalInvariant, ServiceQueueInvariant, BeatInvariant, PTL DEF ServiceSpec, BeatingWorkerKeepsJob
=============================================================================
