---------------------------- MODULE JobExecution ----------------------------
(***************************************************************************)
(* From a durable job to canonical results: GitHubHostedRuntime's          *)
(* processNextJob, the canonical analysis and authorized review adapters   *)
(* it calls, and the statements they run on reverb_hosted_jobs,            *)
(* reverb_canonical_records, reverb_canonical_pointers and                 *)
(* reverb_delivery_outbox.                                                 *)
(*                                                                         *)
(* processNextJob is a sequence of separate transactions (claim, record,   *)
(* pointer, delivery intent, complete).  Only the first and the last look  *)
(* at the lease: a worker that lost it goes on writing results.            *)
(***************************************************************************)
EXTENDS LeasedRow

CONSTANTS
    Jobs, NoJob,        \* durable jobs, numbered by the delivery they come from, and NULL
    KeyOf,              \* j |-> the supersession key of j, or NoKey
    Keys, NoKey,        \* supersession keys, and NULL
    Hashes, NoHash,     \* output hashes of results, and NULL
    MaximumAttempts     \* maximum_attempts of the jobs

ASSUME JobsAssumption == Jobs \subseteq Nat /\ NoJob \notin Jobs
ASSUME KeysAssumption ==
    /\ NoKey \notin Keys
    /\ KeyOf \in [Jobs -> Keys \cup {NoKey}]
ASSUME HashesAssumption == NoHash \notin Hashes
ASSUME MaximumAttemptsAssumption == MaximumAttempts \in Nat \ {0}

VARIABLES
    jobs,           \* reverb_hosted_jobs
    resultHash,     \* its result_hash column
    records,        \* payload_hash of the record that each job's result is stored as
    pointers,       \* current_analysis pointers: key |-> job whose record it names
    intents,        \* canonical_record_hash of each job's delivery intent
    executor,       \* where each worker is inside processNextJob
    readDisabled    \* HostedOperationalControls: the read switch

vars == <<jobs, resultHash, records, pointers, intents, executor, readDisabled>>

results == <<resultHash, records, pointers, intents>>

-----------------------------------------------------------------------------
(* State. *)

IdleExecutor == [pc |-> "idle"]

\* A worker that has claimed and has no result yet.
Claimed == [pc : {"claimed"}, job : Jobs, attempt : 1 .. MaximumAttempts]

\* A worker with a HostedJobResult in hand: its hash, whether it carries a
\* pointer (analysis.current) and whether it carries a delivery.
Persisting ==
    [pc      : {"handled", "recorded", "pointed", "queued"},
     job     : Jobs,
     attempt : 1 .. MaximumAttempts,
     hash    : Hashes,
     current : BOOLEAN,
     deliver : BOOLEAN]

ExecutorState == {IdleExecutor} \cup Claimed \cup Persisting

\* A row carries a lease exactly while it is leased.
TypeOK ==
    /\ jobs \in [Jobs -> Row(JobStates, MaximumAttempts)]
    /\ \A j \in Jobs : (jobs[j].leaseOwner # NoWorker) <=> (jobs[j].state = "leased")
    /\ resultHash \in [Jobs -> Hashes \cup {NoHash}]
    /\ records \in [Jobs -> Hashes \cup {NoHash}]
    /\ pointers \in [Keys -> Jobs \cup {NoJob}]
    /\ intents \in [Jobs -> Hashes \cup {NoHash}]
    /\ executor \in [Workers -> ExecutorState]
    /\ readDisabled \in BOOLEAN

Init ==
    /\ jobs = [j \in Jobs |-> AbsentRow]
    /\ resultHash = [j \in Jobs |-> NoHash]
    /\ records = [j \in Jobs |-> NoHash]
    /\ pointers = [k \in Keys |-> NoJob]
    /\ intents = [j \in Jobs |-> NoHash]
    /\ executor = [w \in Workers |-> IdleExecutor]
    /\ readDisabled = FALSE

-----------------------------------------------------------------------------
(* What webhook scheduling, time and the operator do to the queue. *)

EnqueueJob(j) ==
    /\ jobs[j].state = "absent"
    /\ jobs' = [jobs EXCEPT ![j] = InsertedRow]
    /\ UNCHANGED <<results, executor, readDisabled>>

\* Mutant: jobs are superseded whatever their state.
SupersedeSettledJobs(j) ==
    /\ jobs[j].state # "absent" /\ KeyOf[j] # NoKey
    /\ jobs' = [i \in Jobs |->
                  IF i # j /\ KeyOf[i] = KeyOf[j] /\ jobs[i].state # "absent"
                  THEN SettledRow(jobs[i], "superseded") ELSE jobs[i]]
    /\ UNCHANGED <<results, executor, readDisabled>>

\* supersedeJobs in favour of j: available and leased jobs of its key; the
\* worker that runs one is not told.
SupersedeJobs(j) ==
    /\ jobs[j].state # "absent" /\ KeyOf[j] # NoKey
    /\ jobs' = [i \in Jobs |->
                  IF /\ i # j /\ KeyOf[i] = KeyOf[j]
                     /\ jobs[i].state \in {"available", "leased"}
                  THEN SettledRow(jobs[i], "superseded") ELSE jobs[i]]
    /\ UNCHANGED <<results, executor, readDisabled>>

\* lease_expires_at passes, whether or not the holder is still at work.
JobLeaseExpires(j) ==
    /\ jobs[j].state = "leased" /\ ~jobs[j].leaseExpired
    /\ jobs' = [jobs EXCEPT ![j].leaseExpired = TRUE]
    /\ UNCHANGED <<results, executor, readDisabled>>

\* available_at of a retry passes.
JobRetryDue(j) ==
    /\ jobs[j].state = "available" /\ ~jobs[j].due
    /\ jobs' = [jobs EXCEPT ![j].due = TRUE]
    /\ UNCHANGED <<results, executor, readDisabled>>

SetReadDisabled ==
    /\ readDisabled' = ~readDisabled
    /\ UNCHANGED <<jobs, results, executor>>

-----------------------------------------------------------------------------
(* processNextJob, one action per transaction. *)

\* Mutant: a reclaimed lease does not count as an attempt.
ClaimJobUncounted(w, j) ==
    /\ ~readDisabled
    /\ executor[w].pc = "idle"
    /\ Claimable(jobs[j], MaximumAttempts)
    /\ jobs' = [jobs EXCEPT ![j] =
                  [ClaimedRow(jobs[j], w) EXCEPT !.attempt =
                     IF jobs[j].state = "leased" THEN jobs[j].attempt ELSE jobs[j].attempt + 1]]
    /\ executor' = [executor EXCEPT ![w] =
                      [pc |-> "claimed", job |-> j, attempt |-> jobs'[j].attempt]]
    /\ UNCHANGED <<results, readDisabled>>

\* The switch is read, then claimJob.  Workers may filter by kind, so any
\* claimable job may be the first in the order of a claim.
ClaimJob(w, j) ==
    /\ ~readDisabled
    /\ executor[w].pc = "idle"
    /\ Claimable(jobs[j], MaximumAttempts)
    /\ jobs' = [jobs EXCEPT ![j] = ClaimedRow(jobs[j], w)]
    /\ executor' = [executor EXCEPT ![w] =
                      [pc |-> "claimed", job |-> j, attempt |-> jobs[j].attempt + 1]]
    /\ UNCHANGED <<results, readDisabled>>

\* The handler returns.  CanonicalAnalysisJobAdapter carries a pointer when
\* the analysis ended current (not superseded when it asked, within budget)
\* and the host's deliveries; AuthorizedReviewJobAdapter a record only.  The
\* hash covers the run's own instants, so a rerun may have another one.
HandleJob(w, hash, current, deliver) ==
    LET j == executor[w].job
    IN  /\ executor[w].pc = "claimed"
        /\ current => KeyOf[j] # NoKey /\ jobs[j].state # "superseded"
        /\ deliver => KeyOf[j] # NoKey
        /\ executor' = [executor EXCEPT ![w] =
                          [pc |-> "handled", job |-> j, attempt |-> executor[w].attempt,
                           hash |-> hash, current |-> current, deliver |-> deliver]]
        /\ UNCHANGED <<jobs, results, readDisabled>>

\* Mutant: an existing record is taken for this one without comparing hashes.
PutRecordUncompared(w) ==
    LET j == executor[w].job
    IN  /\ executor[w].pc = "handled"
        /\ records' = IF records[j] = NoHash
                      THEN [records EXCEPT ![j] = executor[w].hash] ELSE records
        /\ executor' = [executor EXCEPT ![w].pc = "recorded"]
        /\ UNCHANGED <<jobs, resultHash, pointers, intents, readDisabled>>

\* putCanonicalRecord, when it does not throw: inserted, or already there
\* with the same payload hash.
PutRecord(w) ==
    LET j == executor[w].job
    IN  /\ executor[w].pc = "handled"
        /\ records[j] \in {NoHash, executor[w].hash}
        /\ records' = [records EXCEPT ![j] = executor[w].hash]
        /\ executor' = [executor EXCEPT ![w].pc = "recorded"]
        /\ UNCHANGED <<jobs, resultHash, pointers, intents, readDisabled>>

\* putCanonicalPointer: ON CONFLICT DO UPDATE, the last writer wins.
PutPointer(w) ==
    LET j == executor[w].job
    IN  /\ executor[w].pc = "recorded"
        /\ pointers' = IF executor[w].current
                       THEN [pointers EXCEPT ![KeyOf[j]] = j] ELSE pointers
        /\ executor' = [executor EXCEPT ![w].pc = "pointed"]
        /\ UNCHANGED <<jobs, resultHash, records, intents, readDisabled>>

\* enqueueDelivery: ON CONFLICT DO NOTHING.
EnqueueDelivery(w) ==
    LET j == executor[w].job
    IN  /\ executor[w].pc = "pointed"
        /\ intents' = IF executor[w].deliver /\ intents[j] = NoHash
                      THEN [intents EXCEPT ![j] = executor[w].hash] ELSE intents
        /\ executor' = [executor EXCEPT ![w].pc = "queued"]
        /\ UNCHANGED <<jobs, resultHash, records, pointers, readDisabled>>

\* completeJob: a no-op (stale_claim) for a worker without the lease.
CompleteJob(w) ==
    LET j == executor[w].job
    IN  /\ executor[w].pc = "queued"
        /\ IF HeldBy(jobs[j], w)
           THEN /\ jobs' = [jobs EXCEPT ![j] = SettledRow(jobs[j], "complete")]
                /\ resultHash' = [resultHash EXCEPT ![j] = executor[w].hash]
           ELSE UNCHANGED <<jobs, resultHash>>
        /\ executor' = [executor EXCEPT ![w] = IdleExecutor]
        /\ UNCHANGED <<records, pointers, intents, readDisabled>>

\* Mutant: failJob compares the state of the row and not its lease owner.
FailAnyLease(w, retryable) ==
    LET j == executor[w].job
    IN  /\ executor[w].pc # "idle"
        /\ executor[w].pc = "queued" => retryable
        /\ jobs' = IF jobs[j].state = "leased"
                   THEN [jobs EXCEPT ![j] = FailedRow(jobs[j], retryable, MaximumAttempts)]
                   ELSE jobs
        /\ executor' = [executor EXCEPT ![w] = IdleExecutor]
        /\ UNCHANGED <<results, readDisabled>>

\* Something threw: the handler (with a verdict of its own on retrying), the check
\* of a result's workspace before its statement (cross_workspace_job_result is not
\* retryable), or a statement, an immutable-record conflict included
\* (job_handler_failed is).  failJob is a no-op (stale_claim) without the lease.
FailJob(w, retryable) ==
    LET j == executor[w].job
    IN  /\ executor[w].pc # "idle"
        /\ executor[w].pc = "queued" => retryable
        /\ jobs' = IF HeldBy(jobs[j], w)
                   THEN [jobs EXCEPT ![j] = FailedRow(jobs[j], retryable, MaximumAttempts)]
                   ELSE jobs
        /\ executor' = [executor EXCEPT ![w] = IdleExecutor]
        /\ UNCHANGED <<results, readDisabled>>

\* The worker process dies; its lease stays.
CrashExecutor(w) ==
    /\ executor[w].pc # "idle"
    /\ executor' = [executor EXCEPT ![w] = IdleExecutor]
    /\ UNCHANGED <<jobs, results, readDisabled>>

\* The handler or a statement of processNextJob returns or throws.
ReportStep(w) ==
    \/ \E hash \in Hashes, current, deliver \in BOOLEAN : HandleJob(w, hash, current, deliver)
    \/ PutRecord(w) \/ PutPointer(w) \/ EnqueueDelivery(w) \/ CompleteJob(w)
    \/ \E retryable \in BOOLEAN : FailJob(w, retryable)

QueueStep ==
    \/ SetReadDisabled
    \/ \E j \in Jobs : EnqueueJob(j) \/ SupersedeJobs(j) \/ JobLeaseExpires(j) \/ JobRetryDue(j)

WorkerStep(w) ==
    \/ \E j \in Jobs : ClaimJob(w, j)
    \/ ReportStep(w)
    \/ CrashExecutor(w)

Next == QueueStep \/ \E w \in Workers : WorkerStep(w)

Spec == Init /\ [][Next]_vars

-----------------------------------------------------------------------------
(* Safety. *)

Working(w) == executor[w].pc # "idle"

\* Each attempt of a job is executed by at most one worker: overlapping
\* executions (an overrun lease) always carry different attempt numbers.
AttemptRunsOnce ==
    \A v, w \in Workers :
        /\ v # w /\ Working(v) /\ Working(w)
        /\ executor[v].job = executor[w].job
        => executor[v].attempt # executor[w].attempt

\* A complete job's result_hash is the payload hash of the record stored for
\* it, although overlapping attempts produce different hashes and none of
\* them holds a transaction across the record and the acknowledgement.
CompleteMatchesRecord ==
    \A j \in Jobs : jobs[j].state = "complete" =>
        resultHash[j] # NoHash /\ resultHash[j] = records[j]

\* A delivery intent projects the record that is canonical for its job, never
\* the output of an attempt whose record was refused.
IntentProjectsRecord ==
    \A j \in Jobs : intents[j] # NoHash => intents[j] = records[j]

\* A current_analysis pointer names a stored analysis of its own key.
PointerTargetsRecord ==
    \A k \in Keys : pointers[k] # NoJob =>
        KeyOf[pointers[k]] = k /\ records[pointers[k]] # NoHash

\* What is stored for a job is one result: its hash, its delivery intent and the
\* pointer to it agree with its record, although no transaction spans two of the
\* four tables.
ResultsMatchRecord == CompleteMatchesRecord /\ IntentProjectsRecord /\ PointerTargetsRecord

\* A leased job leaves its lease by supersession or by the verdict of the
\* worker that runs its latest attempt: whoever was reclaimed changes nothing,
\* although completeJob and failJob compare the lease owner only.
VerdictOfLatestAttempt ==
    [][\A j \in Jobs :
         jobs[j].state = "leased" /\ jobs'[j].state \notin {"leased", "superseded"} =>
           \E w \in Workers :
               /\ Working(w) /\ executor'[w].pc = "idle"
               /\ executor[w].job = j
               /\ executor[w].attempt = jobs[j].attempt]_vars

\* A settled job stays as it settled, result included, whatever late
\* acknowledgements, retries and supersessions still arrive.
SettledIsFinal ==
    [][\A j \in Jobs :
         jobs[j].state \in JobSettled =>
             jobs'[j] = jobs[j] /\ resultHash'[j] = resultHash[j]]_vars

-----------------------------------------------------------------------------
(* What the documentation says and the interleavings refute. *)

\* "Completed stale analyses ... are marked superseded; they never overwrite
\* current output": a superseded job never replaces a newer job's pointer.
StaleNeverOverwritesCurrent ==
    [][\A k \in Keys :
         pointers[k] # NoJob /\ pointers'[k] # pointers[k] =>
             ~(jobs[pointers'[k]].state = "superseded" /\ pointers'[k] < pointers[k])]_vars

-----------------------------------------------------------------------------
(* Liveness. *)

\* Worker loops keep calling processNextJob, handlers return or throw, and
\* time passes.
Fairness ==
    /\ \A j \in Jobs : WF_vars(JobLeaseExpires(j)) /\ WF_vars(JobRetryDue(j))
    /\ \A w \in Workers :
         /\ WF_vars(\E j \in Jobs : ClaimJob(w, j))
         /\ WF_vars(ReportStep(w))

FairSpec == Spec /\ Fairness

\* No worker dies with a lease in hand or overruns it.
CalmStep ==
    \A w \in Workers : \A j \in Jobs :
        Working(w) /\ executor[w].job = j /\ HeldBy(jobs[j], w)
        => \/ executor'[w].pc # "idle" /\ jobs'[j].leaseExpired = jobs[j].leaseExpired
           \/ jobs'[j].state # "leased"

Calm == <>[]~readDisabled /\ <>[][CalmStep]_vars

\* Leased at its last attempt by a worker that is gone: no claim takes it.
Stranded(j) ==
    /\ jobs[j].state = "leased" /\ jobs[j].leaseExpired
    /\ jobs[j].attempt = MaximumAttempts

\* Once crashes, overruns and the read switch stop interfering, every job
\* settles, save one whose last attempt was lost.
JobsSettleOrStrand ==
    Calm => \A j \in Jobs :
        jobs[j].state \in {"available", "leased"} ~> jobs[j].state \in JobSettled \/ Stranded(j)
=============================================================================
