------------------------ MODULE JobExecution_proofs ------------------------
(***************************************************************************)
(* Proofs about JobExecution for any number of workers, jobs, keys,        *)
(* hashes and attempts.                                                    *)
(*                                                                         *)
(* The argument has two layers.  LeaseInv says what a worker still knows   *)
(* of the row it claimed: attempt numbers only grow, and whoever is the    *)
(* lease owner runs the latest one.  ResultInv says what it knows of the   *)
(* tables it writes without holding the lease: past putCanonicalRecord the *)
(* stored hash is its own, because a stored hash never changes.            *)
(***************************************************************************)
EXTENDS JobExecution, TLAPS

LeaseInv ==
    /\ \A w \in Workers : Working(w) =>
         /\ jobs[executor[w].job].state # "absent"
         /\ executor[w].attempt <= jobs[executor[w].job].attempt
         /\ HeldBy(jobs[executor[w].job], w) =>
              executor[w].attempt = jobs[executor[w].job].attempt
    /\ AttemptRunsOnce

Stored(w) == executor[w].pc \in {"recorded", "pointed", "queued"}

ResultInv ==
    /\ \A w \in Workers : Stored(w) => records[executor[w].job] = executor[w].hash
    /\ \A w \in Workers :
         executor[w].pc \in {"handled", "recorded", "pointed", "queued"} /\ executor[w].current
         => KeyOf[executor[w].job] \in Keys
    /\ CompleteMatchesRecord
    /\ IntentProjectsRecord
    /\ PointerTargetsRecord

-----------------------------------------------------------------------------
(* Types. *)

\* What the program counter tells about a worker's state.
LEMMA ExecutorByPc ==
    ASSUME TypeOK, NEW w \in Workers
    PROVE  /\ executor[w].pc = "idle" => executor[w] = IdleExecutor
           /\ executor[w].pc = "claimed" => executor[w] \in Claimed
           /\ executor[w].pc \notin {"idle", "claimed"} => executor[w] \in Persisting
           /\ Working(w) => /\ executor[w].job \in Jobs
                            /\ executor[w].attempt \in 1 .. MaximumAttempts
BY DEF TypeOK, ExecutorState, IdleExecutor, Claimed, Persisting, Working

\* A new row, and the row of a claim.
LEMMA RowInserted ==
    /\ InsertedRow \in Row(JobStates, MaximumAttempts)
    /\ InsertedRow.leaseOwner = NoWorker /\ InsertedRow.state = "available"
BY MaximumAttemptsAssumption DEF InsertedRow, Row, JobStates

LEMMA RowClaimed ==
    ASSUME NEW row \in Row(JobStates, MaximumAttempts), NEW w \in Workers
    PROVE  /\ ClaimedRow(row, w).attempt = row.attempt + 1
           /\ ClaimedRow(row, w).leaseOwner = w /\ ClaimedRow(row, w).state = "leased"
           /\ Claimable(row, MaximumAttempts) =>
                /\ ClaimedRow(row, w) \in Row(JobStates, MaximumAttempts)
                /\ row.attempt + 1 \in 1 .. MaximumAttempts
<1>1. Claimable(row, MaximumAttempts) => row.attempt < MaximumAttempts
  BY DEF Claimable
<1>2. row.attempt \in Nat /\ (row.attempt < MaximumAttempts =>
                              row.attempt + 1 \in 0 .. MaximumAttempts
                              /\ row.attempt + 1 \in 1 .. MaximumAttempts)
  BY MaximumAttemptsAssumption DEF Row
<1>3. /\ ClaimedRow(row, w).attempt = row.attempt + 1
      /\ ClaimedRow(row, w).leaseOwner = w /\ ClaimedRow(row, w).state = "leased"
      /\ row.attempt + 1 \in 0 .. MaximumAttempts =>
           ClaimedRow(row, w) \in Row(JobStates, MaximumAttempts)
  BY DEF ClaimedRow, Row, JobStates
<1> QED
  BY <1>1, <1>2, <1>3

\* A row given back: no owner, the attempt count as it was.
LEMMA RowSettled ==
    ASSUME NEW row \in Row(JobStates, MaximumAttempts), NEW state \in JobSettled \cup {"available"}
    PROVE  /\ SettledRow(row, state) \in Row(JobStates, MaximumAttempts)
           /\ SettledRow(row, state).leaseOwner = NoWorker
           /\ SettledRow(row, state).state = state
           /\ SettledRow(row, state).attempt = row.attempt
BY DEF SettledRow, Row, JobStates, JobSettled

LEMMA RowFailed ==
    ASSUME NEW row \in Row(JobStates, MaximumAttempts), NEW retryable \in BOOLEAN
    PROVE  /\ FailedRow(row, retryable, MaximumAttempts) \in Row(JobStates, MaximumAttempts)
           /\ FailedRow(row, retryable, MaximumAttempts).leaseOwner = NoWorker
           /\ FailedRow(row, retryable, MaximumAttempts).state \in {"available", "failed"}
           /\ FailedRow(row, retryable, MaximumAttempts).attempt = row.attempt
BY DEF FailedRow, SettledRow, Row, JobStates

\* The clock turns one bit of a row on and leaves the rest.
SameButClock(row, aged) ==
    /\ aged \in Row(JobStates, MaximumAttempts)
    /\ aged.state = row.state /\ aged.leaseOwner = row.leaseOwner
    /\ aged.attempt = row.attempt

LEMMA RowAged ==
    ASSUME TypeOK, NEW j \in Jobs, JobLeaseExpires(j) \/ JobRetryDue(j)
    PROVE  /\ jobs' = [jobs EXCEPT ![j] = jobs'[j]]
           /\ SameButClock(jobs[j], jobs'[j])
           /\ UNCHANGED <<results, executor, readDisabled>>
<1>1. CASE JobLeaseExpires(j)
  <2>1. jobs' = [jobs EXCEPT ![j] = [jobs[j] EXCEPT !.leaseExpired = TRUE]]
    BY <1>1 DEF JobLeaseExpires, TypeOK
  <2>2. SameButClock(jobs[j], [jobs[j] EXCEPT !.leaseExpired = TRUE])
    <3>1. jobs[j] \in Row(JobStates, MaximumAttempts)
      BY DEF TypeOK
    <3> QED
      BY <3>1 DEF Row, SameButClock
  <2> QED
    BY <1>1, <2>1, <2>2 DEF TypeOK, JobLeaseExpires
<1>2. CASE JobRetryDue(j)
  <2>1. jobs' = [jobs EXCEPT ![j] = [jobs[j] EXCEPT !.due = TRUE]]
    BY <1>2 DEF JobRetryDue, TypeOK
  <2>2. SameButClock(jobs[j], [jobs[j] EXCEPT !.due = TRUE])
    <3>1. jobs[j] \in Row(JobStates, MaximumAttempts)
      BY DEF TypeOK
    <3> QED
      BY <3>1 DEF Row, SameButClock
  <2> QED
    BY <1>2, <2>1, <2>2 DEF TypeOK, JobRetryDue
<1> QED
  BY <1>1, <1>2

LEMMA TypeInit == Init => TypeOK
<1>1. AbsentRow \in Row(JobStates, MaximumAttempts) /\ AbsentRow.leaseOwner = NoWorker
      /\ AbsentRow.state = "absent"
  BY MaximumAttemptsAssumption DEF AbsentRow, Row, JobStates
<1> QED
  BY <1>1 DEF Init, TypeOK, ExecutorState

\* Every step keeps the types: the only arithmetic is the attempt count, which
\* the claim's WHERE clause keeps below the maximum.
LEMMA TypeStep ==
    ASSUME TypeOK, [Next]_vars
    PROVE  TypeOK'
<1> USE WorkersAssumption
<1>1. ASSUME NEW j \in Jobs, EnqueueJob(j)
      PROVE  TypeOK'
  BY <1>1, RowInserted DEF EnqueueJob, results, TypeOK
<1>2. ASSUME NEW j \in Jobs, SupersedeJobs(j)
      PROVE  TypeOK'
  <2>1. \A i \in Jobs : /\ SettledRow(jobs[i], "superseded") \in Row(JobStates, MaximumAttempts)
                        /\ SettledRow(jobs[i], "superseded").leaseOwner = NoWorker
                        /\ SettledRow(jobs[i], "superseded").state = "superseded"
    BY RowSettled DEF TypeOK, JobSettled
  <2> QED
    BY <1>2, <2>1 DEF SupersedeJobs, results, TypeOK
<1>3. ASSUME NEW j \in Jobs, JobLeaseExpires(j) \/ JobRetryDue(j)
      PROVE  TypeOK'
  <2>1. /\ jobs' = [jobs EXCEPT ![j] = jobs'[j]]
        /\ SameButClock(jobs[j], jobs'[j])
        /\ UNCHANGED <<results, executor, readDisabled>>
    BY <1>3, RowAged
  <2> QED
    BY <2>1 DEF SameButClock, results, TypeOK
<1>4. CASE SetReadDisabled
  BY <1>4 DEF SetReadDisabled, results, TypeOK
<1>5. ASSUME NEW w \in Workers, NEW j \in Jobs, ClaimJob(w, j)
      PROVE  TypeOK'
  <2>1. /\ ClaimedRow(jobs[j], w) \in Row(JobStates, MaximumAttempts)
        /\ ClaimedRow(jobs[j], w).leaseOwner = w /\ ClaimedRow(jobs[j], w).state = "leased"
        /\ jobs[j].attempt + 1 \in 1 .. MaximumAttempts
    BY <1>5, RowClaimed DEF ClaimJob, TypeOK
  <2>2. executor'[w] \in Claimed /\ executor' \in [Workers -> ExecutorState]
    BY <1>5, <2>1 DEF ClaimJob, TypeOK, ExecutorState, Claimed
  <2> QED
    BY <1>5, <2>1, <2>2 DEF ClaimJob, results, TypeOK
<1>6. ASSUME NEW w \in Workers, NEW hash \in Hashes, NEW current \in BOOLEAN,
             NEW deliver \in BOOLEAN, HandleJob(w, hash, current, deliver)
      PROVE  TypeOK'
  <2>1. executor[w] \in Claimed
    BY <1>6, ExecutorByPc DEF HandleJob
  <2>2. executor' \in [Workers -> ExecutorState]
    BY <1>6, <2>1 DEF HandleJob, TypeOK, ExecutorState, Claimed, Persisting
  <2> QED
    BY <1>6, <2>2 DEF HandleJob, results, TypeOK
<1>7. ASSUME NEW w \in Workers, PutRecord(w) \/ PutPointer(w) \/ EnqueueDelivery(w)
      PROVE  TypeOK'
  <2>1. executor[w] \in Persisting
    BY <1>7, ExecutorByPc DEF PutRecord, PutPointer, EnqueueDelivery
  <2>2. executor' \in [Workers -> ExecutorState]
    BY <1>7, <2>1 DEF PutRecord, PutPointer, EnqueueDelivery, TypeOK, ExecutorState, Persisting
  <2> QED
    BY <1>7, <2>1, <2>2 DEF PutRecord, PutPointer, EnqueueDelivery, TypeOK, Persisting
<1>8. ASSUME NEW w \in Workers, CompleteJob(w)
      PROVE  TypeOK'
  <2>1. executor[w] \in Persisting
    BY <1>8, ExecutorByPc DEF CompleteJob
  <2>2. executor' \in [Workers -> ExecutorState]
    BY <1>8 DEF CompleteJob, TypeOK, ExecutorState
  <2>3. executor[w].job \in Jobs /\ executor[w].hash \in Hashes
    BY <2>1 DEF Persisting
  <2>4. LET row == SettledRow(jobs[executor[w].job], "complete")
        IN  row \in Row(JobStates, MaximumAttempts) /\ row.leaseOwner = NoWorker
            /\ row.state = "complete"
    BY <2>3, RowSettled DEF TypeOK, JobSettled
  <2> QED
    BY <1>8, <2>2, <2>3, <2>4 DEF CompleteJob, TypeOK
<1>9. ASSUME NEW w \in Workers, NEW retryable \in BOOLEAN, FailJob(w, retryable)
      PROVE  TypeOK'
  <2>1. executor[w].job \in Jobs
    BY <1>9, ExecutorByPc DEF FailJob, Working
  <2>2. executor' \in [Workers -> ExecutorState]
    BY <1>9 DEF FailJob, TypeOK, ExecutorState
  <2>3. LET row == FailedRow(jobs[executor[w].job], retryable, MaximumAttempts)
        IN  row \in Row(JobStates, MaximumAttempts) /\ row.leaseOwner = NoWorker
            /\ row.state \in {"available", "failed"}
    BY <2>1, RowFailed DEF TypeOK
  <2> QED
    BY <1>9, <2>1, <2>2, <2>3 DEF FailJob, results, TypeOK
<1>10. ASSUME NEW w \in Workers, CrashExecutor(w)
       PROVE  TypeOK'
  BY <1>10 DEF CrashExecutor, results, TypeOK, ExecutorState
<1>11. CASE UNCHANGED vars
  BY <1>11 DEF vars, TypeOK
<1> QED
  BY <1>1, <1>2, <1>3, <1>4, <1>5, <1>6, <1>7, <1>8, <1>9, <1>10, <1>11
  DEF Next, QueueStep, WorkerStep, ReportStep

\* Type correctness of processNextJob's state, leases included: a row has an
\* owner exactly while it is leased, and no job is claimed more often than its
\* maximum_attempts.
THEOREM TypeCorrect == Spec => []TypeOK
<1>1. TypeOK /\ [Next]_vars => TypeOK'
  BY TypeStep
<1> QED
  BY TypeInit, <1>1, PTL DEF Spec

-----------------------------------------------------------------------------
(* Leases. *)

\* What a step may do to a row: attempts never decrease, and a worker becomes
\* the holder of a lease only by claiming it.
LEMMA RowStep ==
    ASSUME TypeOK, [Next]_vars, NEW j \in Jobs
    PROVE  /\ jobs[j].attempt \in Nat /\ jobs'[j].attempt \in Nat
           /\ jobs[j].state # "absent" =>
                jobs'[j].state # "absent" /\ jobs[j].attempt <= jobs'[j].attempt
           /\ \A w \in Workers : HeldBy(jobs'[j], w) /\ ~ClaimJob(w, j) =>
                HeldBy(jobs[j], w) /\ jobs'[j].attempt = jobs[j].attempt
<1> DEFINE Kept ==
        /\ jobs[j].state # "absent" =>
             jobs'[j].state # "absent" /\ jobs[j].attempt <= jobs'[j].attempt
        /\ \A w \in Workers : HeldBy(jobs'[j], w) /\ ~ClaimJob(w, j) =>
             HeldBy(jobs[j], w) /\ jobs'[j].attempt = jobs[j].attempt
<1>1. jobs[j] \in Row(JobStates, MaximumAttempts) /\ jobs[j].attempt \in Nat
  BY MaximumAttemptsAssumption DEF TypeOK, Row
<1>2. jobs'[j].attempt \in Nat
  BY TypeStep, MaximumAttemptsAssumption DEF TypeOK, Row
<1>3. ASSUME jobs'[j] = jobs[j]
      PROVE  Kept
  BY <1>1, <1>3
<1>4. ASSUME jobs'[j].leaseOwner = NoWorker, jobs'[j].state # "absent",
             jobs'[j].attempt = jobs[j].attempt
      PROVE  Kept
  BY <1>1, <1>4, WorkersAssumption DEF HeldBy
<1>5. ASSUME NEW i \in Jobs, EnqueueJob(i)
      PROVE  Kept
  <2>1. CASE i = j
    BY <1>5, <2>1, RowInserted, WorkersAssumption DEF EnqueueJob, TypeOK, HeldBy
  <2>2. CASE i # j
    BY <1>3, <1>5, <2>2 DEF EnqueueJob, TypeOK
  <2> QED
    BY <2>1, <2>2
<1>6. ASSUME NEW i \in Jobs, SupersedeJobs(i)
      PROVE  Kept
  <2>1. jobs'[j] \in {jobs[j], SettledRow(jobs[j], "superseded")}
    BY <1>6 DEF SupersedeJobs
  <2> QED
    BY <1>1, <1>3, <1>4, <2>1, RowSettled DEF JobSettled
<1>7. ASSUME NEW i \in Jobs, JobLeaseExpires(i) \/ JobRetryDue(i)
      PROVE  Kept
  <2>1. jobs' = [jobs EXCEPT ![i] = jobs'[i]] /\ SameButClock(jobs[i], jobs'[i])
    BY <1>7, RowAged
  <2>2. CASE i = j
    BY <1>1, <2>1, <2>2 DEF SameButClock, HeldBy
  <2>3. CASE i # j
    BY <1>3, <2>1, <2>3 DEF TypeOK
  <2> QED
    BY <2>2, <2>3
<1>8. ASSUME NEW w \in Workers, NEW i \in Jobs, ClaimJob(w, i)
      PROVE  Kept
  <2>1. CASE i = j
    <3>1. jobs'[j] = ClaimedRow(jobs[j], w)
      BY <1>8, <2>1 DEF ClaimJob, TypeOK
    <3> QED
      BY <1>1, <1>8, <2>1, <3>1, RowClaimed DEF HeldBy
  <2>2. CASE i # j
    BY <1>3, <1>8, <2>2 DEF ClaimJob, TypeOK
  <2> QED
    BY <2>1, <2>2
<1>9. ASSUME NEW w \in Workers, CompleteJob(w)
      PROVE  Kept
  <2>1. jobs'[j] \in {jobs[j], SettledRow(jobs[j], "complete")}
    BY <1>9, ExecutorByPc DEF CompleteJob, TypeOK, Working
  <2> QED
    BY <1>1, <1>3, <1>4, <2>1, RowSettled DEF JobSettled
<1>10. ASSUME NEW w \in Workers, NEW retryable \in BOOLEAN, FailJob(w, retryable)
       PROVE  Kept
  <2>1. jobs'[j] \in {jobs[j], FailedRow(jobs[j], retryable, MaximumAttempts)}
    BY <1>10, ExecutorByPc DEF FailJob, TypeOK, Working
  <2> QED
    BY <1>1, <1>3, <1>4, <2>1, RowFailed
<1>11. ASSUME UNCHANGED jobs
       PROVE  Kept
  <2>1. jobs'[j] = jobs[j]
    BY <1>11
  <2> QED
    BY <1>3, <2>1
<1>12. SetReadDisabled \/ UNCHANGED vars => UNCHANGED jobs
  BY DEF SetReadDisabled, vars
<1>13. ASSUME NEW w \in Workers,
              PutRecord(w) \/ PutPointer(w) \/ EnqueueDelivery(w) \/ CrashExecutor(w)
       PROVE  UNCHANGED jobs
  BY <1>13 DEF PutRecord, PutPointer, EnqueueDelivery, CrashExecutor
<1>14. ASSUME NEW w \in Workers, NEW hash \in Hashes, NEW current \in BOOLEAN,
              NEW deliver \in BOOLEAN, HandleJob(w, hash, current, deliver)
       PROVE  UNCHANGED jobs
  BY <1>14 DEF HandleJob
<1> HIDE DEF Kept
<1>15. Kept
  BY <1>5, <1>6, <1>7, <1>8, <1>9, <1>10, <1>11, <1>12, <1>13, <1>14
  DEF Next, QueueStep, WorkerStep, ReportStep
<1> QED
  BY <1>1, <1>2, <1>15 DEF Kept

\* A working worker either claimed in this step or goes on with the job and
\* the attempt that it had.
LEMMA ExecutorStep ==
    ASSUME TypeOK, [Next]_vars, NEW w \in Workers, Working(w)'
    PROVE  \/ \E j \in Jobs : ClaimJob(w, j)
           \/ /\ Working(w)
              /\ executor'[w].job = executor[w].job
              /\ executor'[w].attempt = executor[w].attempt
<1> DEFINE Kept ==
        /\ Working(w)
        /\ executor'[w].job = executor[w].job
        /\ executor'[w].attempt = executor[w].attempt
<1>1. ASSUME executor'[w] = executor[w]
      PROVE  Kept
  BY <1>1 DEF Working
<1>2. ASSUME NEW v \in Workers, NEW j \in Jobs, ClaimJob(v, j), v # w
      PROVE  Kept
  BY <1>1, <1>2 DEF ClaimJob, TypeOK
<1>3. ASSUME NEW v \in Workers, NEW hash \in Hashes, NEW current \in BOOLEAN,
             NEW deliver \in BOOLEAN, HandleJob(v, hash, current, deliver)
      PROVE  Kept
  BY <1>1, <1>3 DEF HandleJob, TypeOK, Working
<1>4. ASSUME NEW v \in Workers, PutRecord(v) \/ PutPointer(v) \/ EnqueueDelivery(v)
      PROVE  Kept
  <2>1. executor[v] \in Persisting
    BY <1>4, ExecutorByPc DEF PutRecord, PutPointer, EnqueueDelivery
  <2> QED
    BY <1>1, <1>4, <2>1
    DEF PutRecord, PutPointer, EnqueueDelivery, TypeOK, Working, Persisting
<1>5. ASSUME NEW v \in Workers, NEW retryable \in BOOLEAN,
             CompleteJob(v) \/ FailJob(v, retryable) \/ CrashExecutor(v)
      PROVE  Kept
  BY <1>1, <1>5 DEF CompleteJob, FailJob, CrashExecutor, TypeOK, Working, IdleExecutor
<1>6. ASSUME UNCHANGED executor
      PROVE  Kept
  <2>1. executor'[w] = executor[w]
    BY <1>6
  <2> QED
    BY <1>1, <2>1
<1>7. SetReadDisabled \/ UNCHANGED vars => UNCHANGED executor
  BY DEF SetReadDisabled, vars
<1>8. ASSUME NEW j \in Jobs,
             EnqueueJob(j) \/ SupersedeJobs(j) \/ JobLeaseExpires(j) \/ JobRetryDue(j)
      PROVE  UNCHANGED executor
  BY <1>8 DEF EnqueueJob, SupersedeJobs, JobLeaseExpires, JobRetryDue
<1> HIDE DEF Kept
<1>9. Kept \/ \E j \in Jobs : ClaimJob(w, j)
  BY <1>2, <1>3, <1>4, <1>5, <1>6, <1>7, <1>8 DEF Next, QueueStep, WorkerStep, ReportStep
<1> QED
  BY <1>9 DEF Kept

LEMMA LeaseInit == Init => LeaseInv
BY DEF Init, LeaseInv, AttemptRunsOnce, Working, IdleExecutor

\* A claim takes an attempt number that no worker has; every other step leaves
\* the numbers of the workers alone.
LEMMA LeaseStep ==
    ASSUME TypeOK, LeaseInv, [Next]_vars
    PROVE  LeaseInv'
<1>1. ASSUME NEW w \in Workers, NEW j \in Jobs, ClaimJob(w, j)
      PROVE  /\ executor'[w].job = j /\ executor'[w].attempt = jobs[j].attempt + 1
             /\ jobs'[j].attempt = jobs[j].attempt + 1
             /\ jobs'[j].state = "leased" /\ jobs'[j].leaseOwner = w
             /\ \A v \in Workers \ {w} : executor'[v] = executor[v]
  <2>1. jobs'[j] = ClaimedRow(jobs[j], w) /\ jobs[j] \in Row(JobStates, MaximumAttempts)
    BY <1>1 DEF ClaimJob, TypeOK
  <2> QED
    BY <1>1, <2>1, RowClaimed DEF ClaimJob, TypeOK
<1>2. ASSUME NEW w \in Workers, Working(w)'
      PROVE  /\ jobs'[executor'[w].job].state # "absent"
             /\ executor'[w].attempt <= jobs'[executor'[w].job].attempt
             /\ HeldBy(jobs'[executor'[w].job], w) =>
                  executor'[w].attempt = jobs'[executor'[w].job].attempt
  <2>1. CASE \E j \in Jobs : ClaimJob(w, j)
    <3>1. PICK j \in Jobs : ClaimJob(w, j)
      BY <2>1
    <3> QED
      BY <1>1, <3>1, RowStep
  <2>2. CASE ~ \E j \in Jobs : ClaimJob(w, j)
    <3>1. /\ Working(w)
          /\ executor'[w].job = executor[w].job
          /\ executor'[w].attempt = executor[w].attempt
      BY <1>2, <2>2, ExecutorStep
    <3>2. executor[w].job \in Jobs /\ executor[w].attempt \in Nat
      BY <3>1, ExecutorByPc
    <3> QED
      BY <2>2, <3>1, <3>2, RowStep DEF LeaseInv
  <2> QED
    BY <2>1, <2>2
<1>3. ASSUME NEW v \in Workers, NEW w \in Workers, v # w, Working(v)', Working(w)',
             executor'[v].job = executor'[w].job
      PROVE  executor'[v].attempt # executor'[w].attempt
  <2>1. ASSUME NEW x \in Workers, NEW y \in Workers, x # y, Working(y)',
               executor'[x].job = executor'[y].job,
               NEW j \in Jobs, ClaimJob(x, j)
        PROVE  executor'[x].attempt # executor'[y].attempt
    <3>1. /\ executor'[y] = executor[y] /\ Working(y)
          /\ executor'[x].attempt = jobs[j].attempt + 1 /\ executor[y].job = j
      BY <1>1, <2>1 DEF Working
    <3>2. executor[y].attempt <= jobs[j].attempt /\ executor[y].attempt \in Nat
      BY <3>1, ExecutorByPc DEF LeaseInv
    <3> QED
      BY <3>1, <3>2, RowStep
  <2>2. CASE \E j \in Jobs : ClaimJob(v, j) \/ ClaimJob(w, j)
    BY <1>3, <2>1, <2>2
  <2>3. CASE ~ \E j \in Jobs : ClaimJob(v, j) \/ ClaimJob(w, j)
    BY <1>3, <2>3, ExecutorStep DEF LeaseInv, AttemptRunsOnce
  <2> QED
    BY <2>2, <2>3
<1> QED
  BY <1>2, <1>3 DEF LeaseInv, AttemptRunsOnce, Working

\* Each attempt of a job runs at most once, however leases are overrun,
\* reclaimed, superseded or lost.
THEOREM AttemptsRunOnce == Spec => []AttemptRunsOnce
<1>1. TypeOK /\ LeaseInv /\ [Next]_vars => (TypeOK /\ LeaseInv)'
  BY TypeStep, LeaseStep
<1>2. LeaseInv => AttemptRunsOnce
  BY DEF LeaseInv
<1> QED
  BY TypeInit, LeaseInit, <1>1, <1>2, PTL DEF Spec

\* One step of it.
LEMMA VerdictStep ==
    ASSUME TypeOK, LeaseInv, [Next]_vars, NEW j \in Jobs,
           jobs[j].state = "leased", jobs'[j].state \notin {"leased", "superseded"}
    PROVE  \E w \in Workers :
              /\ Working(w) /\ executor'[w].pc = "idle"
              /\ executor[w].job = j
              /\ executor[w].attempt = jobs[j].attempt
<1>1. ASSUME NEW w \in Workers, executor[w].job = j, Working(w), HeldBy(jobs[j], w),
             executor'[w] = IdleExecutor
      PROVE  \E v \in Workers :
                /\ Working(v) /\ executor'[v].pc = "idle"
                /\ executor[v].job = j
                /\ executor[v].attempt = jobs[j].attempt
  BY <1>1 DEF LeaseInv, IdleExecutor
<1>2. ASSUME NEW w \in Workers, CompleteJob(w)
      PROVE  executor[w].job = j /\ Working(w) /\ HeldBy(jobs[j], w)
             /\ executor'[w] = IdleExecutor
  BY <1>2 DEF CompleteJob, TypeOK, Working
<1>3. ASSUME NEW w \in Workers, NEW retryable \in BOOLEAN, FailJob(w, retryable)
      PROVE  executor[w].job = j /\ Working(w) /\ HeldBy(jobs[j], w)
             /\ executor'[w] = IdleExecutor
  BY <1>3 DEF FailJob, TypeOK, Working
<1>4. ASSUME NEW i \in Jobs, EnqueueJob(i)
      PROVE  FALSE
  BY <1>4 DEF EnqueueJob, TypeOK
<1>5. ASSUME NEW i \in Jobs, SupersedeJobs(i)
      PROVE  FALSE
  <2>1. jobs[j] \in Row(JobStates, MaximumAttempts)
    BY DEF TypeOK
  <2>2. SettledRow(jobs[j], "superseded").state = "superseded"
    BY <2>1, RowSettled DEF JobSettled
  <2>3. jobs'[j] = jobs[j] \/ jobs'[j] = SettledRow(jobs[j], "superseded")
    BY <1>5 DEF SupersedeJobs
  <2> QED
    BY <2>2, <2>3
<1>6. ASSUME NEW i \in Jobs, JobLeaseExpires(i) \/ JobRetryDue(i)
      PROVE  FALSE
  BY <1>6, RowAged DEF SameButClock, TypeOK
<1>7. ASSUME NEW w \in Workers, NEW i \in Jobs, ClaimJob(w, i)
      PROVE  FALSE
  BY <1>7, RowClaimed DEF ClaimJob, TypeOK
<1>8. ASSUME UNCHANGED jobs
      PROVE  FALSE
  BY <1>8
<1>9. ASSUME NEW w \in Workers,
             PutRecord(w) \/ PutPointer(w) \/ EnqueueDelivery(w) \/ CrashExecutor(w)
      PROVE  UNCHANGED jobs
  BY <1>9 DEF PutRecord, PutPointer, EnqueueDelivery, CrashExecutor
<1>10. ASSUME NEW w \in Workers, NEW hash \in Hashes, NEW current \in BOOLEAN,
              NEW deliver \in BOOLEAN, HandleJob(w, hash, current, deliver)
       PROVE  UNCHANGED jobs
  BY <1>10 DEF HandleJob
<1>11. SetReadDisabled \/ UNCHANGED vars => UNCHANGED jobs
  BY DEF SetReadDisabled, vars
<1> QED
  BY <1>1, <1>2, <1>3, <1>4, <1>5, <1>6, <1>7, <1>8, <1>9, <1>10, <1>11
  DEF Next, QueueStep, WorkerStep, ReportStep

\* A job leaves its lease by supersession or by the verdict of the worker that
\* runs its latest attempt: comparing the lease owner in completeJob and
\* failJob is fencing enough.
THEOREM LatestAttemptDecides == Spec => VerdictOfLatestAttempt
<1>1. TypeOK /\ LeaseInv /\ [Next]_vars =>
        /\ (TypeOK /\ LeaseInv)'
        /\ [\A j \in Jobs :
              jobs[j].state = "leased" /\ jobs'[j].state \notin {"leased", "superseded"} =>
                \E w \in Workers :
                    /\ Working(w) /\ executor'[w].pc = "idle"
                    /\ executor[w].job = j
                    /\ executor[w].attempt = jobs[j].attempt]_vars
  BY TypeStep, LeaseStep, VerdictStep
<1> QED
  BY TypeInit, LeaseInit, <1>1, PTL DEF Spec, VerdictOfLatestAttempt

\* A settled row matches the WHERE clause of no statement.
LEMMA SettledStep ==
    ASSUME TypeOK, [Next]_vars, NEW j \in Jobs, jobs[j].state \in JobSettled
    PROVE  jobs'[j] = jobs[j] /\ resultHash'[j] = resultHash[j]
<1> USE DEF JobSettled
<1>1. ASSUME NEW i \in Jobs, EnqueueJob(i) \/ SupersedeJobs(i)
      PROVE  jobs'[j] = jobs[j] /\ resultHash'[j] = resultHash[j]
  BY <1>1 DEF EnqueueJob, SupersedeJobs, results, TypeOK
<1>2. ASSUME NEW i \in Jobs, JobLeaseExpires(i) \/ JobRetryDue(i)
      PROVE  jobs'[j] = jobs[j] /\ resultHash'[j] = resultHash[j]
  BY <1>2 DEF JobLeaseExpires, JobRetryDue, results, TypeOK
<1>3. ASSUME NEW w \in Workers, NEW i \in Jobs, ClaimJob(w, i)
      PROVE  jobs'[j] = jobs[j] /\ resultHash'[j] = resultHash[j]
  BY <1>3 DEF ClaimJob, Claimable, results, TypeOK
<1>4. ASSUME NEW w \in Workers, CompleteJob(w)
      PROVE  jobs'[j] = jobs[j] /\ resultHash'[j] = resultHash[j]
  BY <1>4 DEF CompleteJob, HeldBy, TypeOK
<1>5. ASSUME NEW w \in Workers, NEW retryable \in BOOLEAN, FailJob(w, retryable)
      PROVE  jobs'[j] = jobs[j] /\ resultHash'[j] = resultHash[j]
  BY <1>5 DEF FailJob, HeldBy, results, TypeOK
<1>6. ASSUME UNCHANGED <<jobs, resultHash>>
      PROVE  jobs'[j] = jobs[j] /\ resultHash'[j] = resultHash[j]
  BY <1>6
<1>7. ASSUME NEW w \in Workers,
             PutRecord(w) \/ PutPointer(w) \/ EnqueueDelivery(w) \/ CrashExecutor(w)
      PROVE  UNCHANGED <<jobs, resultHash>>
  BY <1>7 DEF PutRecord, PutPointer, EnqueueDelivery, CrashExecutor, results
<1>8. ASSUME NEW w \in Workers, NEW hash \in Hashes, NEW current \in BOOLEAN,
             NEW deliver \in BOOLEAN, HandleJob(w, hash, current, deliver)
      PROVE  UNCHANGED <<jobs, resultHash>>
  BY <1>8 DEF HandleJob, results
<1>9. SetReadDisabled \/ UNCHANGED vars => UNCHANGED <<jobs, resultHash>>
  BY DEF SetReadDisabled, results, vars
<1> QED
  BY <1>1, <1>2, <1>3, <1>4, <1>5, <1>6, <1>7, <1>8, <1>9
  DEF Next, QueueStep, WorkerStep, ReportStep

\* Complete, failed and superseded are final: no late acknowledgement, retry,
\* reclaim or supersession changes a settled job or its result hash.
THEOREM SettledJobsAreFinal == Spec => SettledIsFinal
<1>1. TypeOK /\ [Next]_vars =>
        /\ TypeOK'
        /\ [\A j \in Jobs :
              jobs[j].state \in JobSettled =>
                  jobs'[j] = jobs[j] /\ resultHash'[j] = resultHash[j]]_vars
  BY TypeStep, SettledStep
<1> QED
  BY TypeInit, <1>1, PTL DEF Spec, SettledIsFinal

-----------------------------------------------------------------------------
(* Results. *)

LEMMA ResultInit == Init => ResultInv
BY JobsAssumption DEF Init, ResultInv, Stored, IdleExecutor, CompleteMatchesRecord,
   IntentProjectsRecord, PointerTargetsRecord, AbsentRow

\* Steps that only move rows of the queue: the tables keep their results, and
\* a job completes in none of them.
LEMMA ResultKeptByQueue ==
    ASSUME TypeOK, ResultInv, UNCHANGED <<results, executor>>,
           \A j \in Jobs : jobs'[j].state = "complete" => jobs[j].state = "complete"
    PROVE  ResultInv'
BY DEF ResultInv, results, Stored, CompleteMatchesRecord, IntentProjectsRecord,
       PointerTargetsRecord

\* Steps in which a worker stops or starts: it has nothing stored.
LEMMA ResultKeptByRestart ==
    ASSUME TypeOK, ResultInv, NEW w \in Workers,
           executor'[w].pc \in {"idle", "claimed"},
           \A v \in Workers \ {w} : executor'[v] = executor[v],
           UNCHANGED results,
           \A j \in Jobs : jobs'[j].state = "complete" => jobs[j].state = "complete"
    PROVE  ResultInv'
BY DEF TypeOK, ResultInv, results, Stored, CompleteMatchesRecord, IntentProjectsRecord,
       PointerTargetsRecord

\* putCanonicalRecord never changes a stored hash.
LEMMA RecordStep ==
    ASSUME TypeOK, ResultInv, NEW w \in Workers, PutRecord(w)
    PROVE  ResultInv'
<1> DEFINE j == executor[w].job
<1>1. executor[w] \in Persisting /\ j \in Jobs /\ executor[w].hash \in Hashes
  BY ExecutorByPc DEF PutRecord, Persisting
<1>2. /\ records' = [records EXCEPT ![j] = executor[w].hash]
      /\ records[j] \in {NoHash, executor[w].hash}
      /\ executor' = [executor EXCEPT ![w].pc = "recorded"]
      /\ UNCHANGED <<jobs, resultHash, pointers, intents>>
  BY DEF PutRecord
<1>3. \A i \in Jobs : records[i] # NoHash => records'[i] = records[i]
  BY <1>1, <1>2 DEF TypeOK
<1>4. \A i \in Jobs : records'[i] # NoHash \/ records'[i] = records[i]
  BY <1>1, <1>2, HashesAssumption DEF TypeOK
<1>5. /\ executor'[w].pc = "recorded" /\ executor'[w].job = j
      /\ executor'[w].hash = executor[w].hash /\ executor'[w].current = executor[w].current
      /\ \A v \in Workers \ {w} : executor'[v] = executor[v]
      /\ executor[w].pc = "handled"
  BY <1>1, <1>2 DEF Persisting, TypeOK, PutRecord
<1>6. \A v \in Workers : Stored(v)' => records'[executor'[v].job] = executor'[v].hash
  <2> SUFFICES ASSUME NEW v \in Workers, Stored(v)'
               PROVE  records'[executor'[v].job] = executor'[v].hash
    OBVIOUS
  <2>1. CASE v = w
    BY <1>1, <1>2, <1>5, <2>1 DEF TypeOK
  <2>2. CASE v # w
    <3>1. Stored(v) /\ executor'[v] = executor[v]
      BY <1>5, <2>2 DEF Stored
    <3>2. executor[v] \in Persisting
      BY <3>1, ExecutorByPc DEF Stored
    <3>3. executor[v].job \in Jobs /\ executor[v].hash \in Hashes
      BY <3>2 DEF Persisting
    <3>4. records[executor[v].job] = executor[v].hash
      BY <3>1 DEF ResultInv
    <3> QED
      BY <1>3, <3>1, <3>3, <3>4, HashesAssumption
  <2> QED
    BY <2>1, <2>2
<1>7. \A v \in Workers :
        executor'[v].pc \in {"handled", "recorded", "pointed", "queued"} /\ executor'[v].current
        => KeyOf[executor'[v].job] \in Keys
  BY <1>1, <1>5 DEF ResultInv
<1>8. CompleteMatchesRecord' /\ IntentProjectsRecord'
  BY <1>2, <1>3 DEF ResultInv, CompleteMatchesRecord, IntentProjectsRecord
<1>9. PointerTargetsRecord'
  BY <1>2, <1>4, JobsAssumption DEF ResultInv, PointerTargetsRecord, TypeOK
<1> QED
  BY <1>6, <1>7, <1>8, <1>9 DEF ResultInv, Stored

\* A worker that goes on persisting: same result, next counter.
LEMMA PersistStep ==
    ASSUME TypeOK, NEW w \in Workers, NEW pc, executor[w] \in Persisting,
           executor' = [executor EXCEPT ![w].pc = pc]
    PROVE  /\ executor'[w].pc = pc /\ executor'[w].job = executor[w].job
           /\ executor'[w].hash = executor[w].hash
           /\ executor'[w].current = executor[w].current
           /\ \A v \in Workers \ {w} : executor'[v] = executor[v]
BY DEF TypeOK, Persisting

\* putCanonicalPointer names the record that the worker has stored before.
LEMMA PointerStep ==
    ASSUME TypeOK, ResultInv, NEW w \in Workers, PutPointer(w)
    PROVE  ResultInv'
<1> DEFINE j == executor[w].job
<1>1. executor[w] \in Persisting /\ j \in Jobs /\ executor[w].hash \in Hashes
      /\ executor[w].pc = "recorded"
  BY ExecutorByPc DEF PutPointer, Persisting
<1>2. /\ executor'[w].pc = "pointed" /\ executor'[w].job = j
      /\ executor'[w].hash = executor[w].hash /\ executor'[w].current = executor[w].current
      /\ \A v \in Workers \ {w} : executor'[v] = executor[v]
  BY <1>1, PersistStep DEF PutPointer
<1>3. /\ \A v \in Workers : Stored(v)' => records'[executor'[v].job] = executor'[v].hash
      /\ \A v \in Workers :
           executor'[v].pc \in {"handled", "recorded", "pointed", "queued"} /\ executor'[v].current
           => KeyOf[executor'[v].job] \in Keys
  BY <1>1, <1>2 DEF ResultInv, Stored, PutPointer
<1>4. CompleteMatchesRecord' /\ IntentProjectsRecord'
  BY DEF PutPointer, ResultInv, CompleteMatchesRecord, IntentProjectsRecord
<1>5. PointerTargetsRecord'
  <2>1. records[j] = executor[w].hash
    BY <1>1 DEF ResultInv, Stored
  <2>2. executor[w].current => KeyOf[j] \in Keys
    BY <1>1 DEF ResultInv
  <2> QED
    BY <1>1, <2>1, <2>2, HashesAssumption
    DEF PutPointer, ResultInv, PointerTargetsRecord, TypeOK
<1> QED
  BY <1>3, <1>4, <1>5 DEF ResultInv, Stored

\* enqueueDelivery projects the record that the worker has stored before.
LEMMA IntentStep ==
    ASSUME TypeOK, ResultInv, NEW w \in Workers, EnqueueDelivery(w)
    PROVE  ResultInv'
<1> DEFINE j == executor[w].job
<1>1. executor[w] \in Persisting /\ j \in Jobs /\ executor[w].pc = "pointed"
  BY ExecutorByPc DEF EnqueueDelivery, Persisting
<1>2. /\ executor'[w].pc = "queued" /\ executor'[w].job = j
      /\ executor'[w].hash = executor[w].hash /\ executor'[w].current = executor[w].current
      /\ \A v \in Workers \ {w} : executor'[v] = executor[v]
  BY <1>1, PersistStep DEF EnqueueDelivery
<1>3. /\ \A v \in Workers : Stored(v)' => records'[executor'[v].job] = executor'[v].hash
      /\ \A v \in Workers :
           executor'[v].pc \in {"handled", "recorded", "pointed", "queued"} /\ executor'[v].current
           => KeyOf[executor'[v].job] \in Keys
  BY <1>1, <1>2 DEF ResultInv, Stored, EnqueueDelivery
<1>4. CompleteMatchesRecord' /\ PointerTargetsRecord'
  BY DEF EnqueueDelivery, ResultInv, CompleteMatchesRecord, PointerTargetsRecord
<1>5. IntentProjectsRecord'
  <2>1. records[j] = executor[w].hash
    BY <1>1 DEF ResultInv, Stored
  <2> QED
    BY <1>1, <2>1 DEF EnqueueDelivery, ResultInv, IntentProjectsRecord, TypeOK
<1> QED
  BY <1>3, <1>4, <1>5 DEF ResultInv, Stored

\* completeJob acknowledges the hash that the worker has stored before.
LEMMA CompleteStep ==
    ASSUME TypeOK, ResultInv, NEW w \in Workers, CompleteJob(w)
    PROVE  ResultInv'
<1> DEFINE j == executor[w].job
<1>1. executor[w] \in Persisting /\ j \in Jobs /\ executor[w].hash \in Hashes
      /\ executor[w].pc = "queued"
  BY ExecutorByPc DEF CompleteJob, Persisting
<1>2. executor'[w].pc = "idle" /\ \A v \in Workers \ {w} : executor'[v] = executor[v]
  BY DEF CompleteJob, TypeOK, IdleExecutor
<1>3. /\ \A v \in Workers : Stored(v)' => records'[executor'[v].job] = executor'[v].hash
      /\ \A v \in Workers :
           executor'[v].pc \in {"handled", "recorded", "pointed", "queued"} /\ executor'[v].current
           => KeyOf[executor'[v].job] \in Keys
  BY <1>1, <1>2 DEF ResultInv, Stored, CompleteJob
<1>4. IntentProjectsRecord' /\ PointerTargetsRecord'
  BY DEF CompleteJob, ResultInv, IntentProjectsRecord, PointerTargetsRecord
<1>5. CompleteMatchesRecord'
  <2>1. records[j] = executor[w].hash
    BY <1>1 DEF ResultInv, Stored
  <2>2. CASE HeldBy(jobs[j], w)
    BY <1>1, <2>1, <2>2, HashesAssumption
    DEF CompleteJob, ResultInv, CompleteMatchesRecord, TypeOK
  <2>3. CASE ~HeldBy(jobs[j], w)
    BY <2>3 DEF CompleteJob, ResultInv, CompleteMatchesRecord
  <2> QED
    BY <2>2, <2>3
<1> QED
  BY <1>3, <1>4, <1>5 DEF ResultInv, Stored

\* The handler returns with nothing stored yet.
LEMMA HandleStep ==
    ASSUME TypeOK, ResultInv, NEW w \in Workers, NEW hash \in Hashes,
           NEW current \in BOOLEAN, NEW deliver \in BOOLEAN, HandleJob(w, hash, current, deliver)
    PROVE  ResultInv'
<1> DEFINE j == executor[w].job
<1>1. j \in Jobs
  BY ExecutorByPc DEF HandleJob, Working
<1>2. /\ executor'[w].pc = "handled" /\ executor'[w].job = j /\ executor'[w].current = current
      /\ \A v \in Workers \ {w} : executor'[v] = executor[v]
      /\ UNCHANGED <<jobs, results>>
  BY DEF HandleJob, TypeOK
<1>3. current => KeyOf[j] \in Keys
  BY <1>1, KeysAssumption DEF HandleJob
<1> QED
  BY <1>2, <1>3 DEF ResultInv, Stored, results, CompleteMatchesRecord, IntentProjectsRecord,
                    PointerTargetsRecord

LEMMA ResultStep ==
    ASSUME TypeOK, ResultInv, [Next]_vars
    PROVE  ResultInv'
<1>1. ASSUME NEW j \in Jobs, EnqueueJob(j)
      PROVE  ResultInv'
  BY <1>1, ResultKeptByQueue, RowInserted DEF EnqueueJob, TypeOK
<1>2. ASSUME NEW j \in Jobs, SupersedeJobs(j)
      PROVE  ResultInv'
  <2>1. \A i \in Jobs : jobs'[i].state = "complete" => jobs[i].state = "complete"
    BY <1>2, RowSettled DEF SupersedeJobs, TypeOK, JobSettled
  <2> QED
    BY <1>2, <2>1, ResultKeptByQueue DEF SupersedeJobs
<1>3. ASSUME NEW j \in Jobs, JobLeaseExpires(j) \/ JobRetryDue(j)
      PROVE  ResultInv'
  <2>1. \A i \in Jobs : jobs'[i].state = "complete" => jobs[i].state = "complete"
    BY <1>3, RowAged DEF SameButClock, TypeOK
  <2> QED
    BY <1>3, <2>1, RowAged, ResultKeptByQueue
<1>4. ASSUME SetReadDisabled \/ UNCHANGED vars
      PROVE  ResultInv'
  BY <1>4, ResultKeptByQueue DEF SetReadDisabled, vars, results
<1>5. ASSUME NEW w \in Workers, NEW j \in Jobs, ClaimJob(w, j)
      PROVE  ResultInv'
  <2>1. \A i \in Jobs : jobs'[i].state = "complete" => jobs[i].state = "complete"
    BY <1>5, RowClaimed DEF ClaimJob, TypeOK
  <2>2. /\ executor'[w].pc = "claimed" /\ UNCHANGED results
        /\ \A v \in Workers \ {w} : executor'[v] = executor[v]
    BY <1>5 DEF ClaimJob, TypeOK
  <2> QED
    BY <2>1, <2>2, ResultKeptByRestart
<1>6. ASSUME NEW w \in Workers, NEW retryable \in BOOLEAN, FailJob(w, retryable)
      PROVE  ResultInv'
  <2>1. \A i \in Jobs : jobs'[i].state = "complete" => jobs[i].state = "complete"
    BY <1>6, RowFailed DEF FailJob, TypeOK
  <2>2. /\ executor'[w].pc = "idle" /\ UNCHANGED results
        /\ \A v \in Workers \ {w} : executor'[v] = executor[v]
    BY <1>6 DEF FailJob, TypeOK, IdleExecutor
  <2> QED
    BY <2>1, <2>2, ResultKeptByRestart
<1>7. ASSUME NEW w \in Workers, CrashExecutor(w)
      PROVE  ResultInv'
  <2>1. /\ executor'[w].pc = "idle" /\ UNCHANGED <<jobs, results>>
        /\ \A v \in Workers \ {w} : executor'[v] = executor[v]
    BY <1>7 DEF CrashExecutor, TypeOK, IdleExecutor
  <2> QED
    BY <2>1, ResultKeptByRestart
<1> QED
  BY <1>1, <1>2, <1>3, <1>4, <1>5, <1>6, <1>7,
     HandleStep, RecordStep, PointerStep, IntentStep, CompleteStep
  DEF Next, QueueStep, WorkerStep, ReportStep

\* What is stored for a job is one result: the hash a complete job reports,
\* the hash its delivery intent projects and the record a current pointer
\* names are the payload hash and the identity of that job's stored record,
\* although no transaction spans any two of the four tables.
THEOREM ResultsAgree == Spec => []ResultsMatchRecord
<1>1. TypeOK /\ ResultInv /\ [Next]_vars => (TypeOK /\ ResultInv)'
  BY TypeStep, ResultStep
<1>2. ResultInv => ResultsMatchRecord
  BY DEF ResultInv, ResultsMatchRecord
<1> QED
  BY TypeInit, ResultInit, <1>1, <1>2, PTL DEF Spec
=============================================================================
