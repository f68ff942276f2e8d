------------------------ MODULE HostedQueues_proofs ------------------------
(***************************************************************************)
(* Proofs about the inbox and the outbox of the hosted service, for any    *)
(* number of workers, deliveries, effects, annotations and attempts.       *)
(*                                                                         *)
(* Both arguments start from what a claim is worth: the lease owner that   *)
(* is still at work on a row runs its latest attempt, since only a claim   *)
(* makes an owner and a worker claims only when it is idle (WebhookLease,  *)
(* OutboxLease).  On top of that, ScheduledInv follows a delivery from the *)
(* insertion of its job to the supersession of the others, and WrittenInv  *)
(* follows a check from its first batch to its last.                       *)
(***************************************************************************)
EXTENDS HostedQueues, TLAPS

-----------------------------------------------------------------------------
(* The inbox: types. *)

AtWork == [pc       : {"claimed", "enqueued", "scheduled"},
           delivery : Deliveries,
           attempt  : 1 .. (MaximumWebhookAttempts + 1)]

Scheduling(w) == scheduler[w].pc # "idle"

LEMMA SchedulerByPc ==
    ASSUME TypeOK, NEW w \in Workers, Scheduling(w)
    PROVE  scheduler[w] \in AtWork
BY DEF TypeOK, SchedulerState, IdleScheduler, AtWork, Scheduling

\* Claims: the attempt that a claim writes is in range, beyond the maximum too.
LEMMA AttemptInRange ==
    ASSUME TypeOK, NEW d \in Deliveries
    PROVE  NextAttempt(d) \in 1 .. (MaximumWebhookAttempts + 1)
<1>1. inbox[d].attempt \in 0 .. (MaximumWebhookAttempts + 1)
  BY DEF TypeOK, InboxRow
<1> QED
  BY <1>1, AttemptsAssumption DEF NextAttempt

\* resolveWebhook changes one row, and only for the lease owner.
LEMMA ResolvedRow ==
    ASSUME TypeOK, NEW w \in Workers, NEW d \in Deliveries,
           NEW state \in {"processed", "pending", "failed"},
           inbox' = Resolved(w, d, state)
    PROVE  /\ inbox' \in [Deliveries -> InboxRow]
           /\ \A e \in Deliveries : inbox'[e] # inbox[e] =>
                /\ e = d /\ HoldsWebhook(w, d)
                /\ inbox'[e].state = state /\ inbox'[e].leaseOwner = NoWorker
<1>1. inbox[d] \in InboxRow
  BY DEF TypeOK
<1>2. CASE HoldsWebhook(w, d)
  <2> DEFINE row == [inbox[d] EXCEPT !.state = state, !.leaseOwner = NoWorker, !.leaseExpired = FALSE]
  <2>1. inbox' = [inbox EXCEPT ![d] = row]
    BY <1>2 DEF Resolved, TypeOK
  <2>2. row \in InboxRow /\ row.state = state /\ row.leaseOwner = NoWorker
    BY <1>1 DEF InboxRow
  <2> QED
    BY <1>2, <2>1, <2>2 DEF TypeOK
<1>3. CASE ~HoldsWebhook(w, d)
  BY <1>3 DEF Resolved, TypeOK
<1> QED
  BY <1>2, <1>3

LEMMA WebhookTypeInit == Init => TypeOK
<1>1. [state |-> "absent", attempt |-> 0, leaseOwner |-> NoWorker, leaseExpired |-> FALSE] \in InboxRow
  BY AttemptsAssumption DEF InboxRow
<1>2. AbsentRow \in Row(JobStates, 0)
  BY DEF AbsentRow, Row, JobStates
<1>3. Init => jobs \in JobRows(0) /\ scheduler \in [Workers -> SchedulerState]
  BY <1>2 DEF Init, JobRows, SchedulerState
<1>4. ASSUME Init
      PROVE  /\ inbox \in [Deliveries -> InboxRow]
             /\ \A d \in Deliveries : inbox[d].leaseOwner = NoWorker /\ inbox[d].state = "absent"
  BY <1>1, <1>4 DEF Init
<1> QED
  BY <1>3, <1>4 DEF Init, TypeOK

\* A step of a worker in the middle of processNextWebhook keeps its state in range.
LEMMA SchedulerMoves ==
    ASSUME TypeOK, NEW w \in Workers, Scheduling(w), NEW pc \in {"enqueued", "scheduled"},
           scheduler' = [scheduler EXCEPT ![w].pc = pc]
    PROVE  /\ scheduler' \in [Workers -> SchedulerState]
           /\ scheduler'[w].pc = pc
           /\ scheduler'[w].delivery = scheduler[w].delivery
           /\ scheduler'[w].attempt = scheduler[w].attempt
<1>1. scheduler[w] \in AtWork
  BY SchedulerByPc
<1>2. scheduler' = [scheduler EXCEPT ![w] = [scheduler[w] EXCEPT !.pc = pc]]
  BY DEF TypeOK
<1>3. [scheduler[w] EXCEPT !.pc = pc] \in AtWork
  BY <1>1 DEF AtWork
<1> QED
  BY <1>1, <1>2, <1>3 DEF TypeOK, SchedulerState, AtWork

LEMMA WebhookTypeStep ==
    ASSUME TypeOK, [Next]_vars
    PROVE  TypeOK'
<1> USE WorkersAssumption
<1>1. CASE SetReadDisabled
  BY <1>1 DEF SetReadDisabled, TypeOK
<1>2. ASSUME NEW d \in Deliveries, ReceiveWebhook(d)
      PROVE  TypeOK'
  <2>1. inbox' = [inbox EXCEPT ![d] = [inbox[d] EXCEPT !.state = "pending"]]
    BY <1>2 DEF ReceiveWebhook, TypeOK
  <2>2. inbox[d] \in InboxRow /\ inbox[d].leaseOwner = NoWorker
    BY <1>2 DEF ReceiveWebhook, TypeOK
  <2>3. LET row == [inbox[d] EXCEPT !.state = "pending"]
        IN  row \in InboxRow /\ row.leaseOwner = NoWorker /\ row.state = "pending"
    BY <2>2 DEF InboxRow
  <2> QED
    BY <1>2, <2>1, <2>3 DEF ReceiveWebhook, TypeOK
<1>3. ASSUME NEW d \in Deliveries, WebhookLeaseExpires(d)
      PROVE  TypeOK'
  <2>1. inbox' = [inbox EXCEPT ![d] = [inbox[d] EXCEPT !.leaseExpired = TRUE]]
    BY <1>3 DEF WebhookLeaseExpires, TypeOK
  <2>2. inbox[d] \in InboxRow
    BY DEF TypeOK
  <2>3. LET row == [inbox[d] EXCEPT !.leaseExpired = TRUE]
        IN  row \in InboxRow /\ row.leaseOwner = inbox[d].leaseOwner /\ row.state = inbox[d].state
    BY <2>2 DEF InboxRow
  <2> QED
    BY <1>3, <2>1, <2>3 DEF WebhookLeaseExpires, TypeOK
<1>4. ASSUME NEW w \in Workers, NEW d \in Deliveries, ClaimWebhook(w, d)
      PROVE  TypeOK'
  <2>1. NextAttempt(d) \in 1 .. (MaximumWebhookAttempts + 1)
        /\ NextAttempt(d) \in 0 .. (MaximumWebhookAttempts + 1)
    BY AttemptInRange, AttemptsAssumption
  <2>2. [state |-> "processing", attempt |-> NextAttempt(d), leaseOwner |-> w,
         leaseExpired |-> FALSE] \in InboxRow
    BY <2>1 DEF InboxRow
  <2>3. [pc |-> "claimed", delivery |-> d, attempt |-> NextAttempt(d)] \in SchedulerState
    BY <2>1 DEF SchedulerState
  <2> QED
    BY <1>4, <2>2, <2>3 DEF ClaimWebhook, TypeOK
<1>5. ASSUME NEW w \in Workers, EnqueueJob(w)
      PROVE  TypeOK'
  <2>1. scheduler[w].delivery \in Deliveries /\ Scheduling(w)
    BY <1>5, SchedulerByPc DEF EnqueueJob, AtWork, Scheduling
  <2>2. InsertedRow \in Row(JobStates, 0)
    BY DEF InsertedRow, Row, JobStates
  <2>3. jobs' \in JobRows(0)
    BY <1>5, <2>1, <2>2 DEF EnqueueJob, TypeOK, JobRows
  <2>4. scheduler' \in [Workers -> SchedulerState]
    BY <1>5, <2>1, SchedulerMoves DEF EnqueueJob
  <2> QED
    BY <1>5, <2>3, <2>4 DEF EnqueueJob, TypeOK
<1>6. ASSUME NEW w \in Workers, SupersedeJobs(w)
      PROVE  TypeOK'
  <2>1. scheduler' \in [Workers -> SchedulerState]
    BY <1>6, SchedulerMoves DEF SupersedeJobs, Scheduling
  <2>2. ASSUME NEW e \in Deliveries
        PROVE  SettledRow(jobs[e], "superseded") \in Row(JobStates, 0)
    <3>1. jobs[e] \in Row(JobStates, 0)
      BY DEF TypeOK, JobRows
    <3> QED
      BY <3>1 DEF SettledRow, Row, JobStates
  <2>3. jobs' \in JobRows(0)
    BY <1>6, <2>2 DEF SupersedeJobs, TypeOK, JobRows
  <2> QED
    BY <1>6, <2>1, <2>3 DEF SupersedeJobs, TypeOK
<1>7. ASSUME NEW w \in Workers, ResolveWebhook(w) \/ FailWebhook(w)
      PROVE  TypeOK'
  <2>1. scheduler[w].delivery \in Deliveries
    BY <1>7, SchedulerByPc DEF ResolveWebhook, FailWebhook, AtWork, Scheduling
  <2>2. \E state \in {"processed", "pending", "failed"} : inbox' = Resolved(w, scheduler[w].delivery, state)
    BY <1>7 DEF ResolveWebhook, FailWebhook
  <2>3. /\ inbox' \in [Deliveries -> InboxRow]
        /\ \A e \in Deliveries : inbox'[e] # inbox[e] =>
             inbox'[e].state \in {"processed", "pending", "failed"} /\ inbox'[e].leaseOwner = NoWorker
    BY <2>1, <2>2, ResolvedRow
  <2>4. scheduler' \in [Workers -> SchedulerState]
    BY <1>7 DEF ResolveWebhook, FailWebhook, TypeOK, SchedulerState
  <2> QED
    BY <1>7, <2>3, <2>4 DEF ResolveWebhook, FailWebhook, TypeOK
<1>8. ASSUME NEW w \in Workers, CrashScheduler(w)
      PROVE  TypeOK'
  BY <1>8 DEF CrashScheduler, TypeOK, SchedulerState
<1>9. CASE UNCHANGED vars
  BY <1>9 DEF vars, TypeOK
<1> QED
  BY <1>1, <1>2, <1>3, <1>4, <1>5, <1>6, <1>7, <1>8, <1>9 DEF Next

\* Type correctness of the inbox: a row has an owner exactly while it is being
\* processed, and processNextWebhook never leaves its steps.
THEOREM InboxTypeCorrect == Spec => []TypeOK
<1>1. TypeOK /\ [Next]_vars => TypeOK'
  BY WebhookTypeStep
<1> QED
  BY WebhookTypeInit, <1>1, PTL DEF Spec

-----------------------------------------------------------------------------
(* The inbox: leases. *)

\* The owner of a lease that is still at work on the row made the latest claim.
WebhookLease ==
    \A w \in Workers : \A d \in Deliveries :
        Scheduling(w) /\ scheduler[w].delivery = d /\ HoldsWebhook(w, d) =>
            scheduler[w].attempt = inbox[d].attempt

\* The steps that change no lease: each row keeps its owner and its attempt.
LeasesKept ==
    \A d \in Deliveries : \A w \in Workers :
        HoldsWebhook(w, d)' => HoldsWebhook(w, d) /\ inbox'[d].attempt = inbox[d].attempt

\* The workers at work after the step were at work before, on the same claim.
ClaimsKept ==
    \A w \in Workers : Scheduling(w)' =>
        /\ Scheduling(w)
        /\ scheduler'[w].delivery = scheduler[w].delivery
        /\ scheduler'[w].attempt = scheduler[w].attempt

LEMMA LeaseFrame ==
    ASSUME WebhookLease, LeasesKept, ClaimsKept
    PROVE  WebhookLease'
BY DEF WebhookLease, LeasesKept, ClaimsKept

LEMMA LeasesOfResolved ==
    ASSUME TypeOK, NEW w \in Workers, ResolveWebhook(w) \/ FailWebhook(w)
    PROVE  /\ LeasesKept
           /\ \A e \in Deliveries : inbox'[e] # inbox[e] =>
                /\ e = scheduler[w].delivery /\ HoldsWebhook(w, e)
                /\ inbox'[e].state = "processed" => scheduler[w].pc = "scheduled"
<1>1. scheduler[w].delivery \in Deliveries
  BY SchedulerByPc DEF ResolveWebhook, FailWebhook, AtWork, Scheduling
<1>2. PICK state \in {"processed", "pending", "failed"} :
          /\ inbox' = Resolved(w, scheduler[w].delivery, state)
          /\ state = "processed" => scheduler[w].pc = "scheduled"
  BY DEF ResolveWebhook, FailWebhook
<1>3. \A e \in Deliveries : inbox'[e] # inbox[e] =>
          /\ e = scheduler[w].delivery /\ HoldsWebhook(w, e)
          /\ inbox'[e].state = state /\ inbox'[e].leaseOwner = NoWorker
  BY <1>1, <1>2, ResolvedRow
<1>4. LeasesKept
  BY <1>3 DEF LeasesKept, HoldsWebhook
<1> QED
  BY <1>2, <1>3, <1>4

LEMMA WebhookLeaseStep ==
    ASSUME TypeOK, WebhookLease, [Next]_vars
    PROVE  WebhookLease'
<1>1. ASSUME UNCHANGED inbox
      PROVE  LeasesKept
  BY <1>1 DEF LeasesKept, HoldsWebhook
<1>2. ASSUME UNCHANGED scheduler
      PROVE  ClaimsKept
  BY <1>2 DEF ClaimsKept, Scheduling
<1>3. ASSUME NEW w \in Workers, scheduler' = [scheduler EXCEPT ![w] = IdleScheduler]
      PROVE  ClaimsKept
  BY <1>3 DEF ClaimsKept, Scheduling, TypeOK, IdleScheduler
<1>4. ASSUME NEW d \in Deliveries, ReceiveWebhook(d)
      PROVE  WebhookLease'
  <2>1. LeasesKept
    BY <1>4 DEF ReceiveWebhook, LeasesKept, HoldsWebhook, TypeOK
  <2> QED
    BY <1>2, <1>4, <2>1, LeaseFrame DEF ReceiveWebhook
<1>5. ASSUME NEW d \in Deliveries, WebhookLeaseExpires(d)
      PROVE  WebhookLease'
  <2>1. LeasesKept
    BY <1>5 DEF WebhookLeaseExpires, LeasesKept, HoldsWebhook, TypeOK, InboxRow
  <2> QED
    BY <1>2, <1>5, <2>1, LeaseFrame DEF WebhookLeaseExpires
<1>6. ASSUME NEW w \in Workers, NEW d \in Deliveries, ClaimWebhook(w, d)
      PROVE  WebhookLease'
  <2>1. /\ inbox'[d] = [state |-> "processing", attempt |-> NextAttempt(d),
                        leaseOwner |-> w, leaseExpired |-> FALSE]
        /\ \A e \in Deliveries \ {d} : inbox'[e] = inbox[e]
        /\ scheduler'[w] = [pc |-> "claimed", delivery |-> d, attempt |-> NextAttempt(d)]
        /\ \A v \in Workers \ {w} : scheduler'[v] = scheduler[v]
    BY <1>6 DEF ClaimWebhook, TypeOK
  <2> SUFFICES ASSUME NEW v \in Workers, NEW e \in Deliveries, Scheduling(v)',
                      scheduler'[v].delivery = e, HoldsWebhook(v, e)'
               PROVE  scheduler'[v].attempt = inbox'[e].attempt
    BY DEF WebhookLease
  <2>2. CASE v = w
    BY <2>1, <2>2
  <2>3. CASE v # w
    <3>1. e # d
      BY <2>1, <2>3 DEF HoldsWebhook
    <3> QED
      BY <2>1, <2>3, <3>1 DEF WebhookLease, Scheduling, HoldsWebhook
  <2> QED
    BY <2>2, <2>3
<1>7. ASSUME NEW w \in Workers, EnqueueJob(w) \/ SupersedeJobs(w)
      PROVE  WebhookLease'
  <2>1. PICK pc \in {"enqueued", "scheduled"} : scheduler' = [scheduler EXCEPT ![w].pc = pc]
    BY <1>7 DEF EnqueueJob, SupersedeJobs
  <2>2. Scheduling(w)
    BY <1>7 DEF EnqueueJob, SupersedeJobs, Scheduling
  <2>3. scheduler'[w].delivery = scheduler[w].delivery /\ scheduler'[w].attempt = scheduler[w].attempt
    BY <2>1, <2>2, SchedulerMoves
  <2>4. ClaimsKept
    BY <2>1, <2>2, <2>3 DEF ClaimsKept, Scheduling, TypeOK
  <2> QED
    BY <1>1, <1>7, <2>4, LeaseFrame DEF EnqueueJob, SupersedeJobs
<1>8. ASSUME NEW w \in Workers, ResolveWebhook(w) \/ FailWebhook(w)
      PROVE  WebhookLease'
  BY <1>3, <1>8, LeasesOfResolved, LeaseFrame DEF ResolveWebhook, FailWebhook
<1>9. ASSUME NEW w \in Workers, CrashScheduler(w)
      PROVE  WebhookLease'
  BY <1>1, <1>3, <1>9, LeaseFrame DEF CrashScheduler
<1>10. CASE SetReadDisabled \/ UNCHANGED vars
  BY <1>1, <1>2, <1>10, LeaseFrame DEF SetReadDisabled, vars
<1> QED
  BY <1>4, <1>5, <1>6, <1>7, <1>8, <1>9, <1>10 DEF Next

\* A row stops being processed only when its owner resolves it or gives it back,
\* and by WebhookLease that owner's claim is the latest.
LEMMA WebhookVerdict ==
    ASSUME TypeOK, WebhookLease, [Next]_vars, NEW d \in Deliveries,
           inbox[d].state = "processing", inbox'[d].state # "processing"
    PROVE  \E w \in Workers :
               /\ scheduler[w].pc # "idle" /\ scheduler'[w].pc = "idle"
               /\ scheduler[w].delivery = d
               /\ scheduler[w].attempt = inbox[d].attempt
<1>1. ASSUME NEW w \in Workers, ResolveWebhook(w) \/ FailWebhook(w)
      PROVE  /\ scheduler[w].pc # "idle" /\ scheduler'[w].pc = "idle"
             /\ scheduler[w].delivery = d
             /\ scheduler[w].attempt = inbox[d].attempt
  <2>1. scheduler[w].pc # "idle" /\ scheduler'[w].pc = "idle"
    BY <1>1 DEF ResolveWebhook, FailWebhook, TypeOK, IdleScheduler
  <2>2. d = scheduler[w].delivery /\ HoldsWebhook(w, d)
    BY <1>1, LeasesOfResolved
  <2> QED
    BY <2>1, <2>2 DEF WebhookLease, Scheduling
<1>2. ASSUME NEW e \in Deliveries, ReceiveWebhook(e)
      PROVE  FALSE
  BY <1>2 DEF ReceiveWebhook, TypeOK
<1>3. ASSUME NEW e \in Deliveries, WebhookLeaseExpires(e)
      PROVE  FALSE
  BY <1>3 DEF WebhookLeaseExpires, TypeOK, InboxRow
<1>4. ASSUME NEW w \in Workers, NEW e \in Deliveries, ClaimWebhook(w, e)
      PROVE  FALSE
  BY <1>4 DEF ClaimWebhook, TypeOK
<1>5. ASSUME UNCHANGED inbox
      PROVE  FALSE
  BY <1>5
<1> QED
  BY <1>1, <1>2, <1>3, <1>4, <1>5
  DEF Next, SetReadDisabled, EnqueueJob, SupersedeJobs, CrashScheduler, vars

-----------------------------------------------------------------------------
(* The inbox: supersession. *)

\* supersedeJobs has run for the delivery, after its own job was inserted.
Passed(d) ==
    \/ inbox[d].state = "processed"
    \/ \E w \in Workers : scheduler[w].pc = "scheduled" /\ scheduler[w].delivery = d

\* A delivery whose supersession has run has its job, so of two such deliveries
\* the one that ran last saw the job of the other.
ScheduledInv ==
    /\ \A w \in Workers : scheduler[w].pc \in {"enqueued", "scheduled"} =>
           jobs[scheduler[w].delivery].state # "absent"
    /\ \A d \in Deliveries : inbox[d].state = "processed" => jobs[d].state # "absent"
    /\ \A d \in Deliveries : \A e \in Rivals(d) :
           SupersessionKey(d) # NoKey /\ Passed(d) /\ Passed(e) => ~(LiveJob(d) /\ LiveJob(e))

LEMMA RivalsAreMutual ==
    ASSUME NEW d \in Deliveries, NEW e \in Rivals(d)
    PROVE  e \in Deliveries /\ d \in Rivals(e) /\ SupersessionKey(e) = SupersessionKey(d) /\ e # d
BY DEF Rivals

LEMMA PassedHasJob ==
    ASSUME ScheduledInv, NEW d \in Deliveries, Passed(d)
    PROVE  jobs[d].state # "absent"
BY DEF ScheduledInv, Passed

\* A step after which no delivery has newly passed and no job is newly live.
NothingNew ==
    /\ \A d \in Deliveries : Passed(d)' => Passed(d)
    /\ \A d \in Deliveries : LiveJob(d)' => LiveJob(d)
    /\ \A d \in Deliveries : jobs[d].state # "absent" => jobs'[d].state # "absent"
    /\ \A w \in Workers : scheduler'[w].pc \in {"enqueued", "scheduled"} =>
           jobs'[scheduler'[w].delivery].state # "absent"

LEMMA NothingNewKeeps ==
    ASSUME ScheduledInv, NothingNew
    PROVE  ScheduledInv'
<1>1. \A d \in Deliveries : inbox'[d].state = "processed" => jobs'[d].state # "absent"
  <2> SUFFICES ASSUME NEW d \in Deliveries, inbox'[d].state = "processed"
               PROVE  jobs'[d].state # "absent"
    OBVIOUS
  <2>1. Passed(d)
    BY DEF NothingNew, Passed
  <2> QED
    BY <2>1, PassedHasJob DEF NothingNew
<1>2. \A d \in Deliveries : \A e \in Rivals(d) :
          SupersessionKey(d) # NoKey /\ Passed(d)' /\ Passed(e)' => ~(LiveJob(d)' /\ LiveJob(e)')
  BY RivalsAreMutual DEF ScheduledInv, NothingNew
<1> QED
  BY <1>1, <1>2 DEF ScheduledInv, NothingNew

\* One worker becomes idle; jobs stay, and only a scheduled delivery is processed.
LEMMA GoingIdleKeeps ==
    ASSUME TypeOK, ScheduledInv, NEW w \in Workers,
           scheduler' = [scheduler EXCEPT ![w] = IdleScheduler], UNCHANGED jobs,
           \A d \in Deliveries : inbox'[d].state = "processed" => Passed(d)
    PROVE  ScheduledInv'
<1>1. \A v \in Workers : scheduler'[v].pc # "idle" => scheduler'[v] = scheduler[v]
  BY DEF TypeOK, IdleScheduler
<1>2. NothingNew
  BY <1>1 DEF NothingNew, Passed, LiveJob, ScheduledInv
<1> QED
  BY <1>2, NothingNewKeeps

LEMMA ScheduledStep ==
    ASSUME TypeOK, ScheduledInv, [Next]_vars
    PROVE  ScheduledInv'
<1>1. ASSUME UNCHANGED <<jobs, scheduler>>,
             \A d \in Deliveries : inbox'[d].state = "processed" => inbox[d].state = "processed"
      PROVE  ScheduledInv'
  <2>1. NothingNew
    BY <1>1 DEF NothingNew, Passed, LiveJob, ScheduledInv
  <2> QED
    BY <2>1, NothingNewKeeps
<1>2. ASSUME NEW d \in Deliveries, ReceiveWebhook(d)
      PROVE  ScheduledInv'
  BY <1>1, <1>2 DEF ReceiveWebhook, TypeOK, InboxRow
<1>3. ASSUME NEW d \in Deliveries, WebhookLeaseExpires(d)
      PROVE  ScheduledInv'
  BY <1>1, <1>3 DEF WebhookLeaseExpires, TypeOK, InboxRow
<1>4. ASSUME NEW w \in Workers, NEW d \in Deliveries, ClaimWebhook(w, d)
      PROVE  ScheduledInv'
  <2>1. \A e \in Deliveries : inbox'[e].state = "processed" => inbox[e].state = "processed"
    BY <1>4 DEF ClaimWebhook, TypeOK
  <2>2. \A v \in Workers : scheduler'[v].pc \in {"enqueued", "scheduled"} => scheduler'[v] = scheduler[v]
    BY <1>4 DEF ClaimWebhook, TypeOK
  <2>3. NothingNew
    BY <1>4, <2>1, <2>2 DEF ClaimWebhook, NothingNew, Passed, LiveJob, ScheduledInv
  <2> QED
    BY <2>3, NothingNewKeeps
<1>5. ASSUME NEW w \in Workers, EnqueueJob(w)
      PROVE  ScheduledInv'
  <2> DEFINE d == scheduler[w].delivery
  <2>1. d \in Deliveries /\ Scheduling(w)
    BY <1>5, SchedulerByPc DEF EnqueueJob, AtWork, Scheduling
  <2>2. PICK pc \in {"enqueued", "scheduled"} :
            /\ scheduler' = [scheduler EXCEPT ![w].pc = pc]
            /\ pc = "scheduled" => SupersessionKey(d) = NoKey
    BY <1>5 DEF EnqueueJob
  <2>3. scheduler'[w].delivery = d /\ scheduler'[w].pc = pc
    BY <2>1, <2>2, SchedulerMoves
  <2>4. \A v \in Workers \ {w} : scheduler'[v] = scheduler[v]
    BY <2>2 DEF TypeOK
  <2>5. /\ jobs'[d].state # "absent"
        /\ \A e \in Deliveries : jobs[e].state # "absent" => jobs'[e] = jobs[e]
        /\ \A e \in Deliveries \ {d} : jobs'[e] = jobs[e]
    BY <1>5, <2>1 DEF EnqueueJob, TypeOK, JobRows, InsertedRow
  <2>6. UNCHANGED inbox
    BY <1>5 DEF EnqueueJob
  <2>7. \A e \in Deliveries : SupersessionKey(e) # NoKey /\ Passed(e)' => Passed(e)
    BY <2>2, <2>3, <2>4, <2>6 DEF Passed
  <2>8. \A e \in Deliveries : Passed(e) => jobs'[e] = jobs[e]
    BY <2>5, PassedHasJob
  <2>9. \A x \in Deliveries : \A e \in Rivals(x) :
            SupersessionKey(x) # NoKey /\ Passed(x)' /\ Passed(e)' => ~(LiveJob(x)' /\ LiveJob(e)')
    BY <2>7, <2>8, RivalsAreMutual DEF ScheduledInv, LiveJob
  <2>10. \A v \in Workers : scheduler'[v].pc \in {"enqueued", "scheduled"} =>
            jobs'[scheduler'[v].delivery].state # "absent"
    <3> SUFFICES ASSUME NEW v \in Workers, scheduler'[v].pc \in {"enqueued", "scheduled"}
                 PROVE  jobs'[scheduler'[v].delivery].state # "absent"
      OBVIOUS
    <3>1. CASE v = w
      BY <2>3, <2>5, <3>1
    <3>2. CASE v # w
      <4>1. scheduler[v].delivery \in Deliveries
        BY <2>4, <3>2, SchedulerByPc DEF AtWork, Scheduling
      <4> QED
        BY <2>4, <2>5, <3>2, <4>1 DEF ScheduledInv
    <3> QED
      BY <3>1, <3>2
  <2>11. \A e \in Deliveries : inbox'[e].state = "processed" => jobs'[e].state # "absent"
    BY <2>5, <2>6 DEF ScheduledInv
  <2> QED
    BY <2>9, <2>10, <2>11 DEF ScheduledInv
<1>6. ASSUME NEW w \in Workers, SupersedeJobs(w)
      PROVE  ScheduledInv'
  <2> DEFINE d == scheduler[w].delivery
  <2>1. d \in Deliveries /\ Scheduling(w)
    BY <1>6, SchedulerByPc DEF SupersedeJobs, AtWork, Scheduling
  <2>2. scheduler' = [scheduler EXCEPT ![w].pc = "scheduled"]
    BY <1>6 DEF SupersedeJobs
  <2>3. scheduler'[w].delivery = d /\ scheduler'[w].pc = "scheduled"
    BY <2>1, <2>2, SchedulerMoves
  <2>4. \A v \in Workers \ {w} : scheduler'[v] = scheduler[v]
    BY <2>2 DEF TypeOK
  <2>5. UNCHANGED inbox
    BY <1>6 DEF SupersedeJobs
  <2>6. \A e \in Deliveries : SettledRow(jobs[e], "superseded").state = "superseded"
    BY DEF SettledRow, TypeOK, JobRows, Row
  <2>7. /\ \A e \in Deliveries : jobs'[e].state \in {jobs[e].state, "superseded"}
        /\ \A e \in Rivals(d) : ~LiveJob(e)'
    BY <1>6, <2>1, <2>6, RivalsAreMutual DEF SupersedeJobs, LiveJob
  <2>8. \A e \in Deliveries \ {d} : Passed(e)' => Passed(e)
    BY <2>3, <2>4, <2>5 DEF Passed
  <2>9. \A x \in Deliveries : \A e \in Rivals(x) :
            SupersessionKey(x) # NoKey /\ Passed(x)' /\ Passed(e)' => ~(LiveJob(x)' /\ LiveJob(e)')
    <3> SUFFICES ASSUME NEW x \in Deliveries, NEW e \in Rivals(x), SupersessionKey(x) # NoKey,
                        Passed(x)', Passed(e)'
                 PROVE  ~(LiveJob(x)' /\ LiveJob(e)')
      OBVIOUS
    <3>1. CASE x = d \/ e = d
      BY <2>1, <2>7, <3>1, RivalsAreMutual
    <3>2. CASE x # d /\ e # d
      BY <2>7, <2>8, <3>2, RivalsAreMutual DEF ScheduledInv, LiveJob
    <3> QED
      BY <3>1, <3>2
  <2>10. \A v \in Workers : scheduler'[v].pc \in {"enqueued", "scheduled"} =>
            jobs'[scheduler'[v].delivery].state # "absent"
    <3> SUFFICES ASSUME NEW v \in Workers, scheduler'[v].pc \in {"enqueued", "scheduled"}
                 PROVE  jobs'[scheduler'[v].delivery].state # "absent"
      OBVIOUS
    <3>1. scheduler[v].pc \in {"enqueued", "scheduled"} /\ scheduler'[v].delivery = scheduler[v].delivery
      BY <1>6, <2>3, <2>4 DEF SupersedeJobs
    <3>2. scheduler[v].delivery \in Deliveries
      BY <3>1, SchedulerByPc DEF AtWork, Scheduling
    <3> QED
      BY <2>7, <3>1, <3>2 DEF ScheduledInv
  <2>11. \A e \in Deliveries : inbox'[e].state = "processed" => jobs'[e].state # "absent"
    BY <2>5, <2>7 DEF ScheduledInv
  <2> QED
    BY <2>9, <2>10, <2>11 DEF ScheduledInv
<1>7. ASSUME NEW w \in Workers, ResolveWebhook(w) \/ FailWebhook(w)
      PROVE  ScheduledInv'
  <2>1. \A d \in Deliveries : inbox'[d].state = "processed" => Passed(d)
    BY <1>7, LeasesOfResolved DEF Passed
  <2> QED
    BY <1>7, <2>1, GoingIdleKeeps DEF ResolveWebhook, FailWebhook
<1>8. ASSUME NEW w \in Workers, CrashScheduler(w)
      PROVE  ScheduledInv'
  <2>1. \A d \in Deliveries : inbox'[d].state = "processed" => Passed(d)
    BY <1>8 DEF CrashScheduler, Passed
  <2> QED
    BY <1>8, <2>1, GoingIdleKeeps DEF CrashScheduler
<1>9. CASE SetReadDisabled \/ UNCHANGED vars
  BY <1>1, <1>9 DEF SetReadDisabled, vars
<1> QED
  BY <1>2, <1>3, <1>4, <1>5, <1>6, <1>7, <1>8, <1>9 DEF Next

\* processNextWebhook, any number of workers at any of its steps: of two processed
\* deliveries of one pull request or ref at most one job is still to run.
THEOREM SupersessionLeavesOneJob == Spec => []OneLiveJobPerKey
<1>1. Init => ScheduledInv
  <2>1. ASSUME Init
        PROVE  /\ \A w \in Workers : scheduler[w].pc = "idle"
               /\ \A d \in Deliveries : inbox[d].state = "absent"
    BY <2>1 DEF Init, IdleScheduler
  <2> QED
    BY <2>1, RivalsAreMutual DEF ScheduledInv, Passed
<1>2. TypeOK /\ ScheduledInv /\ [Next]_vars => ScheduledInv'
  BY ScheduledStep
<1>3. ScheduledInv => OneLiveJobPerKey
  BY RivalsAreMutual DEF ScheduledInv, OneLiveJobPerKey, Passed
<1> QED
  BY <1>1, <1>2, <1>3, InboxTypeCorrect, PTL DEF Spec

\* resolveWebhook compares the lease owner and no attempt number, and still only
\* the worker of the latest claim ends the processing of a delivery.
THEOREM LatestWebhookClaimDecides == Spec => WebhookVerdictOfLatestClaim
<1> DEFINE Verdict ==
        \A d \in Deliveries :
            inbox[d].state = "processing" /\ inbox'[d].state # "processing" =>
              \E w \in Workers :
                  /\ scheduler[w].pc # "idle" /\ scheduler'[w].pc = "idle"
                  /\ scheduler[w].delivery = d
                  /\ scheduler[w].attempt = inbox[d].attempt
<1>1. Init => WebhookLease
  BY DEF Init, WebhookLease, Scheduling, IdleScheduler
<1>2. TypeOK /\ WebhookLease /\ [Next]_vars => WebhookLease'
  BY WebhookLeaseStep
<1>3. TypeOK /\ WebhookLease /\ [Next]_vars => Verdict
  BY WebhookVerdict
<1>4. [][Verdict]_vars => WebhookVerdictOfLatestClaim
  BY DEF WebhookVerdictOfLatestClaim
<1> HIDE DEF Verdict
<1> QED
  BY <1>1, <1>2, <1>3, <1>4, InboxTypeCorrect, PTL DEF Spec

-----------------------------------------------------------------------------
(* The outbox: types. *)

OutboxRow == Row(EffectStates, MaximumAttempts)

\* The three shapes of a dispatcher at work.
Preparing == [pc : {"claimed", "authorizing", "checkingHead"},
              effect : Effects, attempt : 1 .. MaximumAttempts, staleClaim : BOOLEAN]
Writing == [pc : {"writing"}, batch : Nat \ {0},
            effect : Effects, attempt : 1 .. MaximumAttempts, staleClaim : BOOLEAN]
Resolving == [pc : {"resolving"}, result : WriteResults,
              effect : Effects, attempt : 1 .. MaximumAttempts, staleClaim : BOOLEAN]

LEMMA DispatcherByPc ==
    ASSUME OutboxTypeOK, NEW w \in Workers
    PROVE  /\ dispatcher[w].pc = "idle" => dispatcher[w] = IdleDispatcher
           /\ dispatcher[w].pc \in {"claimed", "authorizing", "checkingHead"} =>
                dispatcher[w] \in Preparing
           /\ dispatcher[w].pc = "writing" => dispatcher[w] \in Writing
           /\ dispatcher[w].pc = "resolving" => dispatcher[w] \in Resolving
           /\ Working(w) => /\ dispatcher[w].pc \in {"claimed", "authorizing", "checkingHead",
                                                     "writing", "resolving"}
                            /\ dispatcher[w].effect \in Effects
                            /\ dispatcher[w].attempt \in 1 .. MaximumAttempts
                            /\ dispatcher[w].staleClaim \in BOOLEAN
<1>1. dispatcher[w] \in {IdleDispatcher} \cup Preparing \cup Writing \cup Resolving
  BY DEF OutboxTypeOK, DispatcherState, Preparing, Writing, Resolving
<1> QED
  BY <1>1 DEF IdleDispatcher, Preparing, Writing, Resolving, Working

\* chunks makes at least one batch, so a write has a last one.
LEMMA AtLeastOneBatch ==
    ASSUME NEW e \in Effects
    PROVE  Batches(e) \in Nat \ {0}
<1>1. Annotations[e] \in Nat /\ ChunkSize \in Nat \ {0}
  BY OutboxAssumption
<1>2. ASSUME NEW n \in Nat \ {0}, NEW k \in Nat \ {0}
      PROVE  (n + k - 1) \div k \in Nat \ {0}
  OBVIOUS
<1> QED
  BY <1>1, <1>2 DEF Batches

\* What the statements on reverb_delivery_outbox do to a row.
LEMMA EffectRowInserted ==
    ASSUME NEW state \in {"available", "disabled"}
    PROVE  LET row == [InsertedRow EXCEPT !.state = state]
           IN  row \in OutboxRow /\ row.leaseOwner = NoWorker /\ row.state = state
<1>1. InsertedRow \in OutboxRow /\ InsertedRow.leaseOwner = NoWorker
  BY OutboxAssumption DEF InsertedRow, OutboxRow, Row, EffectStates
<1> QED
  BY <1>1 DEF OutboxRow, Row, EffectStates

LEMMA EffectRowClaimed ==
    ASSUME NEW row \in OutboxRow, NEW w \in Workers, Claimable(row, MaximumAttempts)
    PROVE  /\ ClaimedRow(row, w) \in OutboxRow
           /\ ClaimedRow(row, w).attempt = row.attempt + 1
           /\ ClaimedRow(row, w).leaseOwner = w /\ ClaimedRow(row, w).state = "leased"
           /\ row.attempt + 1 \in 1 .. MaximumAttempts
<1>1. row.attempt \in Nat /\ row.attempt < MaximumAttempts
  BY OutboxAssumption DEF OutboxRow, Row, Claimable
<1>2. row.attempt + 1 \in 0 .. MaximumAttempts /\ row.attempt + 1 \in 1 .. MaximumAttempts
  BY <1>1, OutboxAssumption
<1> QED
  BY <1>2 DEF ClaimedRow, OutboxRow, Row, EffectStates

LEMMA EffectRowSettled ==
    ASSUME NEW row \in OutboxRow, NEW state \in EffectSettled \cup {"available"}
    PROVE  /\ SettledRow(row, state) \in OutboxRow
           /\ SettledRow(row, state).leaseOwner = NoWorker
           /\ SettledRow(row, state).state = state
           /\ SettledRow(row, state).attempt = row.attempt
BY DEF SettledRow, OutboxRow, Row, EffectStates, EffectSettled

LEMMA EffectRowFailed ==
    ASSUME NEW row \in OutboxRow, NEW retryable \in BOOLEAN
    PROVE  /\ FailedRow(row, retryable, MaximumAttempts) \in OutboxRow
           /\ FailedRow(row, retryable, MaximumAttempts).leaseOwner = NoWorker
           /\ FailedRow(row, retryable, MaximumAttempts).state \in {"available", "failed"}
           /\ FailedRow(row, retryable, MaximumAttempts).attempt = row.attempt
BY DEF FailedRow, SettledRow, OutboxRow, Row, EffectStates

\* Time turns a bit of a row on and leaves the rest.
LEMMA EffectRowAged ==
    ASSUME OutboxTypeOK, NEW e \in Effects, EffectLeaseExpires(e) \/ EffectRetryDue(e)
    PROVE  /\ effects' = [effects EXCEPT ![e] = effects'[e]]
           /\ effects'[e] \in OutboxRow
           /\ effects'[e].state = effects[e].state /\ effects'[e].leaseOwner = effects[e].leaseOwner
           /\ effects'[e].attempt = effects[e].attempt
           /\ UNCHANGED <<mode, dispatcher, github, writeDisabled>>
<1>1. effects[e] \in OutboxRow
  BY DEF OutboxTypeOK, OutboxRow
<1>2. CASE EffectLeaseExpires(e)
  <2>1. effects' = [effects EXCEPT ![e] = [effects[e] EXCEPT !.leaseExpired = TRUE]]
    BY <1>2 DEF EffectLeaseExpires, OutboxTypeOK
  <2>2. LET row == [effects[e] EXCEPT !.leaseExpired = TRUE]
        IN  row \in OutboxRow /\ row.state = effects[e].state
            /\ row.leaseOwner = effects[e].leaseOwner /\ row.attempt = effects[e].attempt
    BY <1>1 DEF OutboxRow, Row
  <2> QED
    BY <1>2, <2>1, <2>2 DEF EffectLeaseExpires, OutboxTypeOK
<1>3. CASE EffectRetryDue(e)
  <2>1. effects' = [effects EXCEPT ![e] = [effects[e] EXCEPT !.due = TRUE]]
    BY <1>3 DEF EffectRetryDue, OutboxTypeOK
  <2>2. LET row == [effects[e] EXCEPT !.due = TRUE]
        IN  row \in OutboxRow /\ row.state = effects[e].state
            /\ row.leaseOwner = effects[e].leaseOwner /\ row.attempt = effects[e].attempt
    BY <1>1 DEF OutboxRow, Row
  <2> QED
    BY <1>3, <2>1, <2>2 DEF EffectRetryDue, OutboxTypeOK
<1> QED
  BY <1>2, <1>3

\* A worker gives its row back: a verdict that changes the row only if the worker
\* still holds it, and leaves the worker idle.
Verdict(w) ==
    LET e == dispatcher[w].effect
    IN  /\ Working(w)
        /\ dispatcher' = [dispatcher EXCEPT ![w] = IdleDispatcher]
        /\ \/ UNCHANGED effects
           \/ /\ HeldBy(effects[e], w)
              /\ effects' = [effects EXCEPT ![e] = effects'[e]]
              /\ effects'[e] \in OutboxRow /\ effects'[e].leaseOwner = NoWorker
              /\ effects'[e].state \in {"available", "failed", "delivered", "superseded", "disabled"}
              /\ effects'[e].state = "delivered" =>
                   dispatcher[w].pc = "resolving" /\ dispatcher[w].result = "delivered"

LEMMA ReportsAreVerdicts ==
    ASSUME OutboxTypeOK, NEW w \in Workers,
           ResolveDelivery(w) \/ FailDelivery(w) \/ UpsertCheckLost(w)
    PROVE  Verdict(w)
<1> DEFINE e == dispatcher[w].effect
<1>1. Working(w) /\ e \in Effects
  BY DispatcherByPc DEF ResolveDelivery, FailDelivery, UpsertCheckLost, Working
<1>2. effects[e] \in OutboxRow
  BY <1>1 DEF OutboxTypeOK, OutboxRow
<1>3. CASE ResolveDelivery(w)
  <2> DEFINE row == SettledRow(effects[e], DeliveryState(dispatcher[w].result))
  <2>1. /\ DeliveryState(dispatcher[w].result) \in {"delivered", "superseded", "disabled"}
        /\ DeliveryState(dispatcher[w].result) = "delivered" => dispatcher[w].result = "delivered"
    BY DEF DeliveryState
  <2>2. /\ row \in OutboxRow /\ row.leaseOwner = NoWorker
        /\ row.state = DeliveryState(dispatcher[w].result)
    BY <1>2, <2>1, EffectRowSettled DEF EffectSettled
  <2>3. effects' = IF HeldBy(effects[e], w) THEN [effects EXCEPT ![e] = row] ELSE effects
    BY <1>3 DEF ResolveDelivery
  <2> HIDE DEF row
  <2>4. HeldBy(effects[e], w) => effects' = [effects EXCEPT ![e] = effects'[e]] /\ effects'[e] = row
    BY <1>1, <2>3 DEF OutboxTypeOK
  <2> QED
    BY <1>1, <1>3, <2>1, <2>2, <2>3, <2>4 DEF ResolveDelivery, Verdict
<1>4. ASSUME NEW retryable \in BOOLEAN,
             effects' = IF HeldBy(effects[e], w)
                        THEN [effects EXCEPT ![e] = FailedRow(effects[e], retryable, MaximumAttempts)]
                        ELSE effects,
             dispatcher' = [dispatcher EXCEPT ![w] = IdleDispatcher]
      PROVE  Verdict(w)
  <2> DEFINE row == FailedRow(effects[e], retryable, MaximumAttempts)
  <2>1. row \in OutboxRow /\ row.leaseOwner = NoWorker /\ row.state \in {"available", "failed"}
    BY <1>2, EffectRowFailed
  <2> HIDE DEF row
  <2>2. HeldBy(effects[e], w) => effects' = [effects EXCEPT ![e] = effects'[e]] /\ effects'[e] = row
    BY <1>1, <1>4 DEF OutboxTypeOK, row
  <2> QED
    BY <1>1, <1>4, <2>1, <2>2 DEF Verdict
<1>5. CASE FailDelivery(w)
  <2>1. (mode[e] # "invalid") \in BOOLEAN
    OBVIOUS
  <2> QED
    BY <1>4, <1>5, <2>1 DEF FailDelivery
<1>6. CASE UpsertCheckLost(w)
  BY <1>4, <1>6 DEF UpsertCheckLost
<1> QED
  BY <1>3, <1>5, <1>6

\* The steps inside write(): the worker keeps its claim and no row changes.
Onward(w) ==
    /\ Working(w) /\ UNCHANGED <<effects, mode, writeDisabled>>
    /\ dispatcher' = [dispatcher EXCEPT ![w] = dispatcher'[w]]
    /\ dispatcher'[w] \in Preparing \cup Writing \cup Resolving
    /\ dispatcher'[w].effect = dispatcher[w].effect
    /\ dispatcher'[w].attempt = dispatcher[w].attempt
    /\ dispatcher'[w].staleClaim = dispatcher[w].staleClaim

LEMMA ReturnIsOnward ==
    ASSUME OutboxTypeOK, NEW w \in Workers, Working(w), NEW result \in WriteResults,
           Return(w, result), UNCHANGED <<effects, mode, writeDisabled>>
    PROVE  Onward(w) /\ dispatcher'[w].pc = "resolving" /\ dispatcher'[w].result = result
<1> DEFINE state == [pc |-> "resolving", result |-> result, effect |-> dispatcher[w].effect,
                     attempt |-> dispatcher[w].attempt, staleClaim |-> dispatcher[w].staleClaim]
<1>1. state \in Resolving
  BY DispatcherByPc DEF Resolving
<1>2. dispatcher' = [dispatcher EXCEPT ![w] = state]
  BY DEF Return
<1>3. dispatcher'[w] = state /\ dispatcher' = [dispatcher EXCEPT ![w] = dispatcher'[w]]
  BY <1>2 DEF OutboxTypeOK
<1> QED
  BY <1>1, <1>3 DEF Onward

LEMMA ContinueIsOnward ==
    ASSUME OutboxTypeOK, NEW w \in Workers, dispatcher[w] \in Preparing,
           NEW pc \in {"authorizing", "checkingHead"},
           Continue(w, pc), UNCHANGED <<effects, mode, writeDisabled>>
    PROVE  Onward(w) /\ dispatcher'[w].pc = pc
<1> DEFINE state == [dispatcher[w] EXCEPT !.pc = pc]
<1>1. /\ state \in Preparing /\ state.pc = pc /\ state.effect = dispatcher[w].effect
      /\ state.attempt = dispatcher[w].attempt /\ state.staleClaim = dispatcher[w].staleClaim
  BY DEF Preparing
<1>2. dispatcher' = [dispatcher EXCEPT ![w] = state]
  BY DEF Continue, OutboxTypeOK
<1> HIDE DEF state
<1>3. dispatcher'[w] = state /\ dispatcher' = [dispatcher EXCEPT ![w] = dispatcher'[w]]
  BY <1>2 DEF OutboxTypeOK
<1>4. Working(w)
  BY DEF Preparing, Working
<1> QED
  BY <1>1, <1>3, <1>4 DEF Onward

\* The three kinds of step inside write(), told apart by what they leave behind.
LEMMA QuietOnward ==
    ASSUME OutboxTypeOK, NEW w \in Workers, StartWrite(w) \/ Reauthorize(w)
    PROVE  /\ Onward(w) /\ UNCHANGED github
           /\ dispatcher'[w].pc # "writing"
           /\ dispatcher'[w].pc = "resolving" => dispatcher'[w].result # "delivered"
<1>1. dispatcher[w] \in Preparing /\ Working(w)
  BY DispatcherByPc DEF StartWrite, Reauthorize, Working
<1>2. UNCHANGED <<effects, mode, writeDisabled>> /\ UNCHANGED github
  BY DEF StartWrite, Reauthorize
<1>3. \/ \E pc \in {"authorizing", "checkingHead"} : Continue(w, pc)
      \/ \E result \in WriteResults \ {"delivered"} : Return(w, result)
  <2>1. CASE StartWrite(w)
    <3>1. ASSUME mode[dispatcher[w].effect] \in {"shadow", "no_write"},
                 Return(w, IF mode[dispatcher[w].effect] = "shadow" THEN "shadow" ELSE "not_eligible")
          PROVE  \E result \in WriteResults \ {"delivered"} : Return(w, result)
      BY <3>1 DEF WriteResults
    <3>2. ASSUME Return(w, "disabled")
          PROVE  \E result \in WriteResults \ {"delivered"} : Return(w, result)
      BY <3>2 DEF WriteResults
    <3> QED
      BY <2>1, <3>1, <3>2 DEF StartWrite
  <2>2. CASE Reauthorize(w)
    BY <2>2 DEF Reauthorize, WriteResults
  <2> QED
    BY <2>1, <2>2
<1>4. CASE \E pc \in {"authorizing", "checkingHead"} : Continue(w, pc)
  BY <1>1, <1>2, <1>4, ContinueIsOnward
<1>5. CASE \E result \in WriteResults \ {"delivered"} : Return(w, result)
  BY <1>1, <1>2, <1>5, ReturnIsOnward
<1> QED
  BY <1>2, <1>3, <1>4, <1>5

LEMMA HeadCheckOnward ==
    ASSUME OutboxTypeOK, NEW w \in Workers, CheckHead(w)
    PROVE  /\ Onward(w) /\ UNCHANGED github
           /\ dispatcher'[w].pc = "writing" =>
                dispatcher'[w].batch = 1 /\ dispatcher[w].effect \notin headMoved
           /\ dispatcher'[w].pc = "resolving" => dispatcher'[w].result # "delivered"
<1>1. dispatcher[w] \in Preparing /\ Working(w)
  BY DispatcherByPc DEF CheckHead, Working
<1>2. UNCHANGED <<effects, mode, writeDisabled>> /\ UNCHANGED github
  BY DEF CheckHead
<1>3. CASE dispatcher[w].effect \in headMoved
  <2>1. Return(w, "superseded") /\ "superseded" \in WriteResults
    BY <1>3 DEF CheckHead, WriteResults
  <2>2. Onward(w) /\ dispatcher'[w].pc = "resolving" /\ dispatcher'[w].result = "superseded"
    BY <1>1, <1>2, <2>1, ReturnIsOnward
  <2> QED
    BY <1>2, <2>2
<1>4. CASE dispatcher[w].effect \notin headMoved
  <2> DEFINE state == [pc |-> "writing", batch |-> 1, effect |-> dispatcher[w].effect,
                       attempt |-> dispatcher[w].attempt, staleClaim |-> dispatcher[w].staleClaim]
  <2>1. state \in Writing
    BY <1>1, DispatcherByPc DEF Writing
  <2>2. dispatcher' = [dispatcher EXCEPT ![w] = state]
    BY <1>4 DEF CheckHead, StartBatches
  <2>3. dispatcher'[w] = state /\ dispatcher' = [dispatcher EXCEPT ![w] = dispatcher'[w]]
    BY <2>2 DEF OutboxTypeOK
  <2> QED
    BY <1>1, <1>2, <1>4, <2>1, <2>3 DEF Onward
<1> QED
  BY <1>3, <1>4

LEMMA UpsertOnward ==
    ASSUME OutboxTypeOK, NEW w \in Workers, UpsertCheck(w)
    PROVE  LET e == dispatcher[w].effect
               b == dispatcher[w].batch
           IN  /\ Onward(w) /\ UNCHANGED <<headMoved, authorized>>
               /\ dispatcher[w] \in Writing
               /\ sent' = [sent EXCEPT ![e] = @ \cup {b}]
               /\ b = Batches(e) => dispatcher'[w].pc = "resolving"
               /\ b # Batches(e) => dispatcher'[w].pc = "writing" /\ dispatcher'[w].batch = b + 1
<1> DEFINE e == dispatcher[w].effect
           b == dispatcher[w].batch
<1>1. dispatcher[w] \in Writing /\ Working(w)
  BY DispatcherByPc DEF UpsertCheck, Working
<1>2. /\ UNCHANGED <<effects, mode, writeDisabled>> /\ UNCHANGED <<headMoved, authorized>>
      /\ sent' = [sent EXCEPT ![e] = @ \cup {b}]
  BY DEF UpsertCheck
<1>3. CASE b = Batches(e)
  <2>1. Return(w, "delivered") /\ "delivered" \in WriteResults
    BY <1>3 DEF UpsertCheck, WriteResults
  <2>2. Onward(w) /\ dispatcher'[w].pc = "resolving"
    BY <1>1, <1>2, <2>1, ReturnIsOnward
  <2> QED
    BY <1>1, <1>2, <1>3, <2>2
<1>4. CASE b # Batches(e)
  <2> DEFINE state == [dispatcher[w] EXCEPT !.batch = b + 1]
  <2>1. /\ state \in Writing /\ state.batch = b + 1 /\ state.effect = dispatcher[w].effect
        /\ state.attempt = dispatcher[w].attempt /\ state.staleClaim = dispatcher[w].staleClaim
        /\ state.pc = "writing"
    BY <1>1 DEF Writing
  <2>2. dispatcher' = [dispatcher EXCEPT ![w] = state]
    BY <1>4 DEF UpsertCheck, OutboxTypeOK
  <2> HIDE DEF state
  <2>3. dispatcher'[w] = state /\ dispatcher' = [dispatcher EXCEPT ![w] = dispatcher'[w]]
    BY <2>2 DEF OutboxTypeOK
  <2> QED
    BY <1>1, <1>2, <1>4, <2>1, <2>3 DEF Onward
<1> QED
  BY <1>3, <1>4

-----------------------------------------------------------------------------
(* The outbox: type correctness. *)

\* OutboxTypeOK by parts: the rows, the dispatchers and the provider.
RowsOK ==
    /\ effects \in [Effects -> OutboxRow]
    /\ \A e \in Effects : (effects[e].leaseOwner # NoWorker) <=> (effects[e].state = "leased")
DispatchersOK ==
    /\ dispatcher \in [Workers -> DispatcherState]
    /\ \A w \in Workers :
         dispatcher[w].pc = "writing" => dispatcher[w].batch <= Batches(dispatcher[w].effect)
GithubOK ==
    /\ sent \in [Effects -> SUBSET Nat]
    /\ \A e \in Effects : sent[e] \subseteq 1 .. Batches(e)
    /\ headMoved \subseteq Effects
    /\ authorized \in BOOLEAN

LEMMA OutboxTypeParts ==
    OutboxTypeOK <=> /\ RowsOK /\ DispatchersOK /\ GithubOK
                     /\ mode \in [Effects -> Modes] /\ writeDisabled \in BOOLEAN
BY DEF OutboxTypeOK, RowsOK, DispatchersOK, GithubOK, OutboxRow

LEMMA ShapesAreStates ==
    IdleDispatcher \in DispatcherState /\ Preparing \cup Writing \cup Resolving \subseteq DispatcherState
BY DEF DispatcherState, Preparing, Writing, Resolving

LEMMA OutboxTypeInit == OutboxInit => OutboxTypeOK
<1>1. AbsentRow \in OutboxRow /\ AbsentRow.leaseOwner = NoWorker /\ AbsentRow.state = "absent"
  BY OutboxAssumption DEF AbsentRow, OutboxRow, Row, EffectStates
<1>2. OutboxInit => RowsOK
  BY <1>1 DEF OutboxInit, RowsOK
<1>3. OutboxInit => DispatchersOK
  BY ShapesAreStates DEF OutboxInit, DispatchersOK, IdleDispatcher
<1>4. OutboxInit => GithubOK
  BY DEF OutboxInit, GithubOK
<1> QED
  BY <1>2, <1>3, <1>4, OutboxTypeParts DEF OutboxInit

\* A request for a batch of the check, whether or not its answer arrives.
LEMMA SentInRange ==
    ASSUME OutboxTypeOK, NEW w \in Workers, dispatcher[w].pc = "writing",
           sent' = [sent EXCEPT ![dispatcher[w].effect] = @ \cup {dispatcher[w].batch}],
           UNCHANGED <<headMoved, authorized>>
    PROVE  GithubOK'
<1> DEFINE e == dispatcher[w].effect
<1>1. /\ e \in Effects /\ dispatcher[w].batch \in Nat \ {0} /\ dispatcher[w].batch <= Batches(e)
      /\ Batches(e) \in Nat
  BY DispatcherByPc, AtLeastOneBatch DEF Writing, OutboxTypeOK
<1>2. dispatcher[w].batch \in 1 .. Batches(e)
  BY <1>1
<1>3. sent'[e] = sent[e] \cup {dispatcher[w].batch} /\ \A x \in Effects \ {e} : sent'[x] = sent[x]
  BY <1>1 DEF OutboxTypeOK
<1>4. \A x \in Effects : sent'[x] \subseteq 1 .. Batches(x)
  BY <1>2, <1>3 DEF OutboxTypeOK
<1>5. sent' \in [Effects -> SUBSET Nat]
  BY <1>1 DEF OutboxTypeOK
<1> QED
  BY <1>4, <1>5 DEF GithubOK, OutboxTypeOK

LEMMA OutboxTypeStep ==
    ASSUME OutboxTypeOK, [OutboxNext]_outbox
    PROVE  OutboxTypeOK'
<1> USE WorkersAssumption
<1>1. /\ RowsOK /\ DispatchersOK /\ GithubOK
      /\ mode \in [Effects -> Modes] /\ writeDisabled \in BOOLEAN
  BY OutboxTypeParts
<1>2. UNCHANGED effects => RowsOK'
  BY <1>1 DEF RowsOK
<1>3. UNCHANGED dispatcher => DispatchersOK'
  BY <1>1 DEF DispatchersOK
<1>4. UNCHANGED github => GithubOK'
  BY <1>1 DEF GithubOK, github
<1>5. ASSUME RowsOK', DispatchersOK', GithubOK', UNCHANGED mode, writeDisabled' \in BOOLEAN
      PROVE  OutboxTypeOK'
  BY <1>1, <1>5 DEF OutboxTypeOK, RowsOK, DispatchersOK, GithubOK, OutboxRow
<1>6. ASSUME NEW e \in Effects, effects' = [effects EXCEPT ![e] = effects'[e]],
             effects'[e] \in OutboxRow,
             (effects'[e].leaseOwner # NoWorker) <=> (effects'[e].state = "leased")
      PROVE  RowsOK'
  BY <1>1, <1>6 DEF RowsOK
<1>7. ASSUME NEW w \in Workers, dispatcher' = [dispatcher EXCEPT ![w] = IdleDispatcher]
      PROVE  DispatchersOK'
  <2>1. dispatcher' \in [Workers -> DispatcherState]
    BY <1>1, <1>7, ShapesAreStates DEF DispatchersOK
  <2>2. \A v \in Workers : dispatcher'[v].pc = "writing" => dispatcher'[v] = dispatcher[v]
    BY <1>1, <1>7 DEF DispatchersOK, IdleDispatcher
  <2> QED
    BY <1>1, <2>1, <2>2 DEF DispatchersOK
<1>8. ASSUME NEW w \in Workers, Onward(w),
             dispatcher'[w].pc = "writing" => dispatcher'[w].batch <= Batches(dispatcher'[w].effect)
      PROVE  DispatchersOK'
  <2>1. dispatcher' \in [Workers -> DispatcherState]
    BY <1>1, <1>8, ShapesAreStates DEF DispatchersOK, Onward
  <2>2. \A v \in Workers \ {w} : dispatcher'[v] = dispatcher[v]
    BY <1>1, <1>8 DEF DispatchersOK, Onward
  <2> QED
    BY <1>1, <1>8, <2>1, <2>2 DEF DispatchersOK
<1>9. ASSUME NEW e \in Effects, NEW state \in {"available", "disabled"}, EnqueueDelivery(e, state)
      PROVE  OutboxTypeOK'
  <2> DEFINE row == [InsertedRow EXCEPT !.state = state]
  <2>1. row \in OutboxRow /\ row.leaseOwner = NoWorker /\ row.state = state
    BY EffectRowInserted
  <2> HIDE DEF row
  <2>2. effects' = [effects EXCEPT ![e] = row] /\ UNCHANGED <<mode, dispatcher, github, writeDisabled>>
    BY <1>9 DEF EnqueueDelivery, row
  <2>3. RowsOK'
    BY <1>1, <2>1, <2>2 DEF RowsOK
  <2> QED
    BY <1>1, <1>3, <1>4, <1>5, <2>2, <2>3
<1>10. ASSUME NEW e \in Effects, EffectLeaseExpires(e) \/ EffectRetryDue(e)
       PROVE  OutboxTypeOK'
  <2>1. RowsOK'
    BY <1>1, <1>6, <1>10, EffectRowAged DEF RowsOK
  <2> QED
    BY <1>1, <1>3, <1>4, <1>5, <1>10, <2>1, EffectRowAged
<1>11. ASSUME NEW e \in Effects, HeadMoves(e)
       PROVE  OutboxTypeOK'
  <2>1. GithubOK'
    BY <1>1, <1>11 DEF HeadMoves, GithubOK
  <2> QED
    BY <1>1, <1>2, <1>3, <1>5, <1>11, <2>1 DEF HeadMoves
<1>12. CASE AuthorizationChanges
  <2>1. GithubOK'
    BY <1>1, <1>12 DEF AuthorizationChanges, GithubOK
  <2> QED
    BY <1>1, <1>2, <1>3, <1>5, <1>12, <2>1 DEF AuthorizationChanges
<1>13. CASE SetWriteDisabled
  BY <1>1, <1>2, <1>3, <1>4, <1>5, <1>13 DEF SetWriteDisabled
<1>14. CASE DisablePendingDeliveries
  <2>1. \A e \in Effects : LET row == SettledRow(effects[e], "disabled")
                           IN  row \in OutboxRow /\ row.leaseOwner = NoWorker /\ row.state = "disabled"
    BY <1>1, EffectRowSettled DEF EffectSettled, RowsOK
  <2>2. RowsOK'
    BY <1>1, <1>14, <2>1 DEF DisablePendingDeliveries, RowsOK
  <2> QED
    BY <1>1, <1>3, <1>4, <1>5, <1>14, <2>2 DEF DisablePendingDeliveries
<1>15. ASSUME NEW w \in Workers, NEW e \in Effects, ClaimDelivery(w, e)
       PROVE  OutboxTypeOK'
  <2>1. /\ ClaimedRow(effects[e], w) \in OutboxRow
        /\ ClaimedRow(effects[e], w).leaseOwner = w /\ ClaimedRow(effects[e], w).state = "leased"
        /\ effects[e].attempt + 1 \in 1 .. MaximumAttempts
    BY <1>1, <1>15, EffectRowClaimed DEF ClaimDelivery, RowsOK
  <2>2. RowsOK'
    BY <1>1, <1>15, <2>1 DEF ClaimDelivery, RowsOK
  <2> DEFINE state == [pc |-> "claimed", effect |-> e, attempt |-> effects[e].attempt + 1,
                       staleClaim |-> e \in headMoved]
  <2>3. state \in DispatcherState
    <3>1. (e \in headMoved) \in BOOLEAN
      OBVIOUS
    <3> QED
      BY <2>1, <3>1 DEF DispatcherState
  <2>4. dispatcher' = [dispatcher EXCEPT ![w] = state] /\ state.pc = "claimed"
    BY <1>15 DEF ClaimDelivery
  <2> HIDE DEF state
  <2>5. DispatchersOK'
    BY <1>1, <2>3, <2>4 DEF DispatchersOK
  <2> QED
    BY <1>1, <1>4, <1>5, <1>15, <2>2, <2>5 DEF ClaimDelivery
<1>16. ASSUME NEW w \in Workers, StartWrite(w) \/ Reauthorize(w)
       PROVE  OutboxTypeOK'
  BY <1>1, <1>2, <1>4, <1>5, <1>8, <1>16, QuietOnward DEF Onward
<1>17. ASSUME NEW w \in Workers, CheckHead(w)
       PROVE  OutboxTypeOK'
  <2>1. Onward(w) /\ UNCHANGED github /\ (dispatcher'[w].pc = "writing" => dispatcher'[w].batch = 1)
    BY <1>17, HeadCheckOnward
  <2>2. Batches(dispatcher'[w].effect) \in Nat \ {0}
    BY <2>1, AtLeastOneBatch, DispatcherByPc DEF Onward
  <2>3. DispatchersOK'
    BY <1>8, <2>1, <2>2
  <2> QED
    BY <1>1, <1>2, <1>4, <1>5, <2>1, <2>3 DEF Onward
<1>18. ASSUME NEW w \in Workers, UpsertCheck(w)
       PROVE  OutboxTypeOK'
  <2> DEFINE e == dispatcher[w].effect
             b == dispatcher[w].batch
  <2>1. /\ Onward(w) /\ UNCHANGED <<headMoved, authorized>>
        /\ dispatcher[w] \in Writing
        /\ sent' = [sent EXCEPT ![e] = @ \cup {b}]
        /\ b = Batches(e) => dispatcher'[w].pc = "resolving"
        /\ b # Batches(e) => dispatcher'[w].pc = "writing" /\ dispatcher'[w].batch = b + 1
    BY <1>18, UpsertOnward
  <2>2. e \in Effects /\ b \in Nat /\ dispatcher[w].pc = "writing" /\ dispatcher'[w].effect = e
    BY <2>1 DEF Writing, Onward
  <2>3. b <= Batches(e) /\ Batches(e) \in Nat
    BY <1>1, <2>2, AtLeastOneBatch DEF DispatchersOK
  <2>4. dispatcher'[w].pc = "writing" => dispatcher'[w].batch <= Batches(dispatcher'[w].effect)
    BY <2>1, <2>2, <2>3
  <2>5. DispatchersOK' /\ GithubOK'
    BY <1>8, <2>1, <2>2, <2>4, SentInRange
  <2> QED
    BY <1>1, <1>2, <1>5, <2>1, <2>5 DEF Onward
<1>19. ASSUME NEW w \in Workers, ResolveDelivery(w) \/ FailDelivery(w) \/ UpsertCheckLost(w)
       PROVE  OutboxTypeOK'
  <2>1. Verdict(w) /\ dispatcher[w].effect \in Effects
    BY <1>19, ReportsAreVerdicts, DispatcherByPc DEF Verdict
  <2>2. RowsOK' /\ DispatchersOK'
    BY <1>2, <1>6, <1>7, <2>1 DEF Verdict
  <2>3. GithubOK'
    BY <1>4, <1>19, SentInRange DEF ResolveDelivery, FailDelivery, UpsertCheckLost
  <2> QED
    BY <1>1, <1>5, <1>19, <2>2, <2>3 DEF ResolveDelivery, FailDelivery, UpsertCheckLost
<1>20. ASSUME NEW w \in Workers, CrashDispatcher(w)
       PROVE  OutboxTypeOK'
  BY <1>1, <1>2, <1>4, <1>5, <1>7, <1>20 DEF CrashDispatcher
<1>21. CASE UNCHANGED outbox
  BY <1>1, <1>2, <1>3, <1>4, <1>5, <1>21 DEF outbox
<1> QED
  BY <1>9, <1>10, <1>11, <1>12, <1>13, <1>14, <1>15, <1>16, <1>17, <1>18, <1>19, <1>20, <1>21
  DEF OutboxNext, EnvironmentStep, ReportStep

\* Type correctness of the outbox: leases as above, at most MaximumAttempts claims
\* of a row, and every request within the batches that chunks made.
THEOREM OutboxTypeCorrect == OutboxSpec => []OutboxTypeOK
<1>1. OutboxTypeOK /\ [OutboxNext]_outbox => OutboxTypeOK'
  BY OutboxTypeStep
<1> QED
  BY OutboxTypeInit, <1>1, PTL DEF OutboxSpec

-----------------------------------------------------------------------------
(* The outbox: leases, and what a dispatcher at work knows. *)

\* What every step does to a dispatcher: it claims, goes on, or is as before.
LEMMA DispatcherStep ==
    ASSUME OutboxTypeOK, [OutboxNext]_outbox, NEW w \in Workers, Working(w)'
    PROVE  \/ \E e \in Effects : ClaimDelivery(w, e)
           \/ Onward(w) /\ (StartWrite(w) \/ Reauthorize(w) \/ CheckHead(w) \/ UpsertCheck(w))
           \/ dispatcher'[w] = dispatcher[w]
<1>1. UNCHANGED dispatcher => dispatcher'[w] = dispatcher[w]
  OBVIOUS
<1>2. EnvironmentStep => UNCHANGED dispatcher
  BY DEF EnvironmentStep, EnqueueDelivery, EffectLeaseExpires, EffectRetryDue, HeadMoves,
         AuthorizationChanges, SetWriteDisabled, DisablePendingDeliveries
<1>3. UNCHANGED outbox => UNCHANGED dispatcher
  BY DEF outbox
<1>4. ASSUME NEW v \in Workers, NEW e \in Effects, ClaimDelivery(v, e), v # w
      PROVE  dispatcher'[w] = dispatcher[w]
  BY <1>4 DEF ClaimDelivery, OutboxTypeOK
<1>5. ASSUME NEW v \in Workers, dispatcher' = [dispatcher EXCEPT ![v] = IdleDispatcher]
      PROVE  dispatcher'[w] = dispatcher[w]
  BY <1>5 DEF OutboxTypeOK, Working, IdleDispatcher
<1>6. ASSUME NEW v \in Workers, CrashDispatcher(v)
      PROVE  dispatcher'[w] = dispatcher[w]
  BY <1>5, <1>6 DEF CrashDispatcher
<1>7. ASSUME NEW v \in Workers, ResolveDelivery(v) \/ FailDelivery(v) \/ UpsertCheckLost(v)
      PROVE  dispatcher'[w] = dispatcher[w]
  BY <1>5, <1>7, ReportsAreVerdicts DEF Verdict
<1>8. ASSUME NEW v \in Workers, StartWrite(v) \/ Reauthorize(v) \/ CheckHead(v) \/ UpsertCheck(v)
      PROVE  Onward(v) /\ (v # w => dispatcher'[w] = dispatcher[w])
  <2>1. Onward(v)
    BY <1>8, QuietOnward, HeadCheckOnward, UpsertOnward
  <2> QED
    BY <2>1 DEF Onward, OutboxTypeOK
<1> QED
  BY <1>1, <1>2, <1>3, <1>4, <1>6, <1>7, <1>8 DEF OutboxNext, ReportStep

\* What every step does to a row: it is inserted, ages, is disabled, is claimed,
\* is given back by its owner, or stays.
LEMMA EffectStep ==
    ASSUME OutboxTypeOK, [OutboxNext]_outbox, NEW e \in Effects, effects'[e] # effects[e]
    PROVE  \/ effects[e].state = "absent" /\ effects'[e].state \in {"available", "disabled"}
           \/ /\ effects'[e].state = effects[e].state /\ effects'[e].attempt = effects[e].attempt
              /\ effects'[e].leaseOwner = effects[e].leaseOwner
           \/ effects'[e].state = "disabled"
           \/ \E w \in Workers : ClaimDelivery(w, e)
           \/ \E w \in Workers :
                 /\ Verdict(w) /\ dispatcher[w].effect = e /\ HeldBy(effects[e], w)
                 /\ effects'[e].state # "leased"
                 /\ effects'[e].state = "delivered" =>
                      dispatcher[w].pc = "resolving" /\ dispatcher[w].result = "delivered"
<1>1. ASSUME NEW x \in Effects, NEW state \in {"available", "disabled"}, EnqueueDelivery(x, state)
      PROVE  effects[e].state = "absent" /\ effects'[e].state \in {"available", "disabled"}
  <2> DEFINE row == [InsertedRow EXCEPT !.state = state]
  <2>1. row.state = state
    BY EffectRowInserted
  <2> HIDE DEF row
  <2>2. effects' = [effects EXCEPT ![x] = row] /\ effects[x].state = "absent"
    BY <1>1 DEF EnqueueDelivery, row
  <2> QED
    BY <2>1, <2>2 DEF OutboxTypeOK
<1>2. ASSUME NEW x \in Effects, EffectLeaseExpires(x) \/ EffectRetryDue(x)
      PROVE  /\ effects'[e].state = effects[e].state /\ effects'[e].attempt = effects[e].attempt
             /\ effects'[e].leaseOwner = effects[e].leaseOwner
  BY <1>2, EffectRowAged DEF OutboxTypeOK
<1>3. ASSUME DisablePendingDeliveries
      PROVE  effects'[e].state = "disabled"
  <2>1. SettledRow(effects[e], "disabled").state = "disabled"
    BY EffectRowSettled DEF OutboxTypeOK, OutboxRow, EffectSettled
  <2> QED
    BY <1>3, <2>1 DEF DisablePendingDeliveries
<1>4. ASSUME NEW w \in Workers, NEW x \in Effects, ClaimDelivery(w, x)
      PROVE  ClaimDelivery(w, e)
  BY <1>4 DEF ClaimDelivery, OutboxTypeOK
<1>5. ASSUME NEW w \in Workers, ResolveDelivery(w) \/ FailDelivery(w) \/ UpsertCheckLost(w)
      PROVE  /\ Verdict(w) /\ dispatcher[w].effect = e /\ HeldBy(effects[e], w)
             /\ effects'[e].state # "leased"
             /\ effects'[e].state = "delivered" =>
                  dispatcher[w].pc = "resolving" /\ dispatcher[w].result = "delivered"
  <2>1. Verdict(w) /\ dispatcher[w].effect \in Effects
    BY <1>5, ReportsAreVerdicts, DispatcherByPc DEF Verdict
  <2>2. dispatcher[w].effect = e
    BY <2>1 DEF Verdict, OutboxTypeOK
  <2> QED
    BY <2>1, <2>2 DEF Verdict
<1>6. ASSUME UNCHANGED effects
      PROVE  FALSE
  BY <1>6
<1>7. ASSUME NEW w \in Workers,
             StartWrite(w) \/ Reauthorize(w) \/ CheckHead(w) \/ UpsertCheck(w) \/ CrashDispatcher(w)
      PROVE  UNCHANGED effects
  BY <1>7 DEF StartWrite, Reauthorize, CheckHead, UpsertCheck, CrashDispatcher
<1>8. ASSUME NEW x \in Effects, HeadMoves(x)
      PROVE  UNCHANGED effects
  BY <1>8 DEF HeadMoves
<1>9. AuthorizationChanges \/ SetWriteDisabled \/ UNCHANGED outbox => UNCHANGED effects
  BY DEF AuthorizationChanges, SetWriteDisabled, outbox
<1> QED
  BY <1>1, <1>2, <1>3, <1>4, <1>5, <1>6, <1>7, <1>8, <1>9
  DEF OutboxNext, EnvironmentStep, ReportStep

\* The owner of a lease that is still at work on the row made the latest claim.
OutboxLease ==
    \A w \in Workers : \A e \in Effects :
        Working(w) /\ dispatcher[w].effect = e /\ HeldBy(effects[e], w) =>
            dispatcher[w].attempt = effects[e].attempt

\* A claim: the row and the dispatcher agree on the new attempt.
LEMMA ClaimAgrees ==
    ASSUME OutboxTypeOK, NEW w \in Workers, NEW e \in Effects, ClaimDelivery(w, e)
    PROVE  /\ effects'[e].attempt = effects[e].attempt + 1 /\ effects'[e].leaseOwner = w
           /\ effects'[e].state = "leased"
           /\ \A x \in Effects \ {e} : effects'[x] = effects[x]
           /\ dispatcher'[w].pc = "claimed" /\ dispatcher'[w].effect = e
           /\ dispatcher'[w].attempt = effects[e].attempt + 1
           /\ dispatcher'[w].staleClaim <=> e \in headMoved
           /\ \A v \in Workers \ {w} : dispatcher'[v] = dispatcher[v]
           /\ ~Working(w)
<1>1. /\ ClaimedRow(effects[e], w).attempt = effects[e].attempt + 1
      /\ ClaimedRow(effects[e], w).leaseOwner = w /\ ClaimedRow(effects[e], w).state = "leased"
  BY EffectRowClaimed DEF ClaimDelivery, OutboxTypeOK, OutboxRow
<1> DEFINE state == [pc |-> "claimed", effect |-> e, attempt |-> effects[e].attempt + 1,
                     staleClaim |-> e \in headMoved]
<1>2. dispatcher' = [dispatcher EXCEPT ![w] = state]
  BY DEF ClaimDelivery
<1>3. state.pc = "claimed" /\ state.effect = e /\ state.attempt = effects[e].attempt + 1
  OBVIOUS
<1>4. state.staleClaim <=> e \in headMoved
  BY Zenon
<1> HIDE DEF state
<1>5. dispatcher'[w] = state /\ \A v \in Workers \ {w} : dispatcher'[v] = dispatcher[v]
  BY <1>2 DEF OutboxTypeOK
<1>6. ~Working(w) /\ effects' = [effects EXCEPT ![e] = ClaimedRow(effects[e], w)]
  BY DEF ClaimDelivery, Working
<1>7. effects'[e] = ClaimedRow(effects[e], w) /\ \A x \in Effects \ {e} : effects'[x] = effects[x]
  BY <1>6 DEF OutboxTypeOK
<1> QED
  BY <1>1, <1>3, <1>4, <1>5, <1>6, <1>7

LEMMA OutboxLeaseStep ==
    ASSUME OutboxTypeOK, OutboxLease, [OutboxNext]_outbox
    PROVE  OutboxLease'
<1> USE WorkersAssumption
<1> SUFFICES ASSUME NEW w \in Workers, NEW e \in Effects, Working(w)',
                    dispatcher'[w].effect = e, HeldBy(effects'[e], w)
             PROVE  dispatcher'[w].attempt = effects'[e].attempt
  BY DEF OutboxLease
<1>1. CASE \E x \in Effects : ClaimDelivery(w, x)
  <2>1. PICK x \in Effects : ClaimDelivery(w, x)
    BY <1>1
  <2>2. /\ dispatcher'[w].effect = x /\ dispatcher'[w].attempt = effects[x].attempt + 1
        /\ effects'[x].attempt = effects[x].attempt + 1
    BY <2>1, ClaimAgrees
  <2> QED
    BY <2>2
<1>2. CASE ~ \E x \in Effects : ClaimDelivery(w, x)
  <2>1. Working(w) /\ dispatcher[w].effect = e /\ dispatcher'[w].attempt = dispatcher[w].attempt
    BY <1>2, DispatcherStep DEF Onward, Working
  <2>2. HeldBy(effects[e], w) /\ effects'[e].attempt = effects[e].attempt
    <3>1. CASE effects'[e] = effects[e]
      BY <3>1
    <3>2. CASE effects'[e] # effects[e]
      <4>1. ASSUME NEW v \in Workers, ClaimDelivery(v, e)
            PROVE  v = w
        BY <4>1, ClaimAgrees DEF HeldBy
      <4> QED
        BY <1>2, <3>2, <4>1, EffectStep DEF HeldBy
    <3> QED
      BY <3>1, <3>2
  <2> QED
    BY <2>1, <2>2 DEF OutboxLease
<1> QED
  BY <1>1, <1>2

\* resolveDelivery and failDelivery compare the lease owner and no attempt number,
\* and still only the worker of the latest claim ends a lease.
LEMMA OutboxVerdict ==
    ASSUME OutboxTypeOK, OutboxLease, [OutboxNext]_outbox, NEW e \in Effects,
           effects[e].state = "leased", effects'[e].state \notin {"leased", "disabled"}
    PROVE  \E w \in Workers :
               /\ Working(w) /\ dispatcher'[w].pc = "idle"
               /\ dispatcher[w].effect = e
               /\ dispatcher[w].attempt = effects[e].attempt
<1>1. \A w \in Workers : ~ClaimDelivery(w, e)
  BY ClaimAgrees
<1>2. PICK w \in Workers : Verdict(w) /\ dispatcher[w].effect = e /\ HeldBy(effects[e], w)
  BY <1>1, EffectStep
<1>3. Working(w) /\ dispatcher'[w].pc = "idle"
  BY <1>2 DEF Verdict, OutboxTypeOK, IdleDispatcher
<1> QED
  BY <1>2, <1>3 DEF OutboxLease

-----------------------------------------------------------------------------
(* The outbox: what has been written. *)

\* A dispatcher that writes a batch has sent the ones before it, and one that
\* returns "delivered" all of them: batches are only ever added to a check.  A
\* claim is stale only if the head has moved, and it never moves back.
WrittenInv ==
    /\ \A w \in Workers : dispatcher[w].pc = "writing" =>
           1 .. dispatcher[w].batch - 1 \subseteq sent[dispatcher[w].effect]
    /\ \A w \in Workers : dispatcher[w].pc = "resolving" /\ dispatcher[w].result = "delivered" =>
           1 .. Batches(dispatcher[w].effect) \subseteq sent[dispatcher[w].effect]
    /\ \A e \in Effects : effects[e].state = "delivered" => 1 .. Batches(e) \subseteq sent[e]
    /\ \A w \in Workers : Working(w) /\ dispatcher[w].staleClaim => dispatcher[w].effect \in headMoved
    /\ StaleClaimNeverWrites

LEMMA ProviderOnlyGrows ==
    ASSUME OutboxTypeOK, [OutboxNext]_outbox
    PROVE  headMoved \subseteq headMoved' /\ \A e \in Effects : sent[e] \subseteq sent'[e]
<1>1. UNCHANGED github => headMoved \subseteq headMoved' /\ \A e \in Effects : sent[e] \subseteq sent'[e]
  BY DEF github
<1>2. ASSUME NEW w \in Workers, UpsertCheck(w) \/ UpsertCheckLost(w)
      PROVE  headMoved \subseteq headMoved' /\ \A e \in Effects : sent[e] \subseteq sent'[e]
  BY <1>2 DEF UpsertCheck, UpsertCheckLost, OutboxTypeOK
<1>3. ASSUME NEW e \in Effects, HeadMoves(e)
      PROVE  headMoved \subseteq headMoved' /\ \A x \in Effects : sent[x] \subseteq sent'[x]
  BY <1>3 DEF HeadMoves
<1>4. CASE AuthorizationChanges
  BY <1>4 DEF AuthorizationChanges
<1>5. ASSUME NEW w \in Workers,
             \/ \E e \in Effects : ClaimDelivery(w, e)
             \/ StartWrite(w) \/ Reauthorize(w) \/ CheckHead(w) \/ ResolveDelivery(w)
             \/ FailDelivery(w) \/ CrashDispatcher(w)
      PROVE  UNCHANGED github
  BY <1>5 DEF ClaimDelivery, StartWrite, Reauthorize, CheckHead, ResolveDelivery, FailDelivery,
              CrashDispatcher
<1>6. ASSUME \/ \E e \in Effects, state \in {"available", "disabled"} : EnqueueDelivery(e, state)
             \/ \E e \in Effects : EffectLeaseExpires(e) \/ EffectRetryDue(e)
             \/ SetWriteDisabled \/ DisablePendingDeliveries \/ UNCHANGED outbox
      PROVE  UNCHANGED github
  BY <1>6 DEF EnqueueDelivery, EffectLeaseExpires, EffectRetryDue, SetWriteDisabled,
              DisablePendingDeliveries, outbox
<1> QED
  BY <1>1, <1>2, <1>3, <1>4, <1>5, <1>6 DEF OutboxNext, EnvironmentStep, ReportStep

\* One more batch: what was sent up to it, and the whole check after the last one.
LEMMA BatchSent ==
    ASSUME NEW b \in Nat \ {0}, NEW before, 1 .. b - 1 \subseteq before
    PROVE  1 .. b \subseteq before \cup {b}
<1> SUFFICES ASSUME NEW i \in 1 .. b, i # b
             PROVE  i \in before
  OBVIOUS
<1>1. i \in 1 .. b - 1
  OBVIOUS
<1> QED
  BY <1>1

LEMMA WrittenStep ==
    ASSUME OutboxTypeOK, WrittenInv, [OutboxNext]_outbox
    PROVE  WrittenInv'
<1> USE ProviderOnlyGrows
<1>1. ASSUME NEW e \in Effects, effects'[e].state = "delivered"
      PROVE  1 .. Batches(e) \subseteq sent'[e]
  <2>1. CASE effects'[e].state = effects[e].state
    BY <1>1, <2>1 DEF WrittenInv
  <2>2. CASE effects'[e].state # effects[e].state
    <3>1. \A w \in Workers : ~ClaimDelivery(w, e)
      BY <1>1, ClaimAgrees
    <3>2. PICK w \in Workers : /\ dispatcher[w].effect = e
                               /\ dispatcher[w].pc = "resolving" /\ dispatcher[w].result = "delivered"
      BY <1>1, <2>2, <3>1, EffectStep
    <3> QED
      BY <3>2 DEF WrittenInv
  <2> QED
    BY <2>1, <2>2
<1> DEFINE Knows(w) ==
        /\ dispatcher'[w].pc = "writing" =>
             /\ 1 .. dispatcher'[w].batch - 1 \subseteq sent'[dispatcher'[w].effect]
             /\ ~dispatcher'[w].staleClaim
        /\ dispatcher'[w].pc = "resolving" /\ dispatcher'[w].result = "delivered" =>
             1 .. Batches(dispatcher'[w].effect) \subseteq sent'[dispatcher'[w].effect]
        /\ dispatcher'[w].pc # "idle" /\ dispatcher'[w].staleClaim => dispatcher'[w].effect \in headMoved'
<1>2. ASSUME NEW w \in Workers, dispatcher'[w] = dispatcher[w]
      PROVE  Knows(w)
  <2>1. dispatcher[w].pc # "idle" => dispatcher[w].effect \in Effects
    BY DispatcherByPc DEF Working
  <2> QED
    BY <1>2, <2>1 DEF WrittenInv, StaleClaimNeverWrites, Working
<1>3. ASSUME NEW w \in Workers, NEW e \in Effects, ClaimDelivery(w, e)
      PROVE  Knows(w)
  <2>1. /\ dispatcher'[w].pc = "claimed" /\ dispatcher'[w].effect = e
        /\ dispatcher'[w].staleClaim => e \in headMoved
    BY <1>3, ClaimAgrees
  <2> QED
    BY <2>1
<1>4. ASSUME NEW w \in Workers, Onward(w)
      PROVE  dispatcher'[w].staleClaim => dispatcher'[w].effect \in headMoved'
  BY <1>4 DEF Onward, WrittenInv
<1>5. ASSUME NEW w \in Workers, StartWrite(w) \/ Reauthorize(w)
      PROVE  Knows(w)
  BY <1>4, <1>5, QuietOnward
<1>6. ASSUME NEW w \in Workers, CheckHead(w)
      PROVE  Knows(w)
  <2>1. /\ Onward(w) /\ UNCHANGED github
        /\ dispatcher'[w].pc = "writing" =>
             dispatcher'[w].batch = 1 /\ dispatcher[w].effect \notin headMoved
        /\ dispatcher'[w].pc = "resolving" => dispatcher'[w].result # "delivered"
    BY <1>6, HeadCheckOnward
  <2>2. dispatcher'[w].pc = "writing" => ~dispatcher'[w].staleClaim
    BY <2>1 DEF Onward, WrittenInv
  <2> QED
    BY <1>4, <2>1, <2>2
<1>7. ASSUME NEW w \in Workers, UpsertCheck(w)
      PROVE  Knows(w)
  <2> DEFINE e == dispatcher[w].effect
             b == dispatcher[w].batch
  <2>1. /\ Onward(w) /\ UNCHANGED <<headMoved, authorized>>
        /\ dispatcher[w] \in Writing
        /\ sent' = [sent EXCEPT ![e] = @ \cup {b}]
        /\ b = Batches(e) => dispatcher'[w].pc = "resolving"
        /\ b # Batches(e) => dispatcher'[w].pc = "writing" /\ dispatcher'[w].batch = b + 1
    BY <1>7, UpsertOnward
  <2>2. e \in Effects /\ b \in Nat \ {0} /\ dispatcher[w].pc = "writing"
    BY <2>1 DEF Writing
  <2>3. 1 .. b \subseteq sent'[e]
    BY <2>1, <2>2, BatchSent DEF WrittenInv, OutboxTypeOK
  <2>4. dispatcher'[w].effect = e /\ dispatcher'[w].staleClaim = dispatcher[w].staleClaim
    BY <2>1 DEF Onward
  <2>5. ~dispatcher[w].staleClaim
    BY <2>2 DEF WrittenInv, StaleClaimNeverWrites
  <2>6. CASE b = Batches(e)
    BY <2>1, <2>3, <2>4, <2>5, <2>6
  <2>7. CASE b # Batches(e)
    BY <2>1, <2>2, <2>3, <2>4, <2>5, <2>7
  <2> QED
    BY <2>6, <2>7
<1>8. ASSUME NEW w \in Workers, dispatcher'[w].pc = "idle"
      PROVE  Knows(w)
  BY <1>8
<1> HIDE DEF Knows
<1>9. \A w \in Workers : Knows(w)
  BY <1>2, <1>3, <1>5, <1>6, <1>7, <1>8, DispatcherStep DEF Working
<1> QED
  BY <1>1, <1>9 DEF WrittenInv, StaleClaimNeverWrites, Working, Knows

LEMMA WrittenAlways == OutboxSpec => []WrittenInv
<1>1. OutboxInit => WrittenInv
  <2>1. AbsentRow.state = "absent"
    BY DEF AbsentRow
  <2> QED
    BY <2>1 DEF OutboxInit, WrittenInv, StaleClaimNeverWrites, IdleDispatcher, Working
<1>2. OutboxTypeOK /\ WrittenInv /\ [OutboxNext]_outbox => WrittenInv'
  BY WrittenStep
<1> QED
  BY <1>1, <1>2, OutboxTypeCorrect, PTL DEF OutboxSpec

\* GitHubCheckWriter.write with processNextDelivery's retries: an outbox row says
\* delivered only when every annotation batch of its check was written, however
\* attempts were cut short, overlapped or lost their lease.
THEOREM DeliveredChecksAreWhole == OutboxSpec => []DeliveredIsWhole
<1>1. OutboxTypeOK /\ WrittenInv => DeliveredIsWhole
  BY DEF OutboxTypeOK, WrittenInv, DeliveredIsWhole
<1> QED
  BY <1>1, OutboxTypeCorrect, WrittenAlways, PTL

\* The head check of write(): a delivery claimed after its head was replaced sends
\* no request, on any attempt.
THEOREM StaleClaimsSendNothing == OutboxSpec => []StaleClaimNeverWrites
<1>1. WrittenInv => StaleClaimNeverWrites
  BY DEF WrittenInv
<1> QED
  BY <1>1, WrittenAlways, PTL

LEMMA LatestOutboxClaimDecides == OutboxSpec => OutboxVerdictOfLatestClaim
<1> DEFINE Given ==
        \A e \in Effects :
            effects[e].state = "leased" /\ effects'[e].state \notin {"leased", "disabled"} =>
              \E w \in Workers :
                  /\ Working(w) /\ dispatcher'[w].pc = "idle"
                  /\ dispatcher[w].effect = e
                  /\ dispatcher[w].attempt = effects[e].attempt
<1>1. OutboxInit => OutboxLease
  BY DEF OutboxInit, OutboxLease, Working, IdleDispatcher
<1>2. OutboxTypeOK /\ OutboxLease /\ [OutboxNext]_outbox => OutboxLease'
  BY OutboxLeaseStep
<1>3. OutboxTypeOK /\ OutboxLease /\ [OutboxNext]_outbox => Given
  BY OutboxVerdict
<1>4. [][Given]_outbox => OutboxVerdictOfLatestClaim
  BY DEF OutboxVerdictOfLatestClaim
<1> HIDE DEF Given
<1> QED
  BY <1>1, <1>2, <1>3, <1>4, OutboxTypeCorrect, PTL DEF OutboxSpec

\* The two loops of a host: no worker that lost its lease decides anything about a
\* webhook or a delivery, although no statement compares attempt numbers.
THEOREM LatestClaimDecides == LoopsSpec => VerdictOfLatestClaim
<1>1. LoopsInit => Init /\ OutboxInit
  BY DEF LoopsInit
<1>2. [LoopsNext]_<<vars, outbox>> => [Next]_vars /\ [OutboxNext]_outbox
  BY DEF LoopsNext
<1>3. LoopsSpec => Spec /\ OutboxSpec
  BY <1>1, <1>2, PTL DEF LoopsSpec, Spec, OutboxSpec
<1> QED
  BY <1>3, LatestWebhookClaimDecides, LatestOutboxClaimDecides, PTL DEF VerdictOfLatestClaim
=============================================================================
