------------------------- MODULE WebhookScheduling -------------------------
(***************************************************************************)
(* From a signed webhook to a durable job: GitHubWebhookReceiver.receive,  *)
(* GitHubHostedRuntime.processNextWebhook and the statements they run on   *)
(* reverb_webhook_inbox and reverb_hosted_jobs.                            *)
(*                                                                         *)
(* processNextWebhook is a sequence of separate transactions (claim,       *)
(* enqueue, supersede, resolve); any number of workers interleave between  *)
(* them, crash, overrun their lease, or see a statement fail.              *)
(***************************************************************************)
EXTENDS LeasedRow, FiniteSets

CONSTANTS
    Deliveries,               \* accepted deliveries, numbered by arrival
    Event,                    \* the safe pointer of each delivery
    MaximumWebhookAttempts    \* #maximumWebhookAttempts

ASSUME DeliveriesAssumption == Deliveries \subseteq Nat
ASSUME AttemptsAssumption == MaximumWebhookAttempts \in Nat \ {0}

VARIABLES
    inbox,          \* reverb_webhook_inbox by delivery
    jobs,           \* reverb_hosted_jobs by the delivery that idempotently names it
    scheduler,      \* where each worker is inside processNextWebhook
    readDisabled    \* HostedOperationalControls: the read switch

vars == <<inbox, jobs, scheduler, readDisabled>>

-----------------------------------------------------------------------------
(* Routing. *)

NoKey == <<>>

\* routeWebhook: the job kind of an event.  The receiver admits no other.
RouteKind(event) ==
    CASE event.type = "push" -> "index_generation"
      [] event.type = "pull_request" /\ event.action = "closed" -> "reconcile_provider"
      [] event.type = "pull_request" /\ event.action # "closed" -> "analyze_pull_request"
      [] event.type = "check_run" -> "record_review"
      [] event.type \in {"installation", "installation_repositories"} -> "reconcile_provider"

\* The hash over (workspace, repository, pull request or ref, kind), as the
\* tuple it is injective in; other kinds are never superseded.
SupersessionKey(d) ==
    LET kind == RouteKind(Event[d])
    IN  IF kind \in {"analyze_pull_request", "index_generation"}
        THEN <<kind, Event[d].repository, Event[d].subject>>
        ELSE NoKey

Rivals(d) == {e \in Deliveries : SupersessionKey(e) = SupersessionKey(d)} \ {d}

-----------------------------------------------------------------------------
(* State. *)

InboxRow ==
    [state        : {"absent", "pending", "processing", "processed", "failed"},
     attempt      : 0 .. (MaximumWebhookAttempts + 1),
     leaseOwner   : Workers \cup {NoWorker},
     leaseExpired : BOOLEAN]

IdleScheduler == [pc |-> "idle"]

SchedulerState ==
    {IdleScheduler} \cup
    [pc       : {"claimed", "enqueued", "scheduled"},
     delivery : Deliveries,
     attempt  : 1 .. (MaximumWebhookAttempts + 1)]

JobRows(maximumAttempts) == [Deliveries -> Row(JobStates, maximumAttempts)]

\* A row carries a lease exactly while it is being processed.
TypeOK ==
    /\ inbox \in [Deliveries -> InboxRow]
    /\ \A d \in Deliveries :
         (inbox[d].leaseOwner # NoWorker) <=> (inbox[d].state = "processing")
    /\ jobs \in JobRows(0)
    /\ scheduler \in [Workers -> SchedulerState]
    /\ readDisabled \in BOOLEAN

Init ==
    /\ inbox = [d \in Deliveries |->
                  [state |-> "absent", attempt |-> 0,
                   leaseOwner |-> NoWorker, leaseExpired |-> FALSE]]
    /\ jobs = [d \in Deliveries |-> AbsentRow]
    /\ scheduler = [w \in Workers |-> IdleScheduler]
    /\ readDisabled = FALSE

-----------------------------------------------------------------------------
(* Receipt and the clock. *)

\* receive + receiveWebhook.  A redelivery of a known delivery ID hits
\* ON CONFLICT DO NOTHING, so only the first arrival changes the inbox.
ReceiveWebhook(d) ==
    /\ inbox[d].state = "absent"
    /\ \A e \in Deliveries : e < d => inbox[e].state # "absent"
    /\ inbox' = [inbox EXCEPT ![d].state = "pending"]
    /\ UNCHANGED <<jobs, scheduler, readDisabled>>

\* lease_expires_at passes, whether or not the holder is still at work.
WebhookLeaseExpires(d) ==
    /\ inbox[d].state = "processing" /\ ~inbox[d].leaseExpired
    /\ inbox' = [inbox EXCEPT ![d].leaseExpired = TRUE]
    /\ UNCHANGED <<jobs, scheduler, readDisabled>>

\* setDisabled('read', _).
SetReadDisabled ==
    /\ readDisabled' = ~readDisabled
    /\ UNCHANGED <<inbox, jobs, scheduler>>

-----------------------------------------------------------------------------
(* processNextWebhook, one action per transaction. *)

\* Mutant: leases are not reclaimable.
ClaimablePendingOnly(d) == inbox[d].state = "pending"

ClaimableWebhook(d) ==
    \/ inbox[d].state = "pending"
    \/ inbox[d].state = "processing" /\ inbox[d].leaseExpired

\* attempt + 1; attempts past the maximum are told apart from it no further.
NextAttempt(d) ==
    IF inbox[d].attempt > MaximumWebhookAttempts
    THEN inbox[d].attempt ELSE inbox[d].attempt + 1

\* The switch is read, then claimWebhook takes the oldest claimable row.
ClaimWebhook(w, d) ==
    /\ ~readDisabled
    /\ scheduler[w].pc = "idle"
    /\ ClaimableWebhook(d)
    /\ \A e \in Deliveries : ClaimableWebhook(e) => d <= e
    /\ inbox' = [inbox EXCEPT ![d] =
                   [state |-> "processing", attempt |-> NextAttempt(d),
                    leaseOwner |-> w, leaseExpired |-> FALSE]]
    /\ scheduler' = [scheduler EXCEPT ![w] =
                       [pc |-> "claimed", delivery |-> d, attempt |-> NextAttempt(d)]]
    /\ UNCHANGED <<jobs, readDisabled>>

\* enqueueJob: INSERT ... ON CONFLICT DO NOTHING under a key that the
\* delivery determines, so a second scheduling finds the first one's row.
EnqueueJob(w) ==
    LET d == scheduler[w].delivery
    IN  /\ scheduler[w].pc = "claimed"
        /\ jobs' = IF jobs[d].state = "absent"
                   THEN [jobs EXCEPT ![d] = InsertedRow] ELSE jobs
        /\ scheduler' = [scheduler EXCEPT ![w].pc =
                           IF SupersessionKey(d) = NoKey THEN "scheduled" ELSE "enqueued"]
        /\ UNCHANGED <<inbox, readDisabled>>

\* Mutant: only jobs of older deliveries are superseded.
SupersedeOlderJobs(w) ==
    LET d == scheduler[w].delivery
    IN  /\ scheduler[w].pc = "enqueued"
        /\ jobs' = [e \in Deliveries |->
                      IF e \in Rivals(d) /\ e < d /\ jobs[e].state \in {"available", "leased"}
                      THEN SettledRow(jobs[e], "superseded") ELSE jobs[e]]
        /\ scheduler' = [scheduler EXCEPT ![w].pc = "scheduled"]
        /\ UNCHANGED <<inbox, readDisabled>>

\* supersedeJobs with exceptJobId: every other unfinished job of the key.
SupersedeJobs(w) ==
    LET d == scheduler[w].delivery
    IN  /\ scheduler[w].pc = "enqueued"
        /\ jobs' = [e \in Deliveries |->
                      IF e \in Rivals(d) /\ jobs[e].state \in {"available", "leased"}
                      THEN SettledRow(jobs[e], "superseded") ELSE jobs[e]]
        /\ scheduler' = [scheduler EXCEPT ![w].pc = "scheduled"]
        /\ UNCHANGED <<inbox, readDisabled>>

\* Mutant: the lease owner is not compared.
HoldsAnyLease(w, d) == inbox[d].state = "processing"

HoldsWebhook(w, d) ==
    inbox[d].state = "processing" /\ inbox[d].leaseOwner = w

\* resolveWebhook: guarded by the lease owner, else a stale claim.
Resolved(w, d, state) ==
    IF HoldsWebhook(w, d)
    THEN [inbox EXCEPT ![d].state = state, ![d].leaseOwner = NoWorker,
                       ![d].leaseExpired = FALSE]
    ELSE inbox

ResolveWebhook(w) ==
    /\ scheduler[w].pc = "scheduled"
    /\ inbox' = Resolved(w, scheduler[w].delivery, "processed")
    /\ scheduler' = [scheduler EXCEPT ![w] = IdleScheduler]
    /\ UNCHANGED <<jobs, readDisabled>>

\* A statement throws (before or after taking effect): webhook_schedule_failed
\* is retryable, so the row is pending again until the claim that failed was
\* the last one allowed.  The failures of routeWebhook that are not retryable need
\* a pointer that the receiver does not admit.
FailWebhook(w) ==
    /\ scheduler[w].pc # "idle"
    /\ inbox' = Resolved(w, scheduler[w].delivery,
                         IF scheduler[w].attempt < MaximumWebhookAttempts
                         THEN "pending" ELSE "failed")
    /\ scheduler' = [scheduler EXCEPT ![w] = IdleScheduler]
    /\ UNCHANGED <<jobs, readDisabled>>

\* The worker process dies; its lease stays until it expires.
CrashScheduler(w) ==
    /\ scheduler[w].pc # "idle"
    /\ scheduler' = [scheduler EXCEPT ![w] = IdleScheduler]
    /\ UNCHANGED <<inbox, jobs, readDisabled>>

Next ==
    \/ SetReadDisabled
    \/ \E d \in Deliveries : ReceiveWebhook(d) \/ WebhookLeaseExpires(d)
    \/ \E w \in Workers :
         \/ \E d \in Deliveries : ClaimWebhook(w, d)
         \/ EnqueueJob(w) \/ SupersedeJobs(w) \/ ResolveWebhook(w)
         \/ FailWebhook(w) \/ CrashScheduler(w)

Spec == Init /\ [][Next]_vars

-----------------------------------------------------------------------------
(* Safety. *)

LiveJob(d) == jobs[d].state \in {"available", "leased"}

\* Once two deliveries of one pull request (or ref) are both processed, at
\* most one of their jobs is still to run, whatever the workers' interleaving:
\* the later of the two supersedeJobs saw the other job.
OneLiveJobPerKey ==
    \A d \in Deliveries : \A e \in Rivals(d) :
        /\ SupersessionKey(d) # NoKey
        /\ inbox[d].state = "processed" /\ inbox[e].state = "processed"
        => ~(LiveJob(d) /\ LiveJob(e))

\* A delivery leaves processing only by the verdict of the worker whose claim
\* is the latest one: a worker that lost its lease reports stale_claim and
\* changes nothing, although resolveWebhook compares no attempt number.
WebhookVerdictOfLatestClaim ==
    [][\A d \in Deliveries :
         inbox[d].state = "processing" /\ inbox'[d].state # "processing" =>
           \E w \in Workers :
               /\ scheduler[w].pc # "idle" /\ scheduler'[w].pc = "idle"
               /\ scheduler[w].delivery = d
               /\ scheduler[w].attempt = inbox[d].attempt]_vars

-----------------------------------------------------------------------------
(* What the documentation says and the interleavings refute. *)

\* "a crash between receipt and job scheduling does not lose accepted work":
\* when every delivery of a pull request is processed, one of its jobs is
\* still to run.
AcceptedWorkSurvives ==
    \A d \in Deliveries :
        /\ SupersessionKey(d) # NoKey
        /\ \A e \in Rivals(d) \cup {d} : inbox[e].state = "processed"
        => \E e \in Rivals(d) \cup {d} : jobs[e].state # "superseded"

-----------------------------------------------------------------------------
(* Liveness. *)

\* Worker loops keep calling processNextWebhook and awaiting what it calls,
\* and time passes.
Fairness ==
    /\ \A d \in Deliveries : WF_vars(WebhookLeaseExpires(d))
    /\ \A w \in Workers :
         /\ WF_vars(\E d \in Deliveries : ClaimWebhook(w, d))
         /\ WF_vars(EnqueueJob(w) \/ SupersedeJobs(w) \/ ResolveWebhook(w))

\* No worker dies with a lease in hand or overruns it.
CalmStep ==
    \A w \in Workers : \A d \in Deliveries :
        scheduler[w].pc # "idle" /\ scheduler[w].delivery = d /\ HoldsWebhook(w, d)
        => \/ scheduler'[w].pc # "idle" /\ inbox'[d].leaseExpired = inbox[d].leaseExpired
           \/ scheduler'[w].pc = "idle" /\ inbox'[d].state # "processing"

\* Once crashes, lease overruns and the read switch stop interfering, every
\* accepted webhook is terminally failed, or processed with its job durable,
\* whatever happened to it before: no crash point of processNextWebhook strands
\* a delivery or acknowledges one that is not scheduled.
AcceptedIsResolved ==
    (<>[]~readDisabled /\ <>[][CalmStep]_vars) =>
        \A d \in Deliveries :
            inbox[d].state \in {"pending", "processing"}
                ~> \/ inbox[d].state = "failed"
                   \/ inbox[d].state = "processed" /\ jobs[d].state # "absent"
=============================================================================
