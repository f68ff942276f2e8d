------------------------------ MODULE MCQueues ------------------------------
(***************************************************************************)
(* What the hosted service must get done in the end, for TLC: webhooks     *)
(* that become jobs, intents that become checks, and a provider that the   *)
(* durable state must follow.  A behaviour is of one subject; the others   *)
(* stay unused.                                                            *)
(***************************************************************************)
EXTENDS HostedQueues, Reconciliation

CONSTANT Subjects    \* what the run is about

VARIABLE subject

-----------------------------------------------------------------------------
(* Instances. *)

PullRequestEvent(action) ==
    [type |-> "pull_request", action |-> action,
     repository |-> "producer", subject |-> 7]

\* Two pushes to one pull request.
PullRequestEvents == <<PullRequestEvent("opened"), PullRequestEvent("synchronize")>>

\* One annotation more than fits a request.
TwoBatches == [e \in Effects |-> ChunkSize + 1]

-----------------------------------------------------------------------------
(* Specification. *)

queues == <<subject, vars, outbox, reconciliation>>

QueuesInit ==
    /\ subject \in Subjects
    /\ LoopsInit /\ ReconciliationInit
    /\ subject # "outbox" => \A e \in Effects : mode[e] = "write"

QueuesNext ==
    /\ UNCHANGED subject
    /\ \/ subject = "webhooks" /\ Next /\ UNCHANGED <<outbox, reconciliation>>
       \/ subject = "outbox" /\ OutboxNext /\ UNCHANGED <<vars, reconciliation>>
       \/ subject = "provider" /\ ReconciliationNext /\ UNCHANGED <<vars, outbox>>

\* No fair action is enabled while nothing has arrived, so what is not the subject
\* asks for nothing.
QueuesSpec ==
    /\ QueuesInit /\ [][QueuesNext]_queues
    /\ Fairness /\ OutboxFairness /\ ReconciliationFairness
=============================================================================
