---------------------------- MODULE HostedQueues ----------------------------
(***************************************************************************)
(* The worker loops of a hosted process side by side: processNextWebhook   *)
(* on the inbox and processNextDelivery on the outbox.  Both run on the    *)
(* lease discipline of LeasedRow; they share the workers and no table, so  *)
(* a step of one leaves the other's state alone.                           *)
(***************************************************************************)
EXTENDS WebhookScheduling, OutboxDelivery

LoopsInit == Init /\ OutboxInit

LoopsNext ==
    \/ Next /\ UNCHANGED outbox
    \/ OutboxNext /\ UNCHANGED vars

LoopsSpec == LoopsInit /\ [][LoopsNext]_<<vars, outbox>>

\* A webhook leaves processing, and an outbox row its lease, only by the verdict
\* of the worker whose claim is the latest one (or by disablePendingDeliveries):
\* resolveWebhook, resolveDelivery and failDelivery compare no attempt number.
VerdictOfLatestClaim == WebhookVerdictOfLatestClaim /\ OutboxVerdictOfLatestClaim
=============================================================================
