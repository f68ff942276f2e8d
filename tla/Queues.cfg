SPECIFICATION QueuesSpec
CONSTANTS
    Subjects = {"webhooks", "outbox", "provider"}
    NoWorker = NoWorker
    Workers = {w1, w2}
    Deliveries = {1, 2}
    Event <- PullRequestEvents
    MaximumWebhookAttempts = 2
    Effects = {1}
    Annotations <- TwoBatches
    ChunkSize = 2
    MaximumAttempts = 2
    Installed = {repository}
    Numbers = {7}
    Heads = {h1, h2}
    NoHead = NoHead
    MaxChanges = 3
INVARIANTS OneLiveJobPerKey DeliveredIsWhole StaleClaimNeverWrites
PROPERTIES VerdictOfLatestClaim AcceptedIsResolved DeliveriesSettleOrStrand ReconciliationConverges
CHECK_DEADLOCK FALSE
