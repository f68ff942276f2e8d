SPECIFICATION QueuesSpec
CONSTANTS
    Subjects = {"webhooks"}
    NoWorker = NoWorker
    Workers = {w1}
    Deliveries = {1, 2}
    Event <- PullRequestEvents
    MaximumWebhookAttempts = 2
    Effects = {1}
    Annotations <- TwoBatches
    ChunkSize = 2
    MaximumAttempts = 2
    Installed = {repository}
    Numbers = {7}
    Heads = {h1, h2}
    NoHead = NoHead
    MaxChanges = 3
INVARIANT AcceptedWorkSurvives
CHECK_DEADLOCK FALSE
