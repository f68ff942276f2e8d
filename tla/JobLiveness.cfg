CONSTANTS
    NoWorker = NoWorker
    Workers = {w1, w2}
    Jobs = {1, 2}
    NoJob = NoJob
    PullRequest = PullRequest
    Keys = {PullRequest}
    NoKey = NoKey
    KeyOf <- AnalysisAndReview
    Hashes = {h1}
    NoHash = NoHash
    MaximumAttempts = 2
SPECIFICATION FairSpec
PROPERTY JobsSettleOrStrand
