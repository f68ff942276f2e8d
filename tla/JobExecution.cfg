CONSTANTS
    NoWorker = NoWorker
    Workers = {w1, w2}
    Jobs = {1, 2}
    NoJob = NoJob
    PullRequest = PullRequest
    Keys = {PullRequest}
    NoKey = NoKey
    KeyOf <- OnePullRequest
    Hashes = {h1, h2}
    NoHash = NoHash
    MaximumAttempts = 2
SPECIFICATION Spec
SYMMETRY ResultSymmetry
INVARIANTS AttemptRunsOnce ResultsMatchRecord
PROPERTIES VerdictOfLatestAttempt SettledIsFinal
