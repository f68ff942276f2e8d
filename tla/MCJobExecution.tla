--------------------------- MODULE MCJobExecution ---------------------------
(* Instances of JobExecution for TLC. *)
EXTENDS JobExecution, TLC

CONSTANT PullRequest    \* the only supersession key

ResultSymmetry == Permutations(Workers) \cup Permutations(Hashes)

\* Every job analyses the same pull request.
OnePullRequest == [j \in Jobs |-> PullRequest]

\* Job 1 analyses the pull request, job 2 records a review.
AnalysisAndReview == [j \in Jobs |-> IF j = 1 THEN PullRequest ELSE NoKey]
=============================================================================
