--------------------------- MODULE AdapterOutput ---------------------------
(***************************************************************************)
(* What the adapter SDK admits as the output of an adapter, and what a     *)
(* contract observation makes of the extractions of several adapters.      *)
(***************************************************************************)
EXTENDS Integers, Sequences, FiniteSets

CoverageStates == {"complete", "partial", "failed", "unsupported"}

\* validateCoverage.
ValidCoverage(coverage) ==
    /\ coverage.state \in CoverageStates
    /\ {coverage.eligible, coverage.processed, coverage.skipped, coverage.failed} \subseteq Nat
    /\ coverage.processed + coverage.skipped + coverage.failed <= coverage.eligible
    /\ coverage.state = "complete" =>
           coverage.failed = 0 /\ coverage.processed + coverage.skipped = coverage.eligible

\* assertComparableExtractions: the stamp is the adapter's version and the
\* configuration revision of an extraction; the differ runs at its own.
Comparable(base, head, stamp) == base = stamp /\ head = stamp

\* What a differ makes of extractions it may not compare.
FailedDiff ==
    [changes |-> [k \in {} |-> "unknown"],
     coverage |-> [state |-> "failed", eligible |-> 0, processed |-> 0, skipped |-> 0, failed |-> 0]]

-----------------------------------------------------------------------------
(* The second version of the SDK, whose coverage names its limitations. *)

\* validateCoverage of validation-v2: complete coverage has no limitation, any
\* other has one.
ValidCoverageV2(coverage) ==
    /\ ValidCoverage(coverage)
    /\ coverage.state = "complete" <=> coverage.limitations = {}

-----------------------------------------------------------------------------
(* materializeContractObservation. *)

Items(extraction) == Cardinality(DOMAIN extraction.definitions) + Cardinality(extraction.references)

\* observationCoverage.
ObservationCoverage(extractions) ==
    LET states == {e.coverage.state : e \in extractions}
        empty == \A e \in extractions : Items(e) = 0
    IN  IF states \subseteq {"unsupported"} /\ empty THEN "unsupported"
        ELSE IF states \subseteq {"failed", "unsupported"} /\ empty THEN "failed"
        ELSE IF states = {"complete"} THEN "complete" ELSE "partial"

\* A reference's stable ID does not hold its path; of those that share an ID the
\* one with the least path is observed.
StableId(reference) == <<reference.key, reference.pattern, reference.owner, reference.stratum>>

ObservedReferences(extractions, rank) ==
    LET all == UNION {e.references : e \in extractions}
    IN  {r \in all : \A other \in all :
            StableId(other) = StableId(r) => rank[r.path] <= rank[other.path]}

ObservedDefinitions(extractions) ==
    UNION {{<<key, e.definitions[key]>> : key \in DOMAIN e.definitions} : e \in extractions}

\* ensureContractObservation: an incomplete input is never a complete observation.
EffectiveCoverage(state, incomplete) ==
    IF incomplete /\ state \notin {"failed", "unsupported"} THEN "partial" ELSE state
=============================================================================
