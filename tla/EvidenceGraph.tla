--------------------------- MODULE EvidenceGraph ---------------------------
(***************************************************************************)
(* The evidence graph kept by SqliteStore: registry revisions, one         *)
(* contract observation per published generation, and the evidence edges   *)
(* between a producer's changed contract and the references to it.  Each   *)
(* operation is one SQLite transaction.  The contract is fixed: a          *)
(* reference here is a reference whose canonical or constrained key is the *)
(* changed contract's, which is what readReferences filters on.            *)
(***************************************************************************)
EXTENDS Integers, Sequences, FiniteSets

CONSTANTS
    Repositories,
    References,        \* stable reference IDs that a repository can hold
    Kind,              \* what each one says: see Kinds
    MaxGenerations,    \* bound on the generations of a repository
    Extractions,       \* what contract extraction may return for a repository
    Configurations     \* the registry snapshots a run may go through

\* An exact key, with or without a service target for the registry; a target or
\* a heuristic that constrains the key; a declared context; a bare pattern.
Kinds == {"exact", "exact_target", "target", "heuristic", "context", "pattern"}

\* How the registry resolves the service target of a reference: to the service
\* that defines the contract, to another one, to several, or to none.
Aliases == {"definer", "other", "ambiguous", "unresolved"}

\* coverageState of a contract observation.
Coverages == {"complete", "partial", "unsupported", "failed"}

ASSUME EvidenceAssumption ==
    /\ Kind \in [References -> Kinds]
    /\ MaxGenerations \in [Repositories -> Nat \ {0}]
    /\ Extractions \in [Repositories -> SUBSET [coverage : Coverages, references : SUBSET References]]
    /\ Configurations \subseteq Seq([selected : SUBSET Repositories, alias : Aliases]) \ {<<>>}

VARIABLES
    snapshots,     \* the registry snapshots, by sequence number
    stored,        \* workspace_revisions: the sequence numbers put so far
    current,       \* workspace_current_revisions; 0 is no row
    generations,   \* generations published for each repository, the last selected
    observations,  \* contract_observations
    edges          \* evidence_edges

graph == <<snapshots, stored, current, generations, observations, edges>>

-----------------------------------------------------------------------------
(* State. *)

Revisions == DOMAIN snapshots

Observation ==
    [repository : Repositories, generation : Nat \ {0},
     coverage : Coverages, references : SUBSET References]

Bases == {"exact", "registry_resolved", "heuristic"}

Validity == {"valid", "complete_reference_absence", "membership_removed",
             "registry_revision_changed"}

\* edgeIdentity: what the edge_id hashes, for one producer and one contract.
EdgeId(edge) == <<edge.consumer, edge.reference, edge.basis, edge.revision>>

GraphTypeOK ==
    /\ stored \subseteq Revisions
    /\ current \in stored \cup {0}
    /\ \A r \in Repositories : generations[r] \in 0 .. MaxGenerations[r]
    /\ observations \subseteq Observation
    /\ \A edge \in edges :
           /\ edge.consumer \in Repositories /\ edge.reference \in References
           /\ edge.basis \in Bases /\ edge.revision \in stored
           /\ edge.generation \in 1 .. generations[edge.consumer]
           /\ edge.first \in Nat /\ edge.last \in Nat
           /\ edge.validity \in Validity
    /\ \A e1, e2 \in edges : EdgeId(e1) = EdgeId(e2) => e1 = e2

GraphInit ==
    /\ snapshots \in Configurations
    /\ stored = {} /\ current = 0
    /\ generations = [r \in Repositories |-> 0]
    /\ observations = {} /\ edges = {}

-----------------------------------------------------------------------------
(* Operations. *)

ObservationOf(r, g) == {o \in observations : o.repository = r /\ o.generation = g}

ObservationRow(r, g, extraction) ==
    [repository |-> r, generation |-> g,
     coverage |-> extraction.coverage, references |-> extraction.references]

\* Marks the valid edges that the function why has a reason against.
Invalidated(why) ==
    {IF edge.validity = "valid" THEN [edge EXCEPT !.validity = why[edge]] ELSE edge :
        edge \in edges}

\* What a revision that becomes current says of a valid edge.
RevisionReason(n, edge, producer) ==
    IF {producer, edge.consumer} \subseteq snapshots[n].selected
    THEN IF edge.basis = "registry_resolved" /\ edge.revision # n
         THEN "registry_revision_changed" ELSE "valid"
    ELSE "membership_removed"

\* putRevision: the rows are inserted once; a revision becomes current, and
\* invalidates edges, only if its sequence is the greatest.
PutRevision(n, producer) ==
    /\ n \in Revisions
    /\ stored' = stored \cup {n}
    /\ IF current < n
       THEN /\ current' = n
            /\ edges' = Invalidated([edge \in edges |-> RevisionReason(n, edge, producer)])
       ELSE UNCHANGED <<current, edges>>
    /\ UNCHANGED <<snapshots, generations, observations>>

\* completeGeneration publishes and selects a generation; see GenerationIndex.
PublishGeneration(r) ==
    /\ generations[r] < MaxGenerations[r]
    /\ generations' = [generations EXCEPT ![r] = @ + 1]
    /\ UNCHANGED <<snapshots, stored, current, observations, edges>>

\* Mutant: a second extraction of a generation replaces its observation.
PutContractObservationAgain(r, g, extraction) ==
    /\ g \in 1 .. generations[r] /\ extraction \in Extractions[r]
    /\ observations' = (observations \ ObservationOf(r, g)) \cup {ObservationRow(r, g, extraction)}
    /\ UNCHANGED <<snapshots, stored, current, generations, edges>>

\* Mutant: a partial observation invalidates what it does not hold.
PutContractObservationErasing(r, g, extraction) ==
    LET why == [edge \in edges |->
                   IF edge.consumer = r /\ edge.reference \notin extraction.references
                   THEN "complete_reference_absence" ELSE "valid"]
    IN  /\ g \in 1 .. generations[r] /\ extraction \in Extractions[r]
        /\ ObservationOf(r, g) = {}
        /\ observations' = observations \cup {ObservationRow(r, g, extraction)}
        /\ edges' = Invalidated(why)
        /\ UNCHANGED <<snapshots, stored, current, generations>>

\* putContractObservation of a generation that has none: an observation is
\* immutable, and a second one with another hash is a conflict.  A complete one
\* invalidates the edges of the repository whose reference it does not hold.
PutContractObservation(r, g, extraction) ==
    LET why == [edge \in edges |->
                   IF edge.consumer = r /\ edge.reference \notin extraction.references
                   THEN "complete_reference_absence" ELSE "valid"]
    IN  /\ g \in 1 .. generations[r] /\ extraction \in Extractions[r]
        /\ ObservationOf(r, g) = {}
        /\ observations' = observations \cup {ObservationRow(r, g, extraction)}
        /\ edges' = IF extraction.coverage = "complete" THEN Invalidated(why) ELSE edges
        /\ UNCHANGED <<snapshots, stored, current, generations>>

\* observeEdges' merge of an incoming edge with the row it replaces.
Merged(edge) ==
    IF \E row \in edges : EdgeId(row) = EdgeId(edge)
    THEN LET prior == CHOOSE row \in edges : EdgeId(row) = EdgeId(edge)
         IN  [edge EXCEPT !.first = IF prior.first < @ THEN prior.first ELSE @,
                          !.last = IF prior.last > @ THEN prior.last ELSE @]
    ELSE edge

\* observeEdges: an upsert, which also clears an invalidation of the row.
Observed(new) ==
    {row \in edges : \A edge \in new : EdgeId(row) # EdgeId(edge)} \cup {Merged(edge) : edge \in new}

-----------------------------------------------------------------------------
(* joinChangedContracts, for the one changed contract, whose definition the   *)
(* producer's base generation holds: a change without one joins nothing.       *)

\* The basis on which a reference joins the contract.  One that joins nothing
\* leaves a diagnostic: an ambiguous alias, an exact key that the registry
\* contradicts, or an unresolved pattern, which every reference without an exact
\* key has.
BasisOf(kind, alias) ==
    CASE kind = "exact" -> "exact"
      [] kind = "exact_target" /\ alias \in {"definer", "unresolved"} -> "exact"
      [] kind = "target" /\ alias = "definer" -> "registry_resolved"
      [] kind = "heuristic" -> "heuristic"
      [] OTHER -> "none"
=============================================================================
