----------------------------- MODULE EvidenceV2 -----------------------------
(***************************************************************************)
(* What a version 2 analysis works on.  Scope: prepareAnalysisScope        *)
(* decides from the registry revision which repositories it may read,      *)
(* ResolveAnalysisScope asks the authorization port about each candidate   *)
(* and finalizeAnalysisScope issues the capability every later read is     *)
(* checked against.  Coverage: for each authorized repository one record   *)
(* per enabled adapter family, taken from the coverage source when its     *)
(* answer belongs to the selected generation and is well formed, and       *)
(* recorded as not analysed otherwise.  Evidence: what a caller hands in,  *)
(* the join of the changed contracts with the references of the selected   *)
(* generations, the findings made of it, and the plan of the excerpts      *)
(* reasoning may read.  A contract key stands for family, kind and         *)
(* canonical key.                                                          *)
(***************************************************************************)
EXTENDS Naturals, FiniteSets, Sequences

-----------------------------------------------------------------------------
(* Scope. *)

CONSTANTS
    ScopeRepositories,  \* repository IDs a caller may name, registered or not
    ScopeProducer,      \* the repository of the pull request
    Subject,            \* who asks
    Legacy              \* the request without a consumerScope: every selected repository

ASSUME ProducerAssumption == ScopeProducer \in ScopeRepositories

Grant ==
    [repository : ScopeRepositories, action : {"evidence.consume", "disclose"},
     grantee : {Subject, "*", "other"}, decision : {"allow", "deny"}]

\* A registry revision, and the scope an analysis resolves from it.
Registry ==
    [members : SUBSET ScopeRepositories, selected : SUBSET ScopeRepositories, consents : SUBSET Grant]

GapReasons ==
    {"unknown_repository", "repository_not_selected", "consent_denied",
     "authorization_unavailable", "authorization_denied"}

Gap == [repository : ScopeRepositories, reason : GapReasons]

Scope ==
    [mode : {"legacy", "allowlist"}, requested : SUBSET ScopeRepositories,
     repositories : SUBSET ScopeRepositories, gaps : SUBSET Gap]

\* What the authorization port says of a repository; "stale" allows it at
\* another registry revision.
Answers == {"allowed", "denied", "stale", "unavailable"}

\* applicableConsentDenied.
ConsentDenied(registry, r) ==
    \E g \in registry.consents :
        /\ g.repository = r /\ g.action = "evidence.consume"
        /\ g.grantee \in {Subject, "*"} /\ g.decision = "deny"

\* The reason a repository is left out before anyone is asked.
Exclusion(registry, r) ==
    CASE r \notin registry.members -> "unknown_repository"
      [] r \in registry.members \ registry.selected -> "repository_not_selected"
      [] r \in registry.selected /\ ConsentDenied(registry, r) -> "consent_denied"
      [] OTHER -> "none"

Requested(registry, request) == IF request = Legacy THEN registry.selected ELSE request

\* prepareAnalysisScope, for a producer that the registry selects.
Considered(registry, request) == Requested(registry, request) \cup {ScopeProducer}

Candidates(registry, request) ==
    {r \in Considered(registry, request) : Exclusion(registry, r) = "none"}

\* The answer of the port turned into a gap; "none" admits the repository.
Refusal(answer) ==
    CASE answer = "allowed" -> "none"
      [] answer = "unavailable" -> "authorization_unavailable"
      [] OTHER -> "authorization_denied"

\* Why a considered repository is outside the scope.
GapOf(registry, answers, r) ==
    IF Exclusion(registry, r) # "none" THEN Exclusion(registry, r) ELSE Refusal(answers[r])

\* finalizeAnalysisScope.
ResolveScope(registry, request, answers) ==
    LET considered == Considered(registry, request)
        authorized == {r \in considered : GapOf(registry, answers, r) = "none"}
    IN  [mode |-> IF request = Legacy THEN "legacy" ELSE "allowlist",
         requested |-> Requested(registry, request),
         repositories |-> authorized,
         gaps |-> {[repository |-> r, reason |-> GapOf(registry, answers, r)] :
                   r \in considered \ authorized}]

\* assertScopedRepositoryRead.
InScope(scope, r) == r \in scope.repositories

-----------------------------------------------------------------------------
(* Coverage. *)

FamilyStates == {"complete", "partial", "failed", "unsupported", "not_analysed"}

\* A family record: the artifact counts, and whether it names adapters and
\* limitations.
Family ==
    [state : FamilyStates, eligible : Nat, processed : Nat, skipped : Nat, failed : Nat,
     adapters : BOOLEAN, limitations : BOOLEAN]

\* A repository that was selected without a usable source.
NotAnalysed ==
    [state |-> "not_analysed", eligible |-> 0, processed |-> 0, skipped |-> 0, failed |-> 0,
     adapters |-> FALSE, limitations |-> TRUE]

\* finalizeAdapterFamilyCoverageV2: what it refuses by throwing.
WellFormed(f) ==
    /\ f.processed + f.skipped + f.failed <= f.eligible
    /\ f.state = "complete" =>
           f.failed = 0 /\ f.processed + f.skipped = f.eligible /\ ~f.limitations
    /\ f.state # "complete" => f.limitations
    /\ IF f.state = "not_analysed" THEN f.eligible = 0 /\ ~f.adapters ELSE f.adapters

\* The selection of a repository by the version 1 analysis: its state, and the
\* generation (0: none).
HasGeneration(selection) == selection.state \in {"current", "stale", "unsupported"}

\* What the coverage source answers for the query: a failure, a throw or null,
\* or a record for some generation.
NoAnswer == [generation |-> 0, families |-> <<>>]

\* Mutant: the generation of the answer is not compared.
MatchesAnyGeneration(selection, families, answer) ==
    DOMAIN answer.families = families /\ \A f \in families : WellFormed(answer.families[f])

\* matchesQuery with finalizeRepositoryAnalysisCoverageV2, which recomputes the
\* record; the fields the query repeats are the generation here.
MatchesQuery(selection, families, answer) ==
    /\ answer.generation = selection.generation
    /\ DOMAIN answer.families = families
    /\ \A f \in families : WellFormed(answer.families[f])

\* repositoryFromSelection, or the answer of the source if it can be used.
RepositoryCoverage(selection, families, answer) ==
    [selection |-> selection,
     families |-> IF /\ families # {} /\ HasGeneration(selection)
                     /\ MatchesQuery(selection, families, answer)
                  THEN answer.families
                  ELSE [f \in families |-> NotAnalysed]]

\* composeAnalysisCoverageV2: one record per authorized repository.
ComposeCoverage(scope, families, selections, answers) ==
    [r \in scope.repositories |->
        RepositoryCoverage(selections[r], families, answers[r])]

\* finalizeAnalysisCoverageV2.
CoverageState(scope, coverage) ==
    IF \/ scope.gaps # {}
       \/ \E r \in DOMAIN coverage :
              \/ coverage[r].selection.state # "current"
              \/ \E f \in DOMAIN coverage[r].families :
                     coverage[r].families[f].state # "complete"
    THEN "partial" ELSE "complete"

-----------------------------------------------------------------------------
(* Evidence. *)

CONSTANTS Keys, NoKey     \* contract keys; an unresolved reference has none

Compatibilities == {"breaking", "potentially_breaking", "compatible", "unknown"}

\* The producer's definitions are of the base or of the head generation; a
\* record carries the identity protocol of the adapter that indexed it, and
\* whether it has a source range.
Change == [key : Keys, kind : Nat, compatibility : Compatibilities, complete : BOOLEAN,
           protocol : Nat, repository : ScopeRepositories]
Definition == [id : Nat, key : Keys, at : {"base", "head"}, protocol : Nat, range : BOOLEAN,
               repository : ScopeRepositories]
Reference == [id : Nat, key : Keys \cup {NoKey}, repository : ScopeRepositories,
              generation : Nat, protocol : Nat, range : BOOLEAN]

\* deterministicEvidence, in the order the caller gives it.
Evidence == [changes : Seq(Change), definitions : Seq(Definition), references : Seq(Reference)]

NoEvidence == [changes |-> <<>>, definitions |-> <<>>, references |-> <<>>]

Elements(s) == {s[i] : i \in DOMAIN s}

\* The definition a change is joined by: the last of the head generation, or of
\* the base if the contract was removed.
DefinitionsOf(evidence, change) ==
    LET of(at) == {i \in DOMAIN evidence.definitions :
                      /\ evidence.definitions[i].key = change.key
                      /\ evidence.definitions[i].repository = change.repository
                      /\ evidence.definitions[i].at = at}
        wanted == IF of("head") # {} THEN of("head") ELSE of("base")
    IN  {evidence.definitions[i] : i \in {j \in wanted : \A k \in wanted : k <= j}}

\* The references to the changed contract in the selected generations.
ReferencesTo(evidence, change, selections) ==
    {ref \in Elements(evidence.references) :
        /\ ref.key = change.key /\ ref.repository \in DOMAIN selections
        /\ HasGeneration(selections[ref.repository])
        /\ selections[ref.repository].generation = ref.generation}

\* The invariants joinChangedContractsV2 throws on: evidence outside the scope, or
\* of another adapter protocol.
JoinThrows(scope, evidence, selections) ==
    \E change \in Elements(evidence.changes) :
        \/ ~InScope(scope, change.repository)
        \/ \E d \in DefinitionsOf(evidence, change) :
               \/ d.protocol # change.protocol
               \/ \E ref \in ReferencesTo(evidence, change, selections) :
                      ref.protocol # change.protocol

\* joinChangedContractsV2: one edge per key, consumer and reference.
JoinChangedContracts(evidence, selections) ==
    UNION {{[key |-> change.key, consumer |-> ref.repository, reference |-> ref.id] :
               ref \in ReferencesTo(evidence, change, selections)} :
           change \in {ch \in Elements(evidence.changes) : DefinitionsOf(evidence, ch) # {}}}

\* The change a finding reports: the map from key to change keeps the last one.
LastChange(evidence, key) ==
    LET of == {i \in DOMAIN evidence.changes : evidence.changes[i].key = key}
    IN  evidence.changes[CHOOSE i \in of : \A j \in of : j <= i]

\* createDeterministicFindingsV2.
FindingV2Of(evidence, edge) ==
    LET change == LastChange(evidence, edge.key)
        unsure == ~change.complete \/ change.compatibility = "unknown"
    IN  [key |-> edge.key, consumer |-> edge.consumer, reference |-> edge.reference,
         kind |-> change.kind,
         state |-> IF unsure THEN "ABSTAINED" ELSE "PREVIEW",
         action |-> CASE change.compatibility \in {"breaking", "potentially_breaking"} -> "coordinate"
                      [] change.compatibility = "unknown" -> "review"
                      [] OTHER -> "none"]

FindingsOf(evidence, selections) ==
    {FindingV2Of(evidence, edge) : edge \in JoinChangedContracts(evidence, selections)}

-----------------------------------------------------------------------------
(* The plan of the evidence reasoning may read. *)

Least(m, n) == IF m < n THEN m ELSE n

\* slice(0, n).
Upto(s, n) == SubSeq(s, 1, Least(Len(s), n))

\* A handle: one citation of a definition (producer side) or a reference.
Handle == [side : {"producer", "consumer"}, repository : ScopeRepositories, id : Nat]

\* The definitions and references that planReasoningEvidenceV1 looks at.  The
\* adapter families are one here, so an unresolved reference is related to every
\* change.
PlannedDefinitions(evidence, maximum) ==
    LET keys == {change.key : change \in Elements(Upto(evidence.changes, maximum))}
    IN  {d \in Elements(Upto(evidence.definitions, maximum)) : d.key \in keys /\ d.range}

PlannedReferences(evidence, maximum) ==
    LET keys == {change.key : change \in Elements(Upto(evidence.changes, maximum))}
    IN  {ref \in Elements(Upto(evidence.references, maximum)) :
            (ref.key \in keys \/ (ref.key = NoKey /\ keys # {})) /\ ref.range}

\* It throws when something it would cite is outside the scope.
PlanThrows(scope, evidence, maximum) ==
    /\ maximum >= 2
    /\ \E r \in {change.repository : change \in Elements(Upto(evidence.changes, maximum))}
             \cup {d.repository : d \in PlannedDefinitions(evidence, maximum)}
             \cup {ref.repository : ref \in PlannedReferences(evidence, maximum)} :
           ~InScope(scope, r)

Picks(cited, n) == {q \in SUBSET cited : Cardinality(q) = n}

\* The handles a plan may consist of: both sides or nothing, at most maximum.  One
\* of each side comes first, then the other producers, then the other consumers;
\* which ones are first of their side depends on their hashes.
Plans(evidence, maximum) ==
    LET producers == {[side |-> "producer", repository |-> d.repository, id |-> d.id] :
                      d \in PlannedDefinitions(evidence, maximum)}
        consumers == {[side |-> "consumer", repository |-> ref.repository, id |-> ref.id] :
                      ref \in PlannedReferences(evidence, maximum)}
        producing == Least(Cardinality(producers), maximum - 1)
        consuming == Least(Cardinality(consumers), maximum - producing)
    IN  IF maximum < 2 \/ producers = {} \/ consumers = {} THEN {{}}
        ELSE {p \cup c : p \in Picks(producers, producing), c \in Picks(consumers, consuming)}
=============================================================================
