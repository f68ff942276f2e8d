------------------------- MODULE AnalyzePullRequest -------------------------
(***************************************************************************)
(* AnalyzePullRequest.execute over SqliteStore: the selection of one       *)
(* generation per selected repository, the join of the changed contract    *)
(* with the references of those generations, the edges it observes, the    *)
(* findings and abstentions, and persistAnalysis.                          *)
(*                                                                         *)
(* All analyses are of one pull request, so they share a supersession key. *)
(* execute awaits a port between any two of its steps, and the store moves *)
(* under it: generations are published, observations and registry          *)
(* revisions are put, other analyses persist.  What the host answers       *)
(* (authorization, freshness, refresh, suppression, cancellation, time) is  *)
(* any answer.                                                             *)
(***************************************************************************)
EXTENDS EvidenceGraph

CONSTANTS
    Producer,
    RepositoryOrder,   \* the repositories in the order of their IDs
    Changes,           \* the kinds of change analysed: see ChangeKinds
    Analyses,          \* analysis IDs, one execution each
    NoAnalysis

\* Whether the overlay and the changes are complete, and if not, whether the
\* change removes the contract.
ChangeKinds == {"complete", "partial", "partial_removal"}

ASSUME AnalysesAssumption ==
    /\ Changes \subseteq ChangeKinds
    /\ Producer \in Repositories /\ NoAnalysis \notin Analyses
    /\ RepositoryOrder \in Seq(Repositories)
    /\ {RepositoryOrder[i] : i \in DOMAIN RepositoryOrder} = Repositories
    /\ Len(RepositoryOrder) = Cardinality(Repositories)

VARIABLES
    clock,             \* the clock, advanced by the readings that date edges
    run,               \* where each execution is
    results,           \* analysis_results
    currentAnalysis    \* current_analyses of the supersession key

vars == <<graph, clock, run, results, currentAnalysis>>

-----------------------------------------------------------------------------
(* State. *)

SelectionStates == {"current", "stale", "unsupported", "unauthorized", "failed", "not_indexed"}

\* A ConsumerGenerationSelection; generation 0 is one without a generation.
Selection(state, generation) == [state |-> state, generation |-> generation]

Unselected == Selection("pending", 0)

Selections == [state : SelectionStates \cup {"pending"}, generation : Nat]

Edge ==
    [consumer : Repositories, reference : References, basis : Bases, revision : Nat \ {0},
     generation : Nat \ {0}, first : Nat, last : Nat, validity : {"valid"}]

Idle == [pc |-> "idle"]
Done == [pc |-> "done"]

InFlight ==
    [pc : {"selecting", "observing", "refreshing", "writing", "finishing"},
     revision : Nat \ {0}, head : Nat \ {0}, change : Changes,
     selections : [Repositories -> Selections],
     candidate : Selections,          \* the selection being formed
     edges : SUBSET Edge, diagnosed : BOOLEAN]

NoResult == [state |-> "absent"]

Finding ==
    [consumer : Repositories, reference : References, generation : Nat \ {0},
     state : {"PREVIEW", "ABSTAINED"}]

Result ==
    [state : {"complete", "partial", "superseded"}, current : BOOLEAN,
     revision : Nat \ {0}, selections : [Repositories -> Selections],
     findings : SUBSET Finding, abstained : SUBSET Repositories]

TypeOK ==
    /\ GraphTypeOK
    /\ clock \in 0 .. Cardinality(Analyses)
    /\ currentAnalysis \in Analyses \cup {NoAnalysis}
    /\ \A a \in Analyses : run[a] \in {Idle, Done} \/ run[a] \in InFlight
    /\ \A a \in Analyses : results[a] = NoResult \/ results[a] \in Result

Init ==
    /\ GraphInit
    /\ clock = 0
    /\ run = [a \in Analyses |-> Idle]
    /\ results = [a \in Analyses |-> NoResult]
    /\ currentAnalysis = NoAnalysis

At(a, pc) == run[a].pc = pc

-----------------------------------------------------------------------------
(* Steps of the rest of the system. *)

analysis == <<clock, run, results, currentAnalysis>>

Register(n) == n \notin stored /\ PutRevision(n, Producer) /\ UNCHANGED analysis

Publish(r) == PublishGeneration(r) /\ UNCHANGED analysis

Extract(r, g, extraction) ==
    PutContractObservation(r, g, extraction) /\ UNCHANGED analysis

-----------------------------------------------------------------------------
(* execute: its inputs, and one selection per selected repository. *)

Step(a, record) ==
    /\ run' = [run EXCEPT ![a] = record]
    /\ UNCHANGED <<graph, clock, results, currentAnalysis>>

\* The input checks: a stored registry revision, a head generation of the
\* producer that has a contract observation.
Start(a) ==
    /\ At(a, "idle")
    /\ \E n \in stored, head \in {o \in observations : o.repository = Producer},
          change \in Changes :
           Step(a, [pc |-> "selecting", revision |-> n, head |-> head.generation,
                    change |-> change,
                    selections |-> [r \in Repositories |-> Unselected],
                    candidate |-> Unselected, edges |-> {}, diagnosed |-> FALSE])

\* The selected repositories still without a selection.
Remaining(a) ==
    {r \in snapshots[run[a].revision].selected : run[a].selections[r] = Unselected}

\* The loop takes them in the order of their IDs.
Selecting(a, r) ==
    \E i \in DOMAIN RepositoryOrder :
        /\ r = RepositoryOrder[i] /\ r \in Remaining(a)
        /\ \A j \in 1 .. i - 1 : RepositoryOrder[j] \notin Remaining(a)

Select(a, r, selection) ==
    Step(a, [run[a] EXCEPT !.pc = "selecting", !.selections[r] = selection,
                           !.candidate = Unselected])

\* selectProducerHead: the producer consumes its own contract at the exact head.
HeadSelection(head) ==
    CASE head.coverage = "failed" -> Selection("failed", 0)
      [] head.coverage = "unsupported" -> Selection("unsupported", head.generation)
      [] OTHER -> Selection("current", head.generation)

SelectProducerHead(a) ==
    /\ At(a, "selecting") /\ Selecting(a, Producer)
    /\ \E head \in ObservationOf(Producer, run[a].head) :
           \/ Select(a, Producer, HeadSelection(head))
           \/ Select(a, Producer, Selection("unauthorized", 0))

\* selectConsumer as far as selectGeneration, which returns the generation
\* published last; that one never fails afterwards (GenerationIndex), so the
\* branch for a failed selection is not taken.
SelectConsumer(a, r) ==
    /\ At(a, "selecting") /\ Selecting(a, r) /\ r # Producer
    /\ \/ Select(a, r, Selection("unauthorized", 0))
       \/ /\ generations[r] = 0
          /\ Step(a, [run[a] EXCEPT !.pc = "refreshing",
                                    !.candidate = Selection("not_indexed", 0)])
       \/ /\ generations[r] > 0
          /\ Step(a, [run[a] EXCEPT !.pc = "observing",
                                    !.candidate = Selection("pending", generations[r])])

\* What an observation makes of its generation, whose age may exceed the TTL.
ConsumerSelection(o, fresh) ==
    CASE o.coverage = "failed" -> Selection("failed", 0)
      [] o.coverage = "unsupported" -> Selection("unsupported", o.generation)
      [] OTHER -> Selection(IF fresh THEN "current" ELSE "stale", o.generation)

\* selectConsumer from getContractObservation on.
ObserveConsumer(a, r) ==
    /\ At(a, "observing") /\ Selecting(a, r)
    /\ LET seen == ObservationOf(r, run[a].candidate.generation)
       IN  \E fresh \in BOOLEAN :
           \E initial \in IF seen = {} THEN {Selection("not_indexed", 0)}
                          ELSE {ConsumerSelection(o, fresh) : o \in seen} :
               IF initial.state \in {"stale", "not_indexed"}
               THEN Step(a, [run[a] EXCEPT !.pc = "refreshing", !.candidate = initial])
               ELSE Select(a, r, initial)

\* boundedRefresh of a stale or missing consumer: no refresh port, no budget, a
\* timeout or a failure keep the selection; a refresh may return a current
\* selection of a generation that was indexed meanwhile.
RefreshConsumer(a, r) ==
    /\ At(a, "refreshing") /\ Selecting(a, r)
    /\ \/ Select(a, r, run[a].candidate)
       \/ \E o \in ObservationOf(r, generations[r]) :
              Select(a, r, ConsumerSelection(o, TRUE))

-----------------------------------------------------------------------------
(* execute: references, edges, findings. *)

\* Mutant: the references of the generations published by now.
ReadReferencesOfLatest(a) ==
    {o \in observations :
        /\ run[a].selections[o.repository].generation > 0
        /\ generations[o.repository] = o.generation}

\* readReferences of the selected generations, and the references of the
\* producer's head if that is its current selection.
ReadReferences(a) ==
    {o \in observations :
        /\ run[a].selections[o.repository].generation = o.generation
        /\ o.repository = Producer => run[a].selections[Producer].state = "current"}

\* joinChangedContracts dates its edges with one reading of the clock.  An
\* execution whose registry does not select the producer ends with a failure.
Join(a) ==
    /\ At(a, "selecting") /\ Remaining(a) = {}
    /\ run[a].selections[Producer] # Unselected
    /\ LET alias == snapshots[run[a].revision].alias
           found == UNION {{[consumer |-> o.repository, reference |-> ref,
                             basis |-> BasisOf(Kind[ref], alias),
                             revision |-> run[a].revision, generation |-> o.generation,
                             first |-> clock + 1, last |-> clock + 1,
                             validity |-> "valid"] : ref \in o.references} :
                           o \in ReadReferences(a)}
       IN  run' = [run EXCEPT ![a].pc = "writing",
                              ![a].edges = {edge \in found : edge.basis # "none"},
                              ![a].diagnosed = \E edge \in found : edge.basis = "none"]
    /\ clock' = clock + 1
    /\ UNCHANGED <<graph, results, currentAnalysis>>

\* observeEdges, in one transaction.
ObserveEdges(a) ==
    /\ At(a, "writing")
    /\ edges' = Observed(run[a].edges)
    /\ run' = [run EXCEPT ![a].pc = "finishing"]
    /\ UNCHANGED <<snapshots, stored, current, generations, observations,
                   clock, results, currentAnalysis>>

\* createFindingOccurrences: one finding per edge, abstained if the producer's
\* coverage cannot support a removal or the consumer is not current.
FindingOf(a, edge) ==
    [consumer |-> edge.consumer, reference |-> edge.reference, generation |-> edge.generation,
     state |-> IF \/ run[a].change = "partial_removal"
                  \/ run[a].selections[edge.consumer].state # "current"
               THEN "ABSTAINED" ELSE "PREVIEW"]

\* Mutant: a consumer without supported inputs is not an abstention.
AbstainsUnlessUnsupported(a, r) ==
    run[a].selections[r].state \notin {"current", "pending", "unsupported"}

\* selectionAbstention.
Abstains(a, r) == run[a].selections[r].state \notin {"current", "pending"}

Partial(a) ==
    \/ run[a].change # "complete"
    \/ \E r \in Repositories : Abstains(a, r)
    \/ run[a].diagnosed

\* The result.  matchSuppression changes the delivery of a finding only, which is
\* left out.
ResultOf(a, isCurrent) ==
    LET findings == {FindingOf(a, edge) : edge \in run[a].edges}
    IN  [state |-> IF ~isCurrent THEN "superseded" ELSE IF Partial(a) THEN "partial" ELSE "complete",
         current |-> isCurrent,
         revision |-> run[a].revision,
         selections |-> run[a].selections,
         findings |-> findings,
         abstained |-> {r \in Repositories : Abstains(a, r)}
                       \cup {f.consumer : f \in {g \in findings : g.state = "ABSTAINED"}}]

\* Mutant: the result that was current is not rewritten.
PersistedBeside(a, result) == [results EXCEPT ![a] = result]

\* Mutant: the result that was current is deleted.
PersistedReplacing(a, result) ==
    [b \in Analyses |-> CASE b = a -> result
                         [] b # a /\ result.current /\ b = currentAnalysis -> NoResult
                         [] OTHER -> results[b]]

\* persistAnalysis of a result with a new ID: a current one supersedes the
\* result that current_analyses names, and takes its place there.
Persisted(a, result) ==
    [b \in Analyses |->
        CASE b = a -> result
          [] b # a /\ result.current /\ b = currentAnalysis ->
                 [results[b] EXCEPT !.state = "superseded", !.current = FALSE]
          [] OTHER -> results[b]]

\* The cancellation check with the analysis budget (an analysis over budget is
\* not current), the result and persistAnalysis, which finds no row of the ID: an
\* execution is one ID, and AnalysisV2 has those that are executed again.
PersistAnalysis(a) ==
    /\ At(a, "finishing")
    /\ \E isCurrent \in BOOLEAN :
           LET result == ResultOf(a, isCurrent)
           IN  /\ results' = Persisted(a, result)
               /\ currentAnalysis' = IF result.current THEN a ELSE currentAnalysis
    /\ run' = [run EXCEPT ![a] = Done]
    /\ UNCHANGED <<graph, clock>>

\* A port fails, or the process stops: nothing written so far is undone.
Abandon(a) == run[a] \notin {Idle, Done} /\ Step(a, Done)

-----------------------------------------------------------------------------

Next ==
    \/ \E n \in Revisions : Register(n)
    \/ \E r \in Repositories : Publish(r)
    \/ \E r \in Repositories :
           \E extraction \in Extractions[r], g \in 1 .. generations[r] : Extract(r, g, extraction)
    \/ \E a \in Analyses :
           \/ Start(a) \/ SelectProducerHead(a)
           \/ \E r \in Repositories :
                  SelectConsumer(a, r) \/ ObserveConsumer(a, r) \/ RefreshConsumer(a, r)
           \/ Join(a) \/ ObserveEdges(a)
           \/ PersistAnalysis(a) \/ Abandon(a)

Spec == Init /\ [][Next]_vars

-----------------------------------------------------------------------------
(* Properties. *)

\* persistAnalysis: current_analyses names the one result that calls itself
\* current, however the analyses of the pull request interleave.
OneCurrentAnalysis ==
    \A a \in Analyses :
        (results[a] # NoResult /\ results[a].current) <=> a = currentAnalysis

\* "The older occurrence remains inspectable": a stored result never disappears,
\* and nothing of it changes but its supersession, which is final.
ResultsOnlySupersede ==
    [][\A a \in Analyses :
           results[a] # NoResult =>
               results'[a] \in {results[a],
                                [results[a] EXCEPT !.state = "superseded", !.current = FALSE]}]_vars

\* A repository that was selected and is not a current consumer is abstained on,
\* in a result that is not complete; no preview finding names another repository,
\* or one that is not current.
Speaks(result, selected) ==
    /\ \A r \in selected : result.selections[r].state # "current" =>
           r \in result.abstained /\ result.state # "complete"
    /\ \A f \in result.findings :
           /\ f.consumer \in selected
           /\ f.state = "PREVIEW" => result.selections[f.consumer].state = "current"

\* execute and createFindingOccurrences: no stored result passes over a repository
\* that its registry revision selects.
NoRepositoryIsSilent ==
    \A a \in Analyses : results[a] # NoResult =>
        Speaks(results[a], snapshots[results[a].revision].selected)

\* A complete result previews every reference to the contract that the selected
\* generation of a selected repository holds, whatever was published, put or
\* suppressed while execute ran.
CompleteReportsEveryReference ==
    \A a \in Analyses : results[a] # NoResult /\ results[a].state = "complete" =>
        \A r \in snapshots[results[a].revision].selected :
            \A o \in ObservationOf(r, results[a].selections[r].generation) :
                o.references = {f.reference : f \in {g \in results[a].findings :
                                   /\ g.consumer = r /\ g.state = "PREVIEW"
                                   /\ g.generation = o.generation}}

\* An edge cites a generation whose observation holds the reference, between
\* repositories that its registry revision selects, on a basis that revision
\* supports.
Backed(edge) ==
    /\ \E o \in ObservationOf(edge.consumer, edge.generation) : edge.reference \in o.references
    /\ {Producer, edge.consumer} \subseteq snapshots[edge.revision].selected
    /\ edge.basis = BasisOf(Kind[edge.reference], snapshots[edge.revision].alias)
    /\ edge.first <= edge.last

\* joinChangedContracts and observeEdges: every stored edge is backed by what was
\* observed, whichever analyses wrote it and whatever was put meanwhile.
EdgesAreBacked == \A edge \in edges : Backed(edge)

\* "partial observations cannot erase a known positive": a valid edge ends with a
\* complete observation of its consumer that lacks the reference, or with a newer
\* registry revision, and with nothing else.
PartialNeverErases ==
    [][\A edge \in edges : edge.validity = "valid" =>
           \/ \E row \in edges' : EdgeId(row) = EdgeId(edge) /\ row.validity = "valid"
           \/ current' > current
           \/ \E o \in observations' \ observations :
                  /\ o.repository = edge.consumer /\ o.coverage = "complete"
                  /\ edge.reference \notin o.references]_vars

\* "source or parser incompleteness means partial/not-analysed; neither becomes a
\* clean negative" (docs/operations/self-host.md:42).
IncompleteIsNeverClean ==
    \A a \in Analyses : results[a] # NoResult /\ results[a].state = "complete" =>
        \A r \in snapshots[results[a].revision].selected :
            \A o \in ObservationOf(r, results[a].selections[r].generation) :
                o.coverage = "complete"
=============================================================================
