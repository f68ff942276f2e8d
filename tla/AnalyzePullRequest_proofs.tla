--------------------- MODULE AnalyzePullRequest_proofs ---------------------
(***************************************************************************)
(* Proofs about AnalyzePullRequest for any repositories, references,       *)
(* registry revisions and number of analyses.                              *)
(*                                                                         *)
(* The types of the tables and of the executions are needed because an     *)
(* execution carries what it read into its result.  FreshInv is the part   *)
(* that makes OneCurrentAnalysis inductive: a result is stored by the last *)
(* step of its execution, so an execution that is still running has none.  *)
(* EvidenceInv adds what an execution knows of the tables while they move: *)
(* what it selected and joined stays backed, because observations and      *)
(* registry snapshots are never replaced.                                  *)
(***************************************************************************)
EXTENDS AnalyzePullRequest, TLAPS

TablesInv ==
    /\ snapshots \in Configurations
    /\ stored \subseteq Revisions
    /\ generations \in [Repositories -> Nat]
    /\ observations \subseteq Observation
    /\ clock \in Nat

RunsInv == run \in [Analyses -> {Idle, Done} \cup InFlight]

ResultsInv ==
    /\ results \in [Analyses -> {NoResult} \cup Result]
    /\ currentAnalysis \in Analyses \cup {NoAnalysis}

FreshInv == \A a \in Analyses : run[a] # Done => results[a] = NoResult

Inv == TablesInv /\ RunsInv /\ ResultsInv /\ FreshInv /\ OneCurrentAnalysis

-----------------------------------------------------------------------------
(* Records. *)

\* What the program counter tells about an execution.
LEMMA RunByPc ==
    ASSUME RunsInv, NEW a \in Analyses
    PROVE  /\ run[a].pc = "idle" => run[a] = Idle
           /\ run[a].pc \notin {"idle", "done"} => run[a] \in InFlight /\ run[a] # Done
BY DEF RunsInv, Idle, Done, InFlight

\* A stored result is a record that NoResult is not.
LEMMA ResultShape ==
    ASSUME NEW result \in Result
    PROVE  /\ result # NoResult
           /\ [result EXCEPT !.state = "superseded", !.current = FALSE] \in Result
           /\ [result EXCEPT !.state = "superseded", !.current = FALSE].current = FALSE
<1>1. result # NoResult
  BY DEF Result, NoResult
<1>2. [result EXCEPT !.state = "superseded", !.current = FALSE] \in Result
  BY DEF Result
<1>3. [result EXCEPT !.state = "superseded", !.current = FALSE].current = FALSE
  BY DEF Result
<1> QED
  BY <1>1, <1>2, <1>3

\* The sequence numbers of registry revisions are positive.
LEMMA RevisionsPositive == TablesInv => Revisions \subseteq Nat \ {0}
BY EvidenceAssumption DEF TablesInv, Revisions

-----------------------------------------------------------------------------
(* The first state. *)

LEMMA InvInit == Init => Inv
<1> SUFFICES ASSUME Init PROVE Inv
  OBVIOUS
<1>1. TablesInv
  BY DEF Init, GraphInit, TablesInv
<1>2. RunsInv /\ ResultsInv /\ FreshInv
  BY DEF Init, RunsInv, ResultsInv, FreshInv, Idle, Done
<1>3. OneCurrentAnalysis
  BY AnalysesAssumption DEF Init, OneCurrentAnalysis, NoResult
<1> QED
  BY <1>1, <1>2, <1>3 DEF Inv

-----------------------------------------------------------------------------
(* Steps of the tables. *)

LEMMA PositiveObservation ==
    ASSUME TablesInv, NEW o \in observations
    PROVE  /\ o.repository \in Repositories /\ o.generation \in Nat \ {0}
           /\ o.references \subseteq References
BY DEF TablesInv, Observation

LEMMA TablesKept ==
    ASSUME TablesInv, UNCHANGED <<graph, clock>>
    PROVE  TablesInv'
BY DEF TablesInv, graph, Revisions

LEMMA RegisterStep ==
    ASSUME Inv, NEW n \in Revisions, Register(n)
    PROVE  Inv'
<1>1. TablesInv'
  BY DEF Inv, TablesInv, Register, PutRevision, analysis, Revisions
<1>2. UNCHANGED <<run, results, currentAnalysis>>
  BY DEF Register, analysis
<1> QED
  BY <1>1, <1>2 DEF Inv, RunsInv, ResultsInv, FreshInv, OneCurrentAnalysis

LEMMA PublishStep ==
    ASSUME Inv, NEW r \in Repositories, Publish(r)
    PROVE  Inv'
<1>1. TablesInv'
  BY DEF Inv, TablesInv, Publish, PublishGeneration, analysis, Revisions
<1>2. UNCHANGED <<run, results, currentAnalysis>>
  BY DEF Publish, analysis
<1> QED
  BY <1>1, <1>2 DEF Inv, RunsInv, ResultsInv, FreshInv, OneCurrentAnalysis

LEMMA ExtractStep ==
    ASSUME Inv, NEW r \in Repositories, NEW extraction \in Extractions[r],
           NEW g \in 1 .. generations[r], Extract(r, g, extraction)
    PROVE  Inv'
<1>1. extraction \in [coverage : Coverages, references : SUBSET References]
  BY EvidenceAssumption
<1>2. generations[r] \in Nat
  BY DEF Inv, TablesInv
<1>3. g \in Nat \ {0}
  BY <1>2
<1>4. ObservationRow(r, g, extraction) \in Observation
  BY <1>1, <1>3 DEF ObservationRow, Observation
<1>5. /\ observations' = observations \cup {ObservationRow(r, g, extraction)}
      /\ UNCHANGED <<snapshots, stored, generations, clock, run, results, currentAnalysis>>
  BY DEF Extract, PutContractObservation, analysis
<1>6. TablesInv'
  BY <1>4, <1>5 DEF Inv, TablesInv, Revisions
<1> QED
  BY <1>5, <1>6 DEF Inv, RunsInv, ResultsInv, FreshInv, OneCurrentAnalysis

-----------------------------------------------------------------------------
(* Steps of an execution that store no result. *)

\* A running execution goes on, or ends without a result.
LEMMA RunStep ==
    ASSUME Inv, NEW a \in Analyses, NEW record \in {Done} \cup InFlight,
           run[a] # Done, run' = [run EXCEPT ![a] = record],
           TablesInv', UNCHANGED <<results, currentAnalysis>>
    PROVE  Inv'
<1>1. RunsInv'
  BY DEF Inv, RunsInv
<1>2. FreshInv'
  BY DEF Inv, RunsInv, FreshInv
<1>3. ResultsInv' /\ OneCurrentAnalysis'
  BY DEF Inv, ResultsInv, OneCurrentAnalysis
<1> QED
  BY <1>1, <1>2, <1>3 DEF Inv

LEMMA StepStep ==
    ASSUME Inv, NEW a \in Analyses, NEW record \in {Done} \cup InFlight,
           run[a] # Done, Step(a, record)
    PROVE  Inv'
<1>1. TablesInv'
  BY TablesKept DEF Inv, Step
<1> QED
  BY <1>1, RunStep DEF Step

\* An execution that selects: its record with another selection is a record.
LEMMA SelectStep ==
    ASSUME Inv, NEW a \in Analyses, NEW r \in Repositories, NEW selection \in Selections,
           run[a] \in InFlight, Select(a, r, selection)
    PROVE  Inv'
<1>1. Unselected \in Selections
  BY DEF Unselected, Selection, Selections, SelectionStates
<1> DEFINE record == [run[a] EXCEPT !.pc = "selecting", !.selections[r] = selection,
                                    !.candidate = Unselected]
<1>2. record \in InFlight
  BY <1>1 DEF InFlight
<1>3. run[a] # Done
  BY DEF InFlight, Done
<1> QED
  BY <1>2, <1>3, StepStep DEF Select

LEMMA CandidateStep ==
    ASSUME Inv, NEW a \in Analyses, NEW selection \in Selections,
           NEW pc \in {"observing", "refreshing"}, run[a] \in InFlight,
           Step(a, [run[a] EXCEPT !.pc = pc, !.candidate = selection])
    PROVE  Inv'
<1>1. [run[a] EXCEPT !.pc = pc, !.candidate = selection] \in InFlight
  BY DEF InFlight
<1>2. run[a] # Done
  BY DEF InFlight, Done
<1> QED
  BY <1>1, <1>2, StepStep

LEMMA StartStep ==
    ASSUME Inv, NEW a \in Analyses, Start(a)
    PROVE  Inv'
<1>1. PICK n \in stored, head \in observations, change \in Changes :
           Step(a, [pc |-> "selecting", revision |-> n, head |-> head.generation,
                    change |-> change,
                    selections |-> [r \in Repositories |-> Unselected],
                    candidate |-> Unselected, edges |-> {}, diagnosed |-> FALSE])
  BY DEF Start
<1>2. n \in Nat \ {0}
  BY RevisionsPositive DEF Inv, TablesInv
<1>3. head.generation \in Nat \ {0}
  BY PositiveObservation DEF Inv
<1>4. Unselected \in Selections
  BY DEF Unselected, Selection, Selections, SelectionStates
<1>5. [pc |-> "selecting", revision |-> n, head |-> head.generation, change |-> change,
       selections |-> [r \in Repositories |-> Unselected],
       candidate |-> Unselected, edges |-> {}, diagnosed |-> FALSE] \in InFlight
  BY <1>2, <1>3, <1>4 DEF InFlight
<1>6. run[a] # Done
  BY DEF Start, At, Done
<1> QED
  BY <1>1, <1>5, <1>6, StepStep

LEMMA SelectionType ==
    ASSUME NEW state \in SelectionStates \cup {"pending"}, NEW generation \in Nat
    PROVE  Selection(state, generation) \in Selections
BY DEF Selection, Selections

LEMMA ProducerStep ==
    ASSUME Inv, NEW a \in Analyses, SelectProducerHead(a)
    PROVE  Inv'
<1>1. PICK head \in observations :
          \/ Select(a, Producer, HeadSelection(head))
          \/ Select(a, Producer, Selection("unauthorized", 0))
  BY DEF SelectProducerHead, ObservationOf
<1>2. run[a] \in InFlight
  BY RunByPc DEF Inv, SelectProducerHead, Selecting, At
<1>3. HeadSelection(head) \in Selections /\ Selection("unauthorized", 0) \in Selections
  BY PositiveObservation, SelectionType DEF Inv, HeadSelection, SelectionStates
<1> QED
  BY <1>1, <1>2, <1>3, SelectStep, AnalysesAssumption

LEMMA ConsumerSelectionType ==
    ASSUME TablesInv, NEW o \in observations, NEW fresh \in BOOLEAN
    PROVE  ConsumerSelection(o, fresh) \in Selections
BY PositiveObservation, SelectionType DEF ConsumerSelection, SelectionStates

LEMMA ConsumerStep ==
    ASSUME Inv, NEW a \in Analyses, NEW r \in Repositories, SelectConsumer(a, r)
    PROVE  Inv'
<1>1. run[a] \in InFlight
  BY RunByPc DEF Inv, SelectConsumer, Selecting, At
<1>2. generations[r] \in Nat
  BY DEF Inv, TablesInv
<1>3. /\ Selection("unauthorized", 0) \in Selections
      /\ Selection("not_indexed", 0) \in Selections
      /\ Selection("pending", generations[r]) \in Selections
  BY <1>2, SelectionType DEF SelectionStates
<1>4. CASE Select(a, r, Selection("unauthorized", 0))
  BY <1>1, <1>3, <1>4, SelectStep
<1>5. CASE Step(a, [run[a] EXCEPT !.pc = "refreshing", !.candidate = Selection("not_indexed", 0)])
  BY <1>1, <1>3, <1>5, CandidateStep
<1>6. CASE Step(a, [run[a] EXCEPT !.pc = "observing",
                                  !.candidate = Selection("pending", generations[r])])
  BY <1>1, <1>3, <1>6, CandidateStep
<1> QED
  BY <1>4, <1>5, <1>6 DEF SelectConsumer

LEMMA ObserveStep ==
    ASSUME Inv, NEW a \in Analyses, NEW r \in Repositories, ObserveConsumer(a, r)
    PROVE  Inv'
<1>1. run[a] \in InFlight
  BY RunByPc DEF Inv, ObserveConsumer, At
<1>2. PICK initial \in Selections :
          IF initial.state \in {"stale", "not_indexed"}
          THEN Step(a, [run[a] EXCEPT !.pc = "refreshing", !.candidate = initial])
          ELSE Select(a, r, initial)
  <2> DEFINE seen == ObservationOf(r, run[a].candidate.generation)
  <2>1. PICK fresh \in BOOLEAN :
            \E initial \in IF seen = {} THEN {Selection("not_indexed", 0)}
                           ELSE {ConsumerSelection(o, fresh) : o \in seen} :
                IF initial.state \in {"stale", "not_indexed"}
                THEN Step(a, [run[a] EXCEPT !.pc = "refreshing", !.candidate = initial])
                ELSE Select(a, r, initial)
    BY DEF ObserveConsumer
  <2>2. seen \subseteq observations
    BY DEF ObservationOf
  <2>3. \A o \in seen : ConsumerSelection(o, fresh) \in Selections
    BY <2>2, ConsumerSelectionType DEF Inv
  <2>4. Selection("not_indexed", 0) \in Selections
    BY SelectionType DEF SelectionStates
  <2> HIDE DEF seen
  <2> QED
    BY <2>1, <2>3, <2>4
<1> QED
  BY <1>1, <1>2, SelectStep, CandidateStep

LEMMA RefreshStep ==
    ASSUME Inv, NEW a \in Analyses, NEW r \in Repositories, RefreshConsumer(a, r)
    PROVE  Inv'
<1>1. run[a] \in InFlight
  BY RunByPc DEF Inv, RefreshConsumer, At
<1>2. run[a].candidate \in Selections
  BY <1>1 DEF InFlight
<1>3. \A o \in ObservationOf(r, generations[r]) : ConsumerSelection(o, TRUE) \in Selections
  BY ConsumerSelectionType DEF Inv, ObservationOf
<1> QED
  BY <1>1, <1>2, <1>3, SelectStep DEF RefreshConsumer

LEMMA AbandonStep ==
    ASSUME Inv, NEW a \in Analyses, Abandon(a)
    PROVE  Inv'
BY StepStep DEF Abandon

LEMMA BasisType ==
    ASSUME NEW kind, NEW alias, BasisOf(kind, alias) # "none"
    PROVE  BasisOf(kind, alias) \in Bases
BY DEF BasisOf, Bases

LEMMA JoinStep ==
    ASSUME Inv, NEW a \in Analyses, Join(a)
    PROVE  Inv'
<1> DEFINE alias == snapshots[run[a].revision].alias
           edgeTo(o, ref) ==
               [consumer |-> o.repository, reference |-> ref,
                basis |-> BasisOf(Kind[ref], alias),
                revision |-> run[a].revision, generation |-> o.generation,
                first |-> clock + 1, last |-> clock + 1, validity |-> "valid"]
           found == UNION {{edgeTo(o, ref) : ref \in o.references} : o \in ReadReferences(a)}
           joined == {edge \in found : edge.basis # "none"}
           diagnosed == \E edge \in found : edge.basis = "none"
<1>1. run[a] \in InFlight /\ run[a] # Done
  BY RunByPc DEF Inv, Join, At
<1>2. /\ run' = [run EXCEPT ![a].pc = "writing", ![a].edges = joined, ![a].diagnosed = diagnosed]
      /\ clock' = clock + 1
      /\ UNCHANGED <<graph, results, currentAnalysis>>
  BY DEF Join
<1>3. joined \subseteq Edge
  <2> SUFFICES ASSUME NEW edge \in joined PROVE edge \in Edge
    OBVIOUS
  <2>0. PICK o \in ReadReferences(a) : edge \in {edgeTo(o, ref) : ref \in o.references}
    OBVIOUS
  <2>1. PICK ref \in o.references : edge = edgeTo(o, ref)
    BY <2>0
  <2>2. o.repository \in Repositories /\ o.generation \in Nat \ {0} /\ ref \in References
    BY <2>1, PositiveObservation DEF Inv, ReadReferences
  <2>3. BasisOf(Kind[ref], alias) \in Bases
    BY <2>1, BasisType
  <2>4. run[a].revision \in Nat \ {0} /\ clock + 1 \in Nat
    BY <1>1 DEF InFlight, Inv, TablesInv
  <2> QED
    BY <2>1, <2>2, <2>3, <2>4 DEF Edge
<1>4. diagnosed \in BOOLEAN
  OBVIOUS
<1> HIDE DEF joined, diagnosed
<1>5. [run[a] EXCEPT !.pc = "writing", !.edges = joined, !.diagnosed = diagnosed] \in InFlight
  BY <1>1, <1>3, <1>4 DEF InFlight
<1>6. run' = [run EXCEPT ![a] = [run[a] EXCEPT !.pc = "writing", !.edges = joined,
                                               !.diagnosed = diagnosed]]
  BY <1>2 DEF Inv, RunsInv
<1>7. TablesInv'
  BY <1>2 DEF Inv, TablesInv, graph, Revisions
<1> QED
  BY <1>1, <1>2, <1>5, <1>6, <1>7, RunStep

LEMMA WriteStep ==
    ASSUME Inv, NEW a \in Analyses, ObserveEdges(a)
    PROVE  Inv'
<1>1. run[a] \in InFlight /\ run[a] # Done
  BY RunByPc DEF Inv, ObserveEdges, At
<1>2. [run[a] EXCEPT !.pc = "finishing"] \in InFlight
  BY <1>1 DEF InFlight
<1>3. run' = [run EXCEPT ![a] = [run[a] EXCEPT !.pc = "finishing"]]
  BY DEF ObserveEdges, Inv, RunsInv
<1>4. TablesInv'
  BY DEF ObserveEdges, Inv, TablesInv, Revisions
<1> QED
  BY <1>1, <1>2, <1>3, <1>4, RunStep DEF ObserveEdges

-----------------------------------------------------------------------------
(* persistAnalysis. *)

LEMMA ResultType ==
    ASSUME Inv, NEW a \in Analyses, run[a] \in InFlight, NEW isCurrent \in BOOLEAN
    PROVE  /\ ResultOf(a, isCurrent) \in Result
           /\ ResultOf(a, isCurrent).current = isCurrent
<1>1. /\ run[a].revision \in Nat \ {0}
      /\ run[a].selections \in [Repositories -> Selections]
      /\ run[a].edges \subseteq Edge
  BY DEF InFlight
<1>2. \A edge \in run[a].edges : FindingOf(a, edge) \in Finding
  BY <1>1 DEF FindingOf, Finding, Edge
<1> DEFINE findings == {FindingOf(a, edge) : edge \in run[a].edges}
           abstained == {r \in Repositories : Abstains(a, r)}
                        \cup {f.consumer : f \in {g \in findings : g.state = "ABSTAINED"}}
           state == IF ~isCurrent THEN "superseded" ELSE IF Partial(a) THEN "partial" ELSE "complete"
<1>3. findings \in SUBSET Finding
  BY <1>2
<1>4. abstained \in SUBSET Repositories
  BY <1>3 DEF Finding
<1>5. state \in {"complete", "partial", "superseded"}
  OBVIOUS
<1>6. ResultOf(a, isCurrent) =
          [state |-> state, current |-> isCurrent, revision |-> run[a].revision,
           selections |-> run[a].selections, findings |-> findings, abstained |-> abstained]
  BY DEF ResultOf
<1> HIDE DEF findings, abstained, state
<1> QED
  BY <1>1, <1>3, <1>4, <1>5, <1>6 DEF Result

\* What persistAnalysis does to the table, by result.
LEMMA PersistedRows ==
    ASSUME Inv, NEW a \in Analyses, NEW result \in Result, results' = Persisted(a, result)
    PROVE  /\ results' \in [Analyses -> {NoResult} \cup Result]
           /\ results'[a] = result
           /\ \A b \in Analyses \ {a} :
                  results'[b] = IF result.current /\ b = currentAnalysis
                                THEN [results[b] EXCEPT !.state = "superseded", !.current = FALSE]
                                ELSE results[b]
<1>1. /\ DOMAIN results' = Analyses
      /\ results'[a] = result
      /\ \A b \in Analyses \ {a} :
             results'[b] = IF result.current /\ b = currentAnalysis
                           THEN [results[b] EXCEPT !.state = "superseded", !.current = FALSE]
                           ELSE results[b]
  BY DEF Persisted
<1>2. results' = [b \in Analyses |-> results'[b]]
  BY DEF Persisted
<1>3. ASSUME NEW b \in Analyses PROVE results'[b] \in {NoResult} \cup Result
  <2>1. CASE b = a
    BY <1>1, <2>1
  <2>2. CASE b # a /\ result.current /\ b = currentAnalysis
    <3>1. results[b] \in Result
      BY <2>2 DEF Inv, ResultsInv, OneCurrentAnalysis
    <3> QED
      BY <1>1, <2>2, <3>1, ResultShape
  <2>3. CASE b # a /\ ~(result.current /\ b = currentAnalysis)
    BY <1>1, <2>3 DEF Inv, ResultsInv
  <2> QED
    BY <2>1, <2>2, <2>3
<1> QED
  BY <1>1, <1>2, <1>3

LEMMA PersistStep ==
    ASSUME Inv, NEW a \in Analyses, PersistAnalysis(a)
    PROVE  Inv'
<1>1. PICK isCurrent \in BOOLEAN :
          /\ results' = Persisted(a, ResultOf(a, isCurrent))
          /\ currentAnalysis' = IF ResultOf(a, isCurrent).current THEN a ELSE currentAnalysis
  BY DEF PersistAnalysis
<1>2. run[a] \in InFlight /\ run[a] # Done
  BY RunByPc DEF Inv, PersistAnalysis, At
<1> DEFINE result == ResultOf(a, isCurrent)
<1>3. result \in Result
  BY <1>2, ResultType
<1>4. results' = Persisted(a, result) /\ currentAnalysis' = IF result.current THEN a ELSE currentAnalysis
  BY <1>1
<1> HIDE DEF result
<1>5. /\ results' \in [Analyses -> {NoResult} \cup Result]
      /\ results'[a] = result
      /\ \A b \in Analyses \ {a} :
             results'[b] = IF result.current /\ b = currentAnalysis
                           THEN [results[b] EXCEPT !.state = "superseded", !.current = FALSE]
                           ELSE results[b]
  BY <1>3, <1>4, PersistedRows
<1>6. run' = [run EXCEPT ![a] = Done] /\ UNCHANGED <<graph, clock>>
  BY DEF PersistAnalysis
<1>7. TablesInv' /\ RunsInv'
  BY <1>6, TablesKept DEF Inv, RunsInv
<1>8. ResultsInv'
  BY <1>4, <1>5 DEF Inv, ResultsInv
<1>9. FreshInv'
  <2> SUFFICES ASSUME NEW b \in Analyses, run'[b] # Done PROVE results'[b] = NoResult
    BY DEF FreshInv
  <2>1. b # a /\ results[b] = NoResult
    BY <1>6 DEF Inv, RunsInv, FreshInv
  <2>2. b # currentAnalysis
    BY <2>1 DEF Inv, OneCurrentAnalysis
  <2> QED
    BY <1>5, <2>1, <2>2
<1>10. OneCurrentAnalysis'
  <2>1. results[a] = NoResult /\ a # currentAnalysis
    BY <1>2 DEF Inv, FreshInv, OneCurrentAnalysis
  <2> SUFFICES ASSUME NEW b \in Analyses
               PROVE  (results'[b] # NoResult /\ results'[b].current) <=> b = currentAnalysis'
    BY DEF OneCurrentAnalysis
  <2>2. CASE b = a
    BY <1>3, <1>4, <1>5, <2>1, <2>2, ResultShape
  <2>3. CASE b # a /\ result.current /\ b = currentAnalysis
    <3>1. results[b] \in Result
      BY <2>3 DEF Inv, ResultsInv, OneCurrentAnalysis
    <3> QED
      BY <1>4, <1>5, <2>3, <3>1, ResultShape
  <2>4. CASE b # a /\ ~(result.current /\ b = currentAnalysis)
    BY <1>4, <1>5, <2>4 DEF Inv, OneCurrentAnalysis
  <2> QED
    BY <2>2, <2>3, <2>4
<1> QED
  BY <1>7, <1>8, <1>9, <1>10 DEF Inv

-----------------------------------------------------------------------------
(* One current analysis. *)

LEMMA InvStep == Inv /\ [Next]_vars => Inv'
<1> SUFFICES ASSUME Inv, [Next]_vars PROVE Inv'
  OBVIOUS
<1>1. CASE UNCHANGED vars
  <2>1. TablesInv'
    BY <1>1, TablesKept DEF Inv, vars
  <2> QED
    BY <1>1, <2>1 DEF vars, Inv, RunsInv, ResultsInv, FreshInv, OneCurrentAnalysis
<1>2. CASE \E n \in Revisions : Register(n)
  BY <1>2, RegisterStep
<1>3. CASE \E r \in Repositories : Publish(r)
  BY <1>3, PublishStep
<1>4. CASE \E r \in Repositories :
              \E extraction \in Extractions[r], g \in 1 .. generations[r] : Extract(r, g, extraction)
  BY <1>4, ExtractStep
<1>5. ASSUME NEW a \in Analyses,
             \/ Start(a) \/ SelectProducerHead(a)
             \/ \E r \in Repositories :
                    SelectConsumer(a, r) \/ ObserveConsumer(a, r) \/ RefreshConsumer(a, r)
             \/ Join(a) \/ ObserveEdges(a)
             \/ PersistAnalysis(a) \/ Abandon(a)
      PROVE  Inv'
  BY <1>5, StartStep, ProducerStep, ConsumerStep, ObserveStep, RefreshStep, JoinStep, WriteStep,
     PersistStep, AbandonStep
<1> QED
  BY <1>1, <1>2, <1>3, <1>4, <1>5 DEF Next

\* However many analyses of a pull request overlap, and in whatever order they
\* persist, current_analyses names the one stored result that is current.
THEOREM CurrentAnalysisIsUnique == Spec => []OneCurrentAnalysis
<1>1. Inv => OneCurrentAnalysis
  BY DEF Inv
<1> QED
  BY InvInit, InvStep, <1>1, PTL DEF Spec

-----------------------------------------------------------------------------
(* What an execution knows of the tables. *)

\* An execution selects only what its registry revision selects, has a selection
\* for all of it once it joins, and holds edges that the tables back.
Sound(record) ==
    /\ record.revision \in Revisions
    /\ \A r \in Repositories : record.selections[r] # Unselected =>
           /\ r \in snapshots[record.revision].selected
           /\ record.selections[r].state # "pending"
    /\ record.pc = "refreshing" => record.candidate.state # "pending"
    /\ record.pc \in {"writing", "finishing"} =>
           \A r \in snapshots[record.revision].selected : record.selections[r] # Unselected
    /\ \A edge \in record.edges : Backed(edge) /\ edge.revision = record.revision

\* The rows of evidence_edges.
StoredEdge ==
    [consumer : Repositories, reference : References, basis : Bases, revision : Nat \ {0},
     generation : Nat \ {0}, first : Nat, last : Nat, validity : Validity]

EvidenceInv ==
    /\ edges \subseteq StoredEdge
    /\ \A a \in Analyses : run[a] \in InFlight => Sound(run[a])
    /\ EdgesAreBacked
    /\ NoRepositoryIsSilent

LEMMA SelectedType ==
    ASSUME TablesInv, NEW n \in Revisions
    PROVE  snapshots[n].selected \subseteq Repositories
<1> DEFINE Snapshot == [selected : SUBSET Repositories, alias : Aliases]
<1>1. snapshots \in Seq(Snapshot)
  BY EvidenceAssumption DEF TablesInv
<1> HIDE DEF Snapshot
<1>2. snapshots[n] \in Snapshot
  BY <1>1 DEF Revisions
<1> QED
  BY <1>2 DEF Snapshot

\* Observations are never replaced, so what an execution knows stays true.
LEMMA SoundKept ==
    ASSUME NEW a \in Analyses, NEW record, Sound(record), run'[a] = record,
           observations \subseteq observations', UNCHANGED snapshots
    PROVE  Sound(run[a])'
BY DEF Sound, Backed, ObservationOf, Revisions

LEMMA SilentKept ==
    ASSUME NoRepositoryIsSilent, UNCHANGED <<results, snapshots>>
    PROVE  NoRepositoryIsSilent'
BY DEF NoRepositoryIsSilent

\* A step of the rest of the system.
LEMMA TableStep ==
    ASSUME EvidenceInv, UNCHANGED <<snapshots, run, results>>, observations \subseteq observations',
           edges' \subseteq StoredEdge, EdgesAreBacked'
    PROVE  EvidenceInv'
<1>1. ASSUME NEW a \in Analyses, run'[a] \in InFlight PROVE Sound(run[a])'
  BY <1>1, SoundKept DEF EvidenceInv
<1>2. (\A a \in Analyses : run[a] \in InFlight => Sound(run[a]))'
  BY <1>1 DEF InFlight, Edge, Finding, Selections
<1> QED
  BY <1>2, SilentKept DEF EvidenceInv, StoredEdge

\* Invalidation marks an edge and leaves what backs it.
LEMMA InvalidatedBacked ==
    ASSUME edges \subseteq StoredEdge, EdgesAreBacked, NEW why \in [edges -> Validity],
           edges' \in {edges, Invalidated(why)},
           observations \subseteq observations', UNCHANGED snapshots
    PROVE  edges' \subseteq StoredEdge /\ EdgesAreBacked'
<1> SUFFICES ASSUME NEW edge \in edges' PROVE edge \in StoredEdge /\ Backed(edge)'
  BY DEF EdgesAreBacked
<1>1. PICK row \in edges :
          edge = row \/ \E v \in Validity : edge = [row EXCEPT !.validity = v]
  BY DEF Invalidated
<1>2. row \in StoredEdge
  OBVIOUS
<1>3. /\ edge \in StoredEdge
      /\ edge.consumer = row.consumer /\ edge.generation = row.generation
      /\ edge.reference = row.reference /\ edge.revision = row.revision
      /\ edge.basis = row.basis /\ edge.first = row.first /\ edge.last = row.last
  BY <1>1, <1>2 DEF StoredEdge
<1> QED
  BY <1>3 DEF EdgesAreBacked, Backed, ObservationOf

LEMMA TableSteps ==
    ASSUME EvidenceInv,
           \/ \E n \in Revisions : Register(n)
           \/ \E r \in Repositories : Publish(r)
           \/ \E r \in Repositories :
                  \E extraction \in Extractions[r], g \in 1 .. generations[r] :
                      Extract(r, g, extraction)
    PROVE  EvidenceInv'
<1>1. /\ UNCHANGED <<snapshots, run, results>>
      /\ observations \subseteq observations'
  BY DEF Register, PutRevision, Publish, PublishGeneration, Extract, PutContractObservation, analysis
<1>2. \E why \in [edges -> Validity] : edges' \in {edges, Invalidated(why)}
  <2>1. CASE \E n \in Revisions : Register(n)
    BY <2>1 DEF Register, PutRevision, RevisionReason, Validity
  <2>2. CASE \E r \in Repositories : Publish(r)
    <3>1. edges' = edges /\ [edge \in edges |-> "valid"] \in [edges -> Validity]
      BY <2>2 DEF Publish, PublishGeneration, Validity
    <3> QED
      BY <3>1
  <2>3. CASE \E r \in Repositories :
                \E extraction \in Extractions[r], g \in 1 .. generations[r] :
                    Extract(r, g, extraction)
    BY <2>3 DEF Extract, PutContractObservation, Validity
  <2> QED
    BY <2>1, <2>2, <2>3
<1>3. edges' \subseteq StoredEdge /\ EdgesAreBacked'
  BY <1>1, <1>2, InvalidatedBacked DEF EvidenceInv
<1> QED
  BY <1>1, <1>3, TableStep

-----------------------------------------------------------------------------
(* Steps of an execution, again. *)

LEMMA SoundStep ==
    ASSUME Inv, EvidenceInv, NEW a \in Analyses, NEW record,
           run' = [run EXCEPT ![a] = record], record \in InFlight => Sound(record),
           edges' \subseteq StoredEdge, EdgesAreBacked', NoRepositoryIsSilent', UNCHANGED <<snapshots, observations>>
    PROVE  EvidenceInv'
<1>1. ASSUME NEW b \in Analyses, run'[b] \in InFlight PROVE Sound(run[b])'
  <2>1. CASE b = a
    <3>1. run'[b] = record
      BY <2>1 DEF Inv, RunsInv
    <3> QED
      BY <1>1, <3>1, SoundKept
  <2>2. CASE b # a
    <3>1. run'[b] = run[b]
      BY <2>2 DEF Inv, RunsInv
    <3>2. Sound(run[b])
      BY <1>1, <3>1 DEF EvidenceInv
    <3> QED
      BY <3>1, <3>2, SoundKept
  <2> QED
    BY <2>1, <2>2
<1>2. (\A b \in Analyses : run[b] \in InFlight => Sound(run[b]))'
  BY <1>1 DEF InFlight, Edge, Finding, Selections
<1> QED
  BY <1>2 DEF EvidenceInv, StoredEdge

LEMMA BackedSame ==
    ASSUME EdgesAreBacked, UNCHANGED <<snapshots, observations, edges>>
    PROVE  EdgesAreBacked'
BY DEF EdgesAreBacked, Backed, ObservationOf

\* A step that only moves the execution.
LEMMA SoundMove ==
    ASSUME Inv, EvidenceInv, NEW a \in Analyses, NEW record, Step(a, record),
           record \in InFlight => Sound(record)
    PROVE  EvidenceInv'
<1>1. UNCHANGED <<snapshots, observations, edges, results>> /\ run' = [run EXCEPT ![a] = record]
  BY DEF Step, graph
<1>2. edges' \subseteq StoredEdge /\ EdgesAreBacked' /\ NoRepositoryIsSilent'
  BY <1>1, BackedSame, SilentKept DEF EvidenceInv
<1> QED
  BY <1>1, <1>2, SoundStep

LEMMA SelectSound ==
    ASSUME Inv, EvidenceInv, NEW a \in Analyses, NEW r \in Repositories,
           NEW selection \in Selections, run[a] \in InFlight, r \in Remaining(a),
           selection.state # "pending", Select(a, r, selection)
    PROVE  EvidenceInv'
<1> DEFINE record == [run[a] EXCEPT !.pc = "selecting", !.selections[r] = selection,
                                    !.candidate = Unselected]
<1>1. /\ record.revision = run[a].revision /\ record.edges = run[a].edges /\ record.pc = "selecting"
      /\ record.selections = [run[a].selections EXCEPT ![r] = selection]
      /\ run[a].selections \in [Repositories -> Selections]
  BY DEF InFlight
<1>2. Sound(run[a]) /\ r \in snapshots[run[a].revision].selected
  BY DEF EvidenceInv, Remaining
<1> HIDE DEF record
<1>3. Sound(record)
  BY <1>1, <1>2 DEF Sound
<1> QED
  BY <1>3, SoundMove DEF Select, record

LEMMA CandidateSound ==
    ASSUME Inv, EvidenceInv, NEW a \in Analyses, NEW selection \in Selections,
           NEW pc \in {"observing", "refreshing"}, run[a] \in InFlight,
           pc = "refreshing" => selection.state # "pending",
           Step(a, [run[a] EXCEPT !.pc = pc, !.candidate = selection])
    PROVE  EvidenceInv'
<1> DEFINE record == [run[a] EXCEPT !.pc = pc, !.candidate = selection]
<1>1. /\ record.revision = run[a].revision /\ record.edges = run[a].edges /\ record.pc = pc
      /\ record.selections = run[a].selections /\ record.candidate = selection
  BY DEF InFlight
<1>2. Sound(run[a])
  BY DEF EvidenceInv
<1>3. Step(a, record)
  OBVIOUS
<1> HIDE DEF record
<1>4. Sound(record)
  BY <1>1, <1>2 DEF Sound
<1> QED
  BY <1>3, <1>4, SoundMove

LEMMA StartSound ==
    ASSUME Inv, EvidenceInv, NEW a \in Analyses, Start(a)
    PROVE  EvidenceInv'
<1>1. PICK n \in stored, head \in observations, change \in Changes :
           Step(a, [pc |-> "selecting", revision |-> n, head |-> head.generation,
                    change |-> change,
                    selections |-> [r \in Repositories |-> Unselected],
                    candidate |-> Unselected, edges |-> {}, diagnosed |-> FALSE])
  BY DEF Start
<1> DEFINE record == [pc |-> "selecting", revision |-> n, head |-> head.generation,
                      change |-> change,
                      selections |-> [r \in Repositories |-> Unselected],
                      candidate |-> Unselected, edges |-> {}, diagnosed |-> FALSE]
<1>2. Sound(record)
  BY DEF Sound, Inv, TablesInv
<1>3. Step(a, record)
  BY <1>1
<1> HIDE DEF record
<1> QED
  BY <1>2, <1>3, SoundMove

LEMMA SelectionState ==
    /\ \A state, generation : Selection(state, generation).state = state
    /\ \A o : HeadSelection(o).state # "pending"
    /\ \A o : \A fresh \in BOOLEAN : ConsumerSelection(o, fresh).state # "pending"
<1>1. \A state, generation : Selection(state, generation).state = state
  BY DEF Selection
<1>2. \A o : HeadSelection(o).state # "pending"
  BY <1>1 DEF HeadSelection
<1>3. \A o : \A fresh \in BOOLEAN : ConsumerSelection(o, fresh).state # "pending"
  BY <1>1 DEF ConsumerSelection
<1> QED
  BY <1>1, <1>2, <1>3

LEMMA ProducerSound ==
    ASSUME Inv, EvidenceInv, NEW a \in Analyses, SelectProducerHead(a)
    PROVE  EvidenceInv'
<1>1. PICK head \in observations :
          \/ Select(a, Producer, HeadSelection(head))
          \/ Select(a, Producer, Selection("unauthorized", 0))
  BY DEF SelectProducerHead, ObservationOf
<1>2. run[a] \in InFlight /\ Producer \in Remaining(a)
  BY RunByPc DEF Inv, SelectProducerHead, Selecting, At
<1>3. HeadSelection(head) \in Selections /\ Selection("unauthorized", 0) \in Selections
  BY PositiveObservation, SelectionType DEF Inv, HeadSelection, SelectionStates
<1> QED
  BY <1>1, <1>2, <1>3, SelectSound, SelectionState, AnalysesAssumption

LEMMA ConsumerSound ==
    ASSUME Inv, EvidenceInv, NEW a \in Analyses, NEW r \in Repositories, SelectConsumer(a, r)
    PROVE  EvidenceInv'
<1>1. run[a] \in InFlight /\ r \in Remaining(a)
  BY RunByPc DEF Inv, SelectConsumer, Selecting, At
<1>2. generations[r] \in Nat
  BY DEF Inv, TablesInv
<1>3. /\ Selection("unauthorized", 0) \in Selections
      /\ Selection("not_indexed", 0) \in Selections
      /\ Selection("pending", generations[r]) \in Selections
  BY <1>2, SelectionType DEF SelectionStates
<1>4. CASE Select(a, r, Selection("unauthorized", 0))
  BY <1>1, <1>3, <1>4, SelectSound, SelectionState
<1>5. CASE Step(a, [run[a] EXCEPT !.pc = "refreshing", !.candidate = Selection("not_indexed", 0)])
  BY <1>1, <1>3, <1>5, CandidateSound, SelectionState
<1>6. CASE Step(a, [run[a] EXCEPT !.pc = "observing",
                                  !.candidate = Selection("pending", generations[r])])
  BY <1>1, <1>3, <1>6, CandidateSound
<1> QED
  BY <1>4, <1>5, <1>6 DEF SelectConsumer

LEMMA ObserveSound ==
    ASSUME Inv, EvidenceInv, NEW a \in Analyses, NEW r \in Repositories, ObserveConsumer(a, r)
    PROVE  EvidenceInv'
<1>1. run[a] \in InFlight /\ r \in Remaining(a)
  BY RunByPc DEF Inv, ObserveConsumer, Selecting, At
<1>2. PICK initial \in Selections :
          /\ initial.state # "pending"
          /\ IF initial.state \in {"stale", "not_indexed"}
             THEN Step(a, [run[a] EXCEPT !.pc = "refreshing", !.candidate = initial])
             ELSE Select(a, r, initial)
  <2> DEFINE seen == ObservationOf(r, run[a].candidate.generation)
  <2>1. PICK fresh \in BOOLEAN :
            \E initial \in IF seen = {} THEN {Selection("not_indexed", 0)}
                           ELSE {ConsumerSelection(o, fresh) : o \in seen} :
                IF initial.state \in {"stale", "not_indexed"}
                THEN Step(a, [run[a] EXCEPT !.pc = "refreshing", !.candidate = initial])
                ELSE Select(a, r, initial)
    BY DEF ObserveConsumer
  <2>2. seen \subseteq observations
    BY DEF ObservationOf
  <2>3. \A o \in seen : /\ ConsumerSelection(o, fresh) \in Selections
                        /\ ConsumerSelection(o, fresh).state # "pending"
    BY <2>2, ConsumerSelectionType, SelectionState DEF Inv
  <2>4. Selection("not_indexed", 0) \in Selections /\ Selection("not_indexed", 0).state # "pending"
    BY SelectionType, SelectionState DEF SelectionStates
  <2> HIDE DEF seen
  <2> QED
    BY <2>1, <2>3, <2>4
<1> QED
  BY <1>1, <1>2, SelectSound, CandidateSound

LEMMA RefreshSound ==
    ASSUME Inv, EvidenceInv, NEW a \in Analyses, NEW r \in Repositories, RefreshConsumer(a, r)
    PROVE  EvidenceInv'
<1>1. run[a] \in InFlight /\ r \in Remaining(a) /\ run[a].pc = "refreshing"
  BY RunByPc DEF Inv, RefreshConsumer, Selecting, At
<1>2. run[a].candidate \in Selections /\ run[a].candidate.state # "pending"
  BY <1>1 DEF InFlight, EvidenceInv, Sound
<1>3. \A o \in ObservationOf(r, generations[r]) :
          /\ ConsumerSelection(o, TRUE) \in Selections
          /\ ConsumerSelection(o, TRUE).state # "pending"
  BY ConsumerSelectionType, SelectionState DEF Inv, ObservationOf
<1> QED
  BY <1>1, <1>2, <1>3, SelectSound DEF RefreshConsumer

LEMMA AbandonSound ==
    ASSUME Inv, EvidenceInv, NEW a \in Analyses, Abandon(a)
    PROVE  EvidenceInv'
<1>1. Done \notin InFlight
  BY DEF Done, InFlight
<1> QED
  BY <1>1, SoundMove DEF Abandon

LEMMA JoinSound ==
    ASSUME Inv, EvidenceInv, NEW a \in Analyses, Join(a)
    PROVE  EvidenceInv'
<1> DEFINE alias == snapshots[run[a].revision].alias
           edgeTo(o, ref) ==
               [consumer |-> o.repository, reference |-> ref,
                basis |-> BasisOf(Kind[ref], alias),
                revision |-> run[a].revision, generation |-> o.generation,
                first |-> clock + 1, last |-> clock + 1, validity |-> "valid"]
           found == UNION {{edgeTo(o, ref) : ref \in o.references} : o \in ReadReferences(a)}
           joined == {edge \in found : edge.basis # "none"}
           diagnosed == \E edge \in found : edge.basis = "none"
           record == [run[a] EXCEPT !.pc = "writing", !.edges = joined, !.diagnosed = diagnosed]
<1>1. /\ run[a] \in InFlight /\ Sound(run[a])
      /\ Remaining(a) = {} /\ run[a].selections[Producer] # Unselected
  BY RunByPc DEF Inv, EvidenceInv, Join, At
<1>2. /\ run' = [run EXCEPT ![a].pc = "writing", ![a].edges = joined, ![a].diagnosed = diagnosed]
      /\ UNCHANGED <<graph, results>>
  BY DEF Join
<1>3. ASSUME NEW edge \in joined
      PROVE  Backed(edge) /\ edge.revision = run[a].revision
  <2>1. PICK o \in ReadReferences(a) : edge \in {edgeTo(o, ref) : ref \in o.references}
    OBVIOUS
  <2>2. PICK ref \in o.references : edge = edgeTo(o, ref)
    BY <2>1
  <2>3. o \in ObservationOf(o.repository, o.generation) /\ o.repository \in Repositories
    BY PositiveObservation DEF ReadReferences, ObservationOf, Inv
  <2>4. run[a].selections[o.repository].generation = o.generation /\ o.generation # 0
    BY PositiveObservation DEF ReadReferences, Inv
  <2>5. run[a].selections[o.repository] # Unselected
    BY <2>4 DEF Unselected, Selection
  <2>6. {Producer, o.repository} \subseteq snapshots[run[a].revision].selected
    BY <1>1, <2>3, <2>5, AnalysesAssumption DEF Sound
  <2>7. clock + 1 <= clock + 1
    BY DEF Inv, TablesInv
  <2> QED
    BY <2>2, <2>3, <2>6, <2>7 DEF Backed
<1> HIDE DEF joined, diagnosed
<1>4. /\ record.revision = run[a].revision /\ record.edges = joined /\ record.pc = "writing"
      /\ record.selections = run[a].selections
  BY <1>1 DEF InFlight
<1>5. run' = [run EXCEPT ![a] = record]
  BY <1>2 DEF Inv, RunsInv
<1> HIDE DEF record
<1>6. Sound(record)
  BY <1>1, <1>3, <1>4 DEF Sound, Remaining
<1>7. UNCHANGED <<snapshots, observations, edges, results>>
  BY <1>2 DEF graph
<1>8. edges' \subseteq StoredEdge /\ EdgesAreBacked' /\ NoRepositoryIsSilent'
  BY <1>7, BackedSame, SilentKept DEF EvidenceInv
<1> QED
  BY <1>5, <1>6, <1>7, <1>8, SoundStep

\* The merge keeps what backs the incoming edge and only widens its window.
LEMMA MergedBacked ==
    ASSUME Inv, EvidenceInv, NEW edge \in Edge, Backed(edge)
    PROVE  Merged(edge) \in StoredEdge /\ Backed(Merged(edge))
<1>1. edge \in StoredEdge /\ edge.first \in Nat /\ edge.last \in Nat /\ edge.first <= edge.last
  BY DEF Edge, StoredEdge, Validity, Backed
<1>2. PICK first, last \in Nat :
          /\ Merged(edge) = [edge EXCEPT !.first = first, !.last = last]
          /\ first <= edge.first /\ last >= edge.last
  <2>1. CASE \E row \in edges : EdgeId(row) = EdgeId(edge)
    <3> DEFINE prior == CHOOSE row \in edges : EdgeId(row) = EdgeId(edge)
    <3>1. prior \in StoredEdge
      BY <2>1 DEF EvidenceInv
    <3>2. prior.first \in Nat /\ prior.last \in Nat
      BY <3>1 DEF StoredEdge
    <3> DEFINE first == IF prior.first < edge.first THEN prior.first ELSE edge.first
               last == IF prior.last > edge.last THEN prior.last ELSE edge.last
    <3>3. Merged(edge) = [edge EXCEPT !.first = first, !.last = last]
      BY <2>1, <1>1 DEF Merged, Edge
    <3> HIDE DEF prior
    <3>4. first \in Nat /\ last \in Nat /\ first <= edge.first /\ last >= edge.last
      BY <1>1, <3>2
    <3> HIDE DEF first, last
    <3> QED
      BY <3>3, <3>4
  <2>2. CASE ~\E row \in edges : EdgeId(row) = EdgeId(edge)
    <3>1. Merged(edge) = edge
      BY <2>2 DEF Merged
    <3> DEFINE first == edge.first
               last == edge.last
    <3>2. Merged(edge) = [edge EXCEPT !.first = first, !.last = last]
      BY <3>1 DEF Edge
    <3>3. first \in Nat /\ last \in Nat /\ first <= edge.first /\ last >= edge.last
      BY <1>1
    <3> HIDE DEF first, last
    <3> QED
      BY <3>2, <3>3
  <2> QED
    BY <2>1, <2>2
<1>3. /\ Merged(edge) \in StoredEdge
      /\ Merged(edge).consumer = edge.consumer /\ Merged(edge).generation = edge.generation
      /\ Merged(edge).reference = edge.reference /\ Merged(edge).revision = edge.revision
      /\ Merged(edge).basis = edge.basis
      /\ Merged(edge).first = first /\ Merged(edge).last = last
  BY <1>1, <1>2 DEF StoredEdge
<1>4. first <= last
  BY <1>1, <1>2
<1> QED
  BY <1>3, <1>4 DEF Backed

LEMMA WriteSound ==
    ASSUME Inv, EvidenceInv, NEW a \in Analyses, ObserveEdges(a)
    PROVE  EvidenceInv'
<1>1. run[a] \in InFlight /\ Sound(run[a]) /\ run[a].pc = "writing"
  BY RunByPc DEF Inv, EvidenceInv, ObserveEdges, At
<1>2. /\ edges' = Observed(run[a].edges)
      /\ UNCHANGED <<snapshots, observations, results>>
  BY DEF ObserveEdges
<1>3. \A edge \in run[a].edges : Merged(edge) \in StoredEdge /\ Backed(Merged(edge))
  BY <1>1, MergedBacked DEF InFlight, Sound
<1>4. \A edge \in edges' : edge \in StoredEdge /\ Backed(edge)
  BY <1>2, <1>3 DEF Observed, EvidenceInv, EdgesAreBacked
<1>5. edges' \subseteq StoredEdge /\ EdgesAreBacked'
  BY <1>2, <1>4 DEF EdgesAreBacked, Backed, ObservationOf
<1>6. NoRepositoryIsSilent'
  BY <1>2, SilentKept DEF EvidenceInv
<1> DEFINE record == [run[a] EXCEPT !.pc = "finishing"]
<1>7. run' = [run EXCEPT ![a] = record]
  BY DEF ObserveEdges, Inv, RunsInv
<1>8. /\ record.revision = run[a].revision /\ record.edges = run[a].edges
      /\ record.pc = "finishing" /\ record.selections = run[a].selections
  BY <1>1 DEF InFlight
<1> HIDE DEF record
<1>9. Sound(record)
  BY <1>1, <1>8 DEF Sound
<1> QED
  BY <1>2, <1>5, <1>6, <1>7, <1>9, SoundStep

\* The result of an execution passes over no repository that is selected.
LEMMA ResultSpeaks ==
    ASSUME Inv, NEW a \in Analyses, run[a] \in InFlight, Sound(run[a]),
           run[a].pc = "finishing", NEW isCurrent \in BOOLEAN,
           NEW result, result = ResultOf(a, isCurrent)
    PROVE  Speaks(result, snapshots[result.revision].selected)
<1> DEFINE selected == snapshots[run[a].revision].selected
           findings == {FindingOf(a, edge) : edge \in run[a].edges}
<1>1. /\ result.revision = run[a].revision /\ result.selections = run[a].selections
      /\ result.findings = findings
      /\ {r \in Repositories : Abstains(a, r)} \subseteq result.abstained
      /\ (\E r \in Repositories : Abstains(a, r)) => result.state # "complete"
  BY DEF ResultOf, Partial
<1>2. ASSUME NEW r \in selected, run[a].selections[r].state # "current"
      PROVE  r \in Repositories /\ Abstains(a, r)
  <2>1. r \in Repositories
    BY SelectedType DEF Inv, Sound
  <2> QED
    BY <1>2, <2>1 DEF Sound, Abstains
<1>3. ASSUME NEW edge \in run[a].edges
      PROVE  /\ FindingOf(a, edge).consumer \in selected
             /\ FindingOf(a, edge).state = "PREVIEW" =>
                    run[a].selections[FindingOf(a, edge).consumer].state = "current"
  <2>1. edge.consumer \in selected
    BY DEF Sound, Backed
  <2> QED
    BY <2>1 DEF FindingOf
<1> QED
  BY <1>1, <1>2, <1>3 DEF Speaks

LEMMA PersistSound ==
    ASSUME Inv, EvidenceInv, NEW a \in Analyses, PersistAnalysis(a)
    PROVE  EvidenceInv'
<1>1. PICK isCurrent \in BOOLEAN : results' = Persisted(a, ResultOf(a, isCurrent))
  BY DEF PersistAnalysis
<1>2. /\ run[a] \in InFlight /\ Sound(run[a]) /\ run[a].pc = "finishing"
      /\ run' = [run EXCEPT ![a] = Done]
      /\ UNCHANGED <<snapshots, observations, edges>>
  BY RunByPc DEF Inv, EvidenceInv, PersistAnalysis, At, graph
<1>3. PICK result : result = ResultOf(a, isCurrent)
  OBVIOUS
<1>4. result \in Result /\ results' = Persisted(a, result)
  BY <1>1, <1>2, <1>3, ResultType
<1>5. /\ results'[a] = result
      /\ \A b \in Analyses \ {a} :
             results'[b] = IF result.current /\ b = currentAnalysis
                           THEN [results[b] EXCEPT !.state = "superseded", !.current = FALSE]
                           ELSE results[b]
  BY <1>4, PersistedRows
<1>6. NoRepositoryIsSilent'
  <2> SUFFICES ASSUME NEW b \in Analyses, results'[b] # NoResult
               PROVE  Speaks(results'[b], snapshots[results'[b].revision].selected)
    BY <1>2 DEF NoRepositoryIsSilent, Speaks
  <2>1. CASE b = a
    BY <1>2, <1>3, <1>5, <2>1, ResultSpeaks
  <2>2. CASE b # a /\ result.current /\ b = currentAnalysis
    <3>1. results[b] \in Result /\ results[b] # NoResult
      BY <2>2, ResultShape DEF Inv, ResultsInv, OneCurrentAnalysis
    <3>2. results'[b] = [results[b] EXCEPT !.state = "superseded", !.current = FALSE]
      BY <1>5, <2>2
    <3>3. /\ results'[b].revision = results[b].revision
          /\ results'[b].selections = results[b].selections
          /\ results'[b].findings = results[b].findings
          /\ results'[b].abstained = results[b].abstained /\ results'[b].state = "superseded"
      BY <3>1, <3>2 DEF Result
    <3>4. Speaks(results[b], snapshots[results[b].revision].selected)
      BY <3>1 DEF EvidenceInv, NoRepositoryIsSilent
    <3> QED
      BY <3>1, <3>3, <3>4 DEF Speaks
  <2>3. CASE b # a /\ ~(result.current /\ b = currentAnalysis)
    <3>1. results'[b] = results[b]
      BY <1>5, <2>3
    <3> QED
      BY <3>1 DEF EvidenceInv, NoRepositoryIsSilent
  <2> QED
    BY <2>1, <2>2, <2>3
<1>7. Done \notin InFlight
  BY DEF Done, InFlight
<1>8. edges' \subseteq StoredEdge /\ EdgesAreBacked'
  BY <1>2, BackedSame DEF EvidenceInv
<1> QED
  BY <1>2, <1>6, <1>7, <1>8, SoundStep

-----------------------------------------------------------------------------
(* Results and edges. *)

LEMMA EvidenceInit == Init => EvidenceInv
<1> SUFFICES ASSUME Init PROVE EvidenceInv
  OBVIOUS
<1>1. Idle \notin InFlight
  BY DEF Idle, InFlight
<1>2. \A a \in Analyses : run[a] \notin InFlight
  BY <1>1 DEF Init
<1>3. edges \subseteq StoredEdge /\ EdgesAreBacked
  BY DEF Init, GraphInit, EdgesAreBacked
<1>4. NoRepositoryIsSilent
  BY DEF Init, NoRepositoryIsSilent
<1> QED
  BY <1>2, <1>3, <1>4 DEF EvidenceInv

LEMMA EvidenceStep == Inv /\ EvidenceInv /\ [Next]_vars => EvidenceInv'
<1> SUFFICES ASSUME Inv, EvidenceInv, [Next]_vars PROVE EvidenceInv'
  OBVIOUS
<1>1. CASE UNCHANGED vars
  <2>1. UNCHANGED <<snapshots, observations, edges, run, results>>
    BY <1>1 DEF vars, graph
  <2>2. edges' \subseteq StoredEdge /\ EdgesAreBacked'
    BY <2>1, BackedSame DEF EvidenceInv
  <2> QED
    BY <2>1, <2>2, TableStep
<1>2. CASE \/ \E n \in Revisions : Register(n)
           \/ \E r \in Repositories : Publish(r)
           \/ \E r \in Repositories :
                  \E extraction \in Extractions[r], g \in 1 .. generations[r] :
                      Extract(r, g, extraction)
  BY <1>2, TableSteps
<1>3. ASSUME NEW a \in Analyses,
             \/ Start(a) \/ SelectProducerHead(a)
             \/ \E r \in Repositories :
                    SelectConsumer(a, r) \/ ObserveConsumer(a, r) \/ RefreshConsumer(a, r)
             \/ Join(a) \/ ObserveEdges(a)
             \/ PersistAnalysis(a) \/ Abandon(a)
      PROVE  EvidenceInv'
  BY <1>3, StartSound, ProducerSound, ConsumerSound, ObserveSound, RefreshSound, JoinSound,
     WriteSound, PersistSound, AbandonSound
<1> QED
  BY <1>1, <1>2, <1>3 DEF Next

\* However many analyses, repositories and registry revisions there are, a stored
\* result abstains on every selected repository that was not current, is then not
\* complete, and previews findings in current selected repositories only.
THEOREM SelectedRepositoriesAreHeard == Spec => []NoRepositoryIsSilent
<1>1. EvidenceInv => NoRepositoryIsSilent
  BY DEF EvidenceInv
<1> QED
  BY InvInit, InvStep, EvidenceInit, EvidenceStep, <1>1, PTL DEF Spec

\* Every stored edge, valid or not, is backed by an observation, by the registry
\* revision it names and by the basis rules, in every interleaving of the analyses
\* with what is published, observed and registered.
THEOREM StoredEdgesAreBacked == Spec => []EdgesAreBacked
<1>1. EvidenceInv => EdgesAreBacked
  BY DEF EvidenceInv
<1> QED
  BY InvInit, InvStep, EvidenceInit, EvidenceStep, <1>1, PTL DEF Spec

LEMMA SupersedeStep ==
    ASSUME Inv, [Next]_vars, NEW a \in Analyses, results[a] # NoResult
    PROVE  results'[a] \in {results[a],
                            [results[a] EXCEPT !.state = "superseded", !.current = FALSE]}
<1>1. CASE UNCHANGED results
  BY <1>1
<1>2. ASSUME NEW b \in Analyses, PersistAnalysis(b)
      PROVE  results'[a] \in {results[a],
                              [results[a] EXCEPT !.state = "superseded", !.current = FALSE]}
  <2>1. PICK isCurrent \in BOOLEAN : results' = Persisted(b, ResultOf(b, isCurrent))
    BY <1>2 DEF PersistAnalysis
  <2>2. run[b] \in InFlight /\ run[b] # Done
    BY <1>2, RunByPc DEF Inv, PersistAnalysis, At
  <2>3. a # b
    BY <2>2 DEF Inv, FreshInv
  <2> DEFINE result == ResultOf(b, isCurrent)
  <2>4. result \in Result
    BY <2>2, ResultType
  <2> HIDE DEF result
  <2>5. results'[a] = IF result.current /\ a = currentAnalysis
                      THEN [results[a] EXCEPT !.state = "superseded", !.current = FALSE]
                      ELSE results[a]
    BY <2>1, <2>3, <2>4, PersistedRows DEF result
  <2> QED
    BY <2>5
<1>3. CASE UNCHANGED vars
  BY <1>1, <1>3 DEF vars
<1>4. CASE Next
  <2>1. UNCHANGED results \/ \E b \in Analyses : PersistAnalysis(b)
    <3>1. ASSUME NEW n, Register(n) PROVE UNCHANGED results
      BY <3>1 DEF Register, analysis
    <3>2. ASSUME NEW r, Publish(r) PROVE UNCHANGED results
      BY <3>2 DEF Publish, analysis
    <3>3. ASSUME NEW r, NEW g, NEW extraction, Extract(r, g, extraction) PROVE UNCHANGED results
      BY <3>3 DEF Extract, analysis
    <3>4. ASSUME NEW b, NEW record, Step(b, record) PROVE UNCHANGED results
      BY <3>4 DEF Step
    <3>5. ASSUME NEW b, NEW r,
                 \/ Start(b) \/ SelectProducerHead(b) \/ SelectConsumer(b, r)
                 \/ ObserveConsumer(b, r) \/ RefreshConsumer(b, r) \/ Abandon(b)
          PROVE  UNCHANGED results
      BY <3>4, <3>5 DEF Start, SelectProducerHead, SelectConsumer, ObserveConsumer,
                        RefreshConsumer, Select, Abandon
    <3>6. ASSUME NEW b, Join(b) \/ ObserveEdges(b) PROVE UNCHANGED results
      BY <3>6 DEF Join, ObserveEdges
    <3> QED
      BY <1>4, <3>1, <3>2, <3>3, <3>5, <3>6 DEF Next
  <2> QED
    BY <1>1, <1>2, <2>1
<1> QED
  BY <1>3, <1>4

\* A stored result never disappears, and nothing of it but its supersession
\* changes, whatever else is persisted later.
THEOREM StoredResultsOnlySupersede == Spec => ResultsOnlySupersede
<1>1. Inv /\ [Next]_vars =>
          \A a \in Analyses : results[a] # NoResult =>
              results'[a] \in {results[a],
                               [results[a] EXCEPT !.state = "superseded", !.current = FALSE]}
  BY SupersedeStep
<1> QED
  BY InvInit, InvStep, <1>1, PTL DEF Spec, ResultsOnlySupersede

-----------------------------------------------------------------------------
(* Known positives. *)

\* The three ways in which a step may leave an edge.
Survives(edge) == \E row \in edges' : EdgeId(row) = EdgeId(edge) /\ row.validity = "valid"

Disproved(edge) ==
    \E o \in observations' \ observations :
        /\ o.repository = edge.consumer /\ o.coverage = "complete"
        /\ edge.reference \notin o.references

\* A row that invalidation leaves valid keeps its identity.
LEMMA InvalidatedKeeps ==
    ASSUME edges \subseteq StoredEdge, NEW why, NEW edge \in edges, edge.validity = "valid",
           why[edge] = "valid", edges' = Invalidated(why)
    PROVE  Survives(edge)
<1>1. edge \in StoredEdge
  OBVIOUS
<1> DEFINE row == [edge EXCEPT !.validity = why[edge]]
<1>2. row \in edges'
  BY DEF Invalidated
<1>3. /\ row.consumer = edge.consumer /\ row.reference = edge.reference /\ row.basis = edge.basis
      /\ row.revision = edge.revision /\ row.validity = "valid"
  BY <1>1 DEF StoredEdge
<1> HIDE DEF row
<1> QED
  BY <1>2, <1>3 DEF Survives, EdgeId

\* putContractObservation: only a complete observation ends an edge.
LEMMA ExtractErases ==
    ASSUME Inv, EvidenceInv, NEW r \in Repositories, NEW extraction \in Extractions[r],
           NEW g \in 1 .. generations[r], Extract(r, g, extraction),
           NEW edge \in edges, edge.validity = "valid"
    PROVE  Survives(edge) \/ Disproved(edge)
<1> DEFINE why == [x \in edges |->
                      IF x.consumer = r /\ x.reference \notin extraction.references
                      THEN "complete_reference_absence" ELSE "valid"]
           row == ObservationRow(r, g, extraction)
<1>1. /\ ObservationOf(r, g) = {} /\ observations' = observations \cup {row}
      /\ edges' = IF extraction.coverage = "complete" THEN Invalidated(why) ELSE edges
  BY DEF Extract, PutContractObservation
<1>2. /\ row.repository = r /\ row.generation = g /\ row.coverage = extraction.coverage
      /\ row.references = extraction.references
  BY DEF ObservationRow
<1> HIDE DEF row
<1>3. row \in observations' \ observations
  BY <1>1, <1>2 DEF ObservationOf
<1>4. CASE extraction.coverage # "complete"
  BY <1>1, <1>4 DEF Survives
<1>5. CASE extraction.coverage = "complete" /\ edge.consumer = r
           /\ edge.reference \notin extraction.references
  BY <1>2, <1>3, <1>5 DEF Disproved
<1>6. CASE extraction.coverage = "complete"
           /\ ~(edge.consumer = r /\ edge.reference \notin extraction.references)
  <2>1. why[edge] = "valid"
    BY <1>6
  <2> HIDE DEF why
  <2> QED
    BY <1>1, <1>6, <2>1, InvalidatedKeeps DEF EvidenceInv
<1> QED
  BY <1>4, <1>5, <1>6

\* observeEdges: the row that replaces an edge has its identity and is valid.
LEMMA WriteErases ==
    ASSUME Inv, EvidenceInv, NEW a \in Analyses, ObserveEdges(a),
           NEW edge \in edges, edge.validity = "valid"
    PROVE  Survives(edge)
<1>1. run[a] \in InFlight /\ edges' = Observed(run[a].edges)
  BY RunByPc DEF Inv, ObserveEdges, At
<1>2. CASE \A new \in run[a].edges : EdgeId(edge) # EdgeId(new)
  BY <1>1, <1>2 DEF Observed, Survives
<1>3. ASSUME NEW new \in run[a].edges, EdgeId(edge) = EdgeId(new)
      PROVE  Survives(edge)
  <2>1. new \in Edge
    BY <1>1 DEF InFlight
  <2>2. Merged(new) \in edges'
    BY <1>1 DEF Observed
  <2>3. PICK first, last : Merged(new) = [new EXCEPT !.first = first, !.last = last] \/ Merged(new) = new
    BY Zenon DEF Merged
  <2>4. /\ Merged(new).consumer = new.consumer /\ Merged(new).reference = new.reference
        /\ Merged(new).basis = new.basis /\ Merged(new).revision = new.revision
        /\ Merged(new).validity = "valid"
    BY <2>1, <2>3 DEF Edge
  <2> QED
    BY <1>3, <2>2, <2>4 DEF Survives, EdgeId
<1> QED
  BY <1>2, <1>3

LEMMA EraseStep ==
    ASSUME Inv, EvidenceInv, [Next]_vars, NEW edge \in edges, edge.validity = "valid"
    PROVE  Survives(edge) \/ current' > current \/ Disproved(edge)
<1>1. CASE UNCHANGED edges
  BY <1>1 DEF Survives
<1>2. ASSUME NEW n \in Revisions, Register(n)
      PROVE  UNCHANGED edges \/ current' > current
  <2>1. CASE current < n
    BY <1>2, <2>1 DEF Register, PutRevision
  <2>2. CASE ~(current < n)
    BY <1>2, <2>2 DEF Register, PutRevision
  <2> QED
    BY <2>1, <2>2
<1>3. CASE Next
  <2>1. \/ UNCHANGED edges
        \/ \E n \in Revisions : Register(n)
        \/ \E r \in Repositories :
               \E extraction \in Extractions[r], g \in 1 .. generations[r] : Extract(r, g, extraction)
        \/ \E a \in Analyses : ObserveEdges(a)
    <3>1. ASSUME NEW r, Publish(r) PROVE UNCHANGED edges
      BY <3>1 DEF Publish, PublishGeneration
    <3>2. ASSUME NEW b, NEW record, Step(b, record) PROVE UNCHANGED edges
      BY <3>2 DEF Step, graph
    <3>3. ASSUME NEW b, NEW r,
                 \/ Start(b) \/ SelectProducerHead(b) \/ SelectConsumer(b, r)
                 \/ ObserveConsumer(b, r) \/ RefreshConsumer(b, r) \/ Abandon(b)
          PROVE  UNCHANGED edges
      BY <3>2, <3>3 DEF Start, SelectProducerHead, SelectConsumer, ObserveConsumer,
                        RefreshConsumer, Select, Abandon
    <3>4. ASSUME NEW b, Join(b) \/ PersistAnalysis(b) PROVE UNCHANGED edges
      BY <3>4 DEF Join, PersistAnalysis, graph
    <3> QED
      BY <1>3, <3>1, <3>3, <3>4 DEF Next
  <2> QED
    BY <1>1, <1>2, <2>1, ExtractErases, WriteErases
<1>4. CASE UNCHANGED vars
  BY <1>1, <1>4 DEF vars, graph
<1> QED
  BY <1>3, <1>4

\* A valid edge ends with a complete observation of its consumer that lacks the
\* reference or with a newer registry revision, whatever partial observations and
\* analyses come meanwhile.
THEOREM KnownPositivesSurvive == Spec => PartialNeverErases
<1>1. Inv /\ EvidenceInv /\ [Next]_vars =>
          \A edge \in edges : edge.validity = "valid" =>
              \/ \E row \in edges' : EdgeId(row) = EdgeId(edge) /\ row.validity = "valid"
              \/ current' > current
              \/ \E o \in observations' \ observations :
                     /\ o.repository = edge.consumer /\ o.coverage = "complete"
                     /\ edge.reference \notin o.references
  BY EraseStep DEF Survives, Disproved
<1> QED
  BY InvInit, InvStep, EvidenceInit, EvidenceStep, <1>1, PTL DEF Spec, PartialNeverErases

-----------------------------------------------------------------------------
(* What a complete result reports. *)

\* A selected generation has its observation, which is the only one it ever gets.
Looked(selection, r) ==
    selection.generation # 0 =>
        \E o \in observations : o.repository = r /\ o.generation = selection.generation

OneObservation ==
    \A o1, o2 \in observations :
        o1.repository = o2.repository /\ o1.generation = o2.generation => o1 = o2

\* The repositories an execution has no selection for, and the one it is at.
Left(record) == {r \in snapshots[record.revision].selected : record.selections[r] = Unselected}

Awaiting(record, r) ==
    \E i \in DOMAIN RepositoryOrder :
        /\ r = RepositoryOrder[i] /\ r \in Left(record)
        /\ \A j \in 1 .. i - 1 : RepositoryOrder[j] \notin Left(record)

\* The observation was read by the join.
ReadBy(record, o) ==
    /\ record.selections[o.repository].generation = o.generation
    /\ o.repository = Producer => record.selections[Producer].state = "current"

Joins(edge, o, ref) ==
    edge.consumer = o.repository /\ edge.reference = ref /\ edge.generation = o.generation

\* An execution selects observed generations, and one that joined without a
\* diagnostic has an edge for every reference of every observation it read.
Gathered(record) ==
    /\ \A r \in Repositories : Looked(record.selections[r], r)
    /\ record.pc = "refreshing" =>
           \A r \in Repositories : Awaiting(record, r) => Looked(record.candidate, r)
    /\ record.pc \in {"writing", "finishing"} /\ ~record.diagnosed =>
           \A o \in observations : ReadBy(record, o) =>
               \A ref \in o.references : \E edge \in record.edges : Joins(edge, o, ref)

ReportInv ==
    /\ OneObservation
    /\ \A a \in Analyses : run[a] \in InFlight => Gathered(run[a])
    /\ \A a \in Analyses : results[a] # NoResult =>
           \A r \in Repositories : Looked(results[a].selections[r], r)
    /\ CompleteReportsEveryReference

\* The loop is at one repository.
LEMMA OneAwaited ==
    ASSUME NEW record, NEW r1, NEW r2, Awaiting(record, r1), Awaiting(record, r2)
    PROVE  r1 = r2
<1>1. PICK i \in DOMAIN RepositoryOrder :
          /\ r1 = RepositoryOrder[i] /\ r1 \in Left(record)
          /\ \A j \in 1 .. i - 1 : RepositoryOrder[j] \notin Left(record)
  BY DEF Awaiting
<1>2. PICK k \in DOMAIN RepositoryOrder :
          /\ r2 = RepositoryOrder[k] /\ r2 \in Left(record)
          /\ \A j \in 1 .. k - 1 : RepositoryOrder[j] \notin Left(record)
  BY DEF Awaiting
<1>3. DOMAIN RepositoryOrder = 1 .. Len(RepositoryOrder) /\ Len(RepositoryOrder) \in Nat
  BY AnalysesAssumption
<1>4. ~(i < k) /\ ~(k < i)
  BY <1>1, <1>2, <1>3
<1> QED
  BY <1>1, <1>2, <1>3, <1>4

LEMMA AwaitedIsSelecting ==
    ASSUME NEW a, NEW r
    PROVE  Selecting(a, r) <=> Awaiting(run[a], r)
BY DEF Selecting, Remaining, Awaiting, Left

LEMMA GatheredKept ==
    ASSUME NEW a \in Analyses, NEW record, Gathered(record), run'[a] = record,
           UNCHANGED <<observations, snapshots>>
    PROVE  Gathered(run[a])'
BY DEF Gathered, Looked, Awaiting, Left, ReadBy, Joins

LEMMA ReportKept ==
    ASSUME ReportInv, UNCHANGED <<results, observations, snapshots>>
    PROVE  /\ OneObservation' /\ CompleteReportsEveryReference'
           /\ (\A a \in Analyses : results[a] # NoResult =>
                   \A r \in Repositories : Looked(results[a].selections[r], r))'
BY DEF ReportInv, OneObservation, CompleteReportsEveryReference, Looked, ObservationOf

\* A step of one execution, or of none.
LEMMA GatherStep ==
    ASSUME Inv, ReportInv, NEW a \in Analyses, NEW record,
           run' = [run EXCEPT ![a] = record], record \in InFlight => Gathered(record),
           UNCHANGED <<results, observations, snapshots>>
    PROVE  ReportInv'
<1>1. ASSUME NEW b \in Analyses, run'[b] \in InFlight PROVE Gathered(run[b])'
  <2>1. CASE b = a
    <3>1. run'[b] = record
      BY <2>1 DEF Inv, RunsInv
    <3> QED
      BY <1>1, <3>1, GatheredKept
  <2>2. CASE b # a
    <3>1. run'[b] = run[b]
      BY <2>2 DEF Inv, RunsInv
    <3>2. Gathered(run[b])
      BY <1>1, <3>1 DEF ReportInv
    <3> QED
      BY <3>1, <3>2, GatheredKept
  <2> QED
    BY <2>1, <2>2
<1>2. (\A b \in Analyses : run[b] \in InFlight => Gathered(run[b]))'
  BY <1>1 DEF InFlight, Edge, Finding, Selections
<1> QED
  BY <1>2, ReportKept DEF ReportInv

LEMMA StillReports ==
    ASSUME Inv, ReportInv, UNCHANGED <<run, results, observations, snapshots>>
    PROVE  ReportInv'
<1>1. ASSUME NEW b \in Analyses, run'[b] \in InFlight PROVE Gathered(run[b])'
  BY <1>1, GatheredKept DEF ReportInv
<1>2. (\A b \in Analyses : run[b] \in InFlight => Gathered(run[b]))'
  BY <1>1 DEF InFlight, Edge, Finding, Selections
<1> QED
  BY <1>2, ReportKept DEF ReportInv

\* putContractObservation: a generation that was selected has its observation, so a
\* new one is of a generation nobody selected.
LEMMA ExtractReports ==
    ASSUME Inv, ReportInv, NEW r \in Repositories, NEW extraction \in Extractions[r],
           NEW g \in 1 .. generations[r], Extract(r, g, extraction)
    PROVE  ReportInv'
<1> DEFINE row == ObservationRow(r, g, extraction)
<1>1. /\ ObservationOf(r, g) = {} /\ observations' = observations \cup {row}
      /\ UNCHANGED <<snapshots, run, results>>
  BY DEF Extract, PutContractObservation, analysis
<1>2. row.repository = r /\ row.generation = g
  BY DEF ObservationRow
<1> HIDE DEF row
<1>3. g # 0
  BY DEF Inv, TablesInv
<1>4. \A o \in observations : ~(o.repository = r /\ o.generation = g)
  BY <1>1 DEF ObservationOf
<1>5. OneObservation'
  BY <1>1, <1>2, <1>4 DEF ReportInv, OneObservation
<1>6. ASSUME NEW selection, NEW q, Looked(selection, q)
      PROVE  /\ selection.generation # 0 =>
                    \E o \in observations' : o.repository = q /\ o.generation = selection.generation
             /\ ~(q = r /\ selection.generation = g)
  BY <1>1, <1>3, <1>4, <1>6 DEF Looked
<1>7. ASSUME NEW b \in Analyses, run'[b] \in InFlight PROVE Gathered(run[b])'
  <2>1. Gathered(run[b]) /\ run'[b] = run[b]
    BY <1>1, <1>7 DEF ReportInv
  <2>2. \A q \in Repositories : Looked(run[b].selections[q], q)'
    BY <1>1, <1>6, <2>1 DEF Gathered, Looked
  <2>3. run[b].pc = "refreshing" =>
            \A q \in Repositories : Awaiting(run[b], q)' => Looked(run[b].candidate, q)'
    BY <1>1, <1>6, <2>1 DEF Gathered, Looked, Awaiting, Left
  <2>4. ~ReadBy(run[b], row)
    BY <1>2, <1>6, <2>1 DEF Gathered, ReadBy
  <2>5. run[b].pc \in {"writing", "finishing"} /\ ~run[b].diagnosed =>
            \A o \in observations' : ReadBy(run[b], o) =>
                \A ref \in o.references : \E edge \in run[b].edges : Joins(edge, o, ref)
    BY <1>1, <2>1, <2>4 DEF Gathered
  <2> QED
    BY <1>1, <2>2, <2>3, <2>5 DEF Gathered, ReadBy, Joins
<1>8. (\A b \in Analyses : run[b] \in InFlight => Gathered(run[b]))'
  BY <1>7 DEF InFlight, Edge, Finding, Selections
<1>9. (\A a \in Analyses : results[a] # NoResult =>
           \A q \in Repositories : Looked(results[a].selections[q], q))'
  BY <1>1, <1>6 DEF ReportInv, Looked
<1>10. CompleteReportsEveryReference'
  <2> SUFFICES ASSUME NEW a \in Analyses, results[a] # NoResult, results[a].state = "complete",
                      NEW q \in snapshots[results[a].revision].selected,
                      NEW o \in observations', o.repository = q,
                      o.generation = results[a].selections[q].generation
               PROVE  o.references = {f.reference : f \in {h \in results[a].findings :
                                   /\ h.consumer = q /\ h.state = "PREVIEW"
                                   /\ h.generation = o.generation}}
    BY <1>1 DEF CompleteReportsEveryReference, ObservationOf
  <2>1. o # row
    BY <1>2, <1>6 DEF ReportInv
  <2> QED
    BY <1>1, <2>1 DEF ReportInv, CompleteReportsEveryReference, ObservationOf
<1> QED
  BY <1>5, <1>8, <1>9, <1>10 DEF ReportInv

LEMMA SelectReports ==
    ASSUME Inv, ReportInv, NEW a \in Analyses, NEW r \in Repositories,
           NEW selection, run[a] \in InFlight, Looked(selection, r), Select(a, r, selection)
    PROVE  ReportInv'
<1> DEFINE record == [run[a] EXCEPT !.pc = "selecting", !.selections[r] = selection,
                                    !.candidate = Unselected]
<1>1. /\ record.pc = "selecting"
      /\ record.selections = [run[a].selections EXCEPT ![r] = selection]
      /\ run[a].selections \in [Repositories -> Selections]
  BY DEF InFlight
<1>2. Gathered(run[a])
  BY DEF ReportInv
<1> HIDE DEF record
<1>3. Gathered(record)
  BY <1>1, <1>2 DEF Gathered
<1>4. run' = [run EXCEPT ![a] = record] /\ UNCHANGED <<results, observations, snapshots>>
  BY DEF Select, Step, record, graph
<1> QED
  BY <1>3, <1>4, GatherStep

LEMMA CandidateReports ==
    ASSUME Inv, ReportInv, NEW a \in Analyses, NEW selection,
           NEW pc \in {"observing", "refreshing"}, run[a] \in InFlight,
           pc = "refreshing" =>
               \A r \in Repositories : Awaiting(run[a], r) => Looked(selection, r),
           Step(a, [run[a] EXCEPT !.pc = pc, !.candidate = selection])
    PROVE  ReportInv'
<1> DEFINE record == [run[a] EXCEPT !.pc = pc, !.candidate = selection]
<1>1. /\ record.pc = pc /\ record.selections = run[a].selections /\ record.candidate = selection
      /\ record.revision = run[a].revision
  BY DEF InFlight
<1>2. Gathered(run[a])
  BY DEF ReportInv
<1>3. run' = [run EXCEPT ![a] = record] /\ UNCHANGED <<results, observations, snapshots>>
  BY DEF Step, graph
<1> HIDE DEF record
<1>4. Gathered(record)
  BY <1>1, <1>2 DEF Gathered, Awaiting, Left
<1> QED
  BY <1>3, <1>4, GatherStep

\* A selection made from an observation, or without a generation, is observed.
LEMMA SelectionsLooked ==
    ASSUME NEW r
    PROVE  /\ \A state : Looked(Selection(state, 0), r)
           /\ \A o \in observations : o.repository = r =>
                  /\ Looked(HeadSelection(o), r)
                  /\ \A fresh \in BOOLEAN : Looked(ConsumerSelection(o, fresh), r)
<1>1. \A state, generation : Selection(state, generation).generation = generation
  BY DEF Selection
<1>2. \A state : Looked(Selection(state, 0), r)
  BY <1>1 DEF Looked
<1>3. ASSUME NEW o \in observations, o.repository = r, NEW state
      PROVE  Looked(Selection(state, o.generation), r)
  BY <1>1, <1>3 DEF Looked
<1>4. ASSUME NEW o \in observations, o.repository = r PROVE Looked(HeadSelection(o), r)
  BY <1>2, <1>3, <1>4 DEF HeadSelection
<1>5. ASSUME NEW o \in observations, o.repository = r, NEW fresh \in BOOLEAN
      PROVE  Looked(ConsumerSelection(o, fresh), r)
  <2>1. \/ ConsumerSelection(o, fresh) = Selection("failed", 0)
        \/ \E state : ConsumerSelection(o, fresh) = Selection(state, o.generation)
    BY DEF ConsumerSelection
  <2> QED
    BY <1>2, <1>3, <1>5, <2>1
<1> QED
  BY <1>2, <1>4, <1>5

LEMMA SelectionsReport ==
    ASSUME Inv, ReportInv, NEW a \in Analyses,
           \/ SelectProducerHead(a)
           \/ \E r \in Repositories :
                  SelectConsumer(a, r) \/ ObserveConsumer(a, r) \/ RefreshConsumer(a, r)
    PROVE  ReportInv'
<1>1. run[a] \in InFlight
  BY RunByPc DEF Inv, SelectProducerHead, SelectConsumer, ObserveConsumer, RefreshConsumer, At
<1>2. CASE SelectProducerHead(a)
  <2>1. PICK head \in ObservationOf(Producer, run[a].head) :
            \/ Select(a, Producer, HeadSelection(head))
            \/ Select(a, Producer, Selection("unauthorized", 0))
    BY <1>2 DEF SelectProducerHead
  <2>2. Looked(HeadSelection(head), Producer) /\ Looked(Selection("unauthorized", 0), Producer)
    BY SelectionsLooked DEF ObservationOf
  <2> QED
    BY <1>1, <2>1, <2>2, SelectReports, AnalysesAssumption
<1>3. ASSUME NEW r \in Repositories, SelectConsumer(a, r)
      PROVE  ReportInv'
  <2>1. \A q \in Repositories : /\ Looked(Selection("unauthorized", 0), q)
                                /\ Looked(Selection("not_indexed", 0), q)
    BY SelectionsLooked
  <2>2. CASE Select(a, r, Selection("unauthorized", 0))
    BY <1>1, <2>1, <2>2, SelectReports
  <2>3. CASE Step(a, [run[a] EXCEPT !.pc = "refreshing", !.candidate = Selection("not_indexed", 0)])
    BY <1>1, <2>1, <2>3, CandidateReports
  <2>4. CASE Step(a, [run[a] EXCEPT !.pc = "observing",
                                    !.candidate = Selection("pending", generations[r])])
    BY <1>1, <2>4, CandidateReports
  <2> QED
    BY <1>3, <2>2, <2>3, <2>4 DEF SelectConsumer
<1>4. ASSUME NEW r \in Repositories, ObserveConsumer(a, r)
      PROVE  ReportInv'
  <2> DEFINE seen == ObservationOf(r, run[a].candidate.generation)
  <2>1. PICK fresh \in BOOLEAN :
            \E initial \in IF seen = {} THEN {Selection("not_indexed", 0)}
                           ELSE {ConsumerSelection(o, fresh) : o \in seen} :
                IF initial.state \in {"stale", "not_indexed"}
                THEN Step(a, [run[a] EXCEPT !.pc = "refreshing", !.candidate = initial])
                ELSE Select(a, r, initial)
    BY <1>4 DEF ObserveConsumer
  <2>2. \A o \in seen : Looked(ConsumerSelection(o, fresh), r)
    BY SelectionsLooked DEF ObservationOf
  <2>3. Looked(Selection("not_indexed", 0), r)
    BY SelectionsLooked
  <2> HIDE DEF seen
  <2>4. PICK initial : /\ Looked(initial, r)
                       /\ IF initial.state \in {"stale", "not_indexed"}
                          THEN Step(a, [run[a] EXCEPT !.pc = "refreshing", !.candidate = initial])
                          ELSE Select(a, r, initial)
    BY <2>1, <2>2, <2>3
  <2>5. Awaiting(run[a], r)
    BY <1>4, AwaitedIsSelecting DEF ObserveConsumer
  <2>6. \A q \in Repositories : Awaiting(run[a], q) => Looked(initial, q)
    BY <2>4, <2>5, OneAwaited
  <2> QED
    BY <1>1, <2>4, <2>6, SelectReports, CandidateReports
<1>5. ASSUME NEW r \in Repositories, RefreshConsumer(a, r)
      PROVE  ReportInv'
  <2>1. run[a].pc = "refreshing" /\ Awaiting(run[a], r)
    BY <1>5, AwaitedIsSelecting DEF RefreshConsumer, At
  <2>2. Looked(run[a].candidate, r)
    BY <1>1, <2>1 DEF ReportInv, Gathered
  <2>3. \A o \in ObservationOf(r, generations[r]) : Looked(ConsumerSelection(o, TRUE), r)
    BY SelectionsLooked DEF ObservationOf
  <2> QED
    BY <1>1, <1>5, <2>2, <2>3, SelectReports DEF RefreshConsumer
<1> QED
  BY <1>2, <1>3, <1>4, <1>5

LEMMA StartReports ==
    ASSUME Inv, ReportInv, NEW a \in Analyses, Start(a)
    PROVE  ReportInv'
<1>1. PICK n, head, change :
           Step(a, [pc |-> "selecting", revision |-> n, head |-> head,
                    change |-> change,
                    selections |-> [r \in Repositories |-> Unselected],
                    candidate |-> Unselected, edges |-> {}, diagnosed |-> FALSE])
  BY DEF Start
<1> DEFINE record == [pc |-> "selecting", revision |-> n, head |-> head,
                      change |-> change,
                      selections |-> [r \in Repositories |-> Unselected],
                      candidate |-> Unselected, edges |-> {}, diagnosed |-> FALSE]
<1>2. Gathered(record)
  <2>1. \A r \in Repositories : record.selections[r].generation = 0
    BY DEF Unselected, Selection
  <2>2. record.pc = "selecting"
    OBVIOUS
  <2> HIDE DEF record
  <2> QED
    BY <2>1, <2>2 DEF Gathered, Looked
<1>3. run' = [run EXCEPT ![a] = record] /\ UNCHANGED <<results, observations, snapshots>>
  BY <1>1 DEF Step, graph
<1> HIDE DEF record
<1> QED
  BY <1>2, <1>3, GatherStep

\* joinChangedContracts: without a diagnostic no reference that was read is dropped.
LEMMA JoinReports ==
    ASSUME Inv, ReportInv, NEW a \in Analyses, Join(a)
    PROVE  ReportInv'
<1> DEFINE alias == snapshots[run[a].revision].alias
           edgeTo(o, ref) ==
               [consumer |-> o.repository, reference |-> ref,
                basis |-> BasisOf(Kind[ref], alias),
                revision |-> run[a].revision, generation |-> o.generation,
                first |-> clock + 1, last |-> clock + 1, validity |-> "valid"]
           found == UNION {{edgeTo(o, ref) : ref \in o.references} : o \in ReadReferences(a)}
           joined == {edge \in found : edge.basis # "none"}
           diagnosed == \E edge \in found : edge.basis = "none"
           record == [run[a] EXCEPT !.pc = "writing", !.edges = joined, !.diagnosed = diagnosed]
<1>1. run[a] \in InFlight /\ Gathered(run[a])
  BY RunByPc DEF Inv, ReportInv, Join, At
<1>2. /\ run' = [run EXCEPT ![a].pc = "writing", ![a].edges = joined, ![a].diagnosed = diagnosed]
      /\ UNCHANGED <<graph, results>>
  BY DEF Join
<1>3. ASSUME ~diagnosed, NEW o \in observations, ReadBy(run[a], o), NEW ref \in o.references
      PROVE  \E edge \in joined : Joins(edge, o, ref)
  <2>1. o \in ReadReferences(a)
    BY <1>3 DEF ReadReferences, ReadBy
  <2>2. edgeTo(o, ref) \in found
    BY <2>1
  <2>3. edgeTo(o, ref).basis # "none"
    BY <1>3, <2>2
  <2>4. edgeTo(o, ref) \in joined /\ Joins(edgeTo(o, ref), o, ref)
    BY <2>2, <2>3 DEF Joins
  <2> QED
    BY <2>4
<1>4. diagnosed \in BOOLEAN
  OBVIOUS
<1> HIDE DEF joined, diagnosed
<1>5. /\ record.edges = joined /\ record.pc = "writing" /\ record.selections = run[a].selections
      /\ record.diagnosed = diagnosed
  BY <1>1 DEF InFlight
<1>6. run' = [run EXCEPT ![a] = record]
  BY <1>2 DEF Inv, RunsInv
<1> HIDE DEF record
<1>7. Gathered(record)
  <2>1. \A r \in Repositories : Looked(record.selections[r], r)
    BY <1>1, <1>5 DEF Gathered
  <2>2. ASSUME ~record.diagnosed, NEW o \in observations, ReadBy(record, o), NEW ref \in o.references
        PROVE  \E edge \in record.edges : Joins(edge, o, ref)
    <3>1. ~diagnosed /\ ReadBy(run[a], o)
      BY <1>5, <2>2 DEF ReadBy
    <3> QED
      BY <1>3, <1>5, <3>1
  <2> QED
    BY <1>5, <2>1, <2>2 DEF Gathered
<1>8. UNCHANGED <<results, observations, snapshots>>
  BY <1>2 DEF graph
<1> QED
  BY <1>6, <1>7, <1>8, GatherStep

LEMMA WriteReports ==
    ASSUME Inv, ReportInv, NEW a \in Analyses, ObserveEdges(a)
    PROVE  ReportInv'
<1>1. run[a] \in InFlight /\ Gathered(run[a]) /\ run[a].pc = "writing"
  BY RunByPc DEF Inv, ReportInv, ObserveEdges, At
<1> DEFINE record == [run[a] EXCEPT !.pc = "finishing"]
<1>2. run' = [run EXCEPT ![a] = record] /\ UNCHANGED <<results, observations, snapshots>>
  BY DEF ObserveEdges, Inv, RunsInv
<1>3. /\ record.edges = run[a].edges /\ record.pc = "finishing"
      /\ record.selections = run[a].selections
  BY <1>1 DEF InFlight
<1>4. record.diagnosed <=> run[a].diagnosed
  BY <1>1 DEF InFlight
<1> HIDE DEF record
<1>5. Gathered(record)
  BY <1>1, <1>3, <1>4 DEF Gathered, ReadBy
<1> QED
  BY <1>2, <1>5, GatherStep

\* What a complete result of a running execution reports.
LEMMA ResultReports ==
    ASSUME Inv, EvidenceInv, ReportInv, NEW a \in Analyses, run[a] \in InFlight,
           run[a].pc = "finishing", NEW isCurrent \in BOOLEAN,
           NEW result, result = ResultOf(a, isCurrent), result.state = "complete",
           NEW r \in snapshots[result.revision].selected,
           NEW o \in ObservationOf(r, result.selections[r].generation)
    PROVE  o.references = {f.reference : f \in {g \in result.findings :
                              /\ g.consumer = r /\ g.state = "PREVIEW"
                              /\ g.generation = o.generation}}
<1>1. /\ result.revision = run[a].revision /\ result.selections = run[a].selections
      /\ result.findings = {FindingOf(a, edge) : edge \in run[a].edges}
  BY DEF ResultOf
<1>2. ~Partial(a)
  BY DEF ResultOf
<1>3. /\ run[a].change = "complete" /\ ~run[a].diagnosed
      /\ \A q \in Repositories : run[a].selections[q].state \in {"current", "pending"}
  BY <1>2 DEF Partial, Abstains
<1>4. /\ o \in observations /\ o.repository = r
      /\ o.generation = run[a].selections[r].generation
      /\ r \in Repositories
  BY <1>1, PositiveObservation DEF ObservationOf, Inv
<1>5. Gathered(run[a]) /\ Sound(run[a])
  BY DEF ReportInv, EvidenceInv
<1>6. \A q \in snapshots[run[a].revision].selected : q \in Repositories =>
          run[a].selections[q].state = "current"
  BY <1>3, <1>5 DEF Sound
<1>7. ReadBy(run[a], o)
  BY <1>1, <1>4, <1>6 DEF ReadBy
<1>8. \A ref \in o.references : \E edge \in run[a].edges : Joins(edge, o, ref)
  BY <1>3, <1>4, <1>5, <1>7 DEF Gathered
<1>9. ASSUME NEW edge \in run[a].edges, edge.consumer = r
      PROVE  /\ FindingOf(a, edge).consumer = r /\ FindingOf(a, edge).state = "PREVIEW"
             /\ FindingOf(a, edge).generation = edge.generation
             /\ FindingOf(a, edge).reference = edge.reference
  BY <1>1, <1>3, <1>4, <1>6, <1>9 DEF FindingOf
<1>10. ASSUME NEW ref \in o.references
       PROVE  \E f \in result.findings : /\ f.consumer = r /\ f.state = "PREVIEW"
                                         /\ f.generation = o.generation /\ f.reference = ref
  <2>1. PICK edge \in run[a].edges : Joins(edge, o, ref)
    BY <1>8
  <2> QED
    BY <1>1, <1>4, <1>9, <2>1 DEF Joins
<1>11. ASSUME NEW f \in result.findings, f.consumer = r, f.generation = o.generation
       PROVE  f.reference \in o.references
  <2>1. PICK edge \in run[a].edges : f = FindingOf(a, edge)
    BY <1>1
  <2>2. edge.consumer = r /\ edge.generation = o.generation /\ f.reference = edge.reference
    BY <1>11, <2>1 DEF FindingOf
  <2>3. PICK o2 \in ObservationOf(r, o.generation) : edge.reference \in o2.references
    BY <1>5, <2>2 DEF Sound, Backed
  <2>4. o2 = o
    BY <1>4, <2>3 DEF ObservationOf, ReportInv, OneObservation
  <2> QED
    BY <2>2, <2>3, <2>4
<1> QED
  BY <1>10, <1>11

LEMMA PersistReports ==
    ASSUME Inv, EvidenceInv, ReportInv, NEW a \in Analyses, PersistAnalysis(a)
    PROVE  ReportInv'
<1>1. PICK isCurrent \in BOOLEAN : results' = Persisted(a, ResultOf(a, isCurrent))
  BY DEF PersistAnalysis
<1>2. /\ run[a] \in InFlight /\ Gathered(run[a]) /\ run[a].pc = "finishing"
      /\ run' = [run EXCEPT ![a] = Done]
      /\ UNCHANGED <<snapshots, observations>>
  BY RunByPc DEF Inv, ReportInv, PersistAnalysis, At, graph
<1>3. PICK result : result = ResultOf(a, isCurrent)
  OBVIOUS
<1>4. result \in Result /\ results' = Persisted(a, result)
  BY <1>1, <1>2, <1>3, ResultType
<1>5. /\ results'[a] = result
      /\ \A b \in Analyses \ {a} :
             results'[b] = IF result.current /\ b = currentAnalysis
                           THEN [results[b] EXCEPT !.state = "superseded", !.current = FALSE]
                           ELSE results[b]
  BY <1>4, PersistedRows
<1>6. ASSUME NEW b \in Analyses \ {a}, results'[b] # NoResult
      PROVE  /\ results[b] # NoResult /\ results'[b].selections = results[b].selections
             /\ results'[b] = results[b] \/ results'[b].state = "superseded"
  <2>1. CASE result.current /\ b = currentAnalysis
    <3>1. results[b] \in Result /\ results[b] # NoResult
      BY <2>1, ResultShape DEF Inv, ResultsInv, OneCurrentAnalysis
    <3> QED
      BY <1>5, <2>1, <3>1 DEF Result
  <2>2. CASE ~(result.current /\ b = currentAnalysis)
    BY <1>5, <1>6, <2>2
  <2> QED
    BY <2>1, <2>2
<1>7. ASSUME NEW b \in Analyses, results'[b] # NoResult, NEW r \in Repositories
      PROVE  Looked(results'[b].selections[r], r)
  <2>1. CASE b = a
    <3>1. result.selections = run[a].selections
      BY <1>3 DEF ResultOf
    <3> QED
      BY <1>2, <1>5, <2>1, <3>1 DEF Gathered
  <2>2. CASE b # a
    BY <1>6, <1>7, <2>2 DEF ReportInv
  <2> QED
    BY <2>1, <2>2
<1>8. (\A b \in Analyses : results[b] # NoResult =>
           \A r \in Repositories : Looked(results[b].selections[r], r))'
  BY <1>2, <1>7 DEF Looked
<1>9. CompleteReportsEveryReference'
  <2> SUFFICES ASSUME NEW b \in Analyses, results'[b] # NoResult, results'[b].state = "complete",
                      NEW r \in snapshots[results'[b].revision].selected,
                      NEW o \in ObservationOf(r, results'[b].selections[r].generation)
               PROVE  o.references = {f.reference : f \in {g \in results'[b].findings :
                                   /\ g.consumer = r /\ g.state = "PREVIEW"
                                   /\ g.generation = o.generation}}
    BY <1>2 DEF CompleteReportsEveryReference, ObservationOf
  <2>1. CASE b = a
    <3>1. results'[b] = result
      BY <1>5, <2>1
    <3>2. /\ result.state = "complete" /\ r \in snapshots[result.revision].selected
          /\ o \in ObservationOf(r, result.selections[r].generation)
      BY <3>1
    <3>3. o.references = {f.reference : f \in {g \in result.findings :
                             /\ g.consumer = r /\ g.state = "PREVIEW"
                             /\ g.generation = o.generation}}
      BY <1>2, <1>3, <3>2, ResultReports
    <3> QED
      BY <3>1, <3>3
  <2>2. CASE b # a
    <3>1. results'[b] = results[b]
      BY <1>6, <2>2
    <3> QED
      BY <3>1 DEF ReportInv, CompleteReportsEveryReference
  <2> QED
    BY <2>1, <2>2
<1>10. OneObservation'
  BY <1>2 DEF ReportInv, OneObservation
<1>11. (\A b \in Analyses : run[b] \in InFlight => Gathered(run[b]))'
  <2>1. ASSUME NEW b \in Analyses, run'[b] \in InFlight PROVE Gathered(run[b])'
    <3>1. b # a /\ run'[b] = run[b]
      BY <1>2, <2>1 DEF Inv, RunsInv, Done, InFlight
    <3> QED
      BY <1>2, <2>1, <3>1, GatheredKept DEF ReportInv
  <2> QED
    BY <2>1 DEF InFlight, Edge, Finding, Selections
<1> QED
  BY <1>8, <1>9, <1>10, <1>11 DEF ReportInv

LEMMA AbandonReports ==
    ASSUME Inv, ReportInv, NEW a \in Analyses, Abandon(a)
    PROVE  ReportInv'
<1>1. Done \notin InFlight
  BY DEF Done, InFlight
<1> QED
  BY <1>1, GatherStep DEF Abandon, Step, graph

LEMMA ReportInit == Init => ReportInv
<1> SUFFICES ASSUME Init PROVE ReportInv
  OBVIOUS
<1>1. Idle \notin InFlight
  BY DEF Idle, InFlight
<1>2. \A a \in Analyses : run[a] \notin InFlight /\ results[a] = NoResult
  BY <1>1 DEF Init
<1>3. OneObservation
  BY DEF Init, GraphInit, OneObservation
<1> QED
  BY <1>2, <1>3 DEF ReportInv, CompleteReportsEveryReference

LEMMA ReportStep == Inv /\ EvidenceInv /\ ReportInv /\ [Next]_vars => ReportInv'
<1> SUFFICES ASSUME Inv, EvidenceInv, ReportInv, [Next]_vars PROVE ReportInv'
  OBVIOUS
<1>1. CASE \/ UNCHANGED vars
           \/ \E n \in Revisions : Register(n)
           \/ \E r \in Repositories : Publish(r)
  <2>1. UNCHANGED <<snapshots, observations, run, results>>
    BY <1>1 DEF vars, graph, Register, PutRevision, Publish, PublishGeneration, analysis
  <2> QED
    BY <2>1, StillReports
<1>2. ASSUME NEW a \in Analyses,
             \/ Start(a) \/ SelectProducerHead(a)
             \/ \E r \in Repositories :
                    SelectConsumer(a, r) \/ ObserveConsumer(a, r) \/ RefreshConsumer(a, r)
             \/ Join(a) \/ ObserveEdges(a)
             \/ PersistAnalysis(a) \/ Abandon(a)
      PROVE  ReportInv'
  BY <1>2, StartReports, SelectionsReport, JoinReports, WriteReports, PersistReports,
     AbandonReports
<1> QED
  BY <1>1, <1>2, ExtractReports DEF Next

\* A complete result previews exactly the references of the generations that it
\* selected, for any number of repositories and analyses and whatever is published,
\* observed or registered while execute runs.
THEOREM CompleteResultsReportAll == Spec => []CompleteReportsEveryReference
<1>1. ReportInv => CompleteReportsEveryReference
  BY DEF ReportInv
<1> QED
  BY InvInit, InvStep, EvidenceInit, EvidenceStep, ReportInit, ReportStep, <1>1, PTL DEF Spec
=============================================================================
