----------------------------- MODULE AnalysisV2 ------------------------------
(***************************************************************************)
(* AnalyzePullRequestV2.execute: the scope, the version 1 analysis inside  *)
(* it, the coverage and findings of the enabled adapter families, optional *)
(* reasoning (ReasoningEngine) and persistAnalysisV2; and the purge of a   *)
(* reasoning run.  The stores are SqliteStore's and PostgresHostedStore's, *)
(* which agree.                                                            *)
(*                                                                         *)
(* The callers of the engine are the analysis IDs.  An execution may crash *)
(* between any two steps and be started again under its ID.                *)
(***************************************************************************)
EXTENDS ReasoningEngine

CONSTANTS
    Inputs,         \* the inputs of an execution
    SourceAnswers,  \* what the coverage source may answer
    MaxAttempts     \* bound: executions of one analysis ID

Input ==
    [registry : Registry, request : (SUBSET ScopeRepositories) \cup {Legacy},
     families : SUBSET STRING, evidence : Evidence, reasoning : BOOLEAN]

ASSUME InputsAssumption == Inputs \subseteq Input /\ MaxAttempts \in Nat

VARIABLES
    execution,      \* where the execution of each analysis is
    attempts,       \* executions started; stands for the clock readings in a result
    legacyResults,  \* analysis_results
    resultsV2,      \* analysis_results_v2
    runs,           \* reasoning_runs_v2, of which an analysis has at most one
    world           \* history: input and answers behind each stored result

store == <<legacyResults, resultsV2, runs, world>>
varsV2 == <<engine, execution, attempts, store>>

IdleExecution == [pc |-> "idle"]
None == [state |-> "none"]

V2Init ==
    /\ EngineInit
    /\ execution = [a \in Callers |-> IdleExecution]
    /\ attempts = [a \in Callers |-> 0]
    /\ legacyResults = [a \in Callers |-> None]
    /\ resultsV2 = [a \in Callers |-> None]
    /\ runs = [a \in Callers |-> None]
    /\ world = [a \in Callers |-> None]

\* The execution returns a failure or throws; nothing it wrote is undone.
Return(a) == execution' = [execution EXCEPT ![a] = IdleExecution]

-----------------------------------------------------------------------------
(* The scope and the version 1 analysis. *)

\* execute up to the second reservation.  A refused reservation, a missing
\* registry revision and a refused or unselected producer end it.
ResolveScopeStep(a) ==
    /\ execution[a] = IdleExecution /\ attempts[a] < MaxAttempts
    /\ attempts' = [attempts EXCEPT ![a] = @ + 1]
    /\ \/ UNCHANGED execution
       \/ \E input \in Inputs :
          \E answers \in [Candidates(input.registry, input.request) -> Answers] :
              LET scope == ResolveScope(input.registry, input.request, answers)
              IN  /\ ScopeProducer \in input.registry.selected /\ InScope(scope, ScopeProducer)
                  /\ execution' = [execution EXCEPT ![a] =
                         [pc |-> "legacy", input |-> input, answers |-> answers, scope |-> scope]]
    /\ UNCHANGED <<engine, store>>

\* What the version 1 analysis selects inside the scope.
SelectionsIn(scope) ==
    {s \in [scope.repositories ->
            {[state |-> x, generation |-> 1] : x \in {"current", "stale", "unsupported"}}
            \cup {[state |-> x, generation |-> 0] : x \in {"failed", "not_indexed"}}] :
        s[ScopeProducer].state \in {"current", "unsupported", "failed"}}

\* Its state: complete only if every consumer is current (NoRepositoryIsSilent of
\* AnalyzePullRequest).
LegacyStates(selections) ==
    {"partial", "superseded"} \cup
    IF \A r \in DOMAIN selections : selections[r].state = "current" THEN {"complete"} ELSE {}

\* persistAnalysis: an ID that is stored with another content is a conflict, and
\* startedAt is part of the content.  Another current analysis is superseded.
LegacyAnalysis(a) ==
    /\ execution[a].pc = "legacy"
    /\ \/ Return(a) /\ UNCHANGED <<store>>
       \/ /\ legacyResults[a] = None
          /\ \E selections \in SelectionsIn(execution[a].scope) :
             \E state \in LegacyStates(selections) :
                 /\ legacyResults' =
                        [b \in Callers |->
                            CASE b = a -> [state |-> state, attempt |-> attempts[a]]
                              [] b # a /\ state # "superseded" /\ legacyResults[b] # None ->
                                     [legacyResults[b] EXCEPT !.state = "superseded"]
                              [] OTHER -> legacyResults[b]]
                 /\ execution' = [execution EXCEPT ![a] =
                        [pc |-> "covering", input |-> @.input, answers |-> @.answers,
                         scope |-> @.scope, selections |-> selections,
                         legacy |-> [state |-> state, attempt |-> attempts[a]]]]
          /\ UNCHANGED <<resultsV2, runs, world>>
    /\ UNCHANGED <<engine, attempts>>

-----------------------------------------------------------------------------
(* Coverage, findings and reasoning. *)

\* The state of a result without reasoning; removeReasoningFromAnalysisResultV2
\* computes it again.
DeterministicState(legacy, scope, coverage, exhausted) ==
    CASE legacy.state = "superseded" -> "superseded"
      [] \/ legacy.state = "partial" \/ scope.gaps # {}
         \/ CoverageState(scope, coverage) = "partial" \/ exhausted -> "partial"
      [] OTHER -> "complete"

\* The source is asked about the repositories with a generation.
Sources(e) ==
    {sources \in [e.scope.repositories -> SourceAnswers \cup {NoAnswer}] :
        \A r \in e.scope.repositories :
            e.input.families = {} \/ ~HasGeneration(e.selections[r]) => sources[r] = NoAnswer}

\* composeAnalysisCoverageV2, budget.complete and the findings; then the call of
\* the reasoning port.  A join that throws rejects the execution.
Cover(a) ==
    LET e == execution[a]
    IN  /\ e.pc = "covering"
        /\ \/ /\ JoinThrows(e.scope, e.input.evidence, e.selections)
              /\ Return(a) /\ UNCHANGED engine
           \/ /\ ~JoinThrows(e.scope, e.input.evidence, e.selections)
              /\ \E exhausted \in BOOLEAN, sources \in Sources(e) :
                     execution' = [execution EXCEPT ![a] =
                         [pc |-> "finishing", input |-> e.input, answers |-> e.answers,
                          scope |-> e.scope, selections |-> e.selections, legacy |-> e.legacy,
                          sources |-> sources, exhausted |-> exhausted,
                          coverage |-> ComposeCoverage(e.scope, e.input.families,
                                                       e.selections, sources)]]
              /\ IF e.input.reasoning
                 THEN \E maximum \in Maximums : Call(a, e.scope, e.input.evidence, maximum)
                 ELSE UNCHANGED engine
        /\ UNCHANGED <<attempts, store>>

Reason(a) == EngineStep(a) /\ UNCHANGED <<execution, attempts, store>>

-----------------------------------------------------------------------------
(* The result. *)

\* The reasoning outcome that execute accepts, if any: canonical, of this analysis
\* and inside its scope (assertReasoningRunScope).
AcceptedRun(a) ==
    IF /\ call[a].pc = "done"
       /\ call[a].run.state # "deleted" /\ RunValid(call[a].run)
       /\ {h.repository : h \in call[a].run.citations} \cup call[a].run.allowed
              \cup call[a].run.denied \subseteq execution[a].scope.repositories
    THEN call[a].run ELSE None

\* The result with the outcome of a reasoning run, or with None.
ResultWith(e, run) ==
    LET state == DeterministicState(e.legacy, e.scope, e.coverage, e.exhausted)
    IN  [state |-> IF state # "superseded" /\ run # None /\ run.state # "complete"
                   THEN "partial" ELSE state,
         legacy |-> e.legacy, scope |-> e.scope, coverage |-> e.coverage,
         exhausted |-> e.exhausted,
         reasoned |-> IF run = None THEN "no" ELSE IF run.exhausted THEN "exhausted" ELSE "yes",
         findings |-> FindingsOf(e.input.evidence, e.selections),
         hypotheses |-> IF run = None THEN {} ELSE run.hypotheses]

\* finalizeAnalysisResultV2: it throws on a complete result one of whose budgets
\* was exhausted.
ResultThrows(result) ==
    /\ result.state = "complete"
    /\ \/ result.legacy.state # "complete" \/ result.scope.gaps # {}
       \/ CoverageState(result.scope, result.coverage) = "partial"
       \/ result.exhausted \/ result.reasoned = "exhausted"

\* persistAnalysisV2 refuses reasoning data without its active, canonical run.
RunMatches(result, run) ==
    /\ result.reasoned # "no" <=> run # None
    /\ run # None =>
           run.state # "deleted" /\ run.hypotheses = result.hypotheses /\ RunValid(run)

\* INSERT ... ON CONFLICT DO NOTHING, and a row that is there must be the same.
Immutable(stored, row) == stored \in {None, row}

\* persistAnalysisV2 in one transaction: the result and the run are immutable.
PersistV2(a, result, run) ==
    /\ RunMatches(result, run)
    /\ Immutable(resultsV2[a], result)
    /\ run # None => Immutable(runs[a], run)
    /\ resultsV2' = [resultsV2 EXCEPT ![a] = result]
    /\ runs' = [runs EXCEPT ![a] = IF run = None THEN @ ELSE run]
    /\ world' = [world EXCEPT ![a] = execution[a]]

\* The rest of execute, once the reasoning port has answered.  A result that
\* cannot be finalized rejects the execution; the write may fail or conflict.
Conclude(a) ==
    /\ execution[a].pc = "finishing" /\ call[a].pc \in {"none", "done", "rejected"}
    /\ LET run == AcceptedRun(a)
           result == ResultWith(execution[a], run)
       IN  \/ UNCHANGED store
           \/ /\ ~ResultThrows(result) /\ PersistV2(a, result, run)
              /\ UNCHANGED legacyResults
    /\ Return(a)
    /\ call' = [call EXCEPT ![a] = NoCall]
    /\ UNCHANGED <<engineClock, failures, openUntil, streak, attempts>>

\* The process dies: its executions and its breaker are gone.
Crash ==
    /\ \E a \in Callers : execution[a] # IdleExecution
    /\ execution' = [a \in Callers |-> IdleExecution]
    /\ call' = [a \in Callers |-> NoCall]
    /\ failures' = 0 /\ openUntil' = 0 /\ streak' = NoStreak
    /\ UNCHANGED <<engineClock, attempts, store>>

\* Mutant: the result keeps the state that reasoning gave it.
UnreasonedInPlace(result) == [result EXCEPT !.reasoned = "no", !.hypotheses = {}]

\* removeReasoningFromAnalysisResultV2.
Unreasoned(result) ==
    [result EXCEPT !.reasoned = "no", !.hypotheses = {},
        !.state = DeterministicState(result.legacy, result.scope, result.coverage,
                                     result.exhausted)]

Scrubbed(run) ==
    [run EXCEPT !.state = "deleted", !.limitation = "data_deleted", !.citations = {},
                !.hypotheses = {}, !.output = FALSE]

\* purgeReasoningRunV2: run and result are scrubbed in one transaction.
PurgeReasoningRun(a) ==
    /\ runs[a] # None /\ runs[a].state # "deleted" /\ resultsV2[a] # None
    /\ runs' = [runs EXCEPT ![a] = Scrubbed(@)]
    /\ resultsV2' = [resultsV2 EXCEPT ![a] = Unreasoned(@)]
    /\ UNCHANGED <<engine, execution, attempts, legacyResults, world>>

V2Next ==
    \/ Tick /\ UNCHANGED <<execution, attempts, store>>
    \/ Crash
    \/ \E a \in Callers :
           \/ ResolveScopeStep(a) \/ LegacyAnalysis(a) \/ Cover(a)
           \/ Reason(a) \/ Conclude(a) \/ PurgeReasoningRun(a)

V2Spec == V2Init /\ [][V2Next]_varsV2

-----------------------------------------------------------------------------
(* Properties. *)

V2TypeOK ==
    /\ EngineTypeOK
    /\ \A a \in Callers :
           /\ execution[a].pc \in {"idle", "legacy", "covering", "finishing"}
           /\ attempts[a] \in 0 .. MaxAttempts
           /\ resultsV2[a] # None => resultsV2[a].scope \in Scope
           /\ runs[a] # None => runs[a] \in Run

\* The analysis behind a stored result, read off its inputs: nothing it was asked
\* about was left out or only partly read.
Whole(w) ==
    /\ \A r \in Requested(w.input.registry, w.input.request) \cup {ScopeProducer} :
           /\ r \in w.input.registry.selected /\ w.answers[r] = "allowed"
           /\ ~ \E g \in w.input.registry.consents :
                  /\ g.repository = r /\ g.action = "evidence.consume"
                  /\ g.decision = "deny" /\ g.grantee # "other"
           /\ w.selections[r].state = "current"
           /\ \A f \in w.input.families :
                  /\ w.sources[r].generation = w.selections[r].generation
                  /\ w.sources[r].families[f].state = "complete"
                  /\ w.sources[r].families[f].failed = 0
                  /\ ~w.sources[r].families[f].limitations
    /\ ~w.exhausted /\ w.legacy.state = "complete"

\* execute and finalizeAnalysisResultV2: a stored result that calls itself complete
\* read every repository it was asked about, with consent and authorization at the
\* pinned revision, at a current generation and with every enabled family complete;
\* a purge never makes one that was not.
CompleteIsWhole ==
    \A a \in Callers :
        resultsV2[a] # None /\ resultsV2[a].state = "complete" => Whole(world[a])

\* ReasoningEngineV1 with ResolveAnalysisScope: while the provider is asked, it has
\* been shown evidence of both sides, all of it of repositories that the scope
\* admits and that agreed to be reasoned about, whatever retrieval returned.
ConsentedEvidenceOnly ==
    \A a \in Callers : call[a].pc = "asking" =>
        /\ {h.side : h \in call[a].context} = {"producer", "consumer"}
        /\ \A h \in call[a].context :
               /\ h.repository \in call[a].allowed
               /\ execution[a] # IdleExecution =>
                      /\ h.repository \in execution[a].scope.repositories
                      /\ ~ConsentDenied(execution[a].input.registry, h.repository)

\* purgeReasoningRunV2 and persistAnalysisV2: a result shows reasoning while its run
\* is stored and active, every hypothesis citing evidence the run retains; once the
\* run is deleted the result is the one that execute stores without reasoning, and
\* no later execution brings the data back.
PurgedIsUnreasoned ==
    \A a \in Callers :
        /\ resultsV2[a] # None =>
               (resultsV2[a].reasoned # "no" <=> runs[a] # None /\ runs[a].state # "deleted")
        /\ runs[a] # None =>
               IF runs[a].state = "deleted"
               THEN /\ resultsV2[a] = ResultWith(world[a], None)
                    /\ runs[a].citations = {} /\ runs[a].hypotheses = {}
               ELSE \A h \in resultsV2[a].hypotheses :
                        /\ h.producer \subseteq runs[a].citations
                        /\ h.consumer \subseteq runs[a].citations
                        /\ \A x \in h.producer : x.side = "producer"
                        /\ \A x \in h.consumer : x.side = "consumer"

\* ReasoningEngineV1.finish: once Threshold provider requests in a row have failed,
\* however the calls interleave, no call asks the provider before the cooldown
\* after the last failure has passed.
OpenBreakerHolds ==
    [][\A a \in Callers :
           call[a].pc # "asking" /\ call'[a].pc = "asking" /\ streak.count >= Threshold
           => engineClock >= streak.since + Cooldown]_varsV2

\* "Optional reasoning is failure-isolated from deterministic analysis."
\* (packages/application/src/analyze-pr-v2.ts:268): a result that could be stored
\* without reasoning can be stored with it.
\* Not kept: TLC refutes it (README, section 6).
ReasoningIsIsolated ==
    \A a \in Callers :
        execution[a].pc = "finishing" /\ call[a].pc \in {"done", "rejected"}
            /\ ~ResultThrows(ResultWith(execution[a], None))
        => ~ResultThrows(ResultWith(execution[a], AcceptedRun(a)))
=============================================================================
