----------------------------- MODULE MCAnalyses -----------------------------
(***************************************************************************)
(* Pull-request analysis for TLC: overlapping version 1 analyses, version  *)
(* 2 executions of one analysis, or concurrent callers of the reasoning    *)
(* engine.  A behaviour is of one subject; the others stay unused.         *)
(***************************************************************************)
EXTENDS AnalyzePullRequest, AnalysisV2, TLC

CONSTANTS Subjects, p, c, exact, target, a1, k1, noKey

VARIABLE subject

-----------------------------------------------------------------------------
(* Version 1: one consumer and the producer, which consumes its own contract too. *)

Interchangeable == Permutations(Analyses)

Order == <<c, p>>

KindOf == [r \in References |-> IF r = exact THEN "exact" ELSE "target"]

\* Two generations of the consumer, and one head of the producer.
TwoForTheConsumer == [r \in Repositories |-> IF r = p THEN 1 ELSE 2]

Extracted(coverage, references) == [coverage |-> coverage, references |-> references]

\* The producer's head holds both references to its own contract, or nothing
\* that its adapters support.
SomeExtractions ==
    [r \in Repositories |->
        IF r = p THEN {Extracted("complete", {exact, target}), Extracted("unsupported", {target})}
        ELSE {Extracted("complete", {}), Extracted("complete", {exact}),
              Extracted("partial", {})}]

\* The consumer leaves the workspace and the alias of the service moves.
OneChange ==
    {<<[selected |-> {p, c}, alias |-> "definer"], [selected |-> {p}, alias |-> "other"]>>}

-----------------------------------------------------------------------------
(* Version 2: inputs that cover, abstain, deny and reason, over one contract. *)

Denied(r, grantee) ==
    [repository |-> r, action |-> "evidence.consume", grantee |-> grantee, decision |-> "deny"]

Registered(members, chosen, consents) ==
    [members |-> members, selected |-> chosen, consents |-> consents]

Everyone == Registered({p, c}, {p, c}, {})

Changed(key) ==
    [key |-> key, kind |-> 1, compatibility |-> "breaking", complete |-> TRUE, protocol |-> 1,
     repository |-> p]

Defined(id, key, at) ==
    [id |-> id, key |-> key, at |-> at, protocol |-> 1, range |-> TRUE, repository |-> p]

Referenced(id, key, r, gen, protocol) ==
    [id |-> id, key |-> key, repository |-> r, generation |-> gen, protocol |-> protocol,
     range |-> TRUE]

\* References of the selected and of another generation.
TwoSided ==
    [changes |-> <<Changed(k1)>>, definitions |-> <<Defined(1, k1, "base")>>,
     references |-> <<Referenced(3, k1, c, 1, 1), Referenced(4, k1, c, 2, 1)>>]

\* Another protocol version, and a computed key.
Ambiguous ==
    [TwoSided EXCEPT !.references = <<Referenced(3, k1, c, 1, 2), Referenced(5, noKey, p, 1, 1)>>]

In(registry, request, families, evidence, reasoning) ==
    [registry |-> registry, request |-> request, families |-> families, evidence |-> evidence,
     reasoning |-> reasoning]

SomeInputs ==
    {In(Everyone, Legacy, {"events"}, TwoSided, FALSE),
     In(Registered({p, c}, {p}, {}), {c}, {"events"}, NoEvidence, FALSE),
     In(Registered({p, c}, {p, c}, {Denied(c, "*")}), Legacy, {"events"}, NoEvidence, FALSE),
     In(Everyone, {c}, {}, TwoSided, TRUE), In(Everyone, Legacy, {}, Ambiguous, TRUE),
     In(Registered({p}, {p}, {}), {c}, {}, NoEvidence, TRUE)}

Covers(state, eligible, processed, failed, limited) ==
    [state |-> state, eligible |-> eligible, processed |-> processed, skipped |-> 0,
     failed |-> failed, adapters |-> TRUE, limitations |-> limited]

SomeAnswers ==
    {[generation |-> g, families |-> [f \in {"events"} |-> x]] :
        g \in {1, 2},
        x \in {Covers("complete", 1, 1, 0, FALSE), Covers("complete", 1, 0, 1, FALSE)}}

-----------------------------------------------------------------------------
(* Specification. *)

\* One analysis ID, executed again and again.
ExecutionNext ==
    \/ Crash
    \/ ResolveScopeStep(a1) \/ LegacyAnalysis(a1) \/ Cover(a1)
    \/ Reason(a1) \/ Conclude(a1) \/ PurgeReasoningRun(a1)

\* Callers of one engine, which call again when they are answered.
EngineNext ==
    /\ \/ Tick
       \/ \E a \in Callers :
            \/ Call(a, [repositories |-> {p, c}], TwoSided, 2)
            \/ EngineStep(a)
            \/ /\ call[a].pc \in {"done", "rejected"}
               /\ call' = [call EXCEPT ![a] = NoCall]
               /\ UNCHANGED <<engineClock, failures, openUntil, streak>>
    /\ UNCHANGED <<execution, attempts, store>>

AnalysesInit == subject \in Subjects /\ Init /\ V2Init

AnalysesNext ==
    /\ UNCHANGED subject
    /\ \/ subject = "v1" /\ Next /\ UNCHANGED varsV2
       \/ subject = "v2" /\ ExecutionNext /\ UNCHANGED vars
       \/ subject = "engine" /\ EngineNext /\ UNCHANGED vars

AnalysesSpec == AnalysesInit /\ [][AnalysesNext]_<<subject, vars, varsV2>>
=============================================================================
