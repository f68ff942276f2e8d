--------------------------- MODULE ReasoningEngine ---------------------------
(***************************************************************************)
(* ReasoningEngineV1.analyze: the optional reasoning of an analysis.  One  *)
(* engine serves every caller of its process, so its circuit breaker is    *)
(* shared by calls that are suspended in a consent, retrieval or provider  *)
(* request.  What those ports answer, and whether a reservation of the     *)
(* call's budget is refused, is any answer.                                *)
(***************************************************************************)
EXTENDS EvidenceV2

CONSTANTS
    Callers,        \* the analyses that may call the engine
    Maximums,       \* executionBudget.artifacts of a call
    Threshold,      \* circuitBreakerFailureThreshold
    Cooldown,       \* circuitBreakerCooldownMs
    MaxTime         \* bound: the clock stops there

ASSUME EngineAssumption ==
    Threshold \in Nat \ {0} /\ Maximums \cup {Cooldown, MaxTime} \subseteq Nat

VARIABLES
    engineClock,
    failures,       \* #consecutiveProviderFailures
    openUntil,      \* #openUntil
    call,           \* the engine's local state of each call
    streak          \* history: provider failures in a row, and when the last was

engine == <<engineClock, failures, openUntil, call, streak>>

NoStreak == [count |-> 0, since |-> 0]

\* A hypothesis cites evidence of both sides.
Hypothesis == [producer : SUBSET Handle, consumer : SUBSET Handle]

Limitations ==
    {"none", "budget_exhausted", "circuit_open", "citation_invalid", "consent_denied",
     "consent_failed", "consent_timeout", "data_deleted", "provider_failed",
     "provider_refused", "provider_timeout", "response_malformed", "retrieval_failed",
     "retrieval_invalid", "retrieval_timeout", "seed_evidence_missing",
     "two_sided_context_missing"}

\* A reasoning run.  output: it has a providerOutputHash; unique: no citation is
\* listed twice; exhausted: the budget report names an exhausted dimension.
Run ==
    [state : {"complete", "partial", "failed", "deleted"}, limitation : Limitations,
     allowed : SUBSET ScopeRepositories, denied : SUBSET ScopeRepositories,
     citations : SUBSET Handle, unique : BOOLEAN, hypotheses : SUBSET Hypothesis,
     output : BOOLEAN, exhausted : BOOLEAN]

NoCall == [pc |-> "none"]
Rejected == [pc |-> "rejected"]

InCall ==
    [pc : {"consenting", "retrieving", "asking"}, handles : SUBSET Handle,
     pending : SUBSET ScopeRepositories, allowed : SUBSET ScopeRepositories,
     context : SUBSET Handle, unique : BOOLEAN]

EngineTypeOK ==
    /\ engineClock \in 0 .. MaxTime /\ failures \in Nat /\ openUntil \in 0 .. MaxTime + Cooldown
    /\ \A c \in Callers : \/ call[c] \in {NoCall, Rejected} \/ call[c] \in InCall
                          \/ call[c].pc = "done" /\ call[c].run \in Run

EngineInit ==
    /\ engineClock = 0 /\ failures = 0 /\ openUntil = 0
    /\ call = [c \in Callers |-> NoCall]
    /\ streak = NoStreak

-----------------------------------------------------------------------------
(* finalizeReasoningRunV2 and finish. *)

SideOf(handles, side) == {h \in handles : h.side = side}

\* finalizeReasoningRunV2: hypotheses cite retained evidence on the declared side.
Cited(run) ==
    \A h \in run.hypotheses :
        /\ h.producer \subseteq SideOf(run.citations, "producer")
        /\ h.consumer \subseteq SideOf(run.citations, "consumer")

\* finalizeReasoningRunV2: what it does not throw on.
RunValid(run) ==
    /\ run.unique /\ Cited(run)
    /\ \A h \in run.hypotheses : h.producer # {} /\ h.consumer # {}
    /\ run.state = "deleted" => run.hypotheses = {} /\ run.citations = {} /\ ~run.output
    /\ run.state = "complete" => run.limitation = "none" /\ run.output
    /\ run.state = "failed" => run.hypotheses = {}
    /\ run.output => run.allowed # {} /\ run.denied = {}

\* Mutant: only an exact multiple of the threshold opens the breaker.
OpensOnMultiple(count) == count % Threshold = 0

Opens(count) == count >= Threshold

\* A call that never got past its first failure.
NewRun(c, state, limitation) ==
    [state |-> state, limitation |-> limitation, allowed |-> {}, denied |-> {},
     citations |-> {}, unique |-> TRUE, hypotheses |-> {}, output |-> FALSE,
     exhausted |-> limitation = "budget_exhausted"]

\* The run of a call under way, with the evidence and decisions retained so far.
RunOf(c, state, limitation) ==
    [NewRun(c, state, limitation) EXCEPT
        !.allowed = call[c].allowed, !.citations = call[c].context, !.unique = call[c].unique]

\* finish: the breaker moves before the run is finalized, and a run that cannot be
\* finalized rejects the call.  budget.complete may still find the deadline past.
Finish(c, run, providerFailure) ==
    /\ failures' = IF providerFailure THEN failures + 1
                   ELSE IF run.state = "complete" THEN 0 ELSE failures
    /\ openUntil' = CASE providerFailure /\ Opens(failures + 1) -> engineClock + Cooldown
                      [] ~providerFailure /\ run.state = "complete" -> 0
                      [] OTHER -> openUntil
    /\ \E late \in BOOLEAN :
           call' = [call EXCEPT ![c] =
                       IF RunValid(run)
                       THEN [pc |-> "done", run |-> [run EXCEPT !.exhausted = @ \/ late]]
                       ELSE Rejected]
    /\ streak' = CASE providerFailure -> [count |-> streak.count + 1, since |-> engineClock]
                   [] ~providerFailure /\ run.state = "complete" -> NoStreak
                   [] OTHER -> streak
    /\ UNCHANGED engineClock

Stop(c, limitation) == Finish(c, RunOf(c, "failed", limitation), FALSE)

\* A step of the call that touches nothing but its local state.
Advance(c, local) ==
    call' = [call EXCEPT ![c] = local] /\ UNCHANGED <<engineClock, failures, openUntil, streak>>

-----------------------------------------------------------------------------
(* analyze, one action per await. *)

Tick == engineClock < MaxTime /\ engineClock' = engineClock + 1 /\ UNCHANGED <<failures, openUntil, call, streak>>

\* The plan, and the reservation of the consent queries.
Call(c, scope, evidence, maximum) ==
    /\ call[c] = NoCall
    /\ \/ /\ PlanThrows(scope, evidence, maximum)
          /\ Advance(c, Rejected)
       \/ /\ ~PlanThrows(scope, evidence, maximum)
          /\ \E handles \in Plans(evidence, maximum) :
                 \/ /\ handles = {}
                    /\ Finish(c, NewRun(c, "partial", "seed_evidence_missing"), FALSE)
                 \/ /\ handles # {}
                    /\ \/ Finish(c, NewRun(c, "failed", "budget_exhausted"), FALSE)
                       \/ Advance(c, [pc |-> "consenting", handles |-> handles,
                                      pending |-> {h.repository : h \in handles},
                                      allowed |-> {}, context |-> {}, unique |-> TRUE])

\* Mutant: the last repository is taken to agree with the others.
NextConsentEarly(c, r) ==
    [call[c] EXCEPT !.pending = @ \ {r}, !.allowed = @ \cup {r},
                    !.pc = IF Cardinality(call[c].pending) <= 2 THEN "retrieving" ELSE @]

\* The next repository is asked, or the retrieval is made.
NextConsent(c, r) ==
    [call[c] EXCEPT !.pending = @ \ {r}, !.allowed = @ \cup {r},
                    !.pc = IF call[c].pending = {r} THEN "retrieving" ELSE @]

\* consent.authorize for the next repository; after the last one the retrieval is
\* reserved.
ConsentAnswers(c) ==
    /\ call[c].pc = "consenting"
    /\ \E r \in call[c].pending :
           \/ Stop(c, "consent_timeout")
           \/ Stop(c, "consent_failed")
           \/ Finish(c, [RunOf(c, "failed", "consent_denied") EXCEPT !.denied = {r}], FALSE)
           \/ Advance(c, NextConsent(c, r))
           \/ /\ NextConsent(c, r).pc = "retrieving"
              /\ Finish(c, [RunOf(c, "failed", "budget_exhausted") EXCEPT
                               !.allowed = @ \cup {r}], FALSE)

\* materializeReasoningContextV1 keeps the items whose handle came back unchanged
\* while bytes remain and whose minimized excerpt is not empty; an item may come
\* twice, as long as no more come than were asked for.
MaterializedContexts(handles) ==
    {m \in [kept : SUBSET handles, unique : BOOLEAN] :
        ~m.unique => m.kept \notin {{}, handles}}

\* retrieve, and the checks up to the provider request.
RetrievalAnswers(c) ==
    /\ call[c].pc = "retrieving"
    /\ \/ \E limitation \in {"retrieval_timeout", "retrieval_failed", "retrieval_invalid"} :
              Stop(c, limitation)
       \/ \E m \in MaterializedContexts(call[c].handles) :
              LET run(state, limitation) ==
                      [RunOf(c, state, limitation) EXCEPT !.citations = m.kept,
                                                          !.unique = m.unique]
                  twoSided == \A side \in {"producer", "consumer"} : SideOf(m.kept, side) # {}
              IN  \/ Finish(c, run("failed", "budget_exhausted"), FALSE)
                  \/ ~twoSided /\ Finish(c, run("partial", "two_sided_context_missing"), FALSE)
                  \/ /\ twoSided /\ engineClock < openUntil
                     /\ Finish(c, run("failed", "circuit_open"), FALSE)
                  \/ /\ twoSided /\ engineClock >= openUntil
                     /\ Advance(c, [call[c] EXCEPT !.pc = "asking", !.context = m.kept,
                                                   !.unique = m.unique])

\* A candidate both of whose sides cite supplied evidence.
Supported(c, candidate) ==
    /\ candidate.producer # {} /\ candidate.producer \subseteq SideOf(call[c].context, "producer")
    /\ candidate.consumer # {} /\ candidate.consumer \subseteq SideOf(call[c].context, "consumer")

\* Up to two candidates, which cite what was planned, supplied or not, once per
\* side at most.
Responses(c) ==
    LET cites == {{}} \cup {{h} : h \in call[c].handles}
        candidates == [producer : cites, consumer : cites]
    IN  {{}} \cup {{x, y} : x, y \in candidates}

\* provider.reason: its failures count for the breaker, a complete run resets it,
\* a response over the token budget or with unsupported candidates does neither.
ProviderAnswers(c) ==
    /\ call[c].pc = "asking"
    /\ \/ \E limitation \in {"provider_timeout", "provider_failed", "response_malformed"} :
              Finish(c, RunOf(c, "failed", limitation), TRUE)
       \/ Finish(c, [RunOf(c, "failed", "budget_exhausted") EXCEPT !.output = TRUE], FALSE)
       \/ Finish(c, [RunOf(c, "failed", "provider_refused") EXCEPT !.output = TRUE], TRUE)
       \/ \E candidates \in Responses(c) :
              LET supported == {x \in candidates : Supported(c, x)}
                  invalid == supported # candidates
              IN  Finish(c, [RunOf(c, IF invalid THEN "partial" ELSE "complete",
                                      IF invalid THEN "citation_invalid" ELSE "none")
                             EXCEPT !.output = TRUE, !.hypotheses = supported], FALSE)

EngineStep(c) == ConsentAnswers(c) \/ RetrievalAnswers(c) \/ ProviderAnswers(c)
=============================================================================
