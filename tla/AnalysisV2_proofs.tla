-------------------------- MODULE AnalysisV2_proofs --------------------------
(***************************************************************************)
(* Proofs about AnalysisV2, for any registry, number of analyses, evidence *)
(* and breaker: what a complete result stands for, which evidence reaches  *)
(* the reasoning provider, what a purge leaves, and when an open breaker   *)
(* lets a request through.                                                 *)
(***************************************************************************)
EXTENDS AnalysisV2, SequenceTheorems, TLAPS

-----------------------------------------------------------------------------
(* The scope. *)

\* prepareAnalysisScope and finalizeAnalysisScope: a repository is in the scope
\* only if the registry selects it, no consent denies it to the caller and the
\* authorization port allows it.
LEMMA AuthorizedIsConsented ==
    ASSUME NEW registry, NEW answers, NEW r, GapOf(registry, answers, r) = "none"
    PROVE  /\ r \in registry.members /\ r \in registry.selected
           /\ ~ConsentDenied(registry, r) /\ answers[r] = "allowed"
  <1>1. Exclusion(registry, r) = "none" /\ Refusal(answers[r]) = "none"
    BY DEF GapOf
  <1>2. r \in registry.members
    BY <1>1 DEF Exclusion
  <1>3. r \in registry.selected
    BY <1>1, <1>2 DEF Exclusion
  <1>4. ~ConsentDenied(registry, r)
    BY <1>1, <1>2, <1>3 DEF Exclusion
  <1>5. answers[r] = "allowed"
    BY <1>1 DEF Refusal
  <1>6. QED BY <1>2, <1>3, <1>4, <1>5

\* finalizeAnalysisScope returns a scope, made of consented repositories only.
LEMMA ScopeIsConsented ==
    ASSUME NEW input \in Inputs, NEW answers
    PROVE  LET scope == ResolveScope(input.registry, input.request, answers)
           IN  /\ scope \in Scope
               /\ \A r \in scope.repositories :
                      r \in ScopeRepositories /\ ~ConsentDenied(input.registry, r)
  <1> DEFINE considered == Considered(input.registry, input.request)
             authorized == {r \in considered : GapOf(input.registry, answers, r) = "none"}
             gaps == {[repository |-> r, reason |-> GapOf(input.registry, answers, r)] :
                      r \in considered \ authorized}
  <1>1. /\ input.registry.selected \subseteq ScopeRepositories
        /\ input.request = Legacy \/ input.request \subseteq ScopeRepositories
    BY InputsAssumption DEF Input, Registry
  <1>2. Requested(input.registry, input.request) \subseteq ScopeRepositories
    BY <1>1 DEF Requested
  <1>3. considered \subseteq ScopeRepositories
    BY <1>2, ProducerAssumption DEF Considered
  <1>4. \A r : GapOf(input.registry, answers, r) \in GapReasons \cup {"none"}
    BY DEF GapOf, Exclusion, Refusal, GapReasons
  <1>5. gaps \subseteq Gap
    BY <1>3, <1>4 DEF Gap
  <1>6. ResolveScope(input.registry, input.request, answers) \in Scope
    <2>1. authorized \subseteq ScopeRepositories
      BY <1>3
    <2>2. QED BY <1>2, <1>5, <2>1 DEF ResolveScope, Scope
  <1>7. ResolveScope(input.registry, input.request, answers).repositories = authorized
    BY DEF ResolveScope
  <1>8. \A r \in authorized : r \in ScopeRepositories /\ ~ConsentDenied(input.registry, r)
    BY <1>3, AuthorizedIsConsented
  <1>9. QED BY <1>6, <1>7, <1>8

-----------------------------------------------------------------------------
(* The plan of the evidence. *)

\* slice(0, n) keeps elements of the sequence.
LEMMA UptoElements ==
    ASSUME NEW S, NEW s \in Seq(S), NEW n \in Nat
    PROVE  Elements(Upto(s, n)) \subseteq S
  <1>1. Least(Len(s), n) \in Nat /\ Least(Len(s), n) <= Len(s)
    BY DEF Least
  <1>2. \A i \in 1 .. Least(Len(s), n) : s[i] \in S
    BY <1>1
  <1>3. SubSeq(s, 1, Least(Len(s), n)) \in Seq(S)
    BY <1>1, <1>2, SubSeqProperties
  <1>4. Upto(s, n) \in Seq(S)
    BY <1>3 DEF Upto
  <1>5. QED BY <1>4 DEF Elements

\* planReasoningEvidenceV1: a plan consists of handles, of repositories inside the
\* scope.
LEMMA PlanIsScoped ==
    ASSUME NEW evidence \in Evidence, NEW maximum \in Nat, NEW scope,
           NEW handles \in Plans(evidence, maximum)
    PROVE  /\ handles \subseteq Handle
           /\ ~PlanThrows(scope, evidence, maximum) =>
                  \A h \in handles : h.repository \in scope.repositories
  <1> DEFINE D == PlannedDefinitions(evidence, maximum)
             R == PlannedReferences(evidence, maximum)
             producers == {[side |-> "producer", repository |-> d.repository, id |-> d.id] : d \in D}
             consumers == {[side |-> "consumer", repository |-> ref.repository, id |-> ref.id] :
                           ref \in R}
  <1>1. D \subseteq Definition /\ R \subseteq Reference
    <2>1. /\ Elements(Upto(evidence.definitions, maximum)) \subseteq Definition
          /\ Elements(Upto(evidence.references, maximum)) \subseteq Reference
      BY UptoElements DEF Evidence
    <2>2. QED BY <2>1 DEF PlannedDefinitions, PlannedReferences
  <1>2. producers \subseteq Handle /\ consumers \subseteq Handle
    BY <1>1 DEF Handle, Definition, Reference
  <1>3. handles \subseteq producers \cup consumers
    <2>1. CASE maximum < 2 \/ producers = {} \/ consumers = {}
      BY <2>1 DEF Plans
    <2>2. CASE ~(maximum < 2 \/ producers = {} \/ consumers = {})
      <3> DEFINE producing == Least(Cardinality(producers), maximum - 1)
                 consuming == Least(Cardinality(consumers), maximum - producing)
      <3>1. handles \in {p \cup c : p \in Picks(producers, producing),
                                   c \in Picks(consumers, consuming)}
        BY <2>2 DEF Plans
      <3> HIDE DEF producing, consuming
      <3>2. QED BY <3>1 DEF Picks
    <2>3. QED BY <2>1, <2>2
  <1>4. handles # {} => maximum >= 2
    BY DEF Plans
  <1>5. ASSUME ~PlanThrows(scope, evidence, maximum), NEW h \in handles
        PROVE  h.repository \in scope.repositories
    <2>1. h.repository \in {d.repository : d \in D} \cup {ref.repository : ref \in R}
      BY <1>3
    <2>2. InScope(scope, h.repository)
      BY <1>4, <1>5, <2>1 DEF PlanThrows
    <2>3. QED BY <2>2 DEF InScope
  <1>6. QED BY <1>2, <1>3, <1>5

-----------------------------------------------------------------------------
(* The engine. *)

Outcome == {Rejected} \cup [pc : {"done"}, run : Run]

EngineShape ==
    /\ engineClock \in 0 .. MaxTime /\ failures \in Nat /\ openUntil \in 0 .. MaxTime + Cooldown
    /\ call \in [Callers -> {NoCall} \cup Outcome \cup InCall]
    /\ streak \in [count : Nat, since : Nat]

\* The breaker's own counter is the length of the streak, and a streak that is long
\* enough has opened it until the cooldown after its last failure.
Breaker ==
    /\ failures = streak.count
    /\ failures >= Threshold => openUntil = streak.since + Cooldown

\* A call under way: what is planned but not yet agreed to is pending, and the
\* context is part of the plan.
Agreed(k) ==
    /\ \A h \in k.handles : h.repository \in k.pending \cup k.allowed
    /\ k.pc # "consenting" => k.pending = {}
    /\ k.context \subseteq k.handles
    /\ k.pc = "asking" => {h.side : h \in k.context} = {"producer", "consumer"}

LEMMA NewRunType ==
    ASSUME NEW c, NEW state \in {"complete", "partial", "failed"}, NEW limitation \in Limitations
    PROVE  NewRun(c, state, limitation) \in Run
  BY DEF NewRun, Run

LEMMA RunOfType ==
    ASSUME NEW c, call[c] \in InCall, NEW state \in {"complete", "partial", "failed"},
           NEW limitation \in Limitations
    PROVE  RunOf(c, state, limitation) \in Run
  <1>1. /\ call[c].allowed \subseteq ScopeRepositories
        /\ call[c].context \subseteq Handle /\ call[c].unique \in BOOLEAN
    BY DEF InCall
  <1>2. NewRun(c, state, limitation) \in Run
    BY NewRunType
  <1>3. [NewRun(c, state, limitation) EXCEPT
            !.allowed = call[c].allowed, !.citations = call[c].context,
            !.unique = call[c].unique] \in Run
    BY <1>1, <1>2 DEF Run
  <1>4. QED BY <1>3 DEF RunOf

\* The fields a step fills in.
LEMMA RunExcept ==
    ASSUME NEW run \in Run, NEW kept \in SUBSET Handle, NEW unique \in BOOLEAN,
           NEW hypotheses \in SUBSET Hypothesis
    PROVE  /\ [run EXCEPT !.output = TRUE] \in Run
           /\ [run EXCEPT !.output = TRUE, !.hypotheses = hypotheses] \in Run
           /\ [run EXCEPT !.citations = kept, !.unique = unique] \in Run
  BY DEF Run

\* A call that waits for a port is under way.
LEMMA RunningCall ==
    ASSUME EngineShape, NEW c \in Callers, call[c].pc \in {"consenting", "retrieving", "asking"}
    PROVE  call[c] \in InCall
  <1>1. call[c] \in {NoCall} \cup {Rejected} \cup [pc : {"done"}, run : Run] \cup InCall
    BY DEF EngineShape, Outcome
  <1>2. NoCall.pc = "none" /\ Rejected.pc = "rejected"
    BY DEF NoCall, Rejected
  <1>3. QED BY <1>1, <1>2

\* finish: the shared breaker moves with the streak, and the call is answered.
LEMMA FinishEffect ==
    ASSUME EngineShape, Breaker, NEW c \in Callers, NEW run \in Run,
           NEW providerFailure \in BOOLEAN, Finish(c, run, providerFailure)
    PROVE  /\ EngineShape' /\ Breaker'
           /\ \E k \in Outcome : call' = [call EXCEPT ![c] = k]
  <1>1. \E k \in Outcome : call' = [call EXCEPT ![c] = k]
    <2>1. PICK late \in BOOLEAN :
            call' = [call EXCEPT ![c] =
                        IF RunValid(run)
                        THEN [pc |-> "done", run |-> [run EXCEPT !.exhausted = @ \/ late]]
                        ELSE Rejected]
      BY DEF Finish
    <2>2. run.exhausted \in BOOLEAN
      BY DEF Run
    <2>3. [run EXCEPT !.exhausted = run.exhausted \/ late] \in Run
      BY <2>2 DEF Run
    <2>4. QED BY <2>1, <2>3 DEF Outcome
  <1>2. call' \in [Callers -> {NoCall} \cup Outcome \cup InCall]
    BY <1>1 DEF EngineShape
  <1>3. CASE providerFailure
    <2>1. /\ failures' = failures + 1 /\ engineClock' = engineClock
          /\ streak' = [count |-> streak.count + 1, since |-> engineClock]
          /\ openUntil' = IF Opens(failures + 1) THEN engineClock + Cooldown ELSE openUntil
      BY <1>3 DEF Finish
    <2>2. EngineShape'
      BY <1>2, <2>1, EngineAssumption DEF EngineShape
    <2>3. Breaker'
      BY <2>1, EngineAssumption DEF EngineShape, Breaker, Opens
    <2>4. QED BY <1>1, <2>2, <2>3
  <1>4. CASE ~providerFailure /\ run.state = "complete"
    <2>1. failures' = 0 /\ openUntil' = 0 /\ streak' = NoStreak /\ engineClock' = engineClock
      BY <1>4 DEF Finish
    <2>2. EngineShape'
      BY <1>2, <2>1, EngineAssumption DEF EngineShape, NoStreak
    <2>3. Breaker'
      BY <2>1, EngineAssumption DEF Breaker, NoStreak
    <2>4. QED BY <1>1, <2>2, <2>3
  <1>5. CASE ~providerFailure /\ run.state # "complete"
    <2>1. UNCHANGED <<failures, openUntil, streak, engineClock>>
      BY <1>5 DEF Finish
    <2>2. QED BY <1>1, <1>2, <2>1 DEF EngineShape, Breaker
  <1>6. QED BY <1>3, <1>4, <1>5

\* A step of a call that touches nothing shared.
LEMMA AdvanceEffect ==
    ASSUME EngineShape, Breaker, NEW c \in Callers, NEW k \in Outcome \cup InCall, Advance(c, k)
    PROVE  /\ EngineShape' /\ Breaker'
           /\ call' = [call EXCEPT ![c] = k]
  BY DEF EngineShape, Breaker, Advance

\* What a step of the engine may leave in a call: an answer, or the same plan,
\* agreed to as far as the call has come.
Onward(c, k) ==
    /\ call' = [call EXCEPT ![c] = k]
    /\ \/ k \in Outcome
       \/ /\ k \in InCall /\ Agreed(k) /\ call[c] \in InCall
          /\ k.handles = call[c].handles
          /\ k.pc = "asking" => engineClock >= openUntil

\* What a new call of the engine may leave: an answer, or a plan inside the scope.
Begins(c, k, scope) ==
    /\ call' = [call EXCEPT ![c] = k]
    /\ \/ k \in Outcome
       \/ /\ k \in InCall /\ Agreed(k) /\ k.pc = "consenting"
          /\ \A h \in k.handles : h.repository \in scope.repositories

\* analyze up to its first await: a plan inside the scope waits for consent.
LEMMA CallEffect ==
    ASSUME EngineShape, Breaker, NEW c \in Callers, NEW scope, NEW evidence \in Evidence,
           NEW maximum \in Nat, Call(c, scope, evidence, maximum)
    PROVE  /\ EngineShape' /\ Breaker'
           /\ \E k : Begins(c, k, scope)
  <1>1. CASE Advance(c, Rejected)
    <2>1. Rejected \in Outcome
      BY DEF Outcome
    <2>2. QED BY <1>1, <2>1, AdvanceEffect DEF Begins
  <1>2. ASSUME ~PlanThrows(scope, evidence, maximum), NEW handles \in Plans(evidence, maximum),
               Finish(c, NewRun(c, "partial", "seed_evidence_missing"), FALSE)
        PROVE  EngineShape' /\ Breaker' /\ \E k : Begins(c, k, scope)
    <2>1. NewRun(c, "partial", "seed_evidence_missing") \in Run
      BY NewRunType DEF Limitations
    <2>2. QED BY <1>2, <2>1, FinishEffect DEF Begins
  <1>3. ASSUME ~PlanThrows(scope, evidence, maximum), NEW handles \in Plans(evidence, maximum),
               Finish(c, NewRun(c, "failed", "budget_exhausted"), FALSE)
        PROVE  EngineShape' /\ Breaker' /\ \E k : Begins(c, k, scope)
    <2>1. NewRun(c, "failed", "budget_exhausted") \in Run
      BY NewRunType DEF Limitations
    <2>2. QED BY <1>3, <2>1, FinishEffect DEF Begins
  <1>4. ASSUME ~PlanThrows(scope, evidence, maximum), NEW handles \in Plans(evidence, maximum),
               Advance(c, [pc |-> "consenting", handles |-> handles,
                           pending |-> {h.repository : h \in handles},
                           allowed |-> {}, context |-> {}, unique |-> TRUE])
        PROVE  EngineShape' /\ Breaker' /\ \E k : Begins(c, k, scope)
    <2> DEFINE k == [pc |-> "consenting", handles |-> handles,
                     pending |-> {h.repository : h \in handles},
                     allowed |-> {}, context |-> {}, unique |-> TRUE]
    <2>1. handles \subseteq Handle /\ \A h \in handles : h.repository \in scope.repositories
      BY <1>4, PlanIsScoped
    <2>2. k \in InCall /\ Agreed(k)
      BY <2>1 DEF InCall, Agreed, Handle
    <2>3. k.pc = "consenting" /\ k.handles = handles
      OBVIOUS
    <2> HIDE DEF k
    <2>4. Advance(c, k)
      BY <1>4 DEF k
    <2>5. QED BY <2>1, <2>2, <2>3, <2>4, AdvanceEffect DEF Begins
  <1>5. QED BY <1>1, <1>2, <1>3, <1>4 DEF Call

\* consent.authorize: a repository leaves the pending ones by agreeing.
LEMMA ConsentEffect ==
    ASSUME EngineShape, Breaker, NEW c \in Callers, Agreed(call[c]), ConsentAnswers(c)
    PROVE  EngineShape' /\ Breaker' /\ \E k : Onward(c, k)
  <1>1. call[c] \in InCall /\ call[c].pc = "consenting"
    BY RunningCall DEF ConsentAnswers
  <1>2. ASSUME NEW run \in Run, Finish(c, run, FALSE)
        PROVE  EngineShape' /\ Breaker' /\ \E k : Onward(c, k)
    BY <1>2, FinishEffect DEF Onward
  <1>3. \A limitation \in Limitations : RunOf(c, "failed", limitation) \in Run
    BY <1>1, RunOfType
  <1>4. PICK r \in call[c].pending :
           \/ Stop(c, "consent_timeout")
           \/ Stop(c, "consent_failed")
           \/ Finish(c, [RunOf(c, "failed", "consent_denied") EXCEPT !.denied = {r}], FALSE)
           \/ Advance(c, NextConsent(c, r))
           \/ Finish(c, [RunOf(c, "failed", "budget_exhausted") EXCEPT
                            !.allowed = @ \cup {r}], FALSE)
    BY DEF ConsentAnswers
  <1>5. r \in ScopeRepositories
    BY <1>1 DEF InCall
  <1>6. CASE Stop(c, "consent_timeout") \/ Stop(c, "consent_failed")
    BY <1>2, <1>3, <1>6 DEF Stop, Limitations
  <1>7. CASE Finish(c, [RunOf(c, "failed", "consent_denied") EXCEPT !.denied = {r}], FALSE)
    <2>1. [RunOf(c, "failed", "consent_denied") EXCEPT !.denied = {r}] \in Run
      BY <1>3, <1>5 DEF Run, Limitations
    <2>2. QED BY <1>2, <1>7, <2>1
  <1>8. CASE Finish(c, [RunOf(c, "failed", "budget_exhausted") EXCEPT
                           !.allowed = @ \cup {r}], FALSE)
    <2>1. [RunOf(c, "failed", "budget_exhausted") EXCEPT !.allowed = @ \cup {r}] \in Run
      BY <1>3, <1>5 DEF Run, Limitations
    <2>2. QED BY <1>2, <1>8, <2>1
  <1>9. CASE Advance(c, NextConsent(c, r))
    <2> DEFINE k == NextConsent(c, r)
    <2>1. /\ k.handles = call[c].handles /\ k.context = call[c].context
          /\ k.pending = call[c].pending \ {r} /\ k.allowed = call[c].allowed \cup {r}
          /\ k.pc = IF call[c].pending = {r} THEN "retrieving" ELSE "consenting"
      BY <1>1 DEF NextConsent, InCall
    <2>2. k \in InCall
      BY <1>1, <1>5 DEF NextConsent, InCall
    <2> HIDE DEF k
    <2>3. Agreed(k)
      <3>1. k.pc # "consenting" => k.pending = {}
        BY <2>1
      <3>2. \A h \in k.handles : h.repository \in k.pending \cup k.allowed
        BY <2>1 DEF Agreed
      <3>3. QED BY <2>1, <3>1, <3>2 DEF Agreed
    <2>4. Onward(c, k) /\ EngineShape' /\ Breaker'
      BY <1>1, <1>9, <2>1, <2>2, <2>3, AdvanceEffect DEF Onward, k
    <2>5. QED BY <2>4
  <1>10. QED BY <1>4, <1>6, <1>7, <1>8, <1>9

\* retrieve: the provider is asked about retained evidence of both sides, and not
\* while the breaker is open.
LEMMA RetrievalEffect ==
    ASSUME EngineShape, Breaker, NEW c \in Callers, Agreed(call[c]), RetrievalAnswers(c)
    PROVE  EngineShape' /\ Breaker' /\ \E k : Onward(c, k)
  <1>1. call[c] \in InCall /\ call[c].pc = "retrieving"
    BY RunningCall DEF RetrievalAnswers
  <1>2. ASSUME NEW run \in Run, Finish(c, run, FALSE)
        PROVE  EngineShape' /\ Breaker' /\ \E k : Onward(c, k)
    BY <1>2, FinishEffect DEF Onward
  <1>3. \A state \in {"partial", "failed"}, limitation \in Limitations :
            RunOf(c, state, limitation) \in Run
    BY <1>1, RunOfType
  <1>4. CASE \E limitation \in {"retrieval_timeout", "retrieval_failed", "retrieval_invalid"} :
                Stop(c, limitation)
    BY <1>2, <1>3, <1>4 DEF Stop, Limitations
  <1> DEFINE run(m, state, limitation) ==
                 [RunOf(c, state, limitation) EXCEPT !.citations = m.kept, !.unique = m.unique]
             twoSided(m) == \A side \in {"producer", "consumer"} : SideOf(m.kept, side) # {}
  <1>5. ASSUME NEW m \in MaterializedContexts(call[c].handles),
               \/ Finish(c, run(m, "failed", "budget_exhausted"), FALSE)
               \/ Finish(c, run(m, "partial", "two_sided_context_missing"), FALSE)
               \/ Finish(c, run(m, "failed", "circuit_open"), FALSE)
        PROVE  EngineShape' /\ Breaker' /\ \E k : Onward(c, k)
    <2>1. m.kept \subseteq Handle /\ m.unique \in BOOLEAN
      BY <1>1 DEF MaterializedContexts, InCall
    <2>2. \A state \in {"partial", "failed"}, limitation \in Limitations :
              run(m, state, limitation) \in Run
      BY <1>3, <2>1, RunExcept
    <2>3. /\ run(m, "failed", "budget_exhausted") \in Run
          /\ run(m, "partial", "two_sided_context_missing") \in Run
          /\ run(m, "failed", "circuit_open") \in Run
      BY <2>2 DEF Limitations
    <2> HIDE DEF run
    <2>4. QED BY <1>2, <1>5, <2>3
  <1>6. ASSUME NEW m \in MaterializedContexts(call[c].handles), twoSided(m),
               engineClock >= openUntil,
               Advance(c, [call[c] EXCEPT !.pc = "asking", !.context = m.kept,
                                          !.unique = m.unique])
        PROVE  EngineShape' /\ Breaker' /\ \E k : Onward(c, k)
    <2> DEFINE k == [call[c] EXCEPT !.pc = "asking", !.context = m.kept, !.unique = m.unique]
    <2>1. m.kept \subseteq call[c].handles /\ m.unique \in BOOLEAN
      BY DEF MaterializedContexts
    <2>2. /\ k.handles = call[c].handles /\ k.pending = call[c].pending
          /\ k.allowed = call[c].allowed /\ k.context = m.kept /\ k.pc = "asking"
      BY <1>1 DEF InCall
    <2>3. k \in InCall
      BY <1>1, <2>1 DEF InCall
    <2> HIDE DEF k
    <2>4. {h.side : h \in m.kept} = {"producer", "consumer"}
      <3>1. \A h \in m.kept : h.side \in {"producer", "consumer"}
        BY <1>1, <2>1 DEF InCall, Handle
      <3>2. \A side \in {"producer", "consumer"} : \E h \in m.kept : h.side = side
        BY <1>6 DEF SideOf
      <3>3. QED BY <3>1, <3>2
    <2>5. Agreed(k)
      BY <1>1, <2>1, <2>2, <2>4 DEF Agreed
    <2>6. Onward(c, k) /\ EngineShape' /\ Breaker'
      BY <1>1, <1>6, <2>2, <2>3, <2>5, AdvanceEffect DEF Onward, k
    <2>7. QED BY <2>6
  <1>7. QED BY <1>1, <1>4, <1>5, <1>6 DEF RetrievalAnswers

\* provider.reason: every answer ends the call.
LEMMA ProviderEffect ==
    ASSUME EngineShape, Breaker, NEW c \in Callers, ProviderAnswers(c)
    PROVE  EngineShape' /\ Breaker' /\ \E k : Onward(c, k)
  <1>1. call[c] \in InCall /\ call[c].pc = "asking"
    BY RunningCall DEF ProviderAnswers
  <1>2. ASSUME NEW run \in Run, NEW providerFailure \in BOOLEAN, Finish(c, run, providerFailure)
        PROVE  EngineShape' /\ Breaker' /\ \E k : Onward(c, k)
    BY <1>2, FinishEffect DEF Onward
  <1>3. \A state \in {"complete", "partial", "failed"}, limitation \in Limitations :
            RunOf(c, state, limitation) \in Run
    BY <1>1, RunOfType
  <1>4. CASE \E limitation \in {"provider_timeout", "provider_failed", "response_malformed"} :
                Finish(c, RunOf(c, "failed", limitation), TRUE)
    BY <1>2, <1>3, <1>4 DEF Limitations
  <1>5. ASSUME NEW limitation \in {"budget_exhausted", "provider_refused"},
               NEW failure \in BOOLEAN,
               Finish(c, [RunOf(c, "failed", limitation) EXCEPT !.output = TRUE], failure)
        PROVE  EngineShape' /\ Breaker' /\ \E k : Onward(c, k)
    <2>1. RunOf(c, "failed", limitation) \in Run
      BY <1>3 DEF Limitations
    <2>2. [RunOf(c, "failed", limitation) EXCEPT !.output = TRUE] \in Run
      BY <2>1, RunExcept
    <2>3. QED BY <1>2, <1>5, <2>2
  <1>6. ASSUME NEW candidates \in Responses(c),
               NEW state \in {"partial", "complete"}, NEW limitation \in {"citation_invalid", "none"},
               Finish(c, [RunOf(c, state, limitation) EXCEPT !.output = TRUE,
                            !.hypotheses = {x \in candidates : Supported(c, x)}], FALSE)
        PROVE  EngineShape' /\ Breaker' /\ \E k : Onward(c, k)
    <2> DEFINE supported == {x \in candidates : Supported(c, x)}
    <2>1. candidates \subseteq Hypothesis
      <3>1. {{}} \cup {{h} : h \in call[c].handles} \subseteq SUBSET Handle
        BY <1>1 DEF InCall
      <3>2. QED BY <3>1 DEF Responses, Hypothesis
    <2>2. supported \subseteq Hypothesis
      BY <2>1
    <2> HIDE DEF supported
    <2>3. RunOf(c, state, limitation) \in Run
      BY <1>3 DEF Limitations
    <2>4. [RunOf(c, state, limitation) EXCEPT !.output = TRUE, !.hypotheses = supported] \in Run
      BY <2>2, <2>3, RunExcept
    <2>5. QED BY <1>2, <1>6, <2>4 DEF supported
  <1>7. QED
    <2>1. CASE \E candidates \in Responses(c) :
              LET supported == {x \in candidates : Supported(c, x)}
                  invalid == supported # candidates
              IN  Finish(c, [RunOf(c, IF invalid THEN "partial" ELSE "complete",
                                      IF invalid THEN "citation_invalid" ELSE "none")
                             EXCEPT !.output = TRUE, !.hypotheses = supported], FALSE)
      BY <1>6, <2>1
    <2>2. CASE \/ Finish(c, [RunOf(c, "failed", "budget_exhausted") EXCEPT !.output = TRUE], FALSE)
               \/ Finish(c, [RunOf(c, "failed", "provider_refused") EXCEPT !.output = TRUE], TRUE)
      BY <1>5, <2>2
    <2>3. QED BY <1>4, <2>1, <2>2 DEF ProviderAnswers

LEMMA EngineEffect ==
    ASSUME EngineShape, Breaker, NEW c \in Callers,
           call[c] \in InCall => Agreed(call[c]), EngineStep(c)
    PROVE  EngineShape' /\ Breaker' /\ \E k : Onward(c, k)
  <1>1. call[c] \in InCall
    BY RunningCall DEF EngineStep, ConsentAnswers, RetrievalAnswers, ProviderAnswers
  <1>2. QED BY <1>1, ConsentEffect, RetrievalEffect, ProviderEffect DEF EngineStep

-----------------------------------------------------------------------------
(* The inductive invariant. *)

\* An execution past its scope, past the version 1 analysis, and past its coverage.
Resolved(e) ==
    /\ e.input \in Inputs
    /\ e.scope = ResolveScope(e.input.registry, e.input.request, e.answers)

Analysed(e) == e.legacy.state \in {"complete", "partial", "superseded"}

Covered(e) == e.coverage = ComposeCoverage(e.scope, e.input.families, e.selections, e.sources)

Executions ==
    /\ execution = [a \in Callers |-> execution[a]]
    /\ attempts \in [Callers -> 0 .. MaxAttempts]
    /\ \A a \in Callers :
           /\ execution[a].pc \in {"idle", "legacy", "covering", "finishing"}
           /\ execution[a].pc # "idle" => Resolved(execution[a])
           /\ execution[a].pc \in {"covering", "finishing"} => Analysed(execution[a])
           /\ execution[a].pc = "finishing" => Covered(execution[a])

\* The engine is called by an execution that waits for it, about its own scope.
Calls ==
    \A a \in Callers :
        /\ call[a] # NoCall => execution[a].pc = "finishing"
        /\ call[a] \in InCall =>
               /\ Agreed(call[a])
               /\ \A h \in call[a].handles : h.repository \in execution[a].scope.repositories

\* The run a stored result still shows.
Shown(a) == IF runs[a] = None \/ runs[a].state = "deleted" THEN None ELSE runs[a]

\* A stored result is the one its execution computes from the run that it shows.
Stored ==
    /\ resultsV2 = [a \in Callers |-> resultsV2[a]]
    /\ runs = [a \in Callers |-> runs[a]]
    /\ world = [a \in Callers |-> world[a]]
    /\ \A a \in Callers :
           /\ resultsV2[a] = None => runs[a] = None
           /\ resultsV2[a] # None =>
                  /\ Resolved(world[a]) /\ Analysed(world[a]) /\ Covered(world[a])
                  /\ resultsV2[a] = ResultWith(world[a], Shown(a))
           /\ runs[a] # None => runs[a] \in Run /\ RunValid(runs[a])

V2Inv == EngineShape /\ Breaker /\ Executions /\ Calls /\ Stored

LEMMA V2InitInv == V2Init => V2Inv
  <1> SUFFICES ASSUME V2Init PROVE V2Inv
    OBVIOUS
  <1> USE DEF V2Init, EngineInit
  <1>1. EngineShape
    BY EngineAssumption DEF EngineShape, NoStreak
  <1>2. Breaker
    BY EngineAssumption DEF Breaker, NoStreak
  <1>3. Executions
    BY InputsAssumption DEF Executions, IdleExecution
  <1>4. Calls
    BY DEF Calls, NoCall, InCall
  <1>5. Stored
    BY DEF Stored, None
  <1>6. QED BY <1>1, <1>2, <1>3, <1>4, <1>5 DEF V2Inv

\* A step that leaves the store alone leaves what is said of it.
LEMMA StoreStays == Stored /\ UNCHANGED store => Stored'
  BY DEF Stored, store, Shown

\* A call is known by its kind.
LEMMA CallKinds ==
    /\ NoCall \notin InCall /\ NoCall \notin Outcome
    /\ \A k \in Outcome : k \notin InCall
  BY DEF NoCall, InCall, Outcome, Rejected

-----------------------------------------------------------------------------
(* One lemma per action. *)

LEMMA ResolveScopeKeeps ==
    ASSUME V2Inv, NEW a \in Callers, ResolveScopeStep(a)
    PROVE  V2Inv'
  <1>1. EngineShape' /\ Breaker'
    BY DEF V2Inv, ResolveScopeStep, engine, EngineShape, Breaker
  <1>2. Stored'
    BY StoreStays DEF V2Inv, ResolveScopeStep
  <1>3. attempts' \in [Callers -> 0 .. MaxAttempts]
    BY InputsAssumption DEF V2Inv, Executions, ResolveScopeStep
  <1>4. call[a] = NoCall /\ call' = call
    BY DEF V2Inv, Calls, ResolveScopeStep, engine, IdleExecution
  <1>5. CASE UNCHANGED execution
    BY <1>1, <1>2, <1>3, <1>4, <1>5 DEF V2Inv, Executions, Calls
  <1>6. CASE execution' # execution
    <2>0. PICK input \in Inputs : \E answers :
            execution' = [execution EXCEPT ![a] =
                [pc |-> "legacy", input |-> input, answers |-> answers,
                 scope |-> ResolveScope(input.registry, input.request, answers)]]
      BY <1>6 DEF ResolveScopeStep
    <2>1. PICK answers :
            execution' = [execution EXCEPT ![a] =
                [pc |-> "legacy", input |-> input, answers |-> answers,
                 scope |-> ResolveScope(input.registry, input.request, answers)]]
      BY <2>0
    <2> DEFINE e == [pc |-> "legacy", input |-> input, answers |-> answers,
                     scope |-> ResolveScope(input.registry, input.request, answers)]
    <2>2. e.pc = "legacy" /\ Resolved(e)
      BY DEF Resolved
    <2>3. execution' = [execution EXCEPT ![a] = e]
      BY <2>1
    <2> HIDE DEF e
    <2>4. Executions'
      BY <1>3, <2>2, <2>3 DEF V2Inv, Executions
    <2>5. Calls'
      BY <1>4, <2>3, CallKinds DEF V2Inv, Executions, Calls
    <2>6. QED BY <1>1, <1>2, <2>4, <2>5 DEF V2Inv
  <1>7. QED BY <1>5, <1>6

\* An execution without a call ends.
LEMMA ReturnKeeps ==
    ASSUME V2Inv, NEW a \in Callers, Return(a), call[a] = NoCall,
           UNCHANGED <<engine, attempts, store>>
    PROVE  V2Inv'
  <1>1. EngineShape' /\ Breaker'
    BY DEF V2Inv, engine, EngineShape, Breaker
  <1>2. Stored'
    BY StoreStays DEF V2Inv
  <1>3. Executions'
    BY DEF V2Inv, Executions, Return, IdleExecution
  <1>4. Calls'
    BY CallKinds DEF V2Inv, Executions, Calls, Return, engine
  <1>5. QED BY <1>1, <1>2, <1>3, <1>4 DEF V2Inv

LEMMA LegacyKeeps ==
    ASSUME V2Inv, NEW a \in Callers, LegacyAnalysis(a)
    PROVE  V2Inv'
  <1>1. call[a] = NoCall /\ UNCHANGED <<engine, attempts>> /\ execution[a].pc = "legacy"
    BY DEF V2Inv, Calls, LegacyAnalysis
  <1>2. CASE Return(a) /\ UNCHANGED store
    BY <1>1, <1>2, ReturnKeeps
  <1>3. CASE ~(Return(a) /\ UNCHANGED store)
    <2>1. UNCHANGED <<resultsV2, runs, world>>
      BY <1>3 DEF LegacyAnalysis
    <2>2. PICK selections : \E state \in LegacyStates(selections) :
            execution' = [execution EXCEPT ![a] =
                        [pc |-> "covering", input |-> @.input, answers |-> @.answers,
                         scope |-> @.scope, selections |-> selections,
                         legacy |-> [state |-> state, attempt |-> attempts[a]]]]
      BY <1>3 DEF LegacyAnalysis
    <2> PICK state \in LegacyStates(selections) :
            execution' = [execution EXCEPT ![a] =
                        [pc |-> "covering", input |-> @.input, answers |-> @.answers,
                         scope |-> @.scope, selections |-> selections,
                         legacy |-> [state |-> state, attempt |-> attempts[a]]]]
      BY <2>2
    <2> DEFINE e == [pc |-> "covering", input |-> execution[a].input,
                     answers |-> execution[a].answers, scope |-> execution[a].scope,
                     selections |-> selections,
                     legacy |-> [state |-> state, attempt |-> attempts[a]]]
    <2>3. e.pc = "covering" /\ Resolved(e) /\ Analysed(e)
      <3>1. state \in {"complete", "partial", "superseded"}
        BY <2>2 DEF LegacyStates
      <3>2. QED BY <1>1, <3>1 DEF V2Inv, Executions, Resolved, Analysed
    <2>4. execution' = [execution EXCEPT ![a] = e]
      BY <2>2 DEF V2Inv, Executions
    <2> HIDE DEF e
    <2>5. Executions'
      BY <1>1, <2>3, <2>4 DEF V2Inv, Executions
    <2>6. Calls'
      BY <1>1, <2>4, CallKinds DEF V2Inv, Executions, Calls, engine
    <2>7. Stored'
      BY <2>1 DEF V2Inv, Stored, Shown
    <2>8. EngineShape' /\ Breaker'
      BY <1>1 DEF V2Inv, engine, EngineShape, Breaker
    <2>9. QED BY <2>5, <2>6, <2>7, <2>8 DEF V2Inv
  <1>4. QED BY <1>2, <1>3

LEMMA CoverKeeps ==
    ASSUME V2Inv, NEW a \in Callers, Cover(a)
    PROVE  V2Inv'
  <1> DEFINE old == execution[a]
  <1>1. call[a] = NoCall /\ UNCHANGED <<attempts, store>> /\ old.pc = "covering"
    BY DEF V2Inv, Calls, Cover
  <1>2. CASE JoinThrows(old.scope, old.input.evidence, old.selections)
    BY <1>1, <1>2, ReturnKeeps DEF Cover
  <1>3. CASE ~JoinThrows(old.scope, old.input.evidence, old.selections)
    <2>0. PICK exhausted \in BOOLEAN : \E sources :
            execution' = [execution EXCEPT ![a] =
                [pc |-> "finishing", input |-> old.input, answers |-> old.answers,
                 scope |-> old.scope, selections |-> old.selections, legacy |-> old.legacy,
                 sources |-> sources, exhausted |-> exhausted,
                 coverage |-> ComposeCoverage(old.scope, old.input.families,
                                              old.selections, sources)]]
      BY <1>3 DEF Cover
    <2>1. PICK sources :
            execution' = [execution EXCEPT ![a] =
                [pc |-> "finishing", input |-> old.input, answers |-> old.answers,
                 scope |-> old.scope, selections |-> old.selections, legacy |-> old.legacy,
                 sources |-> sources, exhausted |-> exhausted,
                 coverage |-> ComposeCoverage(old.scope, old.input.families,
                                              old.selections, sources)]]
      BY <2>0
    <2> DEFINE e == [pc |-> "finishing", input |-> old.input, answers |-> old.answers,
                     scope |-> old.scope, selections |-> old.selections, legacy |-> old.legacy,
                     sources |-> sources, exhausted |-> exhausted,
                     coverage |-> ComposeCoverage(old.scope, old.input.families,
                                                  old.selections, sources)]
    <2>2. Resolved(old) /\ Analysed(old)
      BY <1>1 DEF V2Inv, Executions
    <2>3. e.pc = "finishing" /\ Resolved(e) /\ Analysed(e) /\ Covered(e) /\ e.scope = old.scope
      BY <2>2 DEF Resolved, Analysed, Covered
    <2>4. execution' = [execution EXCEPT ![a] = e]
      BY <2>1
    <2> HIDE DEF e
    <2>5. Executions'
      BY <1>1, <2>3, <2>4 DEF V2Inv, Executions
    <2>6. Stored'
      BY <1>1, StoreStays DEF V2Inv
    <2>7. old.input.evidence \in Evidence
      BY <2>2, InputsAssumption DEF Resolved, Input
    <2>8. CASE UNCHANGED engine
      <3>1. Calls'
        BY <1>1, <2>4, <2>8, CallKinds DEF V2Inv, Executions, Calls, engine
      <3>2. QED BY <2>5, <2>6, <2>8, <3>1 DEF V2Inv, engine, EngineShape, Breaker
    <2>9. CASE ~UNCHANGED engine
      <3>1. PICK maximum \in Maximums : Call(a, old.scope, old.input.evidence, maximum)
        BY <1>3, <2>9 DEF Cover
      <3>2. maximum \in Nat
        BY EngineAssumption
      <3>3. EngineShape' /\ Breaker' /\ \E k : Begins(a, k, old.scope)
        BY <2>7, <3>1, <3>2, CallEffect DEF V2Inv
      <3>4. PICK k : Begins(a, k, old.scope)
        BY <3>3
      <3>5. /\ call'[a] = k /\ execution'[a] = e
            /\ \A b \in Callers \ {a} : call'[b] = call[b] /\ execution'[b] = execution[b]
        BY <2>4, <3>4 DEF Begins, V2Inv, Executions, EngineShape
      <3>6. Calls'
        BY <2>3, <3>4, <3>5, CallKinds DEF V2Inv, Calls, Begins
      <3>7. QED BY <2>5, <2>6, <3>3, <3>6 DEF V2Inv
    <2>10. QED BY <2>8, <2>9
  <1>4. QED BY <1>2, <1>3

LEMMA ReasonKeeps ==
    ASSUME V2Inv, NEW a \in Callers, Reason(a)
    PROVE  V2Inv'
  <1>1. EngineShape' /\ Breaker' /\ \E k : Onward(a, k)
    BY EngineEffect DEF V2Inv, Calls, Reason
  <1>2. UNCHANGED <<execution, attempts, store>>
    BY DEF Reason
  <1>3. Executions' /\ Stored'
    BY <1>2, StoreStays DEF V2Inv, Executions
  <1>4. PICK k : Onward(a, k)
    BY <1>1
  <1>5. /\ call'[a] = k /\ call[a] \in InCall
        /\ \A b \in Callers \ {a} : call'[b] = call[b]
    <2>1. call[a] \in InCall
      BY RunningCall DEF Reason, V2Inv, EngineStep, ConsentAnswers, RetrievalAnswers,
                         ProviderAnswers
    <2>2. QED BY <1>4, <2>1 DEF V2Inv, EngineShape, Onward
  <1>6. Calls'
    BY <1>2, <1>4, <1>5, CallKinds DEF V2Inv, Calls, Onward
  <1>7. QED BY <1>1, <1>3, <1>6 DEF V2Inv

\* finalizeAnalysisResultV2: results and runs are not the absent row.
LEMMA ResultExists ==
    ASSUME NEW e, NEW run
    PROVE  /\ ResultWith(e, run) # None
           /\ ResultWith(e, run).reasoned = "no" <=> run = None
  <1>1. ResultWith(e, run).state \in {"superseded", "partial", "complete"}
    BY DEF ResultWith, DeterministicState
  <1>2. None.state \notin {"superseded", "partial", "complete"}
    BY DEF None
  <1>3. ResultWith(e, run) # None
    BY <1>1, <1>2
  <1>4. ResultWith(e, run).reasoned = "no" <=> run = None
    BY DEF ResultWith
  <1>5. QED BY <1>3, <1>4

LEMMA RunExists == \A run \in Run : run # None
  BY DEF Run, None

\* persistAnalysisV2: an execution writes the result that it computes from the run
\* that the store shows afterwards.
LEMMA PersistKeeps ==
    ASSUME V2Inv, NEW a \in Callers, execution[a].pc = "finishing",
           NEW run, run = None \/ run \in Run,
           PersistV2(a, ResultWith(execution[a], run), run)
    PROVE  Stored'
  <1> DEFINE result == ResultWith(execution[a], run)
  <1>1. /\ resultsV2[a] \in {None, result}
        /\ run # None => runs[a] \in {None, run}
        /\ resultsV2' = [resultsV2 EXCEPT ![a] = result]
        /\ runs' = [runs EXCEPT ![a] = IF run = None THEN @ ELSE run]
        /\ world' = [world EXCEPT ![a] = execution[a]]
        /\ run # None => run.state # "deleted" /\ RunValid(run)
    BY DEF PersistV2, Immutable, RunMatches
  <1>2. result # None /\ (result.reasoned = "no" <=> run = None)
    BY ResultExists
  <1>3. /\ resultsV2'[a] = result /\ world'[a] = execution[a]
        /\ runs'[a] = IF run = None THEN runs[a] ELSE run
        /\ \A b \in Callers \ {a} : /\ resultsV2'[b] = resultsV2[b] /\ world'[b] = world[b]
                                    /\ runs'[b] = runs[b]
        /\ resultsV2' = [b \in Callers |-> resultsV2'[b]]
        /\ world' = [b \in Callers |-> world'[b]]
        /\ runs' = [b \in Callers |-> runs'[b]]
    BY <1>1 DEF V2Inv, Stored
  <1>4. Resolved(execution[a]) /\ Analysed(execution[a]) /\ Covered(execution[a])
    BY DEF V2Inv, Executions
  <1>5. Shown(a)' = run
    <2>1. CASE run # None
      BY <1>1, <1>3, <2>1 DEF Shown
    <2>2. CASE run = None /\ runs[a] = None
      BY <1>3, <2>2 DEF Shown
    <2>3. CASE run = None /\ runs[a] # None
      <3>1. resultsV2[a] = result
        BY <1>1, <2>3 DEF V2Inv, Stored
      <3>2. result = ResultWith(world[a], Shown(a))
        BY <1>2, <3>1 DEF V2Inv, Stored
      <3>3. Shown(a) = None
        BY <1>2, <2>3, <3>2, ResultExists
      <3>4. QED BY <1>3, <2>3, <3>3 DEF Shown
    <2>4. QED BY <2>1, <2>2, <2>3
  <1>6. runs'[a] # None => runs'[a] \in Run /\ RunValid(runs'[a])
    BY <1>1, <1>3 DEF V2Inv, Stored
  <1>7. \A b \in Callers \ {a} : Shown(b)' = Shown(b)
    BY <1>3 DEF Shown
  <1> HIDE DEF result
  <1>8. resultsV2'[a] = ResultWith(world'[a], Shown(a)')
    BY <1>3, <1>5 DEF result
  <1>9. QED BY <1>2, <1>3, <1>4, <1>6, <1>7, <1>8 DEF V2Inv, Stored

LEMMA ConcludeKeeps ==
    ASSUME V2Inv, NEW a \in Callers, Conclude(a)
    PROVE  V2Inv'
  <1>1. /\ execution[a].pc = "finishing" /\ Return(a) /\ call' = [call EXCEPT ![a] = NoCall]
        /\ UNCHANGED <<engineClock, failures, openUntil, streak, attempts>>
    BY DEF Conclude
  <1>2. EngineShape' /\ Breaker'
    BY <1>1 DEF V2Inv, EngineShape, Breaker
  <1>3. Executions'
    BY <1>1 DEF V2Inv, Executions, Return, IdleExecution
  <1>4. Calls'
    BY <1>1, CallKinds DEF V2Inv, EngineShape, Executions, Calls, Return
  <1>5. AcceptedRun(a) = None \/ AcceptedRun(a) \in Run
    <2>1. call[a].pc = "done" => call[a].run \in Run
      BY DEF V2Inv, EngineShape, Outcome, NoCall, Rejected, InCall
    <2>2. QED BY <2>1 DEF AcceptedRun
  <1>6. Stored'
    <2>1. CASE UNCHANGED store
      BY <2>1, StoreStays DEF V2Inv
    <2>2. CASE PersistV2(a, ResultWith(execution[a], AcceptedRun(a)), AcceptedRun(a))
      BY <1>1, <1>5, <2>2, PersistKeeps
    <2>3. QED BY <2>1, <2>2 DEF Conclude
  <1>7. QED BY <1>2, <1>3, <1>4, <1>6 DEF V2Inv

LEMMA CrashKeeps ==
    ASSUME V2Inv, Crash
    PROVE  V2Inv'
  <1>1. EngineShape' /\ Breaker'
    BY EngineAssumption DEF V2Inv, Crash, EngineShape, Breaker, NoStreak
  <1>2. Executions' /\ Calls'
    BY CallKinds DEF V2Inv, Crash, Executions, Calls, IdleExecution
  <1>3. Stored'
    BY StoreStays DEF V2Inv, Crash
  <1>4. QED BY <1>1, <1>2, <1>3 DEF V2Inv

LEMMA TickKeeps ==
    ASSUME V2Inv, Tick, UNCHANGED <<execution, attempts, store>>
    PROVE  V2Inv'
  <1>1. EngineShape' /\ Breaker'
    BY EngineAssumption DEF V2Inv, Tick, EngineShape, Breaker
  <1>2. Executions' /\ Calls'
    BY DEF V2Inv, Tick, Executions, Calls
  <1>3. Stored'
    BY StoreStays DEF V2Inv
  <1>4. QED BY <1>1, <1>2, <1>3 DEF V2Inv

\* removeReasoningFromAnalysisResultV2 computes what execute stores without reasoning.
LEMMA UnreasonedIsDeterministic ==
    ASSUME NEW e, NEW run
    PROVE  Unreasoned(ResultWith(e, run)) = ResultWith(e, None)
  <1> DEFINE state == DeterministicState(e.legacy, e.scope, e.coverage, e.exhausted)
             findings == FindingsOf(e.input.evidence, e.selections)
             result(s, reasoned, hypotheses) ==
                 [state |-> s, legacy |-> e.legacy, scope |-> e.scope, coverage |-> e.coverage,
                  exhausted |-> e.exhausted, reasoned |-> reasoned, findings |-> findings,
                  hypotheses |-> hypotheses]
  <1>1. ResultWith(e, None) = result(state, "no", {})
    BY DEF ResultWith
  <1>2. PICK s, reasoned, hypotheses : ResultWith(e, run) = result(s, reasoned, hypotheses)
    BY Zenon DEF ResultWith
  <1>3. Unreasoned(result(s, reasoned, hypotheses)) = result(state, "no", {})
    <2> DEFINE r == result(s, reasoned, hypotheses)
    <2>1. /\ r.legacy = e.legacy /\ r.scope = e.scope /\ r.coverage = e.coverage
          /\ r.exhausted = e.exhausted
      OBVIOUS
    <2>2. DeterministicState(r.legacy, r.scope, r.coverage, r.exhausted) = state
      BY <2>1
    <2> HIDE DEF state, findings
    <2>3. [r EXCEPT !.reasoned = "no", !.hypotheses = {}, !.state = state] = result(state, "no", {})
      <3>1. [r EXCEPT !.reasoned = "no"] = result(s, "no", hypotheses)
        OBVIOUS
      <3>2. [result(s, "no", hypotheses) EXCEPT !.hypotheses = {}] = result(s, "no", {})
        OBVIOUS
      <3>3. [result(s, "no", {}) EXCEPT !.state = state] = result(state, "no", {})
        OBVIOUS
      <3> HIDE DEF result
      <3>4. QED BY <3>1, <3>2, <3>3, Zenon
    <2> HIDE DEF r
    <2>4. QED BY <2>2, <2>3 DEF Unreasoned, r
  <1> HIDE DEF result
  <1>4. QED BY <1>1, <1>2, <1>3

\* purgeReasoningRunV2 leaves a run that finalizeReasoningRunV2 accepts.
LEMMA ScrubbedIsValid ==
    ASSUME NEW run \in Run, RunValid(run)
    PROVE  /\ Scrubbed(run) \in Run /\ RunValid(Scrubbed(run))
           /\ Scrubbed(run).state = "deleted"
           /\ Scrubbed(run).citations = {} /\ Scrubbed(run).hypotheses = {}
  <1>1. Scrubbed(run) \in Run
    BY DEF Scrubbed, Run, Limitations
  <1>2. /\ Scrubbed(run).state = "deleted" /\ Scrubbed(run).citations = {}
        /\ Scrubbed(run).hypotheses = {} /\ Scrubbed(run).output = FALSE
        /\ Scrubbed(run).unique = run.unique
    BY DEF Scrubbed, Run
  <1>3. run.unique
    BY DEF RunValid
  <1>4. RunValid(Scrubbed(run))
    BY <1>2, <1>3 DEF RunValid, Cited
  <1>5. QED BY <1>1, <1>2, <1>4

LEMMA PurgeKeeps ==
    ASSUME V2Inv, NEW a \in Callers, PurgeReasoningRun(a)
    PROVE  V2Inv'
  <1>1. /\ runs[a] # None /\ runs[a].state # "deleted" /\ resultsV2[a] # None
        /\ runs' = [runs EXCEPT ![a] = Scrubbed(@)]
        /\ resultsV2' = [resultsV2 EXCEPT ![a] = Unreasoned(@)]
        /\ UNCHANGED <<engine, execution, attempts, legacyResults, world>>
    BY DEF PurgeReasoningRun
  <1>2. EngineShape' /\ Breaker' /\ Executions' /\ Calls'
    BY <1>1 DEF V2Inv, engine, EngineShape, Breaker, Executions, Calls
  <1>3. /\ runs'[a] = Scrubbed(runs[a]) /\ resultsV2'[a] = Unreasoned(resultsV2[a])
        /\ \A b \in Callers \ {a} : resultsV2'[b] = resultsV2[b] /\ runs'[b] = runs[b]
        /\ resultsV2' = [b \in Callers |-> resultsV2'[b]]
        /\ runs' = [b \in Callers |-> runs'[b]]
    BY <1>1 DEF V2Inv, Stored
  <1>4. runs[a] \in Run /\ RunValid(runs[a]) /\ resultsV2[a] = ResultWith(world[a], Shown(a))
    BY <1>1 DEF V2Inv, Stored
  <1>5. runs'[a] \in Run /\ RunValid(runs'[a]) /\ runs'[a].state = "deleted"
    BY <1>3, <1>4, ScrubbedIsValid
  <1>6. Shown(a)' = None
    BY <1>5 DEF Shown
  <1>7. resultsV2'[a] = ResultWith(world[a], None)
    BY <1>3, <1>4, UnreasonedIsDeterministic
  <1>8. resultsV2'[a] = ResultWith(world'[a], Shown(a)') /\ resultsV2'[a] # None
    BY <1>1, <1>6, <1>7, ResultExists
  <1>9. \A b \in Callers \ {a} : Shown(b)' = Shown(b)
    BY <1>3 DEF Shown
  <1>10. Stored'
    BY <1>1, <1>3, <1>5, <1>8, <1>9 DEF V2Inv, Stored
  <1>11. QED BY <1>2, <1>10 DEF V2Inv

LEMMA V2StutterKeeps == V2Inv /\ UNCHANGED varsV2 => V2Inv'
  BY StoreStays DEF V2Inv, varsV2, engine, EngineShape, Breaker, Executions, Calls

LEMMA V2Inductive == V2Inv /\ [V2Next]_varsV2 => V2Inv'
  BY TickKeeps, CrashKeeps, ResolveScopeKeeps, LegacyKeeps, CoverKeeps, ReasonKeeps,
     ConcludeKeeps, PurgeKeeps, V2StutterKeeps DEF V2Next

-----------------------------------------------------------------------------
(* Theorems. *)

LEMMA V2InvType == V2Inv => V2TypeOK
  <1> SUFFICES ASSUME V2Inv PROVE V2TypeOK
    OBVIOUS
  <1>1. EngineTypeOK
    BY DEF V2Inv, EngineShape, EngineTypeOK, Outcome
  <1>2. ASSUME NEW a \in Callers, resultsV2[a] # None
        PROVE  resultsV2[a].scope \in Scope
    <2>1. Resolved(world[a]) /\ resultsV2[a] = ResultWith(world[a], Shown(a))
      BY <1>2 DEF V2Inv, Stored
    <2>2. resultsV2[a].scope = world[a].scope
      BY <2>1 DEF ResultWith
    <2>3. world[a].scope \in Scope
      BY <2>1, ScopeIsConsented DEF Resolved
    <2>4. QED BY <2>2, <2>3
  <1>3. QED BY <1>1, <1>2 DEF V2Inv, Executions, Stored, V2TypeOK

\* The engine's calls and breaker, the executions and the rows of the store have
\* their types in every reachable state of AnalyzePullRequestV2.
THEOREM V2TypeCorrect == V2Spec => []V2TypeOK
  <1>1. V2Spec => []V2Inv
    BY V2InitInv, V2Inductive, PTL DEF V2Spec
  <1>2. QED BY <1>1, V2InvType, PTL

\* What a deterministic state of complete says of the execution behind it.
LEMMA CompleteMeansWhole ==
    ASSUME NEW w, Resolved(w), Analysed(w), Covered(w),
           DeterministicState(w.legacy, w.scope, w.coverage, w.exhausted) = "complete"
    PROVE  Whole(w)
  <1> DEFINE registry == w.input.registry
             considered == Considered(registry, w.input.request)
             authorized == {r \in considered : GapOf(registry, w.answers, r) = "none"}
  <1>1. /\ w.legacy.state \notin {"superseded", "partial"} /\ w.scope.gaps = {}
        /\ CoverageState(w.scope, w.coverage) # "partial" /\ ~w.exhausted
    BY DEF DeterministicState
  <1>2. w.legacy.state = "complete"
    BY <1>1 DEF Analysed
  <1>3. w.scope.repositories = authorized /\ considered \ authorized = {}
    <2>1. /\ w.scope.repositories = authorized
          /\ w.scope.gaps = {[repository |-> r, reason |-> GapOf(registry, w.answers, r)] :
                             r \in considered \ authorized}
      BY DEF Resolved, ResolveScope
    <2> HIDE DEF considered, authorized
    <2>2. considered \ authorized = {}
      BY <1>1, <2>1
    <2>3. QED BY <2>1, <2>2
  <1>4. ASSUME NEW r \in Requested(registry, w.input.request) \cup {ScopeProducer}
        PROVE  /\ r \in w.scope.repositories /\ r \in registry.selected
               /\ w.answers[r] = "allowed" /\ ~ConsentDenied(registry, r)
    <2>1. r \in authorized
      BY <1>3 DEF Considered
    <2>2. QED BY <1>3, <2>1, AuthorizedIsConsented
  <1>5. ASSUME NEW r \in Requested(registry, w.input.request) \cup {ScopeProducer},
               NEW g \in registry.consents,
               g.repository = r, g.action = "evidence.consume", g.decision = "deny"
        PROVE  g.grantee = "other"
    <2>1. g.grantee \in {Subject, "*", "other"}
      BY InputsAssumption DEF Resolved, Input, Registry, Grant
    <2>2. QED BY <1>4, <1>5, <2>1 DEF ConsentDenied
  <1>6. ASSUME NEW r \in w.scope.repositories
        PROVE  /\ w.coverage[r] = RepositoryCoverage(w.selections[r], w.input.families,
                                                     w.sources[r])
               /\ w.coverage[r].selection.state = "current"
               /\ \A f \in DOMAIN w.coverage[r].families :
                      w.coverage[r].families[f].state = "complete"
    <2>1. /\ DOMAIN w.coverage = w.scope.repositories
          /\ w.coverage[r] = RepositoryCoverage(w.selections[r], w.input.families, w.sources[r])
      BY DEF Covered, ComposeCoverage
    <2>2. QED BY <1>1, <2>1 DEF CoverageState
  <1>7. ASSUME NEW r \in w.scope.repositories
        PROVE  /\ w.selections[r].state = "current"
               /\ \A f \in w.input.families :
                      /\ w.sources[r].generation = w.selections[r].generation
                      /\ w.sources[r].families[f].state = "complete"
                      /\ w.sources[r].families[f].failed = 0
                      /\ ~w.sources[r].families[f].limitations
    <2> DEFINE usable == /\ w.input.families # {} /\ HasGeneration(w.selections[r])
                         /\ MatchesQuery(w.selections[r], w.input.families, w.sources[r])
               covered == w.coverage[r]
    <2>1. /\ covered.selection = w.selections[r]
          /\ covered.families = IF usable THEN w.sources[r].families
                                ELSE [f \in w.input.families |-> NotAnalysed]
      <3>1. covered = RepositoryCoverage(w.selections[r], w.input.families, w.sources[r])
        BY <1>6
      <3> HIDE DEF covered
      <3>2. QED BY <3>1 DEF RepositoryCoverage
    <2>2. w.selections[r].state = "current"
      BY <1>6, <2>1
    <2>3. ASSUME NEW f \in w.input.families
          PROVE  usable
      <3>1. NotAnalysed.state # "complete"
        BY DEF NotAnalysed
      <3>2. QED BY <1>6, <2>1, <2>3, <3>1
    <2>4. ASSUME NEW f \in w.input.families
          PROVE  /\ w.sources[r].generation = w.selections[r].generation
                 /\ w.sources[r].families[f].state = "complete"
                 /\ WellFormed(w.sources[r].families[f])
      BY <1>6, <2>1, <2>3, <2>4 DEF MatchesQuery
    <2>5. QED BY <2>2, <2>4 DEF WellFormed
  <1>8. QED BY <1>1, <1>2, <1>4, <1>5, <1>7 DEF Whole

LEMMA V2InvWhole == V2Inv => CompleteIsWhole
  <1> SUFFICES ASSUME V2Inv, NEW a \in Callers, resultsV2[a] # None,
                      resultsV2[a].state = "complete"
               PROVE  Whole(world[a])
    BY DEF CompleteIsWhole
  <1> DEFINE w == world[a]
  <1>1. /\ Resolved(w) /\ Analysed(w) /\ Covered(w)
        /\ resultsV2[a] = ResultWith(w, Shown(a))
    BY DEF V2Inv, Stored
  <1>2. DeterministicState(w.legacy, w.scope, w.coverage, w.exhausted) = "complete"
    BY <1>1 DEF ResultWith
  <1>3. QED BY <1>1, <1>2, CompleteMeansWhole

\* execute and finalizeAnalysisResultV2, for any registry, request, evidence and
\* answers of the ports: a stored result that calls itself complete read every
\* repository it was asked about, with consent and authorization, at a current
\* generation and with every enabled family complete.
THEOREM CompleteResultsAreWhole == V2Spec => []CompleteIsWhole
  <1>1. V2Spec => []V2Inv
    BY V2InitInv, V2Inductive, PTL DEF V2Spec
  <1>2. QED BY <1>1, V2InvWhole, PTL

LEMMA V2InvConsented == V2Inv => ConsentedEvidenceOnly
  <1> SUFFICES ASSUME V2Inv, NEW a \in Callers, call[a].pc = "asking"
               PROVE  /\ {h.side : h \in call[a].context} = {"producer", "consumer"}
                      /\ \A h \in call[a].context :
                             /\ h.repository \in call[a].allowed
                             /\ h.repository \in execution[a].scope.repositories
                             /\ ~ConsentDenied(execution[a].input.registry, h.repository)
    BY DEF ConsentedEvidenceOnly
  <1>1. call[a] \in InCall /\ call[a] # NoCall
    BY DEF V2Inv, EngineShape, NoCall, Rejected, Outcome
  <1>2. /\ Agreed(call[a]) /\ execution[a].pc = "finishing"
        /\ \A h \in call[a].handles : h.repository \in execution[a].scope.repositories
    BY <1>1 DEF V2Inv, Calls
  <1>3. Resolved(execution[a])
    BY <1>2 DEF V2Inv, Executions
  <1>4. \A r \in execution[a].scope.repositories :
            ~ConsentDenied(execution[a].input.registry, r)
    BY <1>3, ScopeIsConsented DEF Resolved
  <1>5. QED BY <1>2, <1>4 DEF Agreed

\* ReasoningEngineV1 and ResolveAnalysisScope, for any number of interleaved
\* executions and whatever retrieval returns: the provider is asked about evidence
\* of both sides, all of it of repositories in the scope that agreed.
THEOREM ProviderSeesConsentedEvidence == V2Spec => []ConsentedEvidenceOnly
  <1>1. V2Spec => []V2Inv
    BY V2InitInv, V2Inductive, PTL DEF V2Spec
  <1>2. QED BY <1>1, V2InvConsented, PTL

LEMMA V2InvPurged == V2Inv => PurgedIsUnreasoned
  <1> SUFFICES ASSUME V2Inv, NEW a \in Callers
               PROVE  /\ resultsV2[a] # None =>
                             (resultsV2[a].reasoned # "no" <=>
                                  runs[a] # None /\ runs[a].state # "deleted")
                      /\ runs[a] # None =>
                             IF runs[a].state = "deleted"
                             THEN /\ resultsV2[a] = ResultWith(world[a], None)
                                  /\ runs[a].citations = {} /\ runs[a].hypotheses = {}
                             ELSE \A h \in resultsV2[a].hypotheses :
                                      /\ h.producer \subseteq runs[a].citations
                                      /\ h.consumer \subseteq runs[a].citations
                                      /\ \A x \in h.producer : x.side = "producer"
                                      /\ \A x \in h.consumer : x.side = "consumer"
    BY DEF PurgedIsUnreasoned
  <1>1. resultsV2[a] # None => resultsV2[a] = ResultWith(world[a], Shown(a))
    BY DEF V2Inv, Stored
  <1>2. runs[a] # None => resultsV2[a] # None /\ RunValid(runs[a])
    BY DEF V2Inv, Stored
  <1>3. resultsV2[a] # None =>
            (resultsV2[a].reasoned # "no" <=> runs[a] # None /\ runs[a].state # "deleted")
    BY <1>1, ResultExists DEF Shown
  <1>4. ASSUME runs[a] # None, runs[a].state = "deleted"
        PROVE  /\ resultsV2[a] = ResultWith(world[a], None)
               /\ runs[a].citations = {} /\ runs[a].hypotheses = {}
    BY <1>1, <1>2, <1>4 DEF Shown, RunValid
  <1>5. ASSUME runs[a] # None, runs[a].state # "deleted", NEW h \in resultsV2[a].hypotheses
        PROVE  /\ h.producer \subseteq SideOf(runs[a].citations, "producer")
               /\ h.consumer \subseteq SideOf(runs[a].citations, "consumer")
    <2>1. resultsV2[a].hypotheses = runs[a].hypotheses
      BY <1>1, <1>2, <1>5 DEF Shown, ResultWith
    <2>2. QED BY <1>2, <1>5, <2>1 DEF RunValid, Cited
  <1>6. QED BY <1>3, <1>4, <1>5 DEF SideOf

\* persistAnalysisV2 and purgeReasoningRunV2, in every order of reruns, crashes and
\* purges: a result shows reasoning exactly while its run is active and cites only
\* retained evidence, and after a purge it is the result without reasoning.
THEOREM PurgedResultsAreUnreasoned == V2Spec => []PurgedIsUnreasoned
  <1>1. V2Spec => []V2Inv
    BY V2InitInv, V2Inductive, PTL DEF V2Spec
  <1>2. QED BY <1>1, V2InvPurged, PTL

\* A call begins to ask the provider only in a step of the engine, with the breaker
\* closed.
LEMMA AskedWhenClosed ==
    ASSUME V2Inv, [V2Next]_varsV2, NEW a \in Callers,
           call[a].pc # "asking", call'[a].pc = "asking"
    PROVE  engineClock >= openUntil
  <1>1. \A b \in Callers : call[b] \in {NoCall} \cup Outcome \cup InCall
    BY DEF V2Inv, EngineShape
  <1>2. ASSUME NEW c \in Callers, Reason(c)
        PROVE  engineClock >= openUntil
    <2>1. PICK k : Onward(c, k)
      BY <1>2, EngineEffect DEF V2Inv, Calls, Reason
    <2>2. call'[a] # call[a]
      OBVIOUS
    <2>3. a = c /\ call'[a] = k
      BY <2>1, <2>2 DEF Onward, V2Inv, EngineShape
    <2>4. QED BY <2>1, <2>3 DEF Onward, Outcome, Rejected
  <1>3. ASSUME NEW c \in Callers, Cover(c)
        PROVE  FALSE
    <2>1. CASE UNCHANGED engine
      BY <2>1 DEF engine
    <2>2. CASE ~UNCHANGED engine
      <3>1. PICK maximum \in Maximums :
                Call(c, execution[c].scope, execution[c].input.evidence, maximum)
        BY <1>3, <2>2 DEF Cover
      <3>2. execution[c].input.evidence \in Evidence /\ maximum \in Nat
        BY <1>3, InputsAssumption, EngineAssumption DEF Cover, V2Inv, Executions, Resolved, Input
      <3>3. PICK k : Begins(c, k, execution[c].scope)
        BY <3>1, <3>2, CallEffect DEF V2Inv
      <3>4. a = c /\ call'[a] = k
        BY <3>3 DEF Begins, V2Inv, EngineShape
      <3>5. QED BY <3>3, <3>4 DEF Begins, Outcome, Rejected
    <2>3. QED BY <2>1, <2>2
  <1>4. ASSUME \/ Crash \/ Tick \/ UNCHANGED varsV2
               \/ \E c \in Callers : \/ ResolveScopeStep(c) \/ LegacyAnalysis(c)
                                     \/ Conclude(c) \/ PurgeReasoningRun(c)
        PROVE  FALSE
    <2>1. call'[a] = call[a] \/ call'[a] = NoCall
      BY <1>4 DEF Crash, Tick, varsV2, engine, ResolveScopeStep, LegacyAnalysis, Conclude,
                  PurgeReasoningRun, V2Inv, EngineShape
    <2>2. QED BY <2>1 DEF NoCall
  <1>5. QED BY <1>2, <1>3, <1>4 DEF V2Next

\* ReasoningEngineV1.finish, for any number of callers and any threshold: after that
\* many failures in a row nobody asks the provider before the cooldown has passed.
THEOREM OpenBreakersHold == V2Spec => OpenBreakerHolds
  <1>1. V2Spec => []V2Inv
    BY V2InitInv, V2Inductive, PTL DEF V2Spec
  <1> DEFINE Held == \A a \in Callers :
                 call[a].pc # "asking" /\ call'[a].pc = "asking" /\ streak.count >= Threshold
                 => engineClock >= streak.since + Cooldown
  <1>2. V2Inv /\ [V2Next]_varsV2 => Held
    BY AskedWhenClosed DEF V2Inv, Breaker
  <1>3. V2Inv /\ [V2Next]_varsV2 => [Held]_varsV2
    BY <1>2
  <1> HIDE DEF Held
  <1>4. V2Spec => [][Held]_varsV2
    BY <1>1, <1>3, PTL DEF V2Spec
  <1>5. QED BY <1>4 DEF OpenBreakerHolds, Held
=============================================================================
