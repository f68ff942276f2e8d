----------------------------- MODULE Promotion ------------------------------
(***************************************************************************)
(* Impact cases, their labels and the metrics of a frozen corpus:          *)
(* corpus.ts and evaluateMetricSet.  A corpus is a set of cases.  Rates    *)
(* are kept as counts and compared by cross-multiplication, so nothing is  *)
(* rounded.                                                                *)
(*                                                                         *)
(* Then from labelled cases to a check: a corpus is frozen, imported and   *)
(* evaluated, a stratum is promoted on an evidence file, and planGitHubCheck*)
(* shows the findings of the strata that are promoted as they run now.     *)
(* Nothing compares the file with the stored corpora and reports.          *)
(* SqliteStore keeps corpora, reports and promotion records; the commands  *)
(* that write them are processes, which read the clock and the records     *)
(* before they append.                                                     *)
(***************************************************************************)
EXTENDS Integers, FiniteSets, FiniteSetsExt, Sequences

CONSTANTS
    Drafts,            \* the eligible population: see CaseDraft
    NoFindingWeight    \* 1 / noFindingProbability

\* An ImpactCaseDraft; the identifiers, versions and measurements are left out.
CaseDraft ==
    [id : Nat, pr : Nat, subset : {"historical", "executable_replay", "mutation", "forward_shadow"},
     stratum : STRING, output : {"candidate", "abstained", "no_candidate", "not_analysed"},
     impact : {"breaking", "behavior_risk", "compatible", "unknown"},
     action : {"coordinate", "review", "none"},
     selected : BOOLEAN, suppressed : BOOLEAN, required : BOOLEAN, latency : Nat]

ASSUME DraftsAssumption == Drafts \subseteq CaseDraft /\ NoFindingWeight \in Nat \ {0}

\* The labels of one reviewer, or those of a case.
Label ==
    [edge : {"confirmed", "absent", "indeterminate"},
     action : {"coordinate", "already_coordinated", "accepted_risk", "dead_or_test_only",
               "no_action", "indeterminate"}]
Unlabelled == [edge |-> "none", action |-> "none"]

-----------------------------------------------------------------------------
(* Sampling and labelling. *)

IsFinding(case) == case.output \in {"candidate", "abstained"}

\* sampleImpactPopulation: every finding, and the no-findings that are drawn.
Sampled(drawn) == {d \in Drafts : IsFinding(d) \/ d.pr \in drawn}

Weight(case) == IF IsFinding(case) THEN 1 ELSE NoFindingWeight

\* adjudicateLabels: two reviewers, one of them at least not an author of the
\* detector, and a third who decides where they disagree.
PanelValid(panel) ==
    /\ panel.first.reviewer # panel.second.reviewer
    /\ ~panel.first.conflict \/ ~panel.second.conflict
    /\ panel.third.reviewer # "none" => ~panel.third.conflict
    /\ panel.first.labels # panel.second.labels =>
          panel.third.reviewer \notin {"none", panel.first.reviewer, panel.second.reviewer}

Adjudicated(panel) ==
    IF panel.first.labels = panel.second.labels THEN panel.first.labels ELSE panel.third.labels

-----------------------------------------------------------------------------
(* evaluateMetricSet over a set of labelled cases. *)

Delivered(cases) == {c \in cases : c.selected /\ c.output = "candidate" /\ ~c.suppressed}

Actionable(case) == case.labels.action \in {"coordinate", "already_coordinated", "accepted_risk"}

\* proportionMetric: an observation counts unless its label is indeterminate, so
\* a case without a label counts, as a failure.
Proportion(observed, axis, successes) ==
    LET complete == {c \in observed : c.labels[axis] # "indeterminate"}
    IN  [successes |-> Cardinality(successes \cap complete), total |-> Cardinality(complete),
         indeterminate |-> Cardinality(observed \ complete)]

WeightOf(cases) == MapThenSumSet(Weight, cases)

\* Cases of one pull request are one observation; it weighs as its heaviest case.
PullRequests(cases) == {{c \in cases : c.pr = pr} : pr \in {c.pr : c \in cases}}

GroupWeight(group) == Max({Weight(c) : c \in group})

GroupLatency(group) == Max({c.latency : c \in group})

\* The weight of the pull requests among them.
PopulationOf(groups) == MapThenSumSet(GroupWeight, groups)

\* quantile: the smallest latency that covers the share q/100 of the groups.
Latency(cases, q) ==
    LET groups == PullRequests(cases)
        covered(l) == Cardinality({g \in groups : GroupLatency(g) <= l})
    IN  IF groups = {} THEN 0
        ELSE Min({l \in {GroupLatency(g) : g \in groups} : 100 * covered(l) >= q * Cardinality(groups)})

MetricSet(cases) ==
    LET delivered == Delivered(cases)
        coordinated == {c \in delivered : c.action = "coordinate"}
        silent == {c \in cases : ~IsFinding(c)}
        edges == {c \in cases : c.labels.edge \in {"confirmed", "indeterminate"}}
        alerted == {g \in PullRequests(cases) : Delivered(g) # {}}
    IN  [sampled |-> Cardinality(cases),
         labelled |-> Cardinality({c \in cases : c.labels # Unlabelled}),
         edge |-> Proportion(delivered, "edge", {c \in delivered : c.labels.edge = "confirmed"}),
         actionable |-> Proportion(coordinated, "action", {c \in coordinated : Actionable(c)}),
         recall |-> Proportion(edges, "edge", {c \in edges : IsFinding(c)}),
         omission |-> Proportion(silent, "action",
                          {c \in silent : c.labels # Unlabelled /\ ~Actionable(c)}),
         alertedWeight |-> PopulationOf(alerted),
         population |-> PopulationOf(PullRequests(cases)),
         selectedWeight |-> WeightOf(delivered),
         p95 |-> Latency(cases, 95)]

\* evaluateCorpus refuses a corpus with a required case that has no label; a
\* report has the real-world cases, and those of each stratum.
Evaluable(cases) == \A c \in cases : c.required => c.labels # Unlabelled

RealWorld(cases) == {c \in cases : c.subset # "mutation"}

Report(cases) ==
    [realWorld |-> MetricSet(RealWorld(cases)),
     mutation |-> MetricSet(cases \ RealWorld(cases)),
     byStratum |-> [s \in {c.stratum : c \in RealWorld(cases)} |->
                       MetricSet({c \in RealWorld(cases) : c.stratum = s})]]

-----------------------------------------------------------------------------
(* Promotion. *)

CONSTANTS
    Panels,            \* what a labelling panel may submit for a case
    Requests,          \* what a check is planned for: see Request
    Strata,
    Versions,          \* extractor, identity and join versions of a stratum
    Deciders,          \* processes that run `promotion decide`
    Gate,              \* the promotion gate: see Gates
    Defects,           \* the counts of defects an evidence file may report
    ForeignEvidence,   \* evidence files that no stored report stands behind
    MaxCorpora,        \* bound on corpora
    MaxDecisions,      \* bound on promotion records
    MaxClock           \* bound on the clock

Gates ==
    [labels : Nat, audits : Nat, alerted : Nat, p95 : Nat,
     precision : [num : Nat, den : Nat \ {0}],
     confidentiality : Nat, removal : Nat, everyRemedy : BOOLEAN]

\* confidentialityDefects, removalCoverageDefects and deliveriesWithoutRemedy.
DefectCounts == [confidentiality : Nat, removal : Nat, withoutRemedy : Nat]

Request ==
    [inScope : BOOLEAN, currentHead : BOOLEAN, authorized : BOOLEAN, killSwitch : BOOLEAN,
     advisory : BOOLEAN, incomplete : BOOLEAN]

ASSUME PromotionAssumption ==
    /\ Gate \in Gates /\ Requests \subseteq Request /\ Defects \subseteq DefectCounts
    /\ MaxCorpora \in Nat /\ MaxDecisions \in Nat /\ MaxClock \in Nat

VARIABLES
    time,
    labels,            \* the labels of each case so far
    corpora,           \* corpus_manifests with their cases, by revision
    reports,           \* evaluation_reports, by corpus revision
    running,           \* the versions each stratum runs with now
    records,           \* promotion_records, in the order listPromotions gives them
    decider            \* where each process is

promotionVars == <<time, labels, corpora, reports, running, records, decider>>

Undecided == [pc |-> "idle"]

-----------------------------------------------------------------------------
(* Labelling, freezing and evaluating. *)

Adjudicate(d, panel) ==
    /\ labels[d.id] = Unlabelled
    /\ PanelValid(panel)
    /\ labels' = [labels EXCEPT ![d.id] = Adjudicated(panel)]
    /\ UNCHANGED <<time, corpora, reports, running, records, decider>>

Case(d) ==
    [id |-> d.id, pr |-> d.pr, subset |-> d.subset, stratum |-> d.stratum, output |-> d.output,
     impact |-> d.impact, action |-> d.action, selected |-> d.selected, suppressed |-> d.suppressed,
     required |-> d.required, latency |-> d.latency, labels |-> labels[d.id]]

\* createCorpusManifest over the sample.
Manifest(drawn) == {Case(d) : d \in Sampled(drawn)}

\* `corpus import`: putCorpus of a revision, which hashes the cases and so never
\* changes; one that is stored is left alone.
PutCorpus(drawn) ==
    /\ Len(corpora) < MaxCorpora
    /\ \A revision \in DOMAIN corpora : corpora[revision] # Manifest(drawn)
    /\ corpora' = Append(corpora, Manifest(drawn))
    /\ UNCHANGED <<time, labels, reports, running, records, decider>>

\* `eval`: getCorpus, evaluateCorpus, putEvaluationReport.
Evaluate(revision) ==
    /\ revision \notin DOMAIN reports /\ Evaluable(corpora[revision])
    /\ reports' = [r \in DOMAIN reports \cup {revision} |->
                       IF r = revision THEN Report(corpora[r]) ELSE reports[r]]
    /\ UNCHANGED <<time, labels, corpora, running, records, decider>>

-----------------------------------------------------------------------------
(* decidePromotion. *)

\* Wilson's one-sided 95% lower bound of s in n is at least p exactly when s/n
\* is, and n (s/n - p)^2 >= z^2 p (1 - p); z^2 is 2.7055.
WilsonReaches(metric, p) ==
    LET s == metric.successes
        n == metric.total
        surplus == s * p.den - n * p.num
    IN  surplus >= 0 /\ 10000 * surplus * surplus >= 27055 * n * p.num * (p.den - p.num)

\* gateFailures, of an evidence file.
GateFailures(evidence) ==
    LET metrics == evidence.metrics
        defects == evidence.defects
    IN  {failure \in {"labels", "actionable", "edge", "audits", "confidentiality", "removal",
                      "alerted", "latency", "remedy"} :
            \/ failure = "labels" /\ metrics.actionable.total < Gate.labels
            \/ failure = "actionable" /\ ~WilsonReaches(metrics.actionable, Gate.precision)
            \/ failure = "edge" /\ ~WilsonReaches(metrics.edge, Gate.precision)
            \/ failure = "audits" /\ metrics.omission.total < Gate.audits
            \/ failure = "confidentiality" /\ defects.confidentiality > Gate.confidentiality
            \/ failure = "removal" /\ defects.removal > Gate.removal
            \/ failure = "alerted" /\ metrics.alertedWeight * 1000 > Gate.alerted * metrics.population
            \/ failure = "latency" /\ metrics.p95 > Gate.p95
            \/ failure = "remedy" /\ Gate.everyRemedy /\ defects.withoutRemedy > 0}

OfStratum(s) == {i \in DOMAIN records : records[i].evidence.stratum = s}

\* The last by decidedAt, in the order of listPromotions.
Latest(s) == {i \in OfStratum(s) : \A j \in OfStratum(s) : j <= i}

NoPrevious == [state |-> "UNMEASURED", evidence |-> [versions |-> "none"]]

\* The state of a stratum after evidence, against the record it follows.
DecidedState(previous, evidence) ==
    CASE previous.evidence.versions \notin {"none", evidence.versions} -> "UNMEASURED"
      [] GateFailures(evidence) = {} -> "PROMOTED"
      [] previous.state = "PROMOTED" -> "DEMOTED"
      [] OTHER -> "PREVIEW"

\* The files that can be written from the stored reports: the metrics of one, with
\* the versions its author takes them to be of and the defects counted.
ReportedEvidence ==
    UNION {{[stratum |-> s, corpus |-> revision, metrics |-> reports[revision].byStratum[s],
             defects |-> defects, versions |-> v] :
                s \in DOMAIN reports[revision].byStratum, defects \in Defects, v \in Versions} :
           revision \in DOMAIN reports}

\* `promotion decide`: the evidence file, which is not compared with a report or a
\* corpus, and the clock.
BeginDecision(p) ==
    /\ decider[p] = Undecided
    /\ \E evidence \in ReportedEvidence \cup ForeignEvidence :
          decider' = [decider EXCEPT ![p] = [pc |-> "begun", at |-> time, evidence |-> evidence]]
    /\ UNCHANGED <<time, labels, corpora, reports, running, records>>

\* listPromotions and decidePromotion.
Decide(p) ==
    /\ decider[p].pc = "begun"
    /\ LET d == decider[p]
           s == d.evidence.stratum
       IN  \E previous \in IF OfStratum(s) = {} THEN {NoPrevious} ELSE {records[i] : i \in Latest(s)} :
              decider' = [decider EXCEPT ![p] =
                 [pc |-> "decided", at |-> d.at, evidence |-> d.evidence,
                  state |-> DecidedState(previous, d.evidence)]]
    /\ UNCHANGED <<time, labels, corpora, reports, running, records>>

\* appendPromotion.  listPromotions orders by decidedAt and breaks ties by the
\* ID, a hash, so the record takes any place its time allows.
AppendPromotion(p) ==
    /\ decider[p].pc = "decided" /\ Len(records) < MaxDecisions
    /\ LET d == decider[p]
           record == [at |-> d.at, evidence |-> d.evidence, state |-> d.state]
       IN  \E k \in 0 .. Len(records) :
              /\ \A i \in DOMAIN records : IF i <= k THEN records[i].at <= d.at ELSE d.at <= records[i].at
              /\ records' = SubSeq(records, 1, k) \o <<record>> \o SubSeq(records, k + 1, Len(records))
    /\ decider' = [decider EXCEPT ![p] = Undecided]
    /\ UNCHANGED <<time, labels, corpora, reports, running>>

AbandonDecision(p) ==
    /\ decider[p] # Undecided
    /\ decider' = [decider EXCEPT ![p] = Undecided]
    /\ UNCHANGED <<time, labels, corpora, reports, running, records>>

\* A new extractor, identity function or join strategy.
Upgrade(s, v) ==
    /\ running[s] # v
    /\ running' = [running EXCEPT ![s] = v]
    /\ UNCHANGED <<time, labels, corpora, reports, records, decider>>

TickClock ==
    /\ time < MaxClock
    /\ time' = time + 1
    /\ UNCHANGED <<labels, corpora, reports, running, records, decider>>

-----------------------------------------------------------------------------
(* planGitHubCheck. *)

\* The strata whose last record promotes them as they run now.
PromotedUnversioned(enabled) ==
    {s \in enabled : Latest(s) # {} /\ \A i \in Latest(s) : records[i].state = "PROMOTED"}
Promoted(enabled) ==
    {s \in enabled : /\ Latest(s) # {}
                     /\ \A i \in Latest(s) : /\ records[i].state = "PROMOTED"
                                           /\ records[i].evidence.versions = running[s]}

Shown(findings, promoted) ==
    {f \in findings : f.state # "ABSTAINED" /\ ~f.suppressed /\ f.stratum \in promoted /\ f.disclosed}

\* Mode and reason, in the order the conditions are asked.
ModeOf(request, promoted) ==
    CASE ~request.inScope -> "no_write"
      [] ~request.currentHead -> "no_write"
      [] ~request.authorized -> "no_write"
      [] request.killSwitch -> "no_write"
      [] promoted = {} -> "no_write"
      [] ~request.advisory -> "shadow"
      [] OTHER -> "write"

ConclusionOf(request, shown) ==
    CASE ~request.inScope -> "skipped"
      [] request.incomplete \/ shown # {} -> "neutral"
      [] OTHER -> "success"

PlannedFindings ==
    [stratum : Strata, state : {"PREVIEW", "ABSTAINED"}, suppressed : BOOLEAN, disclosed : BOOLEAN]

\* The mode of the check, the findings it shows, and its conclusion.
PlanGitHubCheck(request, findings) ==
    LET promoted == Promoted(Strata)
        shown == Shown(findings, promoted)
    IN  [mode |-> ModeOf(request, promoted), shown |-> shown, conclusion |-> ConclusionOf(request, shown)]

PromotionInit ==
    /\ time = 0
    /\ labels = [id \in {d.id : d \in Drafts} |-> Unlabelled]
    /\ corpora = <<>> /\ reports = <<>> /\ records = <<>>
    /\ running \in [Strata -> Versions]
    /\ decider = [p \in Deciders |-> Undecided]

PromotionNext ==
    \/ TickClock
    \/ \E d \in Drafts, panel \in Panels : Adjudicate(d, panel)
    \/ \E drawn \in SUBSET {d.pr : d \in Drafts} : PutCorpus(drawn)
    \/ \E revision \in DOMAIN corpora : Evaluate(revision)
    \/ \E p \in Deciders : BeginDecision(p) \/ Decide(p) \/ AppendPromotion(p) \/ AbandonDecision(p)
    \/ \E s \in Strata, v \in Versions : Upgrade(s, v)

PromotionSpec == PromotionInit /\ [][PromotionNext]_promotionVars

-----------------------------------------------------------------------------
(* Properties. *)

\* Evidence with the metrics of the stored report of the corpus it names.
IsReported(evidence) ==
    /\ evidence.corpus \in DOMAIN reports
    /\ evidence.stratum \in DOMAIN reports[evidence.corpus].byStratum
    /\ evidence.metrics = reports[evidence.corpus].byStratum[evidence.stratum]

\* The delivered cases of a stratum that call for coordination.
ToCoordinate(cases, s) ==
    {c \in cases : /\ c.stratum = s /\ c.subset # "mutation"
                   /\ c.output = "candidate" /\ c.selected /\ ~c.suppressed
                   /\ c.action = "coordinate" /\ c.labels.action # "indeterminate"}

\* A finding that a check written now would show belongs to a stratum whose last
\* decision was on evidence of the versions it runs with now, which passed the
\* gate; and where that evidence has the metrics of the stored report, people
\* labelled enough of the delivered cases of its corpus actionable, cases without
\* a label counting against it (decidePromotion, evaluateMetricSet,
\* appendPromotion, planGitHubCheck).
ShownIsMeasured ==
    \A request \in Requests, f \in PlannedFindings :
        LET planned == PlanGitHubCheck(request, {f}) IN
        planned.mode = "write" /\ planned.shown # {} =>
            \E i \in Latest(f.stratum) :
                LET evidence == records[i].evidence IN
                /\ evidence.versions = running[f.stratum]
                /\ GateFailures(evidence) = {}
                /\ IsReported(evidence) =>
                       LET cases == ToCoordinate(corpora[evidence.corpus], f.stratum) IN
                       WilsonReaches([successes |-> Cardinality({c \in cases : Actionable(c)}),
                                      total |-> Cardinality(cases)], Gate.precision)

\* What the specification asks of a promotion ("requires the current version's
\* recorded evaluation"): its evidence is that of a stored report.
\* Not kept: `promotion decide` looks no report up, and TLC refutes it (README,
\* section 6).
PromotedIsReported ==
    \A i \in DOMAIN records : records[i].state = "PROMOTED" => IsReported(records[i].evidence)

\* What the specification asks of a promotion ("at least 100 sampled no-finding
\* PRs audited"): as many labelled no-finding cases as the gate counts, where the
\* evidence is that of a stored report.
\* Not kept: TLC refutes it (README, section 6).
PromotedWasAudited ==
    \A i \in DOMAIN records :
        LET evidence == records[i].evidence IN
        records[i].state = "PROMOTED" /\ IsReported(evidence) =>
            Cardinality({c \in corpora[evidence.corpus] :
                /\ c.stratum = evidence.stratum /\ ~IsFinding(c)
                /\ c.labels.action \notin {"none", "indeterminate"}}) >= Gate.audits
=============================================================================
