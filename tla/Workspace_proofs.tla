-------------------------- MODULE Workspace_proofs --------------------------
(***************************************************************************)
(* Proofs about what a workspace holds: the histories of reviews and the   *)
(* suppressions they make (Reviews), the promotion of strata on measured   *)
(* evidence (Promotion), the repositories and services that people         *)
(* register (LocalRegistry), the rows of a hosted workspace                *)
(* (HostedWorkspace) and the walk over its evidence (TransitiveImpact).    *)
(*                                                                         *)
(* Reviews.  The store orders events by time and ID, but commands take the *)
(* time before they read, so nothing relates the order of the times to the *)
(* order of the appends.  ForkIsBackdated is inductive once IDs are known  *)
(* to be unique and no event to supersede itself: an append that repeats   *)
(* the supersession of a stored event finds that event older than the one  *)
(* both supersede.  It rests on the existence of a newest event, a maximum *)
(* of a bounded set, which the well-foundedness of Nat provides.           *)
(* SuppressedWasReviewed needs the way of a rule: from the analysis it     *)
(* pins, through the draft and the store, to the analysis that read it.    *)
(*                                                                         *)
(* Promotion.  What is stored of a corpus and its report never changes, so *)
(* evidence that has the metrics of a report keeps them, and what the gate *)
(* asked of it is a fact about the labels of that corpus.                  *)
(*                                                                         *)
(* LocalRegistry.  Validation compares a service only with the entry of    *)
(* its ID before it, so a valid snapshot may cease to be valid when an     *)
(* entry goes.  It does not, because no command adds an ID twice: this is  *)
(* the invariant, of workspace.yaml and of every snapshot that a command   *)
(* still holds after others have written.                                  *)
(*                                                                         *)
(* TransitiveImpact.  That the walk has found every simple path when its   *)
(* queue is empty needs no induction over paths: a path without a          *)
(* candidate of its key starts with a path that is still in the queue, and *)
(* taking that one from the queue puts a longer start of it back, or       *)
(* reports it.                                                             *)
(*                                                                         *)
(* HostedWorkspace.  PurgeIsFinal is not inductive: a worker or a restore  *)
(* that is about to put a purged row would bring it back.  The             *)
(* strengthening adds that there is none for a quiet analysis, and what    *)
(* makes a restore write only rows of the analyses it has announced: every *)
(* pointer, live or backed up, names an analysis of its own pull request.  *)
(* A worker further on may well be of a quiet analysis; what it has left   *)
(* to do needs the record, and the record is gone.                         *)
(***************************************************************************)
EXTENDS Reviews, Promotion, LocalRegistry, TransitiveImpact, HostedWorkspace, TLAPS,
        FunctionTheorems, WellFoundedInduction, NaturalsInduction, FiniteSetTheorems,
        SequenceTheorems

-----------------------------------------------------------------------------
(* Extrema of sets of numbers. *)

\* The least-number principle, for sets.
LEMMA LeastNumber ==
    ASSUME NEW S \in SUBSET Nat, S # {}
    PROVE  \E x \in S : \A y \in S : x <= y
<1> DEFINE Less == {ss \in Nat \X Nat : ss[1] < ss[2]}
<1>1. IsWellFoundedOn(OpToRel(<, Nat), Nat)
  BY NatLessThanWellFounded
<1>2. OpToRel(<, Nat) = Less
  BY DEF OpToRel
<1>3. \E x \in S : \A y \in S : <<y, x>> \notin Less
  <2> HIDE DEF Less
  <2> QED
    BY <1>1, <1>2, WFMin
<1>4. \A x, y \in Nat : <<y, x>> \in Less <=> y < x
  OBVIOUS
<1> HIDE DEF Less
<1>5. \A x \in S : x \in Nat
  OBVIOUS
<1>6. PICK x \in S : \A y \in S : <<y, x>> \notin Less
  BY <1>3
<1>7. ASSUME NEW y \in S PROVE x <= y
  <2>1. ~(y < x)
    BY <1>4, <1>5, <1>6
  <2> QED
    BY <2>1, <1>5
<1> QED
  BY <1>7

\* A bounded set of numbers that is not empty has a greatest one.
LEMMA GreatestNumber ==
    ASSUME NEW b \in Nat, NEW S \in SUBSET (0 .. b), S # {}
    PROVE  \E x \in S : \A y \in S : y <= x
<1> DEFINE Complements == {b - x : x \in S}
<1>1. Complements \in SUBSET Nat /\ Complements # {}
  <2>1. \A x \in S : b - x \in Nat
    OBVIOUS
  <2> QED
    BY <2>1
<1>2. PICK z \in Complements : \A y \in Complements : z <= y
  <2> HIDE DEF Complements
  <2> QED
    BY <1>1, LeastNumber
<1>3. PICK x \in S : z = b - x
  BY <1>2
<1>4. ASSUME NEW y \in S PROVE y <= x
  <2>1. b - x <= b - y
    BY <1>2, <1>3
  <2> QED
    BY <2>1
<1> QED
  BY <1>4

\* Every list of the store has a newest event, and only one.
LEMMA NewestIsNewest ==
    ASSUME NEW b \in Nat, NEW c \in Nat, NEW E, E # {},
           \A e \in E : e.id \in 0 .. b /\ e.at \in 0 .. c,
           \A e, o \in E : e.id = o.id => e = o
    PROVE  /\ Newest(E) \in E
           /\ \A o \in E \ {Newest(E)} : Precedes(o, Newest(E))
<1> DEFINE Times == {e.at : e \in E}
<1>1. Times \in SUBSET (0 .. c) /\ Times # {}
  OBVIOUS
<1>2. PICK t \in Times : \A y \in Times : y <= t
  <2> HIDE DEF Times
  <2> QED
    BY <1>1, GreatestNumber
<1> DEFINE Numbers == {e.id : e \in {o \in E : o.at = t}}
<1>3. Numbers \in SUBSET (0 .. b) /\ Numbers # {}
  BY <1>2
<1>4. PICK i \in Numbers : \A y \in Numbers : y <= i
  <2> HIDE DEF Numbers
  <2> QED
    BY <1>3, GreatestNumber
<1>5. PICK e \in E : e.at = t /\ e.id = i
  BY <1>4
<1>6. ASSUME NEW o \in E \ {e} PROVE Precedes(o, e)
  <2>1. o.at \in Times /\ o.at <= t
    BY <1>2
  <2>2. CASE o.at = t
    <3>1. o.id \in Numbers
      BY <2>2
    <3>2. o.id <= i /\ o.id # i
      BY <3>1, <1>4, <1>5
    <3> QED
      BY <3>2, <2>2, <1>5 DEF Precedes
  <2>3. CASE o.at # t
    <3>1. o.at < t
      BY <2>1, <2>3, <1>1, <1>2
    <3> QED
      BY <3>1, <1>5 DEF Precedes
  <2> QED
    BY <2>2, <2>3
<1>7. \E x \in E : \A o \in E \ {x} : Precedes(o, x)
  BY <1>6
<1> QED
  BY <1>7 DEF Newest

-----------------------------------------------------------------------------
(* Reviews: the shape of its state. *)

VersionMap == [Facets -> Nat]

MatcherKey == UNION {MatcherKeys(s, n, f) : s \in Scopes, n \in Nat, f \in Findings}

\* The rules that `review add` makes, and all of them.
MadeRule ==
    [id : {RuleId(matcher, owner, created) : matcher \in [scope : Scopes, key : MatcherKey],
                                             owner \in Roles, created \in Nat},
     matcher : [scope : Scopes, key : MatcherKey], owner : Roles, created : Nat,
     review : Nat, expires : Nat, pins : VersionMap]
Rule == MadeRule \cup ForeignRules

AnalysisRow == [versions : VersionMap, suppressed : [Findings -> Rule \cup {NoRule}]]

ReviewEvent ==
    [id : Nat \ {0}, analysis : Nat, finding : Findings, at : Nat, supersedes : Nat,
     rule : {NoRuleId} \cup {r.id : r \in Rule}]

Matching == [pc : {"matching"}, versions : VersionMap, rules : SUBSET Rule]
Begun == [pc : {"begun"}, at : Nat]
CheckedReview == [pc : {"checked"}, event : ReviewEvent, rule : Rule \cup {NoRule}]

ReviewShape ==
    /\ clock \in Nat
    /\ versions \in VersionMap
    /\ bound \in Bound
    /\ analyses \in Seq(AnalysisRow)
    /\ analysis \in {NoAnalysis} \cup Matching
    /\ reviews \subseteq ReviewEvent
    /\ rules \subseteq Rule
    /\ session \in [Reviewers -> {Idle} \cup Begun \cup CheckedReview]

\* Every event is numbered, dated in the past and of a stored occurrence.
Placed(e) == e.id \in 1 .. bound.reviews /\ e.at <= clock /\ e.analysis \in DOMAIN analyses

\* The history: IDs are unique, and no event supersedes itself.
Histories ==
    /\ \A e \in reviews : Placed(e) /\ e.supersedes # e.id
    /\ \A e, o \in reviews : e.id = o.id => e = o
    /\ \A p \in Reviewers : session[p].pc = "begun" => session[p].at <= clock
    /\ \A p \in Reviewers : session[p].pc = "checked" => Placed(session[p].event)

\* A draft that brings a rule names it, and a rule that is made there pins what the
\* analysis used.
Names(e, rule) ==
    e.rule = rule.id /\ (rule \notin ForeignRules => analyses[e.analysis].versions = rule.pins)

\* A rule suppresses where it matches, and where the analysis has its pins.
Applies(rule, n, f, pinned) ==
    /\ rule.matcher.key \in MatcherKeys(rule.matcher.scope, n, f)
    /\ \A x \in DOMAIN rule.pins : rule.pins[x] = pinned[x]
    /\ rule \notin ForeignRules => rule.pins = pinned

\* The way of a rule.
Sources ==
    /\ \A p \in Reviewers : session[p].pc = "checked" =>
           (session[p].rule # NoRule => Names(session[p].event, session[p].rule))
    /\ \A rule \in rules : \E e \in reviews : Names(e, rule)
    /\ analysis # NoAnalysis => analysis.rules \subseteq rules
    /\ \A n \in DOMAIN analyses, f \in Findings :
           LET rule == analyses[n].suppressed[f] IN
           rule # NoRule =>
               rule \in rules /\ Applies(rule, n, f, analyses[n].versions)

ReviewInv == ReviewShape /\ Histories /\ ForkIsBackdated /\ Sources

-----------------------------------------------------------------------------
(* What the steps of Reviews have in common. *)

\* Nothing stored is lost: events and rules stay, analyses are appended.
Grows ==
    /\ bound' = bound /\ clock <= clock'
    /\ reviews \subseteq reviews' /\ rules \subseteq rules'
    /\ \A n \in DOMAIN analyses : n \in DOMAIN analyses' /\ analyses'[n] = analyses[n]

LEMMA StoredStays ==
    ASSUME ReviewShape, ReviewsNext
    PROVE  Grows
<1> USE DEF ReviewsNext
<1>1. CASE Tick
  BY <1>1 DEF Tick, Grows, ReviewShape
<1>2. CASE ListSuppressions
  BY <1>2 DEF ListSuppressions, Grows, ReviewShape
<1>3. CASE MatchSuppressions
  <2>1. PICK row : analyses' = Append(analyses, row)
    BY <1>3 DEF MatchSuppressions
  <2>2. \A n \in DOMAIN analyses : n \in DOMAIN analyses' /\ analyses'[n] = analyses[n]
    BY <2>1 DEF ReviewShape
  <2>3. UNCHANGED <<bound, clock, reviews, rules>>
    BY <1>3 DEF MatchSuppressions
  <2> QED
    BY <2>2, <2>3 DEF Grows, ReviewShape
<1>4. CASE AppendSuppressionState
  BY <1>4 DEF AppendSuppressionState, Grows, ReviewShape
<1>5. ASSUME NEW x \in Facets, Change(x) PROVE Grows
  BY <1>5 DEF Change, Grows, ReviewShape
<1>6. ASSUME NEW p \in Reviewers, NEW record, Move(p, record) PROVE Grows
  BY <1>6 DEF Move, Grows, ReviewShape
<1>7. ASSUME NEW p \in Reviewers, AppendReview(p) PROVE Grows
  BY <1>7 DEF AppendReview, Grows, ReviewShape
<1>8. ASSUME NEW p \in Reviewers, BeginReview(p) \/ DraftReview(p) \/ ImportReview(p) \/ GiveUp(p)
      PROVE  \E record : Move(p, record)
  BY <1>8 DEF BeginReview, DraftReview, ImportReview, GiveUp, Checked
<1> QED
  BY <1>1, <1>2, <1>3, <1>4, <1>5, <1>6, <1>7, <1>8 DEF ReviewsStep

LEMMA NamesStays ==
    ASSUME NEW e, NEW rule, Names(e, rule), e.analysis \in DOMAIN analyses, Grows
    PROVE  Names(e, rule)'
  BY DEF Names, Grows

LEMMA PlacedStays ==
    ASSUME NEW e, Placed(e), e.at \in Nat, ReviewShape, Grows, clock' \in Nat
    PROVE  Placed(e)'
  BY DEF Placed, Grows, ReviewShape

\* The newest event of an occurrence.
LEMMA NewestOfOccurrence ==
    ASSUME ReviewShape, Histories, NEW n, NEW f, OfOccurrence(n, f) # {}
    PROVE  /\ Newest(OfOccurrence(n, f)) \in OfOccurrence(n, f)
           /\ \A o \in OfOccurrence(n, f) \ {Newest(OfOccurrence(n, f))} :
                  Precedes(o, Newest(OfOccurrence(n, f)))
<1> DEFINE E == OfOccurrence(n, f)
<1>1. bound.reviews \in Nat /\ clock \in Nat
  BY DEF ReviewShape, Bound
<1>2. E \subseteq reviews
  BY DEF OfOccurrence
<1>3. \A e \in E : e.id \in 0 .. bound.reviews /\ e.at \in 0 .. clock
  BY <1>1, <1>2 DEF Histories, Placed, ReviewShape, ReviewEvent
<1>4. \A e, o \in E : e.id = o.id => e = o
  BY <1>2 DEF Histories
<1> HIDE DEF E
<1> QED
  BY <1>1, <1>3, <1>4, NewestIsNewest DEF E

-----------------------------------------------------------------------------
(* The invariant of Reviews holds at first. *)

LEMMA ReviewInit ==
    ASSUME ReviewsInit
    PROVE  ReviewInv
<1>1. ReviewShape
  <2>1. bound \in Bound
    BY ReviewsAssumption DEF ReviewsInit
  <2>2. analyses \in Seq(AnalysisRow)
    BY DEF ReviewsInit
  <2> QED
    BY <2>1, <2>2 DEF ReviewsInit, ReviewShape, VersionMap
<1>2. Histories /\ ForkIsBackdated
  BY DEF ReviewsInit, Histories, ForkIsBackdated, Idle
<1>3. Sources
  BY DEF ReviewsInit, Sources, Idle
<1> QED
  BY <1>1, <1>2, <1>3 DEF ReviewInv

-----------------------------------------------------------------------------
(* What a reviewer holds. *)

\* createSuppressionRule makes rules that pin the reviewed analysis.
LEMMA RulesForShape ==
    ASSUME ReviewShape, NEW n \in DOMAIN analyses, NEW f \in Findings, NEW at \in Nat,
           NEW rule \in RulesFor(n, f, at)
    PROVE  rule \in Rule /\ rule.pins = analyses[n].versions
<1> DEFINE Made(grant, key) ==
               [id |-> RuleId([scope |-> grant.scope, key |-> key], grant.role, at),
                matcher |-> [scope |-> grant.scope, key |-> key], owner |-> grant.role,
                created |-> at, review |-> at + Lifetime.review,
                expires |-> at + Lifetime.expiry, pins |-> analyses[n].versions]
<1>1a. PICK grant \in [scope : Scopes, role : Roles] :
          \E key \in MatcherKeys(grant.scope, n, f) : rule = Made(grant, key)
  BY DEF RulesFor
<1>1. PICK key \in MatcherKeys(grant.scope, n, f) : rule = Made(grant, key)
  BY <1>1a
<1>2. analyses[n] \in AnalysisRow /\ n \in Nat
  BY DEF ReviewShape
<1>3. analyses[n].versions \in VersionMap
  BY <1>2 DEF AnalysisRow
<1>4. key \in MatcherKey
  BY <1>1, <1>2 DEF MatcherKey
<1>5. at + Lifetime.review \in Nat /\ at + Lifetime.expiry \in Nat
  BY ReviewsAssumption
<1> DEFINE matcher == [scope |-> grant.scope, key |-> key]
<1>6. matcher \in [scope : Scopes, key : MatcherKey] /\ grant.role \in Roles
  BY <1>4
<1>7. rule = [id |-> RuleId(matcher, grant.role, at), matcher |-> matcher, owner |-> grant.role,
              created |-> at, review |-> at + Lifetime.review,
              expires |-> at + Lifetime.expiry, pins |-> analyses[n].versions]
  BY <1>1
<1> HIDE DEF MatcherKey, matcher
<1> QED
  BY <1>3, <1>5, <1>6, <1>7 DEF Rule, MadeRule

LEMMA UsedIdsBounded ==
    ASSUME ReviewShape, Histories
    PROVE  UsedIds \subseteq 1 .. bound.reviews
  BY DEF UsedIds, Histories, Placed

\* The event an occurrence stands at is a stored one, or there is none.
LEMMA CurrentIsStored ==
    ASSUME ReviewShape, Histories, NEW n, NEW f
    PROVE  Current(n, f) \in {0} \cup {e.id : e \in reviews}
<1>1. CASE OfOccurrence(n, f) = {}
  BY <1>1 DEF Current, NoEvent
<1>2. CASE OfOccurrence(n, f) # {}
  <2>1. Newest(OfOccurrence(n, f)) \in reviews
    BY <1>2, NewestOfOccurrence DEF OfOccurrence
  <2> QED
    BY <1>2, <2>1 DEF Current
<1> QED
  BY <1>1, <1>2

LEMMA IdsAreNumbers ==
    ASSUME ReviewShape
    PROVE  {0} \cup {e.id : e \in reviews} \subseteq Nat
  BY DEF ReviewShape, ReviewEvent

\* Whatever a reviewer moves to is well formed, dated in the past, and names the
\* rule it makes.
GoodSession(s) ==
    /\ s \in {Idle} \cup Begun \cup CheckedReview
    /\ s.pc = "begun" => s.at <= clock
    /\ s.pc = "checked" => Placed(s.event) /\ (s.rule # NoRule => Names(s.event, s.rule))

LEMMA MovesAreGood ==
    ASSUME ReviewInv, NEW p \in Reviewers,
           BeginReview(p) \/ DraftReview(p) \/ ImportReview(p) \/ GiveUp(p)
    PROVE  \E s : Move(p, s) /\ GoodSession(s)
<1> USE DEF ReviewInv
<1>1. CASE BeginReview(p)
  <2>1. GoodSession([pc |-> "begun", at |-> clock])
    BY DEF GoodSession, Begun, ReviewShape
  <2> QED
    BY <1>1, <2>1 DEF BeginReview
<1>2. CASE GiveUp(p)
  <2>1. GoodSession(Idle)
    BY DEF GoodSession, Idle
  <2> QED
    BY <1>2, <2>1 DEF GiveUp
<1>3. CASE DraftReview(p)
  <2> DEFINE n == Len(analyses)
             at == session[p].at
  <2>1. n \in DOMAIN analyses /\ n \in Nat
    BY <1>3 DEF DraftReview, ReviewShape
  <2>2. at \in Nat /\ at <= clock
    BY <1>3 DEF DraftReview, ReviewShape, Histories, Idle, Begun, CheckedReview
  <2> HIDE DEF n, at
  <2>3a. PICK f \in Findings, id \in FreshIds :
            \E rule \in {NoRule} \cup RulesFor(n, f, at) :
                Checked(p, [id |-> id, analysis |-> n, finding |-> f, at |-> at,
                            supersedes |-> Current(n, f),
                            rule |-> IF rule = NoRule THEN NoRuleId ELSE rule.id], rule)
    BY <1>3 DEF DraftReview, n, at
  <2>3. PICK rule \in {NoRule} \cup RulesFor(n, f, at) :
            Checked(p, [id |-> id, analysis |-> n, finding |-> f, at |-> at,
                        supersedes |-> Current(n, f),
                        rule |-> IF rule = NoRule THEN NoRuleId ELSE rule.id], rule)
    BY <2>3a
  <2>4. id \in 1 .. bound.reviews
    BY DEF FreshIds
  <2>5. Current(n, f) \in Nat
    BY CurrentIsStored, IdsAreNumbers
  <2>6. rule # NoRule => rule \in Rule /\ rule.pins = analyses[n].versions
    BY <2>1, <2>2, <2>3, RulesForShape
  <2> DEFINE made == IF rule = NoRule THEN NoRuleId ELSE rule.id
             event == [id |-> id, analysis |-> n, finding |-> f, at |-> at,
                       supersedes |-> Current(n, f), rule |-> made]
  <2>7. made \in {NoRuleId} \cup {r.id : r \in Rule} /\ (rule # NoRule => made = rule.id)
    BY <2>6
  <2> HIDE DEF made
  <2>8. event \in ReviewEvent
    BY <2>1, <2>2, <2>4, <2>5, <2>7 DEF ReviewEvent, ReviewShape, Bound
  <2>9. Placed(event)
    BY <2>1, <2>2, <2>4 DEF Placed
  <2>10. rule # NoRule => Names(event, rule)
    BY <2>6, <2>7 DEF Names
  <2>11. Checked(p, event, rule)
    BY <2>3 DEF made
  <2> HIDE DEF event
  <2>12. GoodSession([pc |-> "checked", event |-> event, rule |-> rule])
    BY <2>6, <2>8, <2>9, <2>10 DEF GoodSession, CheckedReview
  <2> QED
    BY <2>11, <2>12 DEF Checked
<1>4. CASE ImportReview(p)
  <2> DEFINE Draft(id, n, f, at, supersedes, named) ==
                 [id |-> id, analysis |-> n, finding |-> f, at |-> at,
                  supersedes |-> supersedes, rule |-> named]
  <2>1. PICK n \in DOMAIN analyses, f \in Findings, id \in UsedIds \cup FreshIds, at \in 0 .. clock,
             supersedes \in {NoEvent} \cup {e.id : e \in reviews}, rule \in {NoRule} \cup bound.imports,
             named \in {NoRuleId} \cup {r.id : r \in bound.imports} :
            /\ RecordReviewAccepts(Draft(id, n, f, at, supersedes, named))
            /\ rule # NoRule => named = rule.id /\ Cardinality(rules) < bound.rules
            /\ Checked(p, Draft(id, n, f, at, supersedes, named), rule)
    BY <1>4, Zenon DEF ImportReview
  <2>2. id \in 1 .. bound.reviews
    BY UsedIdsBounded DEF FreshIds
  <2>3. supersedes \in Nat
    BY IdsAreNumbers DEF NoEvent
  <2>4. n \in Nat /\ at \in Nat /\ at <= clock
    BY DEF ReviewShape
  <2>5. bound.imports \subseteq ForeignRules /\ bound.reviews \in Nat
    BY DEF ReviewShape, Bound
  <2>6. rule \in Rule \cup {NoRule} /\ named \in {NoRuleId} \cup {r.id : r \in Rule}
    BY <2>5 DEF Rule
  <2> DEFINE event == Draft(id, n, f, at, supersedes, named)
  <2>7. event \in ReviewEvent /\ Placed(event)
    BY <2>2, <2>3, <2>4, <2>5, <2>6 DEF ReviewEvent, Placed
  <2>8. rule # NoRule => Names(event, rule)
    BY <2>1, <2>5 DEF Names
  <2>9. Checked(p, event, rule)
    BY <2>1
  <2> HIDE DEF event
  <2>10. GoodSession([pc |-> "checked", event |-> event, rule |-> rule])
    BY <2>6, <2>7, <2>8 DEF GoodSession, CheckedReview
  <2> QED
    BY <2>9, <2>10 DEF Checked
<1> QED
  BY <1>1, <1>2, <1>3, <1>4

-----------------------------------------------------------------------------
(* The steps of Reviews keep its invariant. *)

LEMMA WorldStep ==
    ASSUME ReviewInv, UNCHANGED <<bound, reviews, session, analyses>>,
           clock' \in Nat, clock <= clock', versions' \in VersionMap, rules' = rules,
           \/ analysis' = analysis
           \/ analysis' \in Matching /\ analysis'.rules \subseteq rules
    PROVE  ReviewInv'
<1> USE DEF ReviewInv
<1>1. ReviewShape'
  BY DEF ReviewShape
<1>2. Histories'
  <2>1. \A e \in reviews : e.at \in Nat
    BY DEF ReviewShape, ReviewEvent
  <2>2. \A p \in Reviewers : session[p].pc = "begun" => session[p].at \in Nat
    BY DEF ReviewShape, Idle, Begun, CheckedReview
  <2>3. \A p \in Reviewers : session[p].pc = "checked" => session[p].event.at \in Nat
    BY DEF ReviewShape, Idle, Begun, CheckedReview, ReviewEvent
  <2> QED
    BY <2>1, <2>2, <2>3 DEF Histories, Placed, ReviewShape
<1>3. ForkIsBackdated'
  BY DEF ForkIsBackdated, Precedes
<1>4. Sources'
  BY DEF Sources, Names
<1> QED
  BY <1>1, <1>2, <1>3, <1>4

LEMMA MoveStep ==
    ASSUME ReviewInv, NEW p \in Reviewers, NEW s, GoodSession(s), Move(p, s), UNCHANGED bound
    PROVE  ReviewInv'
<1> USE DEF ReviewInv, Move
<1>1. session' \in [Reviewers -> {Idle} \cup Begun \cup CheckedReview]
  BY DEF ReviewShape, GoodSession
<1>2. session'[p] = s /\ \A q \in Reviewers \ {p} : session'[q] = session[q]
  BY DEF ReviewShape
<1>3. ReviewShape'
  BY <1>1 DEF ReviewShape
<1>4. Histories'
  BY <1>2 DEF Histories, Placed, GoodSession
<1>5. ForkIsBackdated'
  BY DEF ForkIsBackdated, Precedes
<1>6. Sources'
  BY <1>2 DEF Sources, Names, GoodSession
<1> QED
  BY <1>3, <1>4, <1>5, <1>6

\* matchSuppression: a rule suppresses only where the analysis has its pins.
LEMMA ActiveRuleMatches ==
    ASSUME NEW known, NEW n, NEW f, NEW pinned \in VersionMap, NEW now, NEW rule \in Rule,
           rule \in Suppressing(known, n, f, pinned, now)
    PROVE  Applies(rule, n, f, pinned)
<1>1. MatcherMatches(rule.matcher, n, f) /\ Resolution(rule, pinned, now) = "active"
  BY DEF Suppressing
<1>2. ~Invalidated(rule, pinned)
  BY <1>1 DEF Resolution
<1>3. \A x \in DOMAIN rule.pins : rule.pins[x] = pinned[x]
  BY <1>2 DEF Invalidated
<1>4. rule \notin ForeignRules => rule.pins \in VersionMap
  BY DEF Rule, MadeRule
<1>5. rule \notin ForeignRules => rule.pins = pinned
  BY <1>3, <1>4 DEF VersionMap
<1> QED
  BY <1>1, <1>3, <1>5 DEF MatcherMatches, Applies

LEMMA MatchStep ==
    ASSUME ReviewInv, MatchSuppressions, UNCHANGED bound
    PROVE  ReviewInv'
<1> USE DEF ReviewInv
<1> DEFINE m == Len(analyses) + 1
           matching(f) == Suppressing(analysis.rules, m, f, analysis.versions, clock)
<1>1. PICK decision \in [Findings -> analysis.rules \cup {NoRule}] :
          /\ \A f \in Findings :
                IF matching(f) = {} THEN decision[f] = NoRule ELSE decision[f] \in matching(f)
          /\ analyses' = Append(analyses, [versions |-> analysis.versions, suppressed |-> decision])
  BY DEF MatchSuppressions
<1> DEFINE row == [versions |-> analysis.versions, suppressed |-> decision]
<1>2. analysis.versions \in VersionMap /\ analysis.rules \subseteq Rule /\ analysis.rules \subseteq rules
  BY DEF MatchSuppressions, ReviewShape, Matching, NoAnalysis, Sources
<1>3. row \in AnalysisRow
  BY <1>2 DEF AnalysisRow
<1>4. row.suppressed = decision /\ row.versions = analysis.versions
  OBVIOUS
<1> HIDE DEF row
<1>5. /\ Len(analyses) \in Nat
      /\ analyses' \in Seq(AnalysisRow) /\ DOMAIN analyses' = DOMAIN analyses \cup {m}
      /\ \A n \in DOMAIN analyses : analyses'[n] = analyses[n]
      /\ analyses'[m] = row
  BY <1>1, <1>3 DEF ReviewShape, row
<1>6. \A f \in Findings : decision[f] # NoRule =>
          decision[f] \in rules /\ Applies(decision[f], m, f, analysis.versions)
  <2> SUFFICES ASSUME NEW f \in Findings, decision[f] # NoRule
               PROVE  decision[f] \in rules /\ Applies(decision[f], m, f, analysis.versions)
    OBVIOUS
  <2>1. decision[f] \in matching(f) /\ decision[f] \in analysis.rules
    BY <1>1
  <2> QED
    BY <2>1, <1>2, ActiveRuleMatches
<1> HIDE DEF m
<1>7. UNCHANGED <<clock, versions, reviews, rules, session, bound>> /\ analysis' = NoAnalysis
  BY DEF MatchSuppressions
<1>8. ReviewShape'
  BY <1>5, <1>7 DEF ReviewShape
<1>9. Histories'
  BY <1>5, <1>7 DEF Histories, Placed
<1>10. ForkIsBackdated'
  BY <1>7 DEF ForkIsBackdated, Precedes
<1>11. Sources'
  <2>1. ASSUME NEW q \in Reviewers, session[q].pc = "checked", session[q].rule # NoRule
        PROVE  Names(session[q].event, session[q].rule)'
    BY <2>1, <1>5, <1>7 DEF Sources, Names, Histories, Placed
  <2>2. ASSUME NEW rule \in rules PROVE \E e \in reviews : Names(e, rule)'
    BY <2>2, <1>5 DEF Sources, Names, Histories, Placed
  <2>3. ASSUME NEW n \in DOMAIN analyses', NEW f \in Findings, analyses'[n].suppressed[f] # NoRule
        PROVE  LET rule == analyses'[n].suppressed[f] IN
               rule \in rules /\ Applies(rule, n, f, analyses'[n].versions)
    <3>1. CASE n = m
      BY <3>1, <2>3, <1>4, <1>5, <1>6
    <3>2. CASE n \in DOMAIN analyses
      BY <3>2, <2>3, <1>5 DEF Sources
    <3> QED
      BY <3>1, <3>2, <1>5
  <2> QED
    BY <2>1, <2>2, <2>3, <1>7 DEF Sources
<1> QED
  BY <1>8, <1>9, <1>10, <1>11

\* appendReview: it re-reads the newest event, so that two events that supersede
\* the same one cannot both be newer than it.
LEMMA AppendStep ==
    ASSUME ReviewInv, NEW p \in Reviewers, AppendReview(p), UNCHANGED bound
    PROVE  ReviewInv'
<1> USE DEF ReviewInv
<1> DEFINE e == session[p].event
           rule == session[p].rule
           known == \E o \in reviews : o.id = e.id
           refused == known \/ ~SupersedesLatest(e) \/ (rule # NoRule /\ RuleConflicts(rule))
<1>1. /\ session[p].pc = "checked"
      /\ reviews' = IF refused THEN reviews ELSE reviews \cup {e}
      /\ rules' = IF refused \/ rule = NoRule THEN rules ELSE rules \cup {rule}
      /\ session' = [session EXCEPT ![p] = Idle]
      /\ UNCHANGED <<clock, versions, analyses, analysis, stateEvents>>
  BY DEF AppendReview
<1>2. e \in ReviewEvent /\ rule \in Rule \cup {NoRule}
  BY <1>1 DEF ReviewShape, Idle, Begun, CheckedReview
<1>3. Placed(e) /\ (rule # NoRule => Names(e, rule))
  BY <1>1 DEF Histories, Sources
<1>4. refused \/ (~known /\ SupersedesLatest(e))
  OBVIOUS
<1> HIDE DEF e, rule, refused
<1>5. session'[p] = Idle /\ \A q \in Reviewers \ {p} : session'[q] = session[q]
  BY <1>1 DEF ReviewShape
<1>6. Idle.pc = "idle"
  BY DEF Idle
<1>7. ReviewShape'
  BY <1>1, <1>2 DEF ReviewShape
<1>8. CASE refused
  <2>1. UNCHANGED <<reviews, rules, clock, versions, analyses, analysis, bound>>
    BY <1>1, <1>8
  <2>2. Histories'
    BY <2>1, <1>5, <1>6 DEF Histories, Placed
  <2>3. ForkIsBackdated'
    BY <2>1 DEF ForkIsBackdated, Precedes
  <2>4. Sources'
    BY <2>1, <1>5, <1>6 DEF Sources, Names
  <2> QED
    BY <1>7, <2>2, <2>3, <2>4
<1>9. CASE ~refused
  <2>1. reviews' = reviews \cup {e} /\ \A o \in reviews : o.id # e.id
    BY <1>1, <1>4, <1>9
  <2>2. e.supersedes = Current(e.analysis, e.finding)
    BY <1>4, <1>9 DEF SupersedesLatest
  <2>3. e.supersedes # e.id
    <3>1. e.id # 0
      BY <1>2 DEF ReviewEvent
    <3> QED
      BY <2>1, <2>2, <3>1, CurrentIsStored
  <2>4. UNCHANGED <<clock, versions, analyses, analysis, bound>>
    BY <1>1
  <2>5. Histories'
    BY <2>1, <2>3, <2>4, <1>3, <1>5, <1>6 DEF Histories, Placed
  <2>6. ASSUME NEW o \in reviews, o.analysis = e.analysis, o.finding = e.finding,
               o.supersedes = e.supersedes
        PROVE  \E s \in reviews : s.id = e.supersedes /\ Precedes(o, s)
    <3> DEFINE E == OfOccurrence(e.analysis, e.finding)
               s == Newest(E)
    <3>1. o \in E
      BY <2>6 DEF OfOccurrence
    <3>2. s \in E /\ \A x \in E \ {s} : Precedes(x, s)
      <4>1. E # {}
        BY <3>1
      <4> QED
        BY <4>1, NewestOfOccurrence
    <3>3. e.supersedes = s.id
      BY <2>2, <3>1 DEF Current
    <3>4. s \in reviews
      BY <3>2 DEF OfOccurrence
    <3> HIDE DEF E, s
    <3>5. o # s
      BY <3>3, <2>6 DEF Histories
    <3> QED
      BY <3>1, <3>2, <3>3, <3>4, <3>5
  <2>7. ForkIsBackdated'
    <3> SUFFICES ASSUME NEW a \in reviews', NEW o \in reviews',
                        a # o, a.analysis = o.analysis, a.finding = o.finding,
                        a.supersedes = o.supersedes
                 PROVE  \E s \in reviews' : s.id = a.supersedes /\ (Precedes(a, s) \/ Precedes(o, s))
      BY DEF ForkIsBackdated, Precedes
    <3>1. CASE a = e
      BY <3>1, <2>1, <2>6
    <3>2. CASE o = e
      BY <3>2, <2>1, <2>6
    <3>3. CASE a # e /\ o # e
      BY <3>3, <2>1 DEF ForkIsBackdated
    <3> QED
      BY <3>1, <3>2, <3>3
  <2>8. Sources'
    <3>1. ASSUME NEW r \in rules' PROVE \E o \in reviews' : Names(o, r)'
      <4>1. CASE r \in rules
        BY <4>1, <2>1, <2>4 DEF Sources, Names
      <4>2. CASE r = rule /\ rule # NoRule
        BY <4>2, <1>3, <2>1, <2>4 DEF Names
      <4> QED
        BY <4>1, <4>2, <1>1
    <3>2. rules \subseteq rules'
      BY <1>1
    <3>3. ASSUME NEW q \in Reviewers, session'[q].pc = "checked", session'[q].rule # NoRule
          PROVE  Names(session[q].event, session[q].rule)'
      BY <3>3, <2>4, <1>5, <1>6 DEF Sources, Names
    <3> QED
      BY <3>1, <3>2, <3>3, <2>4 DEF Sources
  <2> QED
    BY <1>7, <2>5, <2>7, <2>8
<1> QED
  BY <1>8, <1>9

LEMMA ReviewStep ==
    ASSUME ReviewInv, [ReviewsNext]_reviewVars
    PROVE  ReviewInv'
<1>1. CASE UNCHANGED reviewVars
  BY <1>1 DEF ReviewInv, ReviewShape, Histories, ForkIsBackdated, Sources, Placed, Names, Precedes, reviewVars
<1> SUFFICES ASSUME ReviewsNext PROVE ReviewInv'
  BY <1>1
<1> USE DEF ReviewsNext
<1>2. CASE Tick
  BY <1>2, WorldStep DEF Tick, ReviewInv, ReviewShape
<1>3. CASE ListSuppressions
  BY <1>3, WorldStep DEF ListSuppressions, ReviewInv, ReviewShape, Matching
<1>4. CASE MatchSuppressions
  BY <1>4, MatchStep
<1>5. CASE AppendSuppressionState
  BY <1>5, WorldStep DEF AppendSuppressionState, ReviewInv, ReviewShape
<1>6. ASSUME NEW x \in Facets, Change(x) PROVE ReviewInv'
  BY <1>6, WorldStep DEF Change, ReviewInv, ReviewShape, VersionMap
<1>7. ASSUME NEW p \in Reviewers,
             BeginReview(p) \/ DraftReview(p) \/ ImportReview(p) \/ GiveUp(p)
      PROVE  ReviewInv'
  BY <1>7, MovesAreGood, MoveStep
<1>8. ASSUME NEW p \in Reviewers, AppendReview(p) PROVE ReviewInv'
  BY <1>8, AppendStep
<1> QED
  BY <1>2, <1>3, <1>4, <1>5, <1>6, <1>7, <1>8 DEF ReviewsStep

-----------------------------------------------------------------------------
(* Theorems of Reviews. *)

\* For any number of reviewers, findings and imports, the supersession history of
\* an occurrence forks only where an event is dated before the one it supersedes,
\* and has one first event (RecordReview.execute, appendReview).
THEOREM HistoriesForkBackdated == ReviewsSpec => []ForkIsBackdated
<1>1. ReviewsInit => ReviewInv
  BY ReviewInit
<1>2. ReviewInv /\ [ReviewsNext]_reviewVars => ReviewInv'
  BY ReviewStep
<1>3. ReviewInv => ForkIsBackdated
  BY DEF ReviewInv
<1> QED
  BY <1>1, <1>2, <1>3, PTL DEF ReviewsSpec

\* However reviews, imports, invalidations and analyses interleave, an analysis
\* suppresses a finding only by a rule that matches it, pins nothing but what the
\* analysis used and is named by a stored review, of an analysis with the same
\* versions unless imports may bring the rule (matchSuppression,
\* createSuppressionRule, RecordReview.execute, appendReview).
THEOREM SuppressionsComeFromReviews == ReviewsSpec => []SuppressedWasReviewed
<1>1. ReviewsInit => ReviewInv
  BY ReviewInit
<1>2. ReviewInv /\ [ReviewsNext]_reviewVars => ReviewInv'
  BY ReviewStep
<1>3. ReviewInv => SuppressedWasReviewed
  BY DEF ReviewInv, Sources, Names, Applies, SuppressedWasReviewed
<1> QED
  BY <1>1, <1>2, <1>3, PTL DEF ReviewsSpec

-----------------------------------------------------------------------------
(* Promotion: the gate. *)

LEMMA ActionableMetric ==
    ASSUME NEW cases, NEW s \in DOMAIN Report(cases).byStratum
    PROVE  LET metric == Report(cases).byStratum[s].actionable
           IN  /\ metric.successes = Cardinality({c \in ToCoordinate(cases, s) : Actionable(c)})
               /\ metric.total = Cardinality(ToCoordinate(cases, s))
<1> DEFINE mine == {c \in RealWorld(cases) : c.stratum = s}
           coordinated == {c \in Delivered(mine) : c.action = "coordinate"}
           complete == {c \in coordinated : c.labels.action # "indeterminate"}
           good == {c \in coordinated : Actionable(c)}
<1>1. Report(cases).byStratum[s] = MetricSet(mine)
  BY DEF Report
<1>2. MetricSet(mine).actionable = Proportion(coordinated, "action", good)
  BY DEF MetricSet
<1>3. complete = ToCoordinate(cases, s)
  BY DEF RealWorld, Delivered, ToCoordinate
<1>4. good \cap complete = {c \in ToCoordinate(cases, s) : Actionable(c)}
  BY <1>3
<1>5. /\ Proportion(coordinated, "action", good).successes = Cardinality(good \cap complete)
      /\ Proportion(coordinated, "action", good).total = Cardinality(complete)
  BY DEF Proportion
<1> HIDE DEF mine, coordinated, complete, good
<1> QED
  BY <1>1, <1>2, <1>3, <1>4, <1>5

\* Evidence with the metrics of a report passes the gate only with the actionable
\* precision it asks for in the corpus of that report.
LEMMA GateIsPrecise ==
    ASSUME NEW cases, NEW s \in DOMAIN Report(cases).byStratum, NEW evidence,
           evidence.metrics = Report(cases).byStratum[s], GateFailures(evidence) = {}
    PROVE  WilsonReaches([successes |-> Cardinality({c \in ToCoordinate(cases, s) : Actionable(c)}),
                          total |-> Cardinality(ToCoordinate(cases, s))], Gate.precision)
<1> DEFINE metric == Report(cases).byStratum[s].actionable
<1>1. WilsonReaches(metric, Gate.precision)
  BY DEF GateFailures
<1>2. /\ metric.successes = Cardinality({c \in ToCoordinate(cases, s) : Actionable(c)})
      /\ metric.total = Cardinality(ToCoordinate(cases, s))
  BY ActionableMetric
<1> QED
  BY <1>1, <1>2 DEF WilsonReaches

-----------------------------------------------------------------------------
(* Promotion: its invariant. *)

PromotionShape ==
    /\ \E R : records \in Seq(R)
    /\ \E R : corpora \in Seq(R)
    /\ decider = [p \in Deciders |-> decider[p]]

\* A stored report is of the corpus it names, as that corpus is stored.
Frozen ==
    \A revision \in DOMAIN reports :
        revision \in DOMAIN corpora /\ reports[revision] = Report(corpora[revision])

\* A promotion was decided on evidence that passes the gate.
Passed(d) == d.state = "PROMOTED" => GateFailures(d.evidence) = {}

Gated ==
    /\ \A p \in Deciders : decider[p].pc = "decided" => Passed(decider[p])
    /\ \A i \in DOMAIN records : Passed(records[i])

PromotionInv == PromotionShape /\ Frozen /\ Gated

LEMMA PromotionStart ==
    ASSUME PromotionInit
    PROVE  PromotionInv
<1>1. <<>> \in Seq({})
  OBVIOUS
<1>2. PromotionShape
  BY <1>1 DEF PromotionInit, PromotionShape
<1>3. Frozen /\ Gated
  BY DEF PromotionInit, Frozen, Gated, Undecided
<1> QED
  BY <1>2, <1>3 DEF PromotionInv

Inserted(list, r, k) == SubSeq(list, 1, k) \o <<r>> \o SubSeq(list, k + 1, Len(list))

\* Inserting a record into the list adds that record and no other.
LEMMA InsertedRecords ==
    ASSUME NEW R, NEW list \in Seq(R), NEW r \in R, NEW k \in 0 .. Len(list)
    PROVE  /\ Inserted(list, r, k) \in Seq(R)
           /\ \A i \in DOMAIN Inserted(list, r, k) :
                  \/ Inserted(list, r, k)[i] = r
                  \/ \E j \in DOMAIN list : Inserted(list, r, k)[i] = list[j]
<1> DEFINE a == SubSeq(list, 1, k)
           b == SubSeq(list, k + 1, Len(list))
<1>1. /\ a \in Seq(R) /\ Len(a) = k
      /\ \A i \in 1 .. k : a[i] = list[i]
  BY SubSeqProperties
<1>2. /\ b \in Seq(R)
      /\ \A i \in DOMAIN b : \E j \in DOMAIN list : b[i] = list[j]
  <2>1. CASE k = Len(list)
    <3>1. b = <<>>
      BY <2>1
    <3> QED
      BY <3>1
  <2>2. CASE k < Len(list)
    <3>1. /\ b \in Seq(R) /\ Len(b) = Len(list) - k
          /\ \A i \in 1 .. Len(b) : b[i] = list[k + 1 + i - 1]
      BY <2>2, SubSeqProperties
    <3>2. ASSUME NEW i \in DOMAIN b PROVE k + i \in DOMAIN list /\ b[i] = list[k + i]
      BY <3>1
    <3> QED
      BY <3>1, <3>2
  <2> QED
    BY <2>1, <2>2
<1> HIDE DEF a, b
<1> DEFINE c == a \o <<r>>
<1>3. c \in Seq(R) /\ Len(c) = k + 1 /\ c[k + 1] = r /\ \A i \in 1 .. k : c[i] = a[i]
  BY <1>1
<1> HIDE DEF c
<1>4. c \o b \in Seq(R)
  BY <1>2, <1>3
<1>5. ASSUME NEW i \in DOMAIN (c \o b)
      PROVE  (c \o b)[i] = r \/ \E j \in DOMAIN list : (c \o b)[i] = list[j]
  <2>1. CASE i <= k
    BY <2>1, <1>1, <1>2, <1>3
  <2>2. CASE i = k + 1
    BY <2>2, <1>2, <1>3
  <2>3. CASE i > k + 1
    <3>1. i - (k + 1) \in DOMAIN b /\ (c \o b)[i] = b[i - (k + 1)]
      BY <2>3, <1>2, <1>3
    <3> QED
      BY <3>1, <1>2
  <2> QED
    BY <2>1, <2>2, <2>3, <1>2, <1>3
<1> QED
  BY <1>4, <1>5 DEF a, b, c, Inserted

-----------------------------------------------------------------------------
(* The steps of Promotion keep its invariant. *)

LEMMA CorpusStep ==
    ASSUME PromotionInv, NEW drawn \in SUBSET {d.pr : d \in Drafts}, PutCorpus(drawn)
    PROVE  PromotionInv'
<1> USE DEF PromotionInv, PutCorpus
<1>1. PICK R : corpora \in Seq(R)
  BY DEF PromotionShape
<1> DEFINE cases == Manifest(drawn)
<1>2. corpora' = Append(corpora, cases)
  OBVIOUS
<1> HIDE DEF cases
<1>3. corpora \in Seq(R \cup {cases})
  BY <1>1
<1>4. /\ corpora' \in Seq(R \cup {cases})
      /\ \A i \in DOMAIN corpora : i \in DOMAIN corpora' /\ corpora'[i] = corpora[i]
  BY <1>2, <1>3
<1>5. PromotionShape'
  BY <1>4 DEF PromotionShape
<1>6. Frozen'
  BY <1>4 DEF Frozen
<1>7. Gated'
  BY DEF Gated, Passed
<1> QED
  BY <1>5, <1>6, <1>7

LEMMA EvaluateStep ==
    ASSUME PromotionInv, NEW revision \in DOMAIN corpora, Evaluate(revision)
    PROVE  PromotionInv'
<1> USE DEF PromotionInv, Evaluate
<1>1. PromotionShape' /\ Gated'
  BY DEF PromotionShape, Gated, Passed
<1>2. Frozen'
  BY DEF Frozen
<1> QED
  BY <1>1, <1>2

LEMMA DeciderStep ==
    ASSUME PromotionInv, NEW p \in Deciders, NEW d, d.pc = "decided" => Passed(d),
           decider' = [decider EXCEPT ![p] = d],
           UNCHANGED <<time, labels, corpora, reports, running, records>>
    PROVE  PromotionInv'
<1> USE DEF PromotionInv
<1>1. decider'[p] = d /\ \A q \in Deciders \ {p} : decider'[q] = decider[q]
  BY DEF PromotionShape
<1>2. PromotionShape' /\ Frozen'
  BY DEF PromotionShape, Frozen
<1>3. Gated'
  BY <1>1 DEF Gated, Passed
<1> QED
  BY <1>2, <1>3

LEMMA BeginStep ==
    ASSUME PromotionInv, NEW p \in Deciders, BeginDecision(p)
    PROVE  PromotionInv'
<1>1. PICK evidence : decider' = [decider EXCEPT ![p] = [pc |-> "begun", at |-> time, evidence |-> evidence]]
  BY DEF BeginDecision
<1> QED
  BY <1>1, DeciderStep DEF BeginDecision

LEMMA DecideStep ==
    ASSUME PromotionInv, NEW p \in Deciders, Decide(p)
    PROVE  PromotionInv'
<1> DEFINE evidence == decider[p].evidence
<1>1. PICK previous :
          decider' = [decider EXCEPT ![p] =
             [pc |-> "decided", at |-> decider[p].at, evidence |-> evidence,
              state |-> DecidedState(previous, evidence)]]
  BY DEF Decide
<1> DEFINE d == [pc |-> "decided", at |-> decider[p].at, evidence |-> evidence,
                 state |-> DecidedState(previous, evidence)]
<1>2. DecidedState(previous, evidence) = "PROMOTED" => GateFailures(evidence) = {}
  BY DEF DecidedState
<1>3. Passed(d)
  BY <1>2 DEF Passed
<1>4. decider' = [decider EXCEPT ![p] = d] /\ UNCHANGED <<time, labels, corpora, reports, running, records>>
  BY <1>1 DEF Decide
<1> HIDE DEF d
<1> QED
  BY <1>3, <1>4, DeciderStep

LEMMA AbandonStep ==
    ASSUME PromotionInv, NEW p \in Deciders, AbandonDecision(p)
    PROVE  PromotionInv'
<1>1. Undecided.pc = "idle"
  BY DEF Undecided
<1> QED
  BY <1>1, DeciderStep DEF AbandonDecision

LEMMA AppendPromotionStep ==
    ASSUME PromotionInv, NEW p \in Deciders, AppendPromotion(p)
    PROVE  PromotionInv'
<1> DEFINE d == decider[p]
           record == [at |-> d.at, evidence |-> d.evidence, state |-> d.state]
<1>1. Passed(record)
  BY DEF AppendPromotion, PromotionInv, Gated, Passed
<1>2. PICK k \in 0 .. Len(records) : records' = Inserted(records, record, k)
  BY DEF AppendPromotion, Inserted
<1> HIDE DEF record
<1>3. PICK R : records \in Seq(R)
  BY DEF PromotionInv, PromotionShape
<1>4. records \in Seq(R \cup {record})
  BY <1>3
<1>5. /\ records' \in Seq(R \cup {record})
      /\ \A i \in DOMAIN records' : records'[i] = record \/ \E j \in DOMAIN records : records'[i] = records[j]
  BY <1>2, <1>4, InsertedRecords
<1>6. /\ decider' = [decider EXCEPT ![p] = Undecided]
      /\ UNCHANGED <<time, labels, corpora, reports, running>>
  BY DEF AppendPromotion
<1>7. PromotionShape' /\ Frozen'
  BY <1>5, <1>6 DEF PromotionInv, PromotionShape, Frozen
<1>8. decider'[p].pc = "idle" /\ \A q \in Deciders \ {p} : decider'[q] = decider[q]
  BY <1>6 DEF PromotionInv, PromotionShape, Undecided
<1>9. \A i \in DOMAIN records' : Passed(records'[i])
  BY <1>1, <1>5 DEF PromotionInv, Gated
<1>10. Gated'
  BY <1>6, <1>8, <1>9 DEF PromotionInv, Gated, Passed
<1> QED
  BY <1>7, <1>10 DEF PromotionInv

LEMMA PromotionStep ==
    ASSUME PromotionInv, [PromotionNext]_promotionVars
    PROVE  PromotionInv'
<1>1. ASSUME UNCHANGED <<corpora, reports, records, decider>> PROVE PromotionInv'
  BY <1>1 DEF PromotionInv, PromotionShape, Frozen, Gated, Passed
<1>2. CASE UNCHANGED promotionVars
  BY <1>1, <1>2 DEF promotionVars
<1>3. CASE TickClock
  BY <1>1, <1>3 DEF TickClock
<1>4. ASSUME NEW d \in Drafts, NEW panel \in Panels, Adjudicate(d, panel) PROVE PromotionInv'
  BY <1>1, <1>4 DEF Adjudicate
<1>5. ASSUME NEW s \in Strata, NEW v \in Versions, Upgrade(s, v) PROVE PromotionInv'
  BY <1>1, <1>5 DEF Upgrade
<1> QED
  BY <1>2, <1>3, <1>4, <1>5, CorpusStep, EvaluateStep, BeginStep, DecideStep, AppendPromotionStep,
     AbandonStep DEF PromotionNext

\* For any corpora, panels, gate, evidence files and number of deciders, a check
\* written now shows findings only of strata whose last decision was on evidence
\* of the versions they run with that passed the gate; where that evidence is a
\* stored report's, people labelled the deliveries of its corpus actionable often
\* enough (planGitHubCheck, decidePromotion, evaluateMetricSet, appendPromotion).
THEOREM ShownFindingsAreMeasured == PromotionSpec => []ShownIsMeasured
<1>1. PromotionInit => PromotionInv
  BY PromotionStart
<1>2. PromotionInv /\ [PromotionNext]_promotionVars => PromotionInv'
  BY PromotionStep
<1>3. PromotionInv => ShownIsMeasured
  <2> SUFFICES ASSUME PromotionInv, NEW request \in Requests, NEW f \in PlannedFindings,
                      PlanGitHubCheck(request, {f}).shown # {}
               PROVE  \E i \in Latest(f.stratum) :
                          LET evidence == records[i].evidence IN
                          /\ evidence.versions = running[f.stratum]
                          /\ GateFailures(evidence) = {}
                          /\ IsReported(evidence) =>
                                 LET cases == ToCoordinate(corpora[evidence.corpus], f.stratum) IN
                                 WilsonReaches([successes |-> Cardinality({c \in cases : Actionable(c)}),
                                                total |-> Cardinality(cases)], Gate.precision)
    BY DEF ShownIsMeasured
  <2> DEFINE s == f.stratum
  <2>1. s \in Promoted(Strata)
    BY DEF PlanGitHubCheck, Shown
  <2>2. PICK i \in Latest(s) : records[i].state = "PROMOTED" /\ records[i].evidence.versions = running[s]
    BY <2>1 DEF Promoted
  <2>3. i \in DOMAIN records /\ records[i].evidence.stratum = s
    BY DEF Latest, OfStratum
  <2> DEFINE evidence == records[i].evidence
             cases == corpora[evidence.corpus]
  <2>4. GateFailures(evidence) = {}
    BY <2>2, <2>3 DEF PromotionInv, Gated, Passed
  <2>5. ASSUME IsReported(evidence)
        PROVE  WilsonReaches(
                  [successes |-> Cardinality({c \in ToCoordinate(cases, s) : Actionable(c)}),
                   total |-> Cardinality(ToCoordinate(cases, s))], Gate.precision)
    <3>1. /\ s \in DOMAIN reports[evidence.corpus].byStratum
          /\ evidence.metrics = reports[evidence.corpus].byStratum[s]
          /\ evidence.corpus \in DOMAIN reports
      BY <2>3, <2>5 DEF IsReported
    <3>2. reports[evidence.corpus] = Report(cases)
      BY <3>1 DEF PromotionInv, Frozen
    <3> HIDE DEF s, evidence, cases
    <3> QED
      BY <2>4, <3>1, <3>2, GateIsPrecise
  <2> HIDE DEF s, evidence, cases
  <2>6. i \in Latest(s) /\ evidence.versions = running[s]
    BY <2>2 DEF evidence
  <2> QED
    BY <2>4, <2>5, <2>6 DEF s, evidence, cases
<1> QED
  BY <1>1, <1>2, <1>3, PTL DEF PromotionSpec

-----------------------------------------------------------------------------
(* The local registry. *)

\* The snapshots of workspace.yaml and of the commands that are about to write it.
Admitted(snapshot) ==
    WellFormed(snapshot) /\ ValidSnapshot(snapshot) /\ OneEntryPerService(snapshot)

\* A command holds nothing, or a snapshot that was admitted.
Holds(held) ==
    \/ held = IdleCommand
    \/ held = [pc |-> held.pc, snapshot |-> held.snapshot] /\ Admitted(held.snapshot)

RegistryInv ==
    /\ config # NoSnapshot => Admitted(config)
    /\ DOMAIN command = Commands
    /\ \A c \in Commands : Holds(command[c])

\* Filtering the entries one after the other.
Filters(h, services, retained) ==
    h = [k \in 0 .. Len(services) |->
            IF k = 0 THEN <<>>
            ELSE IF services[k].repository \in retained THEN Append(h[k - 1], services[k])
            ELSE h[k - 1]]

\* The filter is defined for every list of services.
LEMMA FilterExists ==
    ASSUME NEW services, Len(services) \in Nat, NEW retained
    PROVE  \E h : Filters(h, services, retained)
<1> DEFINE N == Len(services)
           Value(h, k) == IF k = 0 THEN <<>>
                          ELSE IF services[k].repository \in retained
                               THEN Append(h[k - 1], services[k])
                          ELSE h[k - 1]
           Upto(h, n) == \A k \in 0 .. n : h[k] = Value(h, k)
           Bad == {n \in Nat : ~\E h : Upto(h, n)}
<1>1. Bad = {}
  <2> SUFFICES ASSUME Bad # {} PROVE FALSE
    OBVIOUS
  <2>1. PICK n \in Bad : \A m \in Bad : n <= m
    <3>1. Bad \in SUBSET Nat
      OBVIOUS
    <3> HIDE DEF Bad
    <3> QED
      BY <3>1, LeastNumber
  <2>2. n \in Nat /\ ~\E h : Upto(h, n)
    OBVIOUS
  <2>3. CASE n = 0
    <3> DEFINE h == [k \in 0 .. 0 |-> <<>>]
    <3>1. Upto(h, 0)
      OBVIOUS
    <3> QED
      BY <2>2, <2>3, <3>1
  <2>4. CASE n # 0
    <3>1. n - 1 \in Nat /\ n - 1 \notin Bad
      <4> HIDE DEF Bad
      <4> QED
        BY <2>1, <2>2, <2>4
    <3>2. PICK h : Upto(h, n - 1)
      BY <3>1
    <3> DEFINE g == [k \in 0 .. n |-> Value(h, k)]
    <3>3. ASSUME NEW k \in 0 .. n - 1 PROVE g[k] = h[k]
      <4>1. k \in 0 .. n
        BY <2>2
      <4>2. g[k] = Value(h, k)
        BY <4>1
      <4>3. h[k] = Value(h, k)
        BY <3>2
      <4> QED
        BY <4>2, <4>3
    <3>4. ASSUME NEW k \in 0 .. n PROVE g[k] = Value(g, k)
      <4>1. CASE k = 0
        BY <4>1
      <4>2. CASE k # 0
        <5>1. k - 1 \in 0 .. n - 1
          BY <2>2, <4>2
        <5>2. g[k - 1] = h[k - 1] /\ g[k] = Value(h, k)
          BY <3>3, <5>1
        <5> HIDE DEF g
        <5> QED
          BY <4>2, <5>2
      <4> QED
        BY <4>1, <4>2
    <3>5. Upto(g, n)
      BY <3>4
    <3> QED
      BY <2>2, <3>5
  <2> QED
    BY <2>3, <2>4
<1>2. PICK h : Upto(h, N)
  BY <1>1
<1> DEFINE f == [k \in 0 .. N |-> h[k]]
<1>3. ASSUME NEW k \in 0 .. N PROVE f[k] = Value(f, k)
  <2>1. CASE k = 0
    BY <2>1, <1>2
  <2>2. CASE k # 0
    <3>1. k - 1 \in 0 .. N
      BY <2>2
    <3>2. f[k - 1] = h[k - 1] /\ f[k] = Value(h, k)
      BY <1>2, <3>1
    <3> HIDE DEF f
    <3> QED
      BY <2>2, <3>2
  <2> QED
    BY <2>1, <2>2
<1>4. f = [k \in 0 .. N |-> Value(f, k)]
  BY <1>3
<1> QED
  BY <1>4 DEF Filters

\* What filtering keeps: entries of the retained repositories, all of them, and none
\* of an ID twice.
Kept(row, services, retained, upto) ==
    \E i \in 1 .. upto : row = services[i] /\ services[i].repository \in retained

FiltersTo(kept, services, retained, upto) ==
    /\ \A a \in 1 .. Len(kept) : Kept(kept[a], services, retained, upto)
    /\ \A i \in 1 .. upto :
           services[i].repository \in retained => \E a \in 1 .. Len(kept) : kept[a] = services[i]
    /\ \A a, b \in 1 .. Len(kept) : kept[a].id = kept[b].id => a = b

\* An entry that stays is added behind the others.
LEMMA FilterStep ==
    ASSUME NEW Rows, NEW services \in Seq(Rows), NEW retained,
           \A i, j \in 1 .. Len(services) : services[i].id = services[j].id => i = j,
           NEW k \in 1 .. Len(services), NEW kept \in Seq(Rows),
           FiltersTo(kept, services, retained, k - 1), services[k].repository \in retained
    PROVE  /\ Append(kept, services[k]) \in Seq(Rows)
           /\ FiltersTo(Append(kept, services[k]), services, retained, k)
<1> DEFINE new == Append(kept, services[k])
           n == Len(kept)
<1>1. services[k] \in Rows
  OBVIOUS
<1>2. /\ new \in Seq(Rows) /\ Len(new) = n + 1 /\ n \in Nat
      /\ \A a \in 1 .. n : new[a] = kept[a]
      /\ new[n + 1] = services[k]
  BY <1>1
<1>k. k \in Nat /\ k >= 1 /\ k - 1 \in Nat
  OBVIOUS
<1> HIDE DEF new
<1>3. ASSUME NEW a \in 1 .. Len(new) PROVE Kept(new[a], services, retained, k)
  <2>1. CASE a = n + 1
    BY <1>2, <2>1, <1>k DEF Kept
  <2>2. CASE a \in 1 .. n
    <3>1. Kept(kept[a], services, retained, k - 1)
      BY <2>2 DEF FiltersTo
    <3> QED
      BY <3>1, <1>2, <2>2, <1>k DEF Kept
  <2> QED
    BY <1>2, <2>1, <2>2
<1>4. ASSUME NEW i \in 1 .. k, services[i].repository \in retained
      PROVE  \E a \in 1 .. Len(new) : new[a] = services[i]
  <2>1. CASE i = k
    BY <1>2, <2>1
  <2>2. CASE i \in 1 .. k - 1
    <3>1. PICK a \in 1 .. n : kept[a] = services[i]
      BY <1>4, <2>2 DEF FiltersTo
    <3> QED
      BY <3>1, <1>2
  <2>3. i = k \/ i \in 1 .. k - 1
    BY <1>k
  <2> QED
    BY <2>1, <2>2, <2>3
<1>5. ASSUME NEW a \in 1 .. n PROVE kept[a].id # services[k].id
  <2>1. PICK i \in 1 .. k - 1 : kept[a] = services[i]
    BY <1>5 DEF FiltersTo, Kept
  <2>2. i \in 1 .. Len(services) /\ i # k
    BY <1>k
  <2> QED
    BY <2>1, <2>2
<1>6. ASSUME NEW a \in 1 .. Len(new), NEW b \in 1 .. Len(new), new[a].id = new[b].id
      PROVE  a = b
  <2>1. (a = n + 1 \/ a \in 1 .. n) /\ (b = n + 1 \/ b \in 1 .. n)
    BY <1>2
  <2> QED
    BY <2>1, <1>2, <1>5, <1>6 DEF FiltersTo
<1> QED
  BY <1>2, <1>3, <1>4, <1>6 DEF FiltersTo, new

\* What ServicesIn returns, for lists in which no ID occurs twice.
LEMMA ServicesInKeeps ==
    ASSUME NEW Rows, NEW services \in Seq(Rows), NEW retained,
           \A i, j \in 1 .. Len(services) : services[i].id = services[j].id => i = j
    PROVE  /\ ServicesIn(services, retained) \in Seq(Rows)
           /\ FiltersTo(ServicesIn(services, retained), services, retained, Len(services))
<1> DEFINE N == Len(services)
<1>1. N \in Nat
  OBVIOUS
<1>2. PICK h : Filters(h, services, retained) /\ ServicesIn(services, retained) = h[N]
  <2>1. ServicesIn(services, retained) = (CHOOSE h : Filters(h, services, retained))[N]
    BY DEF ServicesIn, Filters
  <2> QED
    BY <2>1, <1>1, FilterExists
<1>3. \A k \in 0 .. N : h[k] = IF k = 0 THEN <<>>
                               ELSE IF services[k].repository \in retained
                                    THEN Append(h[k - 1], services[k])
                               ELSE h[k - 1]
  BY <1>2 DEF Filters
<1> DEFINE Good(k) == h[k] \in Seq(Rows) /\ FiltersTo(h[k], services, retained, k)
           Bad == {k \in 0 .. N : ~Good(k)}
<1>4. Bad = {}
  <2> SUFFICES ASSUME Bad # {} PROVE FALSE
    OBVIOUS
  <2>1. PICK k \in Bad : \A m \in Bad : k <= m
    <3>1. Bad \in SUBSET Nat
      BY <1>1
    <3> HIDE DEF Bad
    <3> QED
      BY <3>1, LeastNumber
  <2>2. k \in 0 .. N /\ ~Good(k)
    OBVIOUS
  <2>3. CASE k = 0
    <3>1. h[0] = <<>>
      BY <1>3, <1>1
    <3>2. FiltersTo(<<>>, services, retained, 0)
      BY DEF FiltersTo
    <3> QED
      BY <2>2, <2>3, <3>1, <3>2
  <2>4. CASE k # 0
    <3>1. k - 1 \in 0 .. N /\ k \in 1 .. N /\ k - 1 \notin Bad
      <4> HIDE DEF Bad
      <4> QED
        BY <1>1, <2>1, <2>2, <2>4
    <3>2. Good(k - 1)
      BY <3>1
    <3>3. CASE services[k].repository \in retained
      <4>1. h[k] = Append(h[k - 1], services[k])
        BY <1>3, <2>2, <2>4, <3>3
      <4>2. Good(k)
        BY <3>1, <3>2, <3>3, <4>1, FilterStep
      <4> QED
        BY <2>2, <4>2
    <3>4. CASE services[k].repository \notin retained
      <4>1. h[k] = h[k - 1]
        BY <1>3, <2>2, <2>4, <3>4
      <4>2. FiltersTo(h[k - 1], services, retained, k)
        <5>1. k \in Nat /\ \A i \in 1 .. k : i = k \/ i \in 1 .. k - 1
          BY <1>1, <3>1
        <5>2. \A i \in 1 .. k - 1 : i \in 1 .. k
          BY <5>1
        <5> QED
          BY <3>2, <3>4, <5>1, <5>2 DEF FiltersTo, Kept
      <4> QED
        BY <2>2, <3>2, <4>1, <4>2
    <3> QED
      BY <3>3, <3>4
  <2> QED
    BY <2>3, <2>4
<1>5. N \in 0 .. N
  BY <1>1
<1> QED
  BY <1>2, <1>4, <1>5

\* The entries that stay are entries of the snapshot and of a retained repository.
Stay(services, snapshot, retained) ==
    /\ services \in Seq([id : ServiceIds, repository : RepositoryIds, from : Nat, until : Nat])
    /\ \A a \in DOMAIN services :
           \E i \in DOMAIN snapshot.services :
               services[a] = snapshot.services[i] /\ services[a].repository \in retained
    /\ \A i \in DOMAIN snapshot.services :
           snapshot.services[i].repository \in retained =>
               \E a \in DOMAIN services : services[a] = snapshot.services[i]
    /\ \A a, b \in DOMAIN services : services[a].id = services[b].id => a = b

LEMMA ServicesStay ==
    ASSUME NEW snapshot, Admitted(snapshot), NEW retained
    PROVE  Stay(ServicesIn(snapshot.services, retained), snapshot, retained)
<1> DEFINE rows == [id : ServiceIds, repository : RepositoryIds, from : Nat, until : Nat]
           services == ServicesIn(snapshot.services, retained)
<1>1. snapshot.services \in Seq(rows)
  BY DEF Admitted, WellFormed
<1> HIDE DEF rows
<1>2. \A i, j \in 1 .. Len(snapshot.services) :
          snapshot.services[i].id = snapshot.services[j].id => i = j
  BY <1>1 DEF Admitted, OneEntryPerService
<1>3. services \in Seq(rows)
      /\ FiltersTo(services, snapshot.services, retained, Len(snapshot.services))
  BY <1>1, <1>2, ServicesInKeeps
<1>4. DOMAIN services = 1 .. Len(services)
      /\ DOMAIN snapshot.services = 1 .. Len(snapshot.services)
  BY <1>1, <1>3
<1> HIDE DEF services
<1> QED
  BY <1>3, <1>4 DEF FiltersTo, Kept, Stay, services, rows

\* A snapshot with the services and aliases that stay is admitted by the validation,
\* if the repositories of these services are members of it.
LEMMA ReductionAdmitted ==
    ASSUME NEW snapshot, Admitted(snapshot), NEW retained, NEW reduced,
           reduced.services = ServicesIn(snapshot.services, retained),
           reduced.aliases = {alias \in snapshot.aliases :
                                 alias.service \in Ids(ToSet(reduced.services))},
           retained \cap Ids(snapshot.repositories) \subseteq Ids(reduced.repositories)
    PROVE  ServicesAdmitted(reduced) /\ AliasesAdmitted(reduced)
<1>1. Stay(reduced.services, snapshot, retained)
  BY ServicesStay
<1>2. ASSUME NEW k \in DOMAIN reduced.services
      PROVE  /\ reduced.services[k].from < reduced.services[k].until
             /\ reduced.services[k].repository \in Ids(reduced.repositories)
             /\ {i \in 1 .. k - 1 : reduced.services[i].id = reduced.services[k].id} = {}
  <2>1. PICK i \in DOMAIN snapshot.services :
            reduced.services[k] = snapshot.services[i] /\ snapshot.services[i].repository \in retained
    BY <1>1 DEF Stay
  <2>2. /\ snapshot.services[i].from < snapshot.services[i].until
        /\ snapshot.services[i].repository \in Ids(snapshot.repositories)
    BY DEF Admitted, ValidSnapshot, ServicesAdmitted
  <2>3. k \in Nat /\ \A j \in 1 .. k - 1 : j \in DOMAIN reduced.services /\ j # k
    BY <1>1 DEF Stay
  <2> QED
    BY <1>1, <2>1, <2>2, <2>3 DEF Stay
<1>3. ServicesAdmitted(reduced)
  BY <1>2 DEF ServicesAdmitted
<1>4. AliasesAdmitted(reduced)
  BY DEF Admitted, ValidSnapshot, AliasesAdmitted, ServicesOf
<1> QED
  BY <1>3, <1>4

\* A repository can always be removed.
LEMMA WithoutIsAdmitted ==
    ASSUME NEW snapshot, Admitted(snapshot), NEW name
    PROVE  Admitted(WithoutRepository(snapshot, name))
<1> DEFINE retained == {m.id : m \in {n \in snapshot.repositories : n.alias # name}}
           services == ServicesIn(snapshot.services, retained)
           repositories == {m \in snapshot.repositories : m.id \in retained}
           aliases == {alias \in snapshot.aliases : alias.service \in Ids(ToSet(services))}
           reduced == WithoutRepository(snapshot, name)
<1>1. reduced = SnapshotOf(snapshot.workspace, snapshot.sequence + 1, repositories,
                           services, aliases)
  <2>1. snapshot = SnapshotOf(snapshot.workspace, snapshot.sequence, snapshot.repositories,
                              snapshot.services, snapshot.aliases)
    BY DEF Admitted, WellFormed
  <2>2. Restricted(snapshot, retained) =
            [snapshot EXCEPT !.repositories = repositories, !.services = services,
                             !.aliases = aliases]
    BY <2>1 DEF Restricted, SnapshotOf
  <2>3. reduced = [Restricted(snapshot, retained) EXCEPT !.sequence = @ + 1]
    BY DEF WithoutRepository
  <2> HIDE DEF retained, services, repositories, aliases, reduced
  <2>4. Restricted(snapshot, retained) =
            SnapshotOf(snapshot.workspace, snapshot.sequence, repositories, services, aliases)
    BY <2>1, <2>2 DEF SnapshotOf
  <2> QED
    BY <2>3, <2>4 DEF SnapshotOf
<1>2. retained \cap Ids(snapshot.repositories) \subseteq Ids(repositories)
  BY DEF Ids
<1>3. Stay(services, snapshot, retained)
  BY ServicesStay
<1>4. repositories \subseteq snapshot.repositories /\ aliases \subseteq snapshot.aliases
  OBVIOUS
<1>a. aliases = {alias \in snapshot.aliases : alias.service \in Ids(ToSet(services))}
      /\ services = ServicesIn(snapshot.services, retained)
  OBVIOUS
<1> HIDE DEF retained, services, repositories, aliases, reduced
<1>5. /\ reduced.workspace = snapshot.workspace /\ reduced.sequence = snapshot.sequence + 1
      /\ reduced.repositories = repositories /\ reduced.services = services
      /\ reduced.aliases = aliases
  BY <1>1 DEF SnapshotOf
<1>6. snapshot.sequence \in Nat /\ IsFiniteSet(snapshot.aliases)
  BY DEF Admitted, WellFormed
<1>7. ServicesAdmitted(reduced) /\ AliasesAdmitted(reduced)
  BY <1>2, <1>5, <1>a, ReductionAdmitted
<1>8. DistinctMembers(reduced)
  BY <1>4, <1>5 DEF Admitted, ValidSnapshot, DistinctMembers
<1>9. ValidSnapshot(reduced)
  BY <1>5, <1>6, <1>7, <1>8 DEF ValidSnapshot
<1>10. OneEntryPerService(reduced)
  BY <1>3, <1>5 DEF OneEntryPerService, Stay
<1>11. IsFiniteSet(aliases)
  BY <1>4, <1>6, FS_Subset
<1>12. \A m \in repositories :
          /\ m = [id |-> m.id, alias |-> m.alias, selected |-> m.selected, consent |-> m.consent]
          /\ m.id \in RepositoryIds
  BY <1>4 DEF Admitted, WellFormed
<1>13. reduced = SnapshotOf(reduced.workspace, reduced.sequence, reduced.repositories,
                            reduced.services, reduced.aliases)
  BY <1>1, <1>5
<1>14. WellFormed(reduced)
  BY <1>3, <1>5, <1>6, <1>11, <1>12, <1>13 DEF WellFormed, Stay
<1> QED
  BY <1>9, <1>10, <1>14 DEF Admitted, reduced

\* An alias that named one service names it still in a snapshot that kept the service:
\* candidates only go, and its own entry, the only one of that ID, is active as before.
LEMMA ResolutionStays ==
    ASSUME NEW snapshot, Admitted(snapshot), NEW retained, NEW reduced,
           reduced.services = ServicesIn(snapshot.services, retained),
           reduced.aliases = {alias \in snapshot.aliases :
                                 alias.service \in Ids(ToSet(reduced.services))},
           NEW value, NEW at,
           ResolveServiceAlias(snapshot, value, at, Normalized).state = "resolved",
           NEW service \in ServicesOf(reduced),
           service.id = ResolveServiceAlias(snapshot, value, at, Normalized).service
    PROVE  ResolveServiceAlias(reduced, value, at, Normalized) =
           ResolveServiceAlias(snapshot, value, at, Normalized)
<1> DEFINE before == CandidateServices(snapshot, value, at, Normalized)
           after == CandidateServices(reduced, value, at, Normalized)
           active == {a \in snapshot.aliases :
                        /\ ActiveAt(a, at)
                        /\ \E s \in ServicesOf(snapshot) : s.id = a.service /\ ActiveAt(s, at)
                        /\ Normalized[a.value] = Normalized[value]}
<1>1. Stay(reduced.services, snapshot, retained)
  BY ServicesStay
<1>2. before = {alias.service : alias \in active}
  BY DEF CandidateServices
<1>3. IsFiniteSet(before)
  <2>1. IsFiniteSet(active)
    <3>1. IsFiniteSet(snapshot.aliases) /\ active \subseteq snapshot.aliases
      BY DEF Admitted, WellFormed
    <3> HIDE DEF active
    <3> QED
      BY <3>1, FS_Subset
  <2> DEFINE f == [a \in active |-> a.service]
  <2>2. f \in Surjection(active, before)
    <3> HIDE DEF active, before
    <3>1. \A a \in active : a.service \in before
      BY <1>2
    <3>2. \A s \in before : \E a \in active : s = a.service
      BY <1>2
    <3> QED
      BY <3>1, <3>2 DEF Surjection
  <2> HIDE DEF active, before, f
  <2> QED
    BY <2>1, <2>2, FS_Surjection
<1> HIDE DEF active
<1>4. before # {} /\ ~(Cardinality(before) > 1)
  <2>1. before # {}
    <3> SUFFICES ASSUME before = {} PROVE FALSE
      OBVIOUS
    <3>1. ResolveServiceAlias(snapshot, value, at, Normalized) = [state |-> "not_found"]
      BY DEF ResolveServiceAlias
    <3> QED
      BY <3>1
  <2>2. ASSUME Cardinality(before) > 1 PROVE FALSE
    <3>1. ResolveServiceAlias(snapshot, value, at, Normalized) =
              [state |-> "ambiguous", services |-> before]
      BY <2>1, <2>2 DEF ResolveServiceAlias
    <3> QED
      BY <3>1
  <2> QED
    BY <2>1, <2>2
<1>5. PICK x : before = {x}
  <2> HIDE DEF before
  <2>1. Cardinality(before) \in Nat /\ Cardinality(before) # 0
    BY <1>3, <1>4, FS_CardinalityType, FS_EmptySet
  <2>2. Cardinality(before) = 1
    BY <1>4, <2>1
  <2> QED
    BY <1>3, <2>2, FS_Singleton
<1>6. service.id = x
  <2>1. ResolveServiceAlias(snapshot, value, at, Normalized) =
            [state |-> "resolved", service |-> CHOOSE s \in before : TRUE]
    BY <1>4 DEF ResolveServiceAlias
  <2> HIDE DEF before
  <2> QED
    BY <1>5, <2>1
<1>7. \A s \in ServicesOf(reduced) : s \in ServicesOf(snapshot)
  BY <1>1 DEF Stay, ServicesOf, ToSet
<1>8. after \subseteq before
  BY <1>7 DEF CandidateServices
<1>9. x \in after
  <2>1. PICK a \in active : a.service = x
    BY <1>2, <1>5
  <2>2. PICK s \in ServicesOf(snapshot) : s.id = x /\ ActiveAt(s, at)
    BY <2>1 DEF active
  <2>3. s = service
    <3>1. service \in ServicesOf(snapshot)
      BY <1>7
    <3>2. PICK i \in DOMAIN snapshot.services : s = snapshot.services[i]
      BY DEF ServicesOf, ToSet
    <3>3. PICK j \in DOMAIN snapshot.services : service = snapshot.services[j]
      BY <3>1 DEF ServicesOf, ToSet
    <3>4. i = j
      BY <1>6, <2>2, <3>2, <3>3 DEF Admitted, OneEntryPerService
    <3> QED
      BY <3>2, <3>3, <3>4
  <2>4. a \in snapshot.aliases /\ ActiveAt(a, at) /\ Normalized[a.value] = Normalized[value]
    BY <2>1 DEF active
  <2>5. a \in reduced.aliases
    BY <1>6, <2>1, <2>4 DEF Ids, ServicesOf
  <2> QED
    BY <1>6, <2>1, <2>2, <2>3, <2>4, <2>5 DEF CandidateServices
<1>10. after = before
  BY <1>5, <1>8, <1>9
<1> QED
  BY <1>10 DEF ResolveServiceAlias

\* What a provider sync makes of a snapshot.
IsSynced(synced, snapshot, selection) ==
    /\ synced.sequence = snapshot.sequence + 1
    /\ synced.repositories =
           {[m EXCEPT !.selected = TRUE, !.consent = "sync"] : m \in selection}
    /\ synced.services = ServicesIn(snapshot.services, Ids(selection))
    /\ synced.aliases = {alias \in snapshot.aliases :
                            alias.service \in Ids(ToSet(synced.services))}

LEMMA SyncedFields ==
    ASSUME NEW snapshot, Admitted(snapshot), NEW selection
    PROVE  IsSynced(SyncGitHubRepositorySelection(snapshot, selection, "sync"),
                    snapshot, selection)
<1> DEFINE services == ServicesIn(snapshot.services, Ids(selection))
           repositories == {m \in snapshot.repositories : m.id \in Ids(selection)}
           aliases == {alias \in snapshot.aliases : alias.service \in Ids(ToSet(services))}
           kept == Restricted(snapshot, Ids(selection))
<1>1. snapshot = SnapshotOf(snapshot.workspace, snapshot.sequence, snapshot.repositories,
                            snapshot.services, snapshot.aliases)
  BY DEF Admitted, WellFormed
<1>2. kept = [snapshot EXCEPT !.repositories = repositories, !.services = services,
                              !.aliases = aliases]
  BY <1>1 DEF Restricted, SnapshotOf
<1> DEFINE synced == SyncGitHubRepositorySelection(snapshot, selection, "sync")
           members == {[m EXCEPT !.selected = TRUE, !.consent = "sync"] : m \in selection}
<1>3. synced = SnapshotOf(snapshot.workspace, snapshot.sequence + 1, members,
                          kept.services, kept.aliases)
  BY DEF SyncGitHubRepositorySelection
<1> HIDE DEF services, repositories, aliases, kept, synced, members
<1>4. kept.services = services /\ kept.aliases = aliases
  BY <1>1, <1>2 DEF SnapshotOf
<1>5. /\ synced.sequence = snapshot.sequence + 1 /\ synced.repositories = members
      /\ synced.services = services /\ synced.aliases = aliases
  BY <1>3, <1>4 DEF SnapshotOf
<1>6. IsSynced(synced, snapshot, selection)
  BY <1>5 DEF IsSynced, services, aliases, members
<1> QED
  BY <1>6 DEF synced

\* A provider sync that drops repositories is admitted.
LEMMA SyncedIsValid ==
    ASSUME NEW snapshot, Admitted(snapshot), NEW selection \in SUBSET snapshot.repositories
    PROVE  ValidSnapshot(SyncGitHubRepositorySelection(snapshot, selection, "sync"))
<1> DEFINE synced == SyncGitHubRepositorySelection(snapshot, selection, "sync")
           changed(m) == [m EXCEPT !.selected = TRUE, !.consent = "sync"]
           members == {changed(m) : m \in selection}
<1>1. /\ synced.sequence = snapshot.sequence + 1 /\ synced.repositories = members
      /\ synced.services = ServicesIn(snapshot.services, Ids(selection))
      /\ synced.aliases = {alias \in snapshot.aliases :
                              alias.service \in Ids(ToSet(synced.services))}
  BY SyncedFields DEF IsSynced
<1>2. \A m \in selection : changed(m).id = m.id /\ changed(m).alias = m.alias
  BY DEF Admitted, WellFormed
<1> HIDE DEF changed, synced
<1>3. Ids(members) = Ids(selection)
  BY <1>2 DEF Ids
<1>4. DistinctMembers(synced)
  BY <1>1, <1>2 DEF DistinctMembers, Admitted, ValidSnapshot
<1> HIDE DEF members
<1>5. ServicesAdmitted(synced) /\ AliasesAdmitted(synced)
  BY <1>1, <1>3, ReductionAdmitted
<1>6. snapshot.sequence \in Nat
  BY DEF Admitted, WellFormed
<1> QED
  BY <1>1, <1>4, <1>5, <1>6 DEF ValidSnapshot, synced

\* Whatever an admitted registry holds, repositories can leave it.
LEMMA AdmittedIsReducible ==
    RegistryInv => ReducedScopeIsSound
<1> SUFFICES ASSUME RegistryInv, config # NoSnapshot,
                    NEW retained \in SUBSET Ids(config.repositories)
             PROVE  LET selection == {m \in config.repositories : m.id \in retained}
                        synced == SyncGitHubRepositorySelection(config, selection, "sync")
                        resolved(snapshot, value) ==
                            ResolveServiceAlias(snapshot, value, config.sequence, Normalized)
                    IN  /\ ValidSnapshot(synced)
                        /\ \A value \in AliasValues :
                               resolved(config, value).state = "resolved" =>
                                   \A service \in ServicesOf(synced) :
                                       service.id = resolved(config, value).service =>
                                           resolved(synced, value) = resolved(config, value)
                        /\ \A m \in config.repositories :
                               ValidSnapshot(WithoutRepository(config, m.alias))
  BY DEF ReducedScopeIsSound
<1> DEFINE selection == {m \in config.repositories : m.id \in retained}
           synced == SyncGitHubRepositorySelection(config, selection, "sync")
<1>1. Admitted(config)
  BY DEF RegistryInv
<1>2. ValidSnapshot(synced)
  <2>1. selection \in SUBSET config.repositories
    OBVIOUS
  <2> HIDE DEF selection
  <2> QED
    BY <1>1, <2>1, SyncedIsValid
<1>3. IsSynced(synced, config, selection)
  BY <1>1, SyncedFields
<1> HIDE DEF selection, synced
<1>4. ASSUME NEW value \in AliasValues,
             ResolveServiceAlias(config, value, config.sequence, Normalized).state = "resolved",
             NEW service \in ServicesOf(synced),
             service.id = ResolveServiceAlias(config, value, config.sequence, Normalized).service
      PROVE  ResolveServiceAlias(synced, value, config.sequence, Normalized) =
             ResolveServiceAlias(config, value, config.sequence, Normalized)
  <2>1. /\ synced.services = ServicesIn(config.services, Ids(selection))
        /\ synced.aliases = {alias \in config.aliases :
                                alias.service \in Ids(ToSet(synced.services))}
    BY <1>3 DEF IsSynced
  <2> QED
    BY <1>1, <1>4, <2>1, ResolutionStays
<1>5. \A m \in config.repositories : ValidSnapshot(WithoutRepository(config, m.alias))
  BY <1>1, WithoutIsAdmitted DEF Admitted
<1> QED
  BY <1>2, <1>4, <1>5 DEF selection, synced

LEMMA RegistryStart ==
    LocalInit => RegistryInv
BY LocalRegistryAssumption DEF LocalInit, RegistryInv, Admitted, Holds

IsMember(m) ==
    /\ m = [id |-> m.id, alias |-> m.alias, selected |-> m.selected, consent |-> m.consent]
    /\ m.id \in RepositoryIds

\* When a snapshot put together from its parts is well formed.
LEMMA SnapshotIsWellFormed ==
    ASSUME NEW space, NEW sequence \in Nat, NEW members, \A m \in members : IsMember(m),
           NEW services \in Seq([id : ServiceIds, repository : RepositoryIds,
                                 from : Nat, until : Nat]),
           NEW aliases, IsFiniteSet(aliases)
    PROVE  WellFormed(SnapshotOf(space, sequence, members, services, aliases))
<1> DEFINE new == SnapshotOf(space, sequence, members, services, aliases)
<1>1. /\ new.workspace = space /\ new.sequence = sequence /\ new.repositories = members
      /\ new.services = services /\ new.aliases = aliases
  BY DEF SnapshotOf
<1>2. new = SnapshotOf(new.workspace, new.sequence, new.repositories, new.services, new.aliases)
  BY <1>1
<1> HIDE DEF new
<1>3. WellFormed(new)
  BY <1>1, <1>2 DEF WellFormed, IsMember
<1> QED
  BY <1>3 DEF new

\* The parts of an admitted snapshot.
LEMMA AdmittedFields ==
    ASSUME NEW snapshot, Admitted(snapshot)
    PROVE  /\ snapshot = SnapshotOf(snapshot.workspace, snapshot.sequence, snapshot.repositories,
                                    snapshot.services, snapshot.aliases)
           /\ snapshot.sequence \in Nat /\ snapshot.sequence + 1 \in Nat
           /\ \A m \in snapshot.repositories : IsMember(m)
           /\ snapshot.services \in Seq([id : ServiceIds, repository : RepositoryIds,
                                         from : Nat, until : Nat])
           /\ IsFiniteSet(snapshot.aliases)
BY DEF Admitted, WellFormed, IsMember

\* reverb init.
LEMMA InitialIsAdmitted ==
    ASSUME NEW space, NEW r \in RepositoryIds, NEW name
    PROVE  Admitted(InitialSnapshot(space, r, name))
<1> DEFINE new == InitialSnapshot(space, r, name)
           member == [id |-> r, alias |-> name, selected |-> TRUE, consent |-> "local-default-v1"]
<1>1. new = SnapshotOf(space, 1, {member}, <<>>, {})
  BY DEF InitialSnapshot
<1>2. IsMember(member)
  BY DEF IsMember
<1> HIDE DEF new, member
<1>3. /\ new.workspace = space /\ new.sequence = 1 /\ new.repositories = {member}
      /\ new.services = <<>> /\ new.aliases = {}
  BY <1>1 DEF SnapshotOf
<1>4. DOMAIN new.services = {}
  BY <1>3
<1>5. WellFormed(new)
  <2>1. <<>> \in Seq([id : ServiceIds, repository : RepositoryIds, from : Nat, until : Nat])
    OBVIOUS
  <2>2. IsFiniteSet({})
    BY FS_EmptySet
  <2>3. 1 \in Nat /\ \A m \in {member} : IsMember(m)
    BY <1>2
  <2> QED
    BY <1>1, <2>1, <2>2, <2>3, SnapshotIsWellFormed
<1>6. ValidSnapshot(new)
  BY <1>3, <1>4 DEF ValidSnapshot, DistinctMembers, ServicesAdmitted, AliasesAdmitted
<1>7. OneEntryPerService(new)
  BY <1>4 DEF OneEntryPerService
<1> QED
  BY <1>5, <1>6, <1>7 DEF Admitted, new

\* reverb workspace add.
LEMMA WithRepositoryAdmitted ==
    ASSUME NEW snapshot, Admitted(snapshot), NEW r \in RepositoryIds, NEW name, NEW c,
           ValidSnapshot(WithRepository(snapshot, r, name, c))
    PROVE  Admitted(WithRepository(snapshot, r, name, c))
<1> DEFINE new == WithRepository(snapshot, r, name, c)
           member == [id |-> r, alias |-> name, selected |-> TRUE, consent |-> c]
<1>1. snapshot = SnapshotOf(snapshot.workspace, snapshot.sequence, snapshot.repositories,
                            snapshot.services, snapshot.aliases)
  BY AdmittedFields
<1>2. new = [snapshot EXCEPT !.sequence = @ + 1, !.repositories = @ \cup {member}]
  BY DEF WithRepository
<1>3. IsMember(member)
  BY DEF IsMember
<1>v. ValidSnapshot(new)
  OBVIOUS
<1> HIDE DEF new, member
<1>4. new = SnapshotOf(snapshot.workspace, snapshot.sequence + 1,
                       snapshot.repositories \cup {member}, snapshot.services, snapshot.aliases)
  BY <1>1, <1>2 DEF SnapshotOf
<1>5. /\ new.workspace = snapshot.workspace /\ new.sequence = snapshot.sequence + 1
      /\ new.repositories = snapshot.repositories \cup {member}
      /\ new.services = snapshot.services /\ new.aliases = snapshot.aliases
  BY <1>4 DEF SnapshotOf
<1>6. WellFormed(new)
  <2>1. \A m \in snapshot.repositories \cup {member} : IsMember(m)
    BY <1>3, AdmittedFields
  <2> QED
    BY <1>4, <2>1, AdmittedFields, SnapshotIsWellFormed
<1>7. OneEntryPerService(new)
  BY <1>5 DEF OneEntryPerService, Admitted
<1> QED
  BY <1>v, <1>6, <1>7 DEF Admitted, new

\* reverb registry service-add, which refuses the ID of another service.
LEMMA WithServiceAdmitted ==
    ASSUME NEW snapshot, Admitted(snapshot), NEW service \in ServiceIds \ Ids(ServicesOf(snapshot)),
           NEW m \in snapshot.repositories, ValidSnapshot(WithService(snapshot, service, m.id))
    PROVE  Admitted(WithService(snapshot, service, m.id))
<1> DEFINE new == WithService(snapshot, service, m.id)
           rows == [id : ServiceIds, repository : RepositoryIds, from : Nat, until : Nat]
           row == [id |-> service, repository |-> m.id, from |-> snapshot.sequence,
                   until |-> Forever]
<1>1. snapshot = SnapshotOf(snapshot.workspace, snapshot.sequence, snapshot.repositories,
                            snapshot.services, snapshot.aliases)
  BY AdmittedFields
<1>2. new = [snapshot EXCEPT !.sequence = @ + 1, !.services = Append(@, row)]
  BY DEF WithService
<1>3. row.id = service /\ row \in rows /\ snapshot.services \in Seq(rows)
  BY LocalRegistryAssumption DEF Admitted, WellFormed
<1>v. ValidSnapshot(new)
  OBVIOUS
<1>r. rows = [id : ServiceIds, repository : RepositoryIds, from : Nat, until : Nat]
  OBVIOUS
<1> HIDE DEF new, row, rows
<1>4. new = SnapshotOf(snapshot.workspace, snapshot.sequence + 1, snapshot.repositories,
                       Append(snapshot.services, row), snapshot.aliases)
  BY <1>1, <1>2 DEF SnapshotOf
<1>5. /\ new.workspace = snapshot.workspace /\ new.sequence = snapshot.sequence + 1
      /\ new.repositories = snapshot.repositories
      /\ new.services = Append(snapshot.services, row) /\ new.aliases = snapshot.aliases
  BY <1>4 DEF SnapshotOf
<1>6. Append(snapshot.services, row) \in Seq(rows)
  BY <1>3
<1>7. WellFormed(new)
  BY <1>4, <1>6, <1>r, AdmittedFields, SnapshotIsWellFormed
<1>8. OneEntryPerService(new)
  <2> DEFINE n == Len(snapshot.services)
  <2>1. /\ n \in Nat /\ DOMAIN new.services = 1 .. n + 1
        /\ \A i \in 1 .. n : new.services[i] = snapshot.services[i]
        /\ new.services[n + 1] = row /\ DOMAIN snapshot.services = 1 .. n
    BY <1>3, <1>5
  <2>2. \A i \in 1 .. n : snapshot.services[i].id # service
    BY <2>1 DEF Ids, ServicesOf, ToSet
  <2>3. \A i, j \in 1 .. n : snapshot.services[i].id = snapshot.services[j].id => i = j
    BY <2>1 DEF Admitted, OneEntryPerService
  <2>4. \A i \in DOMAIN new.services : i = n + 1 \/ i \in 1 .. n
    BY <2>1
  <2> QED
    BY <1>3, <2>1, <2>2, <2>3, <2>4 DEF OneEntryPerService
<1> QED
  BY <1>v, <1>7, <1>8 DEF Admitted, new

\* reverb registry alias-add.
LEMMA WithServiceAliasAdmitted ==
    ASSUME NEW snapshot, Admitted(snapshot), NEW service, NEW value,
           ValidSnapshot(WithServiceAlias(snapshot, service, value))
    PROVE  Admitted(WithServiceAlias(snapshot, service, value))
<1> DEFINE new == WithServiceAlias(snapshot, service, value)
           alias == [service |-> service, value |-> value, from |-> snapshot.sequence,
                     until |-> Forever]
<1>1. snapshot = SnapshotOf(snapshot.workspace, snapshot.sequence, snapshot.repositories,
                            snapshot.services, snapshot.aliases)
  BY AdmittedFields
<1>2. new = [snapshot EXCEPT !.sequence = @ + 1, !.aliases = @ \cup {alias}]
  BY DEF WithServiceAlias
<1>v. ValidSnapshot(new)
  OBVIOUS
<1> HIDE DEF new, alias
<1>3. new = SnapshotOf(snapshot.workspace, snapshot.sequence + 1, snapshot.repositories,
                       snapshot.services, snapshot.aliases \cup {alias})
  BY <1>1, <1>2 DEF SnapshotOf
<1>4. /\ new.workspace = snapshot.workspace /\ new.sequence = snapshot.sequence + 1
      /\ new.repositories = snapshot.repositories /\ new.services = snapshot.services
      /\ new.aliases = snapshot.aliases \cup {alias}
  BY <1>3 DEF SnapshotOf
<1>5. IsFiniteSet(snapshot.aliases \cup {alias})
  BY FS_AddElement DEF Admitted, WellFormed
<1>6. WellFormed(new)
  BY <1>3, <1>5, AdmittedFields, SnapshotIsWellFormed
<1>7. OneEntryPerService(new)
  BY <1>4 DEF OneEntryPerService, Admitted
<1> QED
  BY <1>v, <1>6, <1>7 DEF Admitted, new

\* Every snapshot a command derives from an admitted one is admitted.
LEMMA DerivedIsAdmitted ==
    ASSUME NEW snapshot, Admitted(snapshot), NEW c, NEW draft \in Derived(snapshot, c)
    PROVE  Admitted(draft)
<1>1. /\ ValidSnapshot(draft)
      /\ \/ \E r \in RepositoryIds, name \in MemberAliases :
                draft = WithRepository(snapshot, r, name, c)
         \/ \E name \in {m.alias : m \in snapshot.repositories} :
                draft = WithoutRepository(snapshot, name)
         \/ \E service \in ServiceIds \ Ids(ServicesOf(snapshot)), m \in snapshot.repositories :
                draft = WithService(snapshot, service, m.id)
         \/ \E service \in Ids(ServicesOf(snapshot)), value \in AliasValues :
                draft = WithServiceAlias(snapshot, service, value)
  BY DEF Derived
<1> QED
  BY <1>1, WithRepositoryAdmitted, WithoutIsAdmitted, WithServiceAdmitted,
     WithServiceAliasAdmitted

\* Each step of a command, and a crash after it, keeps RegistryInv.
LEMMA RegistryStep ==
    RegistryInv /\ [LocalNext]_local => RegistryInv'
<1> SUFFICES ASSUME RegistryInv, [LocalNext]_local PROVE RegistryInv'
  OBVIOUS
<1>1. CASE UNCHANGED local
  BY <1>1 DEF local, RegistryInv, Holds
<1>2. ASSUME NEW c \in Commands, Initialize(c) PROVE RegistryInv'
  <2>1. PICK space \in Workspaces, r \in RepositoryIds, name \in MemberAliases :
            command' = [command EXCEPT ![c] =
                           [pc |-> "drafted", snapshot |-> InitialSnapshot(space, r, name)]]
    BY <1>2 DEF Initialize
  <2>2. Admitted(InitialSnapshot(space, r, name))
    BY InitialIsAdmitted
  <2> QED
    BY <1>2, <2>1, <2>2 DEF Initialize, files, RegistryInv, Holds
<1>3. ASSUME NEW c \in Commands, Mutate(c) PROVE RegistryInv'
  <2>1. PICK draft \in Derived(config, c) :
            command' = [command EXCEPT ![c] = [pc |-> "drafted", snapshot |-> draft]]
    BY <1>3 DEF Mutate
  <2>2. Admitted(draft)
    BY <1>3, DerivedIsAdmitted DEF Mutate, RegistryInv
  <2> QED
    BY <1>3, <2>1, <2>2 DEF Mutate, files, RegistryInv, Holds
<1>4. ASSUME NEW c \in Commands, Reload(c) PROVE RegistryInv'
  BY <1>4 DEF Reload, files, RegistryInv, Holds
\* The other steps keep the snapshot a command holds; a write puts it in place.
<1>5. ASSUME NEW c \in Commands, ~At(c, "idle"), NEW pc, Step(c, pc),
             config' \in {config, command[c].snapshot}
      PROVE  RegistryInv'
  <2>1. command[c] = [pc |-> command[c].pc, snapshot |-> command[c].snapshot]
        /\ Admitted(command[c].snapshot)
    BY <1>5 DEF RegistryInv, Holds, At, IdleCommand
  <2>2. command' = [command EXCEPT ![c] = [pc |-> pc, snapshot |-> command[c].snapshot]]
    <3>1. [command[c] EXCEPT !.pc = pc] = [pc |-> pc, snapshot |-> command[c].snapshot]
      BY <2>1
    <3>2. command' = [command EXCEPT ![c] = [command[c] EXCEPT !.pc = pc]]
      BY <1>5 DEF Step
    <3> QED
      BY <3>1, <3>2
  <2> QED
    BY <1>5, <2>1, <2>2 DEF RegistryInv, Holds
<1>6. ASSUME NEW c \in Commands,
             WriteHistory(c) \/ WriteConfig(c) \/ PutSnapshot(c) \/ Crash(c)
      PROVE  RegistryInv'
  <2>1. ~At(c, "idle") /\ config' \in {config, command[c].snapshot}
    BY <1>6 DEF WriteHistory, WriteConfig, PutSnapshot, Crash, At, files
  <2>2. Step(c, "recorded") \/ Step(c, "written") \/ Step(c, "done")
    BY <1>6 DEF WriteHistory, WriteConfig, PutSnapshot, Crash
  <2> QED
    BY <1>5, <2>1, <2>2
<1> QED
  BY <1>1, <1>2, <1>3, <1>4, <1>6 DEF LocalNext

\* ReducedScopeIsSound for any number of commands, crashes and revisions of a
\* workspace.yaml: removeRepository and syncGitHubRepositorySelection always find a
\* snapshot that createRegistrySnapshot admits, and no alias of a service that stays
\* comes to mean something else.
THEOREM RepositoriesCanAlwaysLeave == LocalSpec => []ReducedScopeIsSound
<1>1. LocalInit => RegistryInv
  BY RegistryStart
<1>2. RegistryInv /\ [LocalNext]_local => RegistryInv'
  BY RegistryStep
<1>3. RegistryInv => ReducedScopeIsSound
  BY AdmittedIsReducible
<1> QED
  BY <1>1, <1>2, <1>3, PTL DEF LocalSpec

-----------------------------------------------------------------------------
(* TransitiveImpact. *)

Valid == {l \in links : l.valid}

\* The edges that may follow a path.
Onward(path) == {l \in Adjacent(EndOf(path)) : l.consumer \notin Visited(path)}

\* A path starts with another, and goes on.
Begins(front, path) ==
    Len(front) < Len(path) /\ \A i \in 1 .. Len(front) : front[i] = path[i]

QueueIsSimple ==
    \A i \in 1 .. Len(queue) :
        queue[i] \in SimplePaths(Len(queue[i])) /\ Len(queue[i]) <= MaximumDepth

CandidatesAreSimple ==
    \A key \in DOMAIN candidates :
        /\ key[2] \in 2 .. MaximumDepth /\ key = KeyOfPath(candidates[key])
        /\ candidates[key] \in SimplePaths(key[2])

\* A path that has no candidate of its key yet is still to be found, from a path that
\* it starts with.
NothingIsMissed ==
    \A n \in 2 .. MaximumDepth : \A path \in SimplePaths(n) :
        \/ KeyOfPath(path) \in DOMAIN candidates
        \/ \E i \in 1 .. Len(queue) : Begins(queue[i], path)

WalkInv ==
    /\ links \in Links /\ depth \in Depths /\ queue \in Seq(Seq(Valid))
    /\ QueueIsSimple /\ CandidatesAreSimple /\ NothingIsMissed

\* The place of an edge among others, by ID, counts the edges up to it.
LEMMA OrderById ==
    ASSUME links \in Links, NEW edges \in SUBSET links
    PROVE  /\ Cardinality(edges) \in Nat
           /\ ById(edges) \in Bijection(1 .. Cardinality(edges), edges)
<1> DEFINE n == Cardinality(edges)
           upTo(l) == {m \in edges : m.id <= l.id}
           place == [l \in edges |-> Cardinality(upTo(l))]
           order == Inverse(place, edges, 1 .. n)
<1>1. IsFiniteSet(edges) /\ n \in Nat
  BY TransitiveAssumption, FS_Subset, FS_CardinalityType
<1>2. \A l \in edges : l.id \in Nat
  BY TransitiveAssumption
<1>3. \A a, b \in edges : a.id = b.id => a = b
  BY TransitiveAssumption
<1>4. ASSUME NEW l \in edges
      PROVE  /\ IsFiniteSet(upTo(l)) /\ Cardinality(upTo(l)) \in 1 .. n
  <2>1. upTo(l) \in SUBSET edges /\ l \in upTo(l)
    BY <1>2
  <2>2. IsFiniteSet(upTo(l)) /\ Cardinality(upTo(l)) <= n /\ Cardinality(upTo(l)) \in Nat
    BY <1>1, <2>1, FS_Subset, FS_CardinalityType
  <2>3. Cardinality(upTo(l)) # 0
    BY <2>1, <2>2, FS_EmptySet
  <2> QED
    BY <2>2, <2>3, <1>1
<1>5. ASSUME NEW a \in edges, NEW b \in edges, a.id < b.id
      PROVE  Cardinality(upTo(a)) < Cardinality(upTo(b))
  <2>1. upTo(a) \in SUBSET upTo(b) /\ b \in upTo(b) /\ b \notin upTo(a)
    BY <1>2, <1>5
  <2>2. IsFiniteSet(upTo(b)) /\ Cardinality(upTo(b)) \in 1 .. n /\ Cardinality(upTo(a)) \in 1 .. n
    BY <1>4
  <2>3. upTo(a) # upTo(b)
    BY <2>1
  <2> HIDE DEF upTo, n
  <2>4. Cardinality(upTo(a)) <= Cardinality(upTo(b)) /\ Cardinality(upTo(a)) # Cardinality(upTo(b))
    BY <2>1, <2>2, <2>3, FS_Subset
  <2> QED
    BY <2>2, <2>4, <1>1
<1>6. /\ place \in [edges -> 1 .. n]
      /\ \A l \in edges : place[l] = Cardinality(upTo(l))
  <2> HIDE DEF upTo, n
  <2> QED
    BY <1>4
<1> HIDE DEF place, upTo, n
<1>7. \A a, b \in edges : a.id < b.id => place[a] < place[b]
  BY <1>5, <1>6
<1>8. \A a, b \in edges : place[a] = place[b] => a = b
  <2> SUFFICES ASSUME NEW a \in edges, NEW b \in edges, a # b PROVE place[a] # place[b]
    OBVIOUS
  <2>1. a.id < b.id \/ b.id < a.id
    BY <1>2, <1>3
  <2>2. place[a] \in Nat /\ place[b] \in Nat
    BY <1>1, <1>6
  <2> QED
    BY <2>1, <2>2, <1>7
<1>9. place \in Injection(edges, 1 .. n)
  BY <1>6, <1>8 DEF Injection, IsInjective
<1>10. IsFiniteSet(1 .. n) /\ Cardinality(1 .. n) = n
  BY <1>1, FS_Interval
<1>11. place \in Surjection(edges, 1 .. n)
  <2>1. Cardinality(edges) = Cardinality(1 .. n)
    BY <1>10 DEF n
  <2> QED
    BY <1>9, <1>10, <2>1, FS_Injection
<1>12. place \in Bijection(edges, 1 .. n)
  BY <1>9, <1>11 DEF Bijection
<1>13. order \in Bijection(1 .. n, edges) /\ \A l \in edges : order[place[l]] = l
  BY <1>12, Fun_BijInverse
<1> HIDE DEF order
<1>14. order \in [1 .. n -> edges]
  BY <1>13, Fun_BijectionProperties
<1>15. \A k \in 1 .. n : place[order[k]] = k
  <2> SUFFICES ASSUME NEW k \in 1 .. n PROVE place[order[k]] = k
    OBVIOUS
  <2>1. PICK l \in edges : place[l] = k
    BY <1>11 DEF Surjection
  <2> QED
    BY <2>1, <1>13
<1>16. ASSUME NEW i \in DOMAIN order, NEW j \in DOMAIN order, i < j
       PROVE  order[i].id < order[j].id
  <2>1. /\ i \in 1 .. n /\ j \in 1 .. n /\ order[i] \in edges /\ order[j] \in edges
        /\ place[order[i]] = i /\ place[order[j]] = j
    BY <1>14, <1>15
  <2>2. order[i] # order[j] /\ ~(order[j].id < order[i].id)
    BY <2>1, <1>1, <1>7, <1>16
  <2>3. order[i].id # order[j].id
    BY <2>1, <2>2, <1>3
  <2> QED
    BY <2>1, <2>2, <2>3, <1>2
<1>17. \E s \in Bijection(1 .. n, edges) : \A i, j \in DOMAIN s : i < j => s[i].id < s[j].id
  BY <1>13, <1>16
<1> QED
  BY <1>1, <1>17 DEF ById, n

\* The extensions of a path are the path with an edge more.
LEMMA ExtensionsOf ==
    ASSUME links \in Links, NEW path \in Seq(Valid)
    PROVE  /\ Extensions(path) \in Seq(Seq(Valid))
           /\ \A k \in 1 .. Len(Extensions(path)) :
                  \E l \in Onward(path) : Extensions(path)[k] = Append(path, l)
           /\ \A l \in Onward(path) :
                  \E k \in 1 .. Len(Extensions(path)) : Extensions(path)[k] = Append(path, l)
<1> DEFINE next == ById(Onward(path))
           n == Cardinality(Onward(path))
<1>1. Onward(path) \in SUBSET links /\ Onward(path) \subseteq Valid
  BY DEF Onward, Adjacent, Valid
<1>2. n \in Nat /\ next \in Bijection(1 .. n, Onward(path))
  BY <1>1, OrderById
<1>3. Extensions(path) = [k \in DOMAIN next |-> Append(path, next[k])]
  BY DEF Extensions, Onward
<1> HIDE DEF next, n
<1>4. next \in [1 .. n -> Onward(path)] /\ \A l \in Onward(path) : \E k \in 1 .. n : next[k] = l
  BY <1>2, Fun_BijectionProperties
<1>5. Extensions(path) = [k \in 1 .. n |-> Append(path, next[k])]
  BY <1>3, <1>4
<1>6. \A k \in 1 .. n : next[k] \in Onward(path) /\ Append(path, next[k]) \in Seq(Valid)
  BY <1>1, <1>4, AppendProperties
<1>7. Extensions(path) \in [1 .. n -> Seq(Valid)]
  BY <1>5, <1>6
<1>8. Extensions(path) \in Seq(Seq(Valid)) /\ Len(Extensions(path)) = n
  BY <1>2, <1>7
<1>9. \A k \in 1 .. n : Extensions(path)[k] = Append(path, next[k])
  BY <1>5
<1>10. \A k \in 1 .. n : \E l \in Onward(path) : Extensions(path)[k] = Append(path, l)
  BY <1>6, <1>9
<1>11. \A l \in Onward(path) : \E k \in 1 .. n : Extensions(path)[k] = Append(path, l)
  BY <1>4, <1>9
<1> QED
  BY <1>8, <1>10, <1>11

\* A simple path is a sequence of valid edges.
LEMMA SimpleIsSeq ==
    ASSUME NEW n \in Nat, NEW path \in SimplePaths(n)
    PROVE  path \in Seq(Valid) /\ Len(path) = n
BY DEF SimplePaths, Valid

\* Where a simple path ends, and what it visits.
LEMMA SimpleVisits ==
    ASSUME NEW path \in Seq(Valid)
    PROVE  /\ EndOf(path) = IF Len(path) = 0 THEN Origin ELSE path[Len(path)].consumer
           /\ \A x : x \in Visited(path) <=>
                  x = Origin \/ \E k \in 1 .. Len(path) : path[k].consumer = x
<1>1. DOMAIN path = 1 .. Len(path) /\ (path = <<>> <=> Len(path) = 0)
  OBVIOUS
<1> QED
  BY <1>1 DEF EndOf, Last, Visited

\* The loop's check of the repositories on the path keeps paths simple.
LEMMA ExtendedIsSimple ==
    ASSUME NEW path \in Seq(Valid), path \in SimplePaths(Len(path)), NEW l \in Onward(path)
    PROVE  Append(path, l) \in SimplePaths(Len(path) + 1)
<1> DEFINE n == Len(path)
           longer == Append(path, l)
<1>1. n \in Nat /\ l \in Valid /\ l.producer = EndOf(path) /\ l.consumer \notin Visited(path)
  BY DEF Onward, Adjacent, Valid
<1>2. /\ longer \in Seq(Valid) /\ Len(longer) = n + 1
      /\ \A i \in 1 .. n : longer[i] = path[i] /\ longer[n + 1] = l
  BY <1>1, AppendProperties
<1>3. longer \in Seq(Valid) /\ Len(longer) = n + 1 /\ longer[n + 1] = l
  BY <1>1, AppendProperties
<1> HIDE DEF longer
<1>4. longer \in [1 .. n + 1 -> Valid]
  BY <1>3
<1>5. ASSUME NEW k \in 1 .. n + 1
      PROVE  /\ longer[k].producer = IF k = 1 THEN Origin ELSE longer[k - 1].consumer
             /\ longer[k].consumer # Origin
             /\ \A j \in 1 .. k - 1 : longer[j].consumer # longer[k].consumer
  <2>1. CASE k \in 1 .. n
    <3>1. /\ path[k].producer = IF k = 1 THEN Origin ELSE path[k - 1].consumer
          /\ path[k].consumer # Origin
          /\ \A j \in 1 .. k - 1 : path[j].consumer # path[k].consumer
      BY <2>1 DEF SimplePaths
    <3>2. longer[k] = path[k] /\ (k # 1 => longer[k - 1] = path[k - 1])
          /\ \A j \in 1 .. k - 1 : longer[j] = path[j]
      BY <2>1, <1>1, <1>2
    <3> QED
      BY <3>1, <3>2
  <2>2. CASE k = n + 1
    <3>1. longer[k] = l /\ (k # 1 => longer[k - 1] = path[n])
          /\ \A j \in 1 .. k - 1 : longer[j] = path[j] /\ j \in 1 .. Len(path)
      BY <2>2, <1>1, <1>2, <1>3
    <3>2. l.producer = IF k = 1 THEN Origin ELSE path[n].consumer
      BY <2>2, <1>1, SimpleVisits
    <3>3. l.consumer # Origin /\ \A j \in 1 .. Len(path) : path[j].consumer # l.consumer
      BY <1>1, SimpleVisits
    <3> QED
      BY <3>1, <3>2, <3>3
  <2> QED
    BY <2>1, <2>2, <1>1
<1>6. longer \in SimplePaths(n + 1)
  BY <1>4, <1>5 DEF SimplePaths, Valid
<1> QED
  BY <1>6 DEF longer

\* The next edge of a simple path is one the loop takes from its start.
LEMMA NextIsOnward ==
    ASSUME NEW n \in Nat, NEW path \in SimplePaths(n), NEW front \in Seq(Valid), Begins(front, path)
    PROVE  /\ path[Len(front) + 1] \in Onward(front)
           /\ \/ Begins(Append(front, path[Len(front) + 1]), path)
              \/ Append(front, path[Len(front) + 1]) = path
<1> DEFINE m == Len(front)
           l == path[m + 1]
           longer == Append(front, l)
<1>1. path \in Seq(Valid) /\ Len(path) = n
  BY SimpleIsSeq
<1>2. m \in Nat /\ m < n /\ \A i \in 1 .. m : front[i] = path[i]
  BY <1>1 DEF Begins
<1>3. /\ l \in Valid /\ l.producer = IF m = 0 THEN Origin ELSE path[m].consumer
      /\ l.consumer # Origin
      /\ \A j \in 1 .. m : path[j].consumer # l.consumer
  <2>1. m + 1 \in 1 .. n /\ (m + 1) - 1 = m /\ (m + 1 = 1 <=> m = 0)
    BY <1>2
  <2>2. l \in Valid
    BY <2>1, <1>1
  <2>3. /\ l.producer = IF m + 1 = 1 THEN Origin ELSE path[(m + 1) - 1].consumer
        /\ l.consumer # Origin
        /\ \A j \in 1 .. (m + 1) - 1 : path[j].consumer # l.consumer
    BY <2>1 DEF SimplePaths
  <2> QED
    BY <2>1, <2>2, <2>3
<1>4. l \in Onward(front)
  <2>1. l.producer = EndOf(front)
    BY <1>2, <1>3, SimpleVisits
  <2>2. l.consumer \notin Visited(front)
    BY <1>2, <1>3, SimpleVisits
  <2> QED
    BY <2>1, <2>2, <1>3 DEF Onward, Adjacent, Valid
<1>5. /\ longer \in Seq(Valid) /\ Len(longer) = m + 1 /\ longer[m + 1] = l
      /\ \A i \in 1 .. m : longer[i] = front[i]
  BY <1>3, AppendProperties
<1>6. l = path[m + 1]
  OBVIOUS
<1> HIDE DEF longer, l
<1>7. \A i \in 1 .. m + 1 : longer[i] = path[i]
  BY <1>2, <1>5, <1>6
<1>8. CASE m + 1 = n
  <2>1. longer = path
    BY <1>1, <1>2, <1>5, <1>7, <1>8, SeqEqual
  <2> QED
    BY <2>1, <1>4 DEF longer, l
<1>9. CASE m + 1 # n
  <2>1. Begins(longer, path)
    BY <1>1, <1>2, <1>5, <1>7, <1>9 DEF Begins
  <2> QED
    BY <2>1, <1>4 DEF longer, l
<1> QED
  BY <1>8, <1>9

\* The first path of a key is kept, and every key of two edges or more has one.
LEMMA ReportedFirst ==
    ASSUME NEW found, NEW paths \in Seq(Seq(Valid))
    PROVE  /\ DOMAIN found \subseteq DOMAIN Reported(found, paths)
           /\ \A key \in DOMAIN found : Reported(found, paths)[key] = found[key]
           /\ \A k \in 1 .. Len(paths) :
                  Len(paths[k]) >= 2 => KeyOfPath(paths[k]) \in DOMAIN Reported(found, paths)
           /\ \A key \in DOMAIN Reported(found, paths) \ DOMAIN found :
                  \E k \in 1 .. Len(paths) :
                      /\ Len(paths[k]) >= 2 /\ key = KeyOfPath(paths[k])
                      /\ Reported(found, paths)[key] = paths[k]
<1> DEFINE keys == {KeyOfPath(paths[k]) : k \in {i \in DOMAIN paths : Len(paths[i]) >= 2}}
           first(key) == CHOOSE k \in DOMAIN paths :
                             /\ KeyOfPath(paths[k]) = key
                             /\ \A j \in 1 .. k - 1 : KeyOfPath(paths[j]) # key
<1>1. Reported(found, paths) = [key \in DOMAIN found \cup keys |->
          IF key \in DOMAIN found THEN found[key] ELSE paths[first(key)]]
  BY DEF Reported
<1>2. DOMAIN paths = 1 .. Len(paths) /\ Len(paths) \in Nat
  OBVIOUS
<1>3. ASSUME NEW key \in keys
      PROVE  /\ first(key) \in 1 .. Len(paths) /\ KeyOfPath(paths[first(key)]) = key
             /\ Len(paths[first(key)]) >= 2
  <2> DEFINE S == {i \in 1 .. Len(paths) : KeyOfPath(paths[i]) = key}
  <2>1. PICK k \in 1 .. Len(paths) : KeyOfPath(paths[k]) = key /\ Len(paths[k]) >= 2
    BY <1>2, <1>3
  <2>2. S # {} /\ S \in SUBSET Nat
    BY <2>1
  <2>3. PICK least \in S : \A y \in S : least <= y
    BY <2>2, LeastNumber
  <2>4. \A j \in 1 .. least - 1 : KeyOfPath(paths[j]) # key
    BY <2>3, <1>2
  <2>5. \E i \in DOMAIN paths : /\ KeyOfPath(paths[i]) = key
                                /\ \A j \in 1 .. i - 1 : KeyOfPath(paths[j]) # key
    BY <2>3, <2>4, <1>2
  <2>6. first(key) \in DOMAIN paths /\ KeyOfPath(paths[first(key)]) = key
    BY <2>5
  <2>7. Len(paths[first(key)]) = Len(paths[k])
    BY <2>1, <2>6 DEF KeyOfPath
  <2> QED
    BY <2>1, <2>6, <2>7, <1>2
<1> HIDE DEF first
<1>4. \A k \in 1 .. Len(paths) : Len(paths[k]) >= 2 => KeyOfPath(paths[k]) \in keys
  BY <1>2
<1> HIDE DEF keys
<1> QED
  BY <1>1, <1>3, <1>4

LEMMA WalkInitInv == WalkInit => WalkInv
<1> SUFFICES ASSUME WalkInit PROVE WalkInv
  OBVIOUS
<1>1. /\ links \in Links /\ depth \in Depths /\ queue = << <<>> >>
      /\ DOMAIN candidates = {}
  BY DEF WalkInit
<1>2. <<>> \in Seq(Valid) /\ queue \in Seq(Seq(Valid)) /\ Len(queue) = 1 /\ queue[1] = <<>> /\ Len(queue[1]) = 0
  BY <1>1
<1>3. MaximumDepth \in Nat /\ MaximumDepth >= 2
  BY <1>1, TransitiveAssumption DEF MaximumDepth
<1>4. <<>> \in SimplePaths(0)
  BY DEF SimplePaths
<1>5. QueueIsSimple
  BY <1>2, <1>3, <1>4 DEF QueueIsSimple
<1>6. CandidatesAreSimple
  BY <1>1 DEF CandidatesAreSimple
<1>7. NothingIsMissed
  <2> SUFFICES ASSUME NEW n \in 2 .. MaximumDepth, NEW path \in SimplePaths(n)
               PROVE  Begins(queue[1], path)
    BY <1>2 DEF NothingIsMissed
  <2>1. Len(path) = n /\ n > 0
    BY <1>3, SimpleIsSeq
  <2> QED
    BY <2>1, <1>2 DEF Begins
<1> QED
  BY <1>1, <1>2, <1>5, <1>6, <1>7 DEF WalkInv

LEMMA WalkStep == WalkInv /\ [Extend]_walk => WalkInv'
<1> SUFFICES ASSUME WalkInv, [Extend]_walk PROVE WalkInv'
  OBVIOUS
<1>1. CASE UNCHANGED walk
  <2>1. links' = links /\ depth' = depth /\ queue' = queue /\ candidates' = candidates
    BY <1>1 DEF walk
  <2>2. Valid' = Valid /\ MaximumDepth' = MaximumDepth /\ \A n : SimplePaths(n)' = SimplePaths(n)
    BY <2>1 DEF Valid, MaximumDepth, SimplePaths
  <2>3. QueueIsSimple' /\ CandidatesAreSimple'
    BY <2>1, <2>2 DEF WalkInv, QueueIsSimple, CandidatesAreSimple
  <2>4. NothingIsMissed'
    BY <2>1, <2>2 DEF WalkInv, NothingIsMissed
  <2> QED
    BY <2>1, <2>2, <2>3, <2>4 DEF WalkInv
<1>2. CASE Extend
  <2> DEFINE path == Head(queue)
             more == Extensions(path)
             rest == Tail(queue)
  <2>1. /\ links \in Links /\ depth \in Depths /\ queue \in Seq(Seq(Valid)) /\ queue # <<>>
        /\ links' = links /\ depth' = depth
    BY <1>2 DEF Extend, WalkInv
  <2>2. Valid' = Valid /\ MaximumDepth' = MaximumDepth /\ \A n : SimplePaths(n)' = SimplePaths(n)
    BY <2>1 DEF Valid, MaximumDepth, SimplePaths
  <2>3. MaximumDepth \in Nat /\ MaximumDepth >= 2
    BY <2>1, TransitiveAssumption DEF MaximumDepth
  <2>4. /\ path \in Seq(Valid) /\ rest \in Seq(Seq(Valid)) /\ Len(rest) = Len(queue) - 1
        /\ \A i \in 1 .. Len(rest) : rest[i] = queue[i + 1]
        /\ path = queue[1] /\ Len(queue) \in Nat /\ Len(queue) >= 1
    BY <2>1, HeadTailProperties
  <2>5. path \in SimplePaths(Len(path)) /\ Len(path) <= MaximumDepth
    BY <2>4 DEF WalkInv, QueueIsSimple
  <2>6. QueueIsSimple /\ CandidatesAreSimple /\ NothingIsMissed
    BY DEF WalkInv
  <2> HIDE DEF path, rest, more
  <2>7. ASSUME NEW i \in 1 .. Len(queue), i # 1
        PROVE  i - 1 \in 1 .. Len(rest) /\ rest[i - 1] = queue[i]
    <3>1. i \in Nat /\ i - 1 \in 1 .. Len(rest) /\ (i - 1) + 1 = i
      BY <2>4, <2>7
    <3> QED
      BY <3>1, <2>4
  <2>8. CASE Len(path) >= MaximumDepth
    <3>1. queue' = rest /\ candidates' = candidates
      BY <1>2, <2>8 DEF Extend, path, rest
    <3>2. \A i \in 1 .. Len(queue') : i + 1 \in 1 .. Len(queue) /\ queue'[i] = queue[i + 1]
      <4>1. \A i \in 1 .. Len(rest) : i + 1 \in 1 .. Len(queue) /\ rest[i] = queue[i + 1]
        BY <2>4
      <4> QED
        BY <3>1, <4>1
    <3>3. QueueIsSimple'
      BY <3>2, <2>2, <2>6 DEF QueueIsSimple
    <3>4. CandidatesAreSimple'
      BY <3>1, <2>2, <2>6 DEF CandidatesAreSimple, KeyOfPath, EndOf
    <3>5. NothingIsMissed'
      <4> SUFFICES ASSUME NEW n \in 2 .. MaximumDepth, NEW p \in SimplePaths(n),
                          KeyOfPath(p) \notin DOMAIN candidates'
                   PROVE  \E i \in 1 .. Len(queue') : Begins(queue'[i], p)
        BY <2>2 DEF NothingIsMissed, KeyOfPath, EndOf, Begins
      <4>1. PICK i \in 1 .. Len(queue) : Begins(queue[i], p)
        BY <3>1, <2>6 DEF NothingIsMissed
      <4>2. Len(p) = n
        BY <2>3, SimpleIsSeq
      <4>3. i # 1
        BY <4>1, <4>2, <2>4, <2>8, <2>3 DEF Begins
      <4>4. i - 1 \in 1 .. Len(rest) /\ rest[i - 1] = queue[i]
        BY <4>3, <2>7
      <4> QED
        BY <4>1, <4>4, <3>1
    <3> QED
      BY <3>1, <3>3, <3>4, <3>5, <2>1, <2>2, <2>4 DEF WalkInv
  <2>9. CASE ~(Len(path) >= MaximumDepth)
    <3>1. queue' = rest \o more /\ candidates' = Reported(candidates, more)
      BY <1>2, <2>9 DEF Extend, path, rest, more
    <3>2. /\ more \in Seq(Seq(Valid))
          /\ \A k \in 1 .. Len(more) : \E l \in Onward(path) : more[k] = Append(path, l)
          /\ \A l \in Onward(path) : \E k \in 1 .. Len(more) : more[k] = Append(path, l)
      BY <2>1, <2>4, ExtensionsOf DEF more
    <3>3. ASSUME NEW k \in 1 .. Len(more)
          PROVE  /\ more[k] \in SimplePaths(Len(more[k])) /\ Len(more[k]) <= MaximumDepth
                 /\ Len(more[k]) \in Nat
      <4>1. PICK l \in Onward(path) : more[k] = Append(path, l)
        BY <3>2
      <4>2. Append(path, l) \in SimplePaths(Len(path) + 1)
        BY <2>4, <2>5, ExtendedIsSimple
      <4>3. Len(path) \in Nat /\ Len(path) + 1 \in Nat
        BY <2>4
      <4>4. Len(more[k]) = Len(path) + 1
        BY <4>1, <4>2, <4>3, SimpleIsSeq
      <4> QED
        BY <4>1, <4>2, <4>3, <4>4, <2>9, <2>3
    <3>4. /\ queue' \in Seq(Seq(Valid)) /\ Len(queue') = Len(rest) + Len(more)
          /\ \A i \in 1 .. Len(rest) : queue'[i] = rest[i]
          /\ \A k \in 1 .. Len(more) : queue'[Len(rest) + k] = more[k]
          /\ Len(rest) \in Nat /\ Len(more) \in Nat
      <4>1. Len(rest) \in Nat /\ Len(more) \in Nat
        BY <3>2, <2>4
      <4>2. /\ queue' \in Seq(Seq(Valid)) /\ Len(queue') = Len(rest) + Len(more)
            /\ \A i \in 1 .. Len(rest) + Len(more) :
                   queue'[i] = IF i <= Len(rest) THEN rest[i] ELSE more[i - Len(rest)]
        BY <3>1, <3>2, <2>4, ConcatProperties
      <4>3. ASSUME NEW i \in 1 .. Len(rest) PROVE queue'[i] = rest[i]
        BY <4>1, <4>2
      <4>4. ASSUME NEW k \in 1 .. Len(more) PROVE queue'[Len(rest) + k] = more[k]
        <5>1. /\ Len(rest) + k \in 1 .. Len(rest) + Len(more) /\ ~(Len(rest) + k <= Len(rest))
              /\ (Len(rest) + k) - Len(rest) = k
          BY <4>1
        <5> QED
          BY <5>1, <4>2
      <4> QED
        BY <4>1, <4>2, <4>3, <4>4
    <3>5. QueueIsSimple'
      <4> SUFFICES ASSUME NEW i \in 1 .. Len(queue')
                   PROVE  queue'[i] \in SimplePaths(Len(queue'[i])) /\ Len(queue'[i]) <= MaximumDepth
        BY <2>2 DEF QueueIsSimple
      <4>1. CASE i \in 1 .. Len(rest)
        <5>1. queue'[i] = queue[i + 1] /\ i + 1 \in 1 .. Len(queue)
          BY <4>1, <3>4, <2>4
        <5> QED
          BY <5>1, <2>6 DEF QueueIsSimple
      <4>2. CASE i \notin 1 .. Len(rest)
        <5>1. i - Len(rest) \in 1 .. Len(more) /\ Len(rest) + (i - Len(rest)) = i
          BY <4>2, <3>4
        <5> QED
          BY <5>1, <3>3, <3>4
      <4> QED
        BY <4>1, <4>2
    <3>6. /\ DOMAIN candidates \subseteq DOMAIN candidates'
          /\ \A key \in DOMAIN candidates : candidates'[key] = candidates[key]
          /\ \A k \in 1 .. Len(more) : Len(more[k]) >= 2 => KeyOfPath(more[k]) \in DOMAIN candidates'
          /\ \A key \in DOMAIN candidates' \ DOMAIN candidates :
                 \E k \in 1 .. Len(more) :
                     Len(more[k]) >= 2 /\ key = KeyOfPath(more[k]) /\ candidates'[key] = more[k]
      <4> HIDE DEF WalkInv
      <4>1. more \in Seq(Seq(Valid))
        BY <3>2
      <4>2. candidates' = Reported(candidates, more)
        BY <3>1
      <4> QED
        BY <4>1, <4>2, ReportedFirst
    <3>7. CandidatesAreSimple'
      <4> SUFFICES ASSUME NEW key \in DOMAIN candidates'
                   PROVE  /\ key[2] \in 2 .. MaximumDepth /\ key = KeyOfPath(candidates'[key])
                          /\ candidates'[key] \in SimplePaths(key[2])
        BY <2>2 DEF CandidatesAreSimple, KeyOfPath, EndOf
      <4>1. CASE key \in DOMAIN candidates
        BY <4>1, <3>6, <2>6 DEF CandidatesAreSimple
      <4>2. CASE key \notin DOMAIN candidates
        <5>1. PICK k \in 1 .. Len(more) :
                  Len(more[k]) >= 2 /\ key = KeyOfPath(more[k]) /\ candidates'[key] = more[k]
          BY <4>2, <3>6
        <5>2. key[2] = Len(more[k])
          BY <5>1 DEF KeyOfPath
        <5> QED
          BY <5>1, <5>2, <3>3, <2>3
      <4> QED
        BY <4>1, <4>2
    <3>8. NothingIsMissed'
      <4> SUFFICES ASSUME NEW n \in 2 .. MaximumDepth, NEW p \in SimplePaths(n),
                          KeyOfPath(p) \notin DOMAIN candidates'
                   PROVE  \E i \in 1 .. Len(queue') : Begins(queue'[i], p)
        BY <2>2 DEF NothingIsMissed, KeyOfPath, EndOf, Begins
      <4>1. PICK i \in 1 .. Len(queue) : Begins(queue[i], p)
        BY <3>6, <2>6 DEF NothingIsMissed
      <4>2. CASE i # 1
        <5>1. i - 1 \in 1 .. Len(rest) /\ rest[i - 1] = queue[i]
          BY <4>2, <2>7
        <5>2. i - 1 \in 1 .. Len(queue') /\ queue'[i - 1] = queue[i]
          <6>1. i - 1 \in 1 .. Len(rest) + Len(more)
            BY <5>1, <3>4
          <6> QED
            BY <6>1, <5>1, <3>4
        <5> QED
          BY <5>2, <4>1
      <4>3. CASE i = 1
        <5>1. n \in Nat /\ n >= 2 /\ Begins(path, p)
          BY <4>1, <4>3, <2>3, <2>4
        <5> DEFINE l == p[Len(path) + 1]
        <5>2. l \in Onward(path) /\ (Begins(Append(path, l), p) \/ Append(path, l) = p)
          BY <5>1, <2>4, NextIsOnward
        <5> HIDE DEF l
        <5>3. PICK k \in 1 .. Len(more) : more[k] = Append(path, l)
          BY <5>2, <3>2
        <5>4. more[k] # p
          <6>1. Len(p) = n
            BY <5>1, SimpleIsSeq
          <6> QED
            BY <6>1, <5>1, <3>6
        <5>5. Len(rest) + k \in 1 .. Len(queue') /\ queue'[Len(rest) + k] = more[k]
          BY <3>4
        <5> QED
          BY <5>2, <5>3, <5>4, <5>5
      <4> QED
        BY <4>2, <4>3
    <3> QED
      BY <3>4, <3>5, <3>7, <3>8, <2>1, <2>2 DEF WalkInv
  <2> QED
    BY <2>8, <2>9
<1> QED
  BY <1>1, <1>2

LEMMA WalkIsExact == WalkInv => TransitiveIsExact
<1> SUFFICES ASSUME WalkInv, queue = <<>> PROVE TransitiveIsExact
  BY DEF TransitiveIsExact
<1>1. MaximumDepth \in Nat /\ Len(queue) = 0
  BY TransitiveAssumption DEF WalkInv, MaximumDepth
<1>2. ASSUME NEW key \in DOMAIN candidates
      PROVE  /\ candidates[key] \in SimplePaths(key[2]) /\ key = KeyOfPath(candidates[key])
             /\ key[2] \in 2 .. MaximumDepth
  BY DEF WalkInv, CandidatesAreSimple
<1>3. ASSUME NEW n \in 2 .. MaximumDepth, NEW path \in SimplePaths(n)
      PROVE  KeyOfPath(path) \in DOMAIN candidates
  BY <1>1 DEF WalkInv, NothingIsMissed
<1> QED
  BY <1>2, <1>3, queue = <<>> DEF TransitiveIsExact

\* deriveBoundedTransitiveCandidates: for every finite graph, with whatever cycles, when
\* the queue of the walk is empty it has one candidate for each repository and each
\* depth at which some simple path of valid edges reaches it, and no other.
THEOREM WalkFindsAll == WalkSpec => []TransitiveIsExact
<1>1. WalkSpec => []WalkInv
  BY WalkInitInv, WalkStep, PTL DEF WalkSpec
<1> QED
  BY <1>1, WalkIsExact, PTL

-----------------------------------------------------------------------------
(* HostedWorkspace. *)


Row == Contents \cup {NoContent}
Records == [Analyses -> Row]
Pointers == [HostedPulls -> Analyses \cup {NoPointer}]

Busy ==
    [pc : {"scheduling", "resolving", "analysing", "completing"}, analysis : Analyses]
    \cup [pc : {"pointing", "delivering"}, analysis : Analyses, content : Contents]

Reading == [pc : {"records"}, records : Records, before : Pointers, purged : BOOLEAN]

Done ==
    [pc : {"done"}, records : Records, pointers : Pointers, purged : BOOLEAN, torn : BOOLEAN]

Restoring ==
    [pc : {"running", "conflict", "missing"}, of : Done, records : SUBSET Analyses,
     pointers : SUBSET HostedPulls, analyses : SUBSET Analyses, purged : BOOLEAN]

\* The shapes of the records that the processes keep.
ShapeInv ==
    /\ WorkspaceTypeOK
    /\ hosted \in [HostedWorkers -> {Waiting} \cup Busy]
    /\ backup \in {NoBackup} \cup Reading \cup Done
    /\ restore \in {NoRestore} \cup Restoring

\* Each pointer names an analysis of its pull request.
Own(f) == \A p \in HostedPulls : f[p] # NoPointer => PullRequestOf[f[p]] = p

OwnInv ==
    /\ Own(pointers)
    /\ backup.pc = "done" => Own(backup.pointers)
    /\ restore.pc = "running" =>
           /\ Own(restore.of.pointers)
           /\ restore.records \subseteq restore.analyses
           /\ \A p \in restore.pointers :
                  restore.of.pointers[p] # NoPointer /\ restore.of.pointers[p] \in restore.analyses

QuietInv == PurgeIsFinal /\ \A a \in quiet : ~UnderWay(a)

-----------------------------------------------------------------------------
(* Shapes. *)

LEMMA ShapeInit == WorkspaceInit => ShapeInv
BY DEF WorkspaceInit, ShapeInv, WorkspaceTypeOK, Waiting, NoBackup, NoRestore

LEMMA PullOf == \A a \in Analyses : PullRequestOf[a] \in HostedPulls
BY DEF HostedPulls

LEMMA ShapeStep == ShapeInv /\ [WorkspaceNext]_workspace => ShapeInv'
<1> SUFFICES ASSUME ShapeInv, [WorkspaceNext]_workspace PROVE ShapeInv'
  OBVIOUS
<1> USE DEF ShapeInv, WorkspaceTypeOK, tables
<1>1. ASSUME NEW a \in Analyses, Receive(a) PROVE ShapeInv'
  BY <1>1 DEF Receive
<1>2. ASSUME NEW a \in Analyses, RestoreRecord(a) PROVE ShapeInv'
  <2>1. restore \in Restoring
    BY <1>2 DEF RestoreRecord, NoRestore
  <2>2. restore' \in Restoring
    BY <1>2, <2>1 DEF RestoreRecord, Restoring
  <2>3. canonical' \in Records
    BY <1>2, <2>1 DEF RestoreRecord, Restoring, Done, Records, Row
  <2> QED
    BY <1>2, <2>2, <2>3 DEF RestoreRecord, Records, Row
<1>3. ASSUME NEW w \in HostedWorkers, NEW a \in Analyses, Claim(w, a) PROVE ShapeInv'
  <2>1. hosted' \in [HostedWorkers -> {Waiting} \cup Busy]
    BY <1>3 DEF Claim, Busy
  <2> QED
    BY <1>3, <2>1 DEF Claim
<1>4. ASSUME NEW w \in HostedWorkers, EnqueueJob(w) PROVE ShapeInv'
  <2>1. hosted[w] \in Busy /\ hosted[w].analysis \in Analyses
    BY <1>4 DEF EnqueueJob, Waiting, Busy
  <2>2. hosted' \in [HostedWorkers -> {Waiting} \cup Busy]
    BY <1>4, <2>1 DEF EnqueueJob, Becomes, Busy
  <2>3. jobs' \in [Analyses -> {"none", "available", "leased", "settled"}]
    BY <1>4, <2>1 DEF EnqueueJob
  <2> QED
    BY <1>4, <2>2, <2>3 DEF EnqueueJob
<1>5. ASSUME NEW w \in HostedWorkers, ResolveWebhook(w) PROVE ShapeInv'
  <2>1. hosted[w].analysis \in Analyses
    BY <1>5 DEF ResolveWebhook, Waiting, Busy
  <2> QED
    BY <1>5, <2>1 DEF ResolveWebhook, Stops
<1>6. ASSUME NEW w \in HostedWorkers, PutCanonicalRecord(w) PROVE ShapeInv'
  <2>1. hosted[w].analysis \in Analyses
    BY <1>6 DEF PutCanonicalRecord, Waiting, Busy
  <2>2. hosted' \in [HostedWorkers -> {Waiting} \cup Busy]
    BY <1>6, <2>1 DEF PutCanonicalRecord, FailJob, Stops, Busy
  <2> QED
    BY <1>6, <2>1, <2>2 DEF PutCanonicalRecord, FailJob
<1>7. ASSUME NEW w \in HostedWorkers, PutCanonicalPointer(w) PROVE ShapeInv'
  <2>1. hosted[w] \in Busy /\ hosted[w].analysis \in Analyses
    BY <1>7 DEF PutCanonicalPointer, Waiting, Busy
  <2>2. hosted' \in [HostedWorkers -> {Waiting} \cup Busy]
    BY <1>7, <2>1 DEF PutCanonicalPointer, FailJob, Stops, Becomes, Busy
  <2> QED
    BY <1>7, <2>1, <2>2, PullOf DEF PutCanonicalPointer, FailJob
<1>8. ASSUME NEW w \in HostedWorkers, EnqueueDelivery(w) PROVE ShapeInv'
  <2>1. hosted[w].analysis \in Analyses
    BY <1>8 DEF EnqueueDelivery, Waiting, Busy
  <2>2. hosted' \in [HostedWorkers -> {Waiting} \cup Busy]
    BY <1>8, <2>1 DEF EnqueueDelivery, FailJob, Stops, Busy
  <2> QED
    BY <1>8, <2>1, <2>2 DEF EnqueueDelivery, FailJob
<1>9. ASSUME NEW w \in HostedWorkers, CompleteJob(w) PROVE ShapeInv'
  <2>1. hosted[w].analysis \in Analyses
    BY <1>9 DEF CompleteJob, Waiting, Busy
  <2> QED
    BY <1>9, <2>1 DEF CompleteJob, Stops
<1>10. ASSUME NEW w \in HostedWorkers, CrashWorker(w) PROVE ShapeInv'
  BY <1>10 DEF CrashWorker, Stops
<1>11. ASSUME NEW r \in HostedRepositories, PurgeRepository(r) PROVE ShapeInv'
  <2>1. restore' \in {NoRestore} \cup Restoring
    BY <1>11 DEF PurgeRepository, Restoring, NoRestore
  <2>2. backup' \in {NoBackup} \cup Reading \cup Done
    BY <1>11 DEF PurgeRepository, Reading, Done, NoBackup
  <2> QED
    BY <1>11, <2>1, <2>2 DEF PurgeRepository, AnalysesOf
<1>12. CASE BackupRecords
  <2>1. backup' \in Reading
    BY <1>12 DEF BackupRecords, Reading, Records, Row, Pointers
  <2> QED
    BY <1>12, <2>1 DEF BackupRecords
<1>13. CASE BackupPointers
  <2>1. backup \in Reading
    BY <1>13 DEF BackupPointers, NoBackup, Done
  <2>2. backup' \in Done
    BY <1>13, <2>1 DEF BackupPointers, Reading, Done, Pointers
  <2> QED
    BY <1>13, <2>2 DEF BackupPointers
<1>14. CASE StartRestore
  <2>1. backup \in Done
    BY <1>14 DEF StartRestore, NoBackup, Reading
  <2>2. restore' \in Restoring
    BY <1>14, <2>1 DEF StartRestore, Restoring, Done, Pointers
  <2> QED
    BY <1>14, <2>2 DEF StartRestore
<1>15. CASE EndRestore
  BY <1>15 DEF EndRestore
<1>16. ASSUME NEW p \in HostedPulls, RestorePointer(p) PROVE ShapeInv'
  <2>1. restore \in Restoring
    BY <1>16 DEF RestorePointer, NoRestore
  <2>2. restore' \in Restoring
    BY <1>16, <2>1 DEF RestorePointer, Restoring
  <2>3. pointers' \in Pointers
    BY <1>16, <2>1 DEF RestorePointer, Restoring, Done, Pointers
  <2> QED
    BY <1>16, <2>2, <2>3 DEF RestorePointer, Pointers
<1>17. CASE UNCHANGED workspace
  BY <1>17 DEF workspace
<1> QED
  BY <1>1, <1>2, <1>3, <1>4, <1>5, <1>6, <1>7, <1>8, <1>9, <1>10, <1>11, <1>12, <1>13,
     <1>14, <1>15, <1>16, <1>17 DEF WorkspaceNext

-----------------------------------------------------------------------------
(* Pointers name analyses of their own pull requests. *)

LEMMA OwnInit == WorkspaceInit => OwnInv
BY DEF WorkspaceInit, OwnInv, Own, NoBackup, NoRestore

LEMMA OwnStep == ShapeInv /\ OwnInv /\ [WorkspaceNext]_workspace => OwnInv'
<1> SUFFICES ASSUME ShapeInv, OwnInv, [WorkspaceNext]_workspace PROVE OwnInv'
  OBVIOUS
<1> USE DEF OwnInv, tables
<1>1. ASSUME UNCHANGED <<pointers, backup, restore>> PROVE OwnInv'
  BY <1>1 DEF Own
<1>2. ASSUME NEW a \in Analyses, RestoreRecord(a) PROVE OwnInv'
  <2>1. restore \in Restoring
    BY <1>2 DEF RestoreRecord, NoRestore, ShapeInv
  <2>2. restore'.pc = "running" =>
            /\ restore'.of = restore.of /\ restore'.pointers = restore.pointers
            /\ restore'.analyses = restore.analyses /\ restore'.records \subseteq restore.records
    BY <1>2, <2>1 DEF RestoreRecord, Restoring
  <2> QED
    BY <1>2, <2>2 DEF RestoreRecord, Own
<1>3. ASSUME NEW w \in HostedWorkers, PutCanonicalPointer(w) PROVE OwnInv'
  <2>1. hosted[w].analysis \in Analyses /\ PullRequestOf[hosted[w].analysis] \in HostedPulls
    BY <1>3, PullOf DEF PutCanonicalPointer, Waiting, Busy, ShapeInv
  <2>2. Own(pointers')
    BY <1>3, <2>1 DEF PutCanonicalPointer, FailJob, Own, ShapeInv, WorkspaceTypeOK
  <2> QED
    BY <1>3, <2>2 DEF PutCanonicalPointer, Own
<1>4. ASSUME NEW r \in HostedRepositories, PurgeRepository(r) PROVE OwnInv'
  <2>1. Own(pointers')
    BY <1>4 DEF PurgeRepository, Own
  <2>2. backup'.pc = "done" => backup.pc = "done" /\ backup'.pointers = backup.pointers
    BY <1>4 DEF PurgeRepository, ShapeInv, Reading, Done, NoBackup
  <2>3. restore'.pc = "running" =>
            /\ restore.pc = "running" /\ restore'.of = restore.of
            /\ restore'.pointers = restore.pointers /\ restore'.analyses = restore.analyses
            /\ restore'.records = restore.records
    BY <1>4 DEF PurgeRepository, ShapeInv, Restoring, NoRestore
  <2> QED
    BY <2>1, <2>2, <2>3 DEF Own
<1>5. CASE BackupRecords
  BY <1>5 DEF BackupRecords, Own
<1>6. CASE BackupPointers
  BY <1>6 DEF BackupPointers, Own
<1>7. CASE StartRestore
  <2>1. backup \in Done
    BY <1>7 DEF StartRestore, NoBackup, Reading, ShapeInv
  <2>2. /\ restore'.of = backup
        /\ restore'.pointers = {p \in HostedPulls : backup.pointers[p] # NoPointer}
        /\ restore'.records \subseteq restore'.analyses
        /\ \A p \in restore'.pointers : backup.pointers[p] \in restore'.analyses
    BY <1>7 DEF StartRestore
  <2> QED
    BY <1>7, <2>2 DEF StartRestore, Own
<1>8. CASE EndRestore
  BY <1>8 DEF EndRestore, NoRestore, Own
<1>9. ASSUME NEW p \in HostedPulls, RestorePointer(p) PROVE OwnInv'
  <2>1. restore \in Restoring
    BY <1>9 DEF RestorePointer, NoRestore, ShapeInv
  <2>2. restore'.pc = "running" =>
            /\ restore'.of = restore.of /\ restore'.pointers \subseteq restore.pointers
            /\ restore'.analyses = restore.analyses /\ restore'.records = restore.records
    BY <1>9, <2>1 DEF RestorePointer, Restoring
  <2>3. Own(pointers')
    BY <1>9 DEF RestorePointer, Own, ShapeInv, WorkspaceTypeOK
  <2> QED
    BY <1>9, <2>2, <2>3 DEF RestorePointer, Own
<1>10. CASE UNCHANGED workspace
  BY <1>1, <1>10 DEF workspace
<1>11. ASSUME NEW a \in Analyses, Receive(a) PROVE OwnInv'
  BY <1>1, <1>11 DEF Receive
<1>12. ASSUME NEW w \in HostedWorkers, NEW a \in Analyses, Claim(w, a) PROVE OwnInv'
  BY <1>1, <1>12 DEF Claim
<1>13. ASSUME NEW w \in HostedWorkers,
              EnqueueJob(w) \/ ResolveWebhook(w) \/ CompleteJob(w) \/ CrashWorker(w)
       PROVE  OwnInv'
  BY <1>1, <1>13 DEF EnqueueJob, ResolveWebhook, CompleteJob, CrashWorker
<1>14. ASSUME NEW w \in HostedWorkers, PutCanonicalRecord(w) \/ EnqueueDelivery(w) PROVE OwnInv'
  BY <1>1, <1>14 DEF PutCanonicalRecord, EnqueueDelivery, FailJob
<1> QED
  BY <1>2, <1>3, <1>4, <1>5, <1>6, <1>7, <1>8, <1>9, <1>10, <1>11, <1>12, <1>13, <1>14
     DEF WorkspaceNext

-----------------------------------------------------------------------------
(* Purged analyses. *)

LEMMA QuietInit == WorkspaceInit => QuietInv
BY DEF WorkspaceInit, QuietInv, PurgeIsFinal

\* The rows of an analysis that PurgeIsFinal looks at: none is added.
RowsStay(a) ==
    /\ inbox'[a] = inbox[a] /\ jobs'[a] = jobs[a] /\ canonical'[a] = canonical[a]
    /\ a \in outbox' => a \in outbox
    /\ \A p \in HostedPulls : pointers'[p] = a => pointers[p] = a

\* A step that adds no row of a quiet analysis, and does not set out to put one,
\* keeps the invariant.
LEMMA QuietStays ==
    ASSUME QuietInv, quiet' \subseteq quiet,
           \A a \in quiet' : RowsStay(a) /\ ~UnderWay(a)'
    PROVE  QuietInv'
BY DEF QuietInv, PurgeIsFinal, RowsStay

\* A worker that is about to put a job or a record puts none of a quiet analysis.
LEMMA BusyIsElsewhere ==
    ASSUME ShapeInv, QuietInv, NEW w \in HostedWorkers, hosted[w].pc \in {"scheduling", "analysing"}
    PROVE  hosted[w].analysis \in Analyses \ quiet
BY DEF ShapeInv, QuietInv, UnderWay, Busy, Waiting

\* A step after which no further worker is about to put a row.
LEMMA WorkStays ==
    ASSUME QuietInv, UNCHANGED <<restore, quiet>>,
           \A w \in HostedWorkers :
               hosted'[w] = hosted[w] \/ hosted'[w].pc \notin {"scheduling", "analysing"}
    PROVE  \A a \in quiet' : ~UnderWay(a)'
BY DEF QuietInv, UnderWay

LEMMA QuietStep == ShapeInv /\ OwnInv /\ QuietInv /\ [WorkspaceNext]_workspace => QuietInv'
<1> SUFFICES ASSUME ShapeInv, OwnInv, QuietInv, [WorkspaceNext]_workspace PROVE QuietInv'
  OBVIOUS
<1> USE DEF tables
<1>1. ASSUME NEW a \in Analyses, Receive(a) PROVE QuietInv'
  <2>1. quiet' = quiet \ {a}
    BY <1>1 DEF Receive
  <2>2. \A b \in quiet' : RowsStay(b) /\ ~UnderWay(b)'
    BY <1>1, <2>1 DEF Receive, RowsStay, QuietInv, UnderWay, ShapeInv, WorkspaceTypeOK
  <2> QED
    BY <2>1, <2>2, QuietStays
<1>2. ASSUME NEW a \in Analyses, RestoreRecord(a) PROVE QuietInv'
  <2>1. restore \in Restoring /\ restore.pc = "running"
    BY <1>2 DEF RestoreRecord, NoRestore, ShapeInv
  <2>2. restore'.analyses = restore.analyses
    BY <1>2, <2>1 DEF RestoreRecord, Restoring
  <2>3. a \notin quiet
    BY <1>2, <2>1 DEF RestoreRecord, OwnInv, QuietInv, UnderWay
  <2>4. \A b \in quiet' : RowsStay(b)
    BY <1>2, <2>3 DEF RestoreRecord, RowsStay, ShapeInv, WorkspaceTypeOK
  <2>5. \A b \in quiet' : ~UnderWay(b)'
    BY <1>2, <2>1, <2>2 DEF RestoreRecord, QuietInv, UnderWay
  <2> QED
    BY <1>2, <2>4, <2>5, QuietStays DEF RestoreRecord
<1>3. ASSUME NEW w \in HostedWorkers, NEW a \in Analyses, Claim(w, a) PROVE QuietInv'
  <2>1. a \notin quiet
    BY <1>3 DEF Claim, QuietInv, PurgeIsFinal
  <2>2. \A b \in quiet' : RowsStay(b)
    BY <1>3, <2>1 DEF Claim, RowsStay, ShapeInv, WorkspaceTypeOK
  <2>3. hosted'[w].analysis = a /\ \A v \in HostedWorkers : v # w => hosted'[v] = hosted[v]
    BY <1>3 DEF Claim, ShapeInv
  <2>4. \A b \in quiet' : ~UnderWay(b)'
    BY <1>3, <2>1, <2>3 DEF Claim, QuietInv, UnderWay
  <2> QED
    BY <1>3, <2>2, <2>4, QuietStays DEF Claim
<1>4. ASSUME NEW w \in HostedWorkers, EnqueueJob(w) PROVE QuietInv'
  <2>1. hosted[w].analysis \in Analyses \ quiet
    BY <1>4, BusyIsElsewhere DEF EnqueueJob
  <2>2. \A b \in quiet' : RowsStay(b)
    BY <1>4, <2>1 DEF EnqueueJob, RowsStay, QuietInv, PurgeIsFinal, ShapeInv, WorkspaceTypeOK
  <2>3. hosted[w] \in Busy
    BY <1>4 DEF EnqueueJob, ShapeInv, Waiting
  <2>4. \A v \in HostedWorkers : hosted'[v] = hosted[v] \/ hosted'[v].pc = "resolving"
    BY <1>4, <2>3 DEF EnqueueJob, Becomes, Busy, ShapeInv
  <2>5. \A b \in quiet' : ~UnderWay(b)'
    BY <1>4, <2>4, WorkStays DEF EnqueueJob
  <2> QED
    BY <1>4, <2>2, <2>5, QuietStays DEF EnqueueJob
<1>5. ASSUME NEW w \in HostedWorkers, ResolveWebhook(w) PROVE QuietInv'
  <2>1. \A b \in quiet' : RowsStay(b)
    BY <1>5 DEF ResolveWebhook, RowsStay, QuietInv, PurgeIsFinal, ShapeInv, WorkspaceTypeOK
  <2>2. \A b \in quiet' : ~UnderWay(b)'
    BY <1>5, WorkStays DEF ResolveWebhook, Stops, Waiting, ShapeInv
  <2> QED
    BY <1>5, <2>1, <2>2, QuietStays DEF ResolveWebhook
<1>6. ASSUME NEW w \in HostedWorkers, PutCanonicalRecord(w) PROVE QuietInv'
  <2>1. hosted[w].analysis \in Analyses \ quiet
    BY <1>6, BusyIsElsewhere DEF PutCanonicalRecord
  <2>2. \A b \in quiet' : RowsStay(b)
    BY <1>6, <2>1 DEF PutCanonicalRecord, FailJob, RowsStay, ShapeInv, WorkspaceTypeOK
  <2>3. \A v \in HostedWorkers : hosted'[v] = hosted[v] \/ hosted'[v].pc \in {"pointing", "waiting"}
    BY <1>6 DEF PutCanonicalRecord, FailJob, Stops, Waiting, ShapeInv
  <2>4. \A b \in quiet' : ~UnderWay(b)'
    BY <1>6, <2>3, WorkStays DEF PutCanonicalRecord
  <2> QED
    BY <1>6, <2>2, <2>4, QuietStays DEF PutCanonicalRecord
<1>7. ASSUME NEW w \in HostedWorkers, PutCanonicalPointer(w) PROVE QuietInv'
  <2>1. hosted[w] \in Busy /\ hosted[w].analysis \in Analyses
    BY <1>7 DEF PutCanonicalPointer, Busy, Waiting, ShapeInv
  <2>2. hosted[w].analysis \in quiet =>
            canonical[hosted[w].analysis] = NoContent /\ jobs[hosted[w].analysis] = "none"
    BY DEF QuietInv, PurgeIsFinal
  <2>3. \A b \in quiet' : RowsStay(b)
    BY <1>7, <2>1, <2>2 DEF PutCanonicalPointer, FailJob, RowsStay, ShapeInv, WorkspaceTypeOK
  <2>4. \A v \in HostedWorkers : hosted'[v] = hosted[v] \/ hosted'[v].pc \in {"delivering", "waiting"}
    BY <1>7, <2>1 DEF PutCanonicalPointer, FailJob, Stops, Becomes, Busy, Waiting, ShapeInv
  <2>5. \A b \in quiet' : ~UnderWay(b)'
    BY <1>7, <2>4, WorkStays DEF PutCanonicalPointer
  <2> QED
    BY <1>7, <2>3, <2>5, QuietStays DEF PutCanonicalPointer
<1>8. ASSUME NEW w \in HostedWorkers, EnqueueDelivery(w) PROVE QuietInv'
  <2>1. hosted[w].analysis \in Analyses /\ hosted[w].content \in Contents
    BY <1>8 DEF EnqueueDelivery, Busy, Waiting, ShapeInv
  <2>2. hosted[w].analysis \in quiet =>
            ~Referenced(hosted[w].analysis, hosted[w].content) /\ jobs[hosted[w].analysis] = "none"
    BY <2>1, HostedAssumption DEF QuietInv, PurgeIsFinal, Referenced
  <2>3. \A b \in quiet' : RowsStay(b)
    BY <1>8, <2>1, <2>2 DEF EnqueueDelivery, FailJob, RowsStay, ShapeInv, WorkspaceTypeOK
  <2>4. \A v \in HostedWorkers : hosted'[v] = hosted[v] \/ hosted'[v].pc \in {"completing", "waiting"}
    BY <1>8 DEF EnqueueDelivery, FailJob, Stops, Waiting, ShapeInv
  <2>5. \A b \in quiet' : ~UnderWay(b)'
    BY <1>8, <2>4, WorkStays DEF EnqueueDelivery
  <2> QED
    BY <1>8, <2>3, <2>5, QuietStays DEF EnqueueDelivery
<1>9. ASSUME NEW w \in HostedWorkers, CompleteJob(w) PROVE QuietInv'
  <2>1. \A b \in quiet' : RowsStay(b)
    BY <1>9 DEF CompleteJob, RowsStay, QuietInv, PurgeIsFinal, ShapeInv, WorkspaceTypeOK
  <2>2. \A b \in quiet' : ~UnderWay(b)'
    BY <1>9, WorkStays DEF CompleteJob, Stops, Waiting, ShapeInv
  <2> QED
    BY <1>9, <2>1, <2>2, QuietStays DEF CompleteJob
<1>10. ASSUME NEW w \in HostedWorkers, CrashWorker(w) PROVE QuietInv'
  <2>1. \A b \in quiet' : ~UnderWay(b)'
    BY <1>10, WorkStays DEF CrashWorker, Stops, Waiting, ShapeInv
  <2> QED
    BY <1>10, <2>1, QuietStays DEF CrashWorker, RowsStay
<1>11. ASSUME NEW r \in HostedRepositories, PurgeRepository(r) PROVE QuietInv'
  <2>1. /\ restore'.pc = restore.pc
        /\ restore.pc = "running" => restore'.analyses = restore.analyses
    BY <1>11 DEF PurgeRepository, ShapeInv, Restoring, NoRestore
  <2>2. \A a \in quiet' : a \in quiet \cup AnalysesOf(r) /\ ~UnderWay(a)
    BY <1>11 DEF PurgeRepository
  <2>3. \A a \in quiet' : ~UnderWay(a)'
    BY <1>11, <2>1, <2>2 DEF PurgeRepository, UnderWay
  <2>4. ASSUME NEW a \in quiet', NEW p \in HostedPulls, pointers'[p] = a PROVE FALSE
    <3>1. a \in Analyses /\ a # NoPointer
      BY <2>2, HostedAssumption DEF AnalysesOf, ShapeInv, WorkspaceTypeOK
    <3>2. pointers[p] = a
      BY <1>11, <2>4, <3>1 DEF PurgeRepository
    <3>3. PullRequestOf[a] = p
      BY <3>1, <3>2 DEF OwnInv, Own
    <3>4. a \in AnalysesOf(r)
      BY <2>2, <3>2 DEF QuietInv, PurgeIsFinal
    <3>5. RepositoryOf[p] = r
      BY <3>3, <3>4 DEF AnalysesOf
    <3>6. p \notin Ownerless
      BY <1>11, <3>2, <3>4 DEF PurgeRepository
    <3> QED
      BY <1>11, <2>4, <3>1, <3>5, <3>6 DEF PurgeRepository
  <2>5. ASSUME NEW a \in quiet'
        PROVE  /\ inbox'[a] = "none" /\ jobs'[a] = "none" /\ canonical'[a] = NoContent
               /\ a \notin outbox'
    BY <1>11, <2>2 DEF PurgeRepository, QuietInv, PurgeIsFinal, AnalysesOf, ShapeInv, WorkspaceTypeOK
  <2> QED
    BY <2>3, <2>4, <2>5 DEF QuietInv, PurgeIsFinal
<1>12. CASE BackupRecords \/ BackupPointers
  BY <1>12 DEF BackupRecords, BackupPointers, QuietInv, PurgeIsFinal, UnderWay
<1>13. CASE StartRestore
  <2>1. quiet' = quiet \ restore'.analyses
    BY <1>13 DEF StartRestore
  <2>2. \A a \in quiet' : ~UnderWay(a)'
    BY <1>13, <2>1 DEF StartRestore, QuietInv, UnderWay
  <2> QED
    BY <1>13, <2>1, <2>2, QuietStays DEF StartRestore, RowsStay
<1>14. CASE EndRestore
  BY <1>14 DEF EndRestore, NoRestore, QuietInv, PurgeIsFinal, UnderWay
<1>15. ASSUME NEW p \in HostedPulls, RestorePointer(p) PROVE QuietInv'
  <2>1. restore \in Restoring /\ restore.pc = "running"
    BY <1>15 DEF RestorePointer, NoRestore, ShapeInv
  <2>2. restore.of.pointers[p] \notin quiet
    BY <1>15, <2>1 DEF RestorePointer, OwnInv, QuietInv, UnderWay
  <2>3. restore'.analyses = restore.analyses
    BY <1>15, <2>1 DEF RestorePointer, Restoring
  <2>4. \A a \in quiet' : RowsStay(a)
    BY <1>15, <2>2 DEF RestorePointer, RowsStay, ShapeInv, WorkspaceTypeOK
  <2>5. \A a \in quiet' : ~UnderWay(a)'
    BY <1>15, <2>1, <2>3 DEF RestorePointer, QuietInv, UnderWay
  <2> QED
    BY <1>15, <2>4, <2>5, QuietStays DEF RestorePointer
<1>16. CASE UNCHANGED workspace
  BY <1>16 DEF workspace, QuietInv, PurgeIsFinal, UnderWay
<1> QED
  BY <1>1, <1>2, <1>3, <1>4, <1>5, <1>6, <1>7, <1>8, <1>9, <1>10, <1>11, <1>12, <1>13,
     <1>14, <1>15, <1>16 DEF WorkspaceNext

-----------------------------------------------------------------------------
(* Backups and restores. *)

\* Every record of f is a stored one; every pointer of q has its record in f.
Same(f) == \A a \in Analyses : f[a] # NoContent => canonical[a] = f[a]
Covers(f, q) == \A p \in HostedPulls : q[p] # NoPointer => f[q[p]] # NoContent

BackupInv ==
    /\ Covers(canonical, pointers)
    /\ backup.pc = "records" =>
           /\ Covers(backup.records, backup.before)
           /\ ~backup.purged => Same(backup.records)
    /\ backup.pc = "done" =>
           /\ ~backup.torn => Covers(backup.records, backup.pointers)
           /\ ~backup.purged => Same(backup.records)

RestoreInv ==
    /\ restore.pc = "running" =>
           /\ \A a \in restore.records : restore.of.records[a] # NoContent
           /\ ~restore.of.torn => Covers(restore.of.records, restore.of.pointers)
           /\ ~restore.purged =>
                  \A a \in Analyses \ restore.records :
                      restore.of.records[a] # NoContent => canonical[a] # NoContent
           /\ ~restore.of.purged /\ ~restore.purged => Same(restore.of.records)
    /\ UntornBackupRestores

LEMMA BackupInit == WorkspaceInit => BackupInv /\ RestoreInv
BY DEF WorkspaceInit, BackupInv, RestoreInv, Covers, NoBackup, NoRestore, UntornBackupRestores

\* No stored record is changed or removed.
RecordsStay == \A a \in Analyses : canonical[a] # NoContent => canonical'[a] = canonical[a]

\* Steps that add records, and touch neither pointers, backup nor restore.
LEMMA RecordsAreAdded ==
    ASSUME ShapeInv, BackupInv, RestoreInv, RecordsStay, UNCHANGED <<pointers, backup, restore>>
    PROVE  BackupInv' /\ RestoreInv'
<1>1. Covers(canonical', pointers')
  BY DEF ShapeInv, WorkspaceTypeOK, BackupInv, Covers, RecordsStay
<1>2. ASSUME NEW f, Same(f) PROVE \A a \in Analyses : f[a] # NoContent => canonical'[a] = f[a]
  BY <1>2 DEF Same, RecordsStay
<1>3. BackupInv'
  BY <1>1, <1>2 DEF BackupInv, Covers, Same
<1>4. RestoreInv'
  BY <1>2 DEF RestoreInv, UntornBackupRestores, Covers, Same, RecordsStay
<1> QED
  BY <1>3, <1>4

LEMMA BackupStep ==
    ShapeInv /\ OwnInv /\ BackupInv /\ RestoreInv /\ [WorkspaceNext]_workspace
        => BackupInv' /\ RestoreInv'
<1> SUFFICES ASSUME ShapeInv, OwnInv, BackupInv, RestoreInv, [WorkspaceNext]_workspace
             PROVE  BackupInv' /\ RestoreInv'
  OBVIOUS
<1> DEFINE Goal == BackupInv' /\ RestoreInv'
<1> USE DEF tables
<1>1. ASSUME NEW r \in HostedRepositories, PurgeRepository(r) PROVE Goal
  <2>1. Covers(canonical', pointers')
    <3> SUFFICES ASSUME NEW p \in HostedPulls, pointers'[p] # NoPointer
                 PROVE  canonical'[pointers'[p]] # NoContent
      BY DEF Covers
    <3>1. (RepositoryOf[p] # r \/ p \in Ownerless) /\ pointers'[p] = pointers[p]
      BY <1>1 DEF PurgeRepository
    <3>2. pointers[p] \in Analyses \ AnalysesOf(r)
      BY <1>1, <3>1 DEF PurgeRepository, AnalysesOf, OwnInv, Own, ShapeInv, WorkspaceTypeOK
    <3>3. canonical[pointers[p]] # NoContent
      BY <3>1 DEF BackupInv, Covers
    <3> QED
      BY <1>1, <3>1, <3>2, <3>3 DEF PurgeRepository, AnalysesOf
  <2>2. /\ backup'.pc = "records" =>
               /\ backup.pc = "records" /\ backup'.purged
               /\ backup'.records = backup.records /\ backup'.before = backup.before
        /\ backup'.pc = "done" =>
               /\ backup.pc = "done" /\ backup'.purged /\ backup'.torn = backup.torn
               /\ backup'.records = backup.records /\ backup'.pointers = backup.pointers
    BY <1>1 DEF PurgeRepository, ShapeInv, Reading, Done, NoBackup
  <2>3. /\ restore'.pc = restore.pc
        /\ restore.pc = "running" =>
               /\ restore'.purged
               /\ restore'.of = restore.of /\ restore'.records = restore.records
        /\ restore.pc # "running" => restore' = restore
    BY <1>1 DEF PurgeRepository, ShapeInv, Restoring, NoRestore
  <2>4. BackupInv'
    BY <2>1, <2>2 DEF BackupInv, Covers
  <2>5. RestoreInv'
    BY <2>3 DEF RestoreInv, UntornBackupRestores, Covers
  <2> QED
    BY <2>4, <2>5
<1>3. ASSUME RecordsStay, UNCHANGED <<pointers, backup, restore>> PROVE Goal
  BY <1>3, RecordsAreAdded
<1>4. ASSUME NEW w \in HostedWorkers, PutCanonicalPointer(w) PROVE Goal
  <2>1. hosted[w].analysis \in Analyses /\ PullRequestOf[hosted[w].analysis] \in HostedPulls
    BY <1>4, PullOf DEF PutCanonicalPointer, Waiting, Busy, ShapeInv
  <2>2. Covers(canonical', pointers')
    BY <1>4, <2>1 DEF PutCanonicalPointer, FailJob, BackupInv, Covers, ShapeInv, WorkspaceTypeOK
  <2>3. UNCHANGED <<canonical, backup, restore>>
    BY <1>4 DEF PutCanonicalPointer, FailJob
  <2> QED
    BY <2>2, <2>3 DEF BackupInv, RestoreInv, UntornBackupRestores, Covers, Same
<1>5. CASE BackupRecords
  BY <1>5 DEF BackupRecords, BackupInv, RestoreInv, UntornBackupRestores, Covers, Same
<1>6. CASE BackupPointers
  <2>1. /\ backup'.pc = "done" /\ backup'.records = backup.records
        /\ backup'.pointers = pointers /\ backup'.purged = backup.purged
        /\ ~backup'.torn => \A p \in HostedPulls : pointers[p] \in {NoPointer, backup.before[p]}
        /\ UNCHANGED <<canonical, pointers, restore>>
    BY <1>6 DEF BackupPointers
  <2>2. ~backup'.torn => Covers(backup'.records, backup'.pointers)
    BY <1>6, <2>1 DEF BackupPointers, BackupInv, Covers
  <2>3. ~backup'.purged => Same(backup.records)
    BY <1>6, <2>1 DEF BackupPointers, BackupInv
  <2>4. BackupInv'
    BY <2>1, <2>2, <2>3 DEF BackupInv, Covers, Same
  <2>5. RestoreInv'
    BY <2>1 DEF RestoreInv, UntornBackupRestores, Covers, Same
  <2> QED
    BY <2>4, <2>5
<1>7. CASE StartRestore
  <2>1. /\ restore'.pc = "running" /\ restore'.of = backup /\ ~restore'.purged
        /\ restore'.records = {a \in Analyses : backup.records[a] # NoContent}
        /\ UNCHANGED <<canonical, pointers, backup>> /\ backup.pc = "done"
    BY <1>7 DEF StartRestore
  <2>2. BackupInv'
    BY <2>1 DEF BackupInv, Covers, Same
  <2>3. RestoreInv'
    BY <2>1 DEF BackupInv, RestoreInv, UntornBackupRestores, Covers, Same
  <2> QED
    BY <2>2, <2>3
<1>8. CASE EndRestore
  BY <1>8 DEF EndRestore, NoRestore, BackupInv, RestoreInv, UntornBackupRestores, Covers, Same
<1>9. ASSUME NEW a \in Analyses, RestoreRecord(a) PROVE Goal
  <2>1. restore \in Restoring /\ restore.pc = "running" /\ a \in restore.records
    BY <1>9 DEF RestoreRecord, NoRestore, ShapeInv
  <2>2. RecordsStay /\ UNCHANGED <<pointers, backup>>
    BY <1>9 DEF RestoreRecord, RecordsStay, ShapeInv, WorkspaceTypeOK
  <2>3. /\ restore'.of = restore.of /\ restore'.purged = restore.purged
        /\ restore'.pc = "running" =>
               /\ restore'.records = restore.records \ {a}
               /\ canonical'[a] = restore.of.records[a]
        /\ restore'.pc # "missing"
        /\ restore'.pc = "conflict" => canonical[a] \notin {NoContent, restore.of.records[a]}
    BY <1>9, <2>1 DEF RestoreRecord, Restoring, ShapeInv, WorkspaceTypeOK
  <2>4. restore.of.records[a] # NoContent
    BY <2>1 DEF RestoreInv
  <2>5. ~restore.of.purged /\ ~restore.purged => Same(restore.of.records)
    BY <2>1 DEF RestoreInv
  <2>6. restore'.pc = "conflict" => restore.of.purged \/ restore.purged
    BY <2>3, <2>4, <2>5 DEF Same
  <2>7. BackupInv'
    BY <2>2 DEF ShapeInv, WorkspaceTypeOK, BackupInv, Covers, Same, RecordsStay
  <2>8. restore'.pc = "running" /\ ~restore.purged =>
            \A b \in Analyses \ restore'.records :
                restore.of.records[b] # NoContent => canonical'[b] # NoContent
    BY <2>1, <2>2, <2>3, <2>4 DEF RestoreInv, RecordsStay
  <2>9. RestoreInv'
    BY <2>1, <2>2, <2>3, <2>5, <2>6, <2>8
       DEF RestoreInv, UntornBackupRestores, Covers, Same, RecordsStay
  <2> QED
    BY <2>7, <2>9
<1>10. ASSUME NEW p \in HostedPulls, RestorePointer(p) PROVE Goal
  <2>1. /\ restore \in Restoring /\ restore.pc = "running" /\ restore.records = {}
        /\ p \in restore.pointers /\ UNCHANGED <<canonical, backup>>
    BY <1>10 DEF RestorePointer, PointersFollow, NoRestore, ShapeInv
  <2> DEFINE target == restore.of.pointers[p]
  <2>2. target # NoPointer /\ target \in Analyses
    BY <2>1 DEF OwnInv, Restoring
  <2>3. /\ restore'.of = restore.of /\ restore'.purged = restore.purged
        /\ restore'.records = restore.records /\ restore'.pc # "conflict"
        /\ restore'.pc = "missing" => canonical[target] = NoContent
    BY <1>10, <2>1 DEF RestorePointer, Restoring
  <2>4. restore'.pc = "missing" => restore.of.torn \/ restore.purged
    BY <2>1, <2>2, <2>3 DEF RestoreInv, Covers
  <2>5. Covers(canonical', pointers')
    BY <1>10, <2>1 DEF RestorePointer, BackupInv, Covers, ShapeInv, WorkspaceTypeOK
  <2>6. BackupInv'
    BY <2>1, <2>5 DEF BackupInv, Covers, Same
  <2>7. RestoreInv'
    BY <2>1, <2>3, <2>4 DEF RestoreInv, UntornBackupRestores, Covers, Same
  <2> QED
    BY <2>6, <2>7
<1>11. ASSUME NEW w \in HostedWorkers, NEW a \in Analyses, Claim(w, a) PROVE Goal
  BY <1>3, <1>11 DEF Claim, RecordsStay
<1>12. ASSUME NEW w \in HostedWorkers,
              \/ EnqueueJob(w) \/ ResolveWebhook(w) \/ CompleteJob(w) \/ CrashWorker(w)
              \/ EnqueueDelivery(w)
       PROVE  Goal
  BY <1>3, <1>12 DEF EnqueueJob, ResolveWebhook, CompleteJob, CrashWorker, EnqueueDelivery,
     FailJob, RecordsStay
<1>13. ASSUME NEW w \in HostedWorkers, PutCanonicalRecord(w) PROVE Goal
  <2>1. RecordsStay
    BY <1>13 DEF PutCanonicalRecord, FailJob, RecordsStay, ShapeInv, WorkspaceTypeOK
  <2> QED
    BY <1>3, <1>13, <2>1 DEF PutCanonicalRecord, FailJob
<1>14. ASSUME NEW a \in Analyses, Receive(a) PROVE Goal
  BY <1>3, <1>14 DEF Receive, RecordsStay
<1>15. CASE UNCHANGED workspace
  BY <1>3, <1>15 DEF workspace, RecordsStay
<1> QED
  BY <1>1, <1>4, <1>5, <1>6, <1>7, <1>8, <1>9, <1>10, <1>11, <1>12, <1>13, <1>14, <1>15
     DEF WorkspaceNext

-----------------------------------------------------------------------------

\* For any pull requests, workers and contents: what purgeRepository deletes stays
\* away unless a claim or a restore was about to put it, whatever statements of
\* unfinished jobs, retries, other purges and restores follow.
THEOREM PurgedStaysAway == HostedSpec => []PurgeIsFinal
<1>1. WorkspaceInit => ShapeInv /\ OwnInv /\ QuietInv
  BY ShapeInit, OwnInit, QuietInit
<1>2. ShapeInv /\ OwnInv /\ QuietInv /\ [WorkspaceNext]_workspace => (ShapeInv /\ OwnInv /\ QuietInv)'
  BY ShapeStep, OwnStep, QuietStep
<1>3. QuietInv => PurgeIsFinal
  BY DEF QuietInv
<1> QED
  BY <1>1, <1>2, <1>3, PTL DEF HostedSpec

\* restoreWorkspace of an untorn backup finds every record, unless a purge ran
\* beside it, and meets no other content, unless a purge ran since the backup.
THEOREM RestoreFindsRecords == HostedSpec => []UntornBackupRestores
<1>1. WorkspaceInit => ShapeInv /\ OwnInv /\ BackupInv /\ RestoreInv
  BY ShapeInit, OwnInit, BackupInit
<1>2. ShapeInv /\ OwnInv /\ BackupInv /\ RestoreInv /\ [WorkspaceNext]_workspace
          => (ShapeInv /\ OwnInv /\ BackupInv /\ RestoreInv)'
  BY ShapeStep, OwnStep, BackupStep
<1>3. RestoreInv => UntornBackupRestores
  BY DEF RestoreInv
<1> QED
  BY <1>1, <1>2, <1>3, PTL DEF HostedSpec
=============================================================================
