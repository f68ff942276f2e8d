------------------------------ MODULE Reviews ------------------------------
(***************************************************************************)
(* Human review of findings: RecordReview over SqliteStore, its callers    *)
(* (the review commands, the hosted review service), suppression rules,    *)
(* and the suppressions an analysis applies.                               *)
(*                                                                         *)
(* Every reviewer is a process of its own on one store.  A command reads   *)
(* the clock first, awaits the store several times and appends last, so    *)
(* the order of the appends is not the order of the timestamps.  The       *)
(* analyses are of one pull request: the newest one is what findFinding    *)
(* returns.  Versions stand for everything an invalidation predicate pins  *)
(* (code generations, shapes, adapter, policy and registry versions).      *)
(***************************************************************************)
EXTENDS Integers, Sequences, FiniteSets

CONSTANTS
    Reviewers,         \* processes that record reviews
    Findings,          \* fingerprints
    Attributes,        \* of each finding: see AttributesOf
    Scopes,            \* suppression scopes a reviewer may ask for
    Roles,             \* roles reviewers have
    Facets,            \* kinds of invalidation predicate
    Bounds,            \* bounds a behaviour may have: see Bound
    Lifetime,          \* how long after its creation a rule is due and expires
    ForeignRules       \* suppression rules that an import may bring: see ForeignRule

RoleRank == [reviewer |-> 1, repository_owner |-> 2, workspace_admin |-> 3]

RequiredRole ==
    [occurrence |-> "reviewer", stable_finding |-> "reviewer",
     contract_consumer |-> "repository_owner", repository_pair_kind |-> "repository_owner",
     adapter_rule |-> "workspace_admin", workspace_rule |-> "workspace_admin"]

AttributesOf == [kind : STRING, key : STRING, consumer : STRING, adapter : STRING, rules : SUBSET STRING]

\* On the version of a facet, the clock, the analyses, the review events, the
\* suppression rules and their state events, and the rules of its import files.
Bound ==
    [version : Nat, time : Nat, analyses : Nat, reviews : Nat, rules : Nat, states : Nat,
     imports : SUBSET ForeignRules]

\* What suppressionRuleSchema admits: any ID, matcher, owner and dates, and at
\* least one predicate.
ForeignRule(rule) ==
    /\ DOMAIN rule = {"id", "matcher", "owner", "created", "review", "expires", "pins"}
    /\ DOMAIN rule.pins \subseteq Facets /\ DOMAIN rule.pins # {}

ASSUME ReviewsAssumption ==
    /\ \A rule \in ForeignRules : ForeignRule(rule)
    /\ Scopes \subseteq DOMAIN RequiredRole /\ Roles \subseteq DOMAIN RoleRank
    /\ DOMAIN Attributes = Findings
    /\ Lifetime \in [review : Nat \ {0}, expiry : Nat \ {0}]
    /\ Bounds \subseteq Bound

VARIABLES
    clock,
    versions,          \* the version every facet has now
    analyses,          \* analysis_results, the last one current
    analysis,          \* the execution under way: the rules it has read
    reviews,           \* review_events
    rules,             \* suppression_rules
    stateEvents,       \* suppression_state_events
    session,           \* where each reviewer is
    bound              \* the bounds of this behaviour

reviewVars == <<clock, versions, analyses, analysis, reviews, rules, stateEvents, session, bound>>

-----------------------------------------------------------------------------
(* Records. *)

NoRule == [owner |-> "none"]
NoRuleId == <<>>
NoEvent == 0
Idle == [pc |-> "idle"]
NoAnalysis == [pc |-> "idle"]

\* The keys a matcher of a scope may have to match a finding of an analysis.
MatcherKeys(scope, n, f) ==
    LET a == Attributes[f] IN
    CASE scope = "occurrence" -> {<<n, f>>}
      [] scope = "stable_finding" -> {<<f>>}
      [] scope = "contract_consumer" -> {<<a.kind, a.key, a.consumer>>}
      [] scope = "repository_pair_kind" -> {<<a.consumer, a.kind>>}
      [] scope = "adapter_rule" -> {<<a.adapter, rule>> : rule \in a.rules}
      [] scope = "workspace_rule" -> {<<rule>> : rule \in a.rules}

MatcherMatches(matcher, n, f) == matcher.key \in MatcherKeys(matcher.scope, n, f)

\* The ID hashes what the rule is for, whose it is and when it was made, not
\* what invalidates it.
RuleId(matcher, owner, created) == <<matcher, owner, created>>

RoleAuthorized(scope, role) == RoleRank[role] >= RoleRank[RequiredRole[scope]]

\* createSuppressionRule: the rules a reviewer of a finding may make at a time.
\* Every predicate pins what the reviewed analysis used.
RulesFor(n, f, at) ==
    UNION {{LET matcher == [scope |-> grant.scope, key |-> key] IN
            [id |-> RuleId(matcher, grant.role, at), matcher |-> matcher, owner |-> grant.role,
             created |-> at, review |-> at + Lifetime.review, expires |-> at + Lifetime.expiry,
             pins |-> analyses[n].versions] : key \in MatcherKeys(grant.scope, n, f)} :
           grant \in {g \in [scope : Scopes, role : Roles] : RoleAuthorized(g.scope, g.role)}}

\* Newest first by time and then by ID, the order of every list of the store.
Precedes(e, other) == e.at < other.at \/ (e.at = other.at /\ e.id < other.id)

Newest(events) == CHOOSE e \in events : \A o \in events \ {e} : Precedes(o, e)

OfOccurrence(n, f) == {e \in reviews : e.analysis = n /\ e.finding = f}

\* The ID of the event that a new one must supersede.
Current(n, f) == IF OfOccurrence(n, f) = {} THEN NoEvent ELSE Newest(OfOccurrence(n, f)).id

-----------------------------------------------------------------------------
(* resolveSuppression and matchSuppression. *)

InvalidatedByAll(rule, pinned) == \A x \in DOMAIN rule.pins : pinned[x] # rule.pins[x]
Invalidated(rule, pinned) == \E x \in DOMAIN rule.pins : pinned[x] # rule.pins[x]

Resolution(rule, pinned, now) ==
    LET mine == {e \in stateEvents : e.rule = rule.id}
        renewal == IF mine = {} THEN 0 ELSE Newest(mine).extension
    IN  CASE mine # {} /\ Newest(mine).state = "revoked" -> "revoked"
          [] now >= rule.expires + renewal -> "expired"
          [] Invalidated(rule, pinned) -> "invalidated"
          [] now >= rule.review + renewal -> "review_due"
          [] OTHER -> "active"

\* The rules that suppress a finding; matchSuppression takes the first by ID.
Suppressing(known, n, f, pinned, now) ==
    {rule \in known : MatcherMatches(rule.matcher, n, f) /\ Resolution(rule, pinned, now) = "active"}

-----------------------------------------------------------------------------
(* The world, and AnalyzePullRequest's use of the rules. *)

Tick ==
    /\ clock < bound.time
    /\ clock' = clock + 1
    /\ UNCHANGED <<versions, analyses, analysis, reviews, rules, stateEvents, session>>

\* Code, policy, registry or an adapter moves on.
Change(x) ==
    /\ versions[x] < bound.version
    /\ versions' = [versions EXCEPT ![x] = @ + 1]
    /\ UNCHANGED <<clock, analyses, analysis, reviews, rules, stateEvents, session>>

\* The versions are those of the analysis's inputs; listSuppressions comes after.
ListSuppressions ==
    /\ analysis = NoAnalysis /\ Len(analyses) < bound.analyses
    /\ analysis' = [pc |-> "matching", versions |-> versions, rules |-> rules]
    /\ UNCHANGED <<clock, versions, analyses, reviews, rules, stateEvents, session>>

\* listSuppressionStateEvents and the clock, then matchSuppression for every
\* finding, then persistAnalysis.
MatchSuppressions ==
    /\ analysis # NoAnalysis
    /\ LET n == Len(analyses) + 1
           matching(f) == Suppressing(analysis.rules, n, f, analysis.versions, clock)
       IN  \E decision \in [Findings -> analysis.rules \cup {NoRule}] :
              /\ \A f \in Findings :
                    IF matching(f) = {} THEN decision[f] = NoRule ELSE decision[f] \in matching(f)
              /\ analyses' = Append(analyses, [versions |-> analysis.versions, suppressed |-> decision])
    /\ analysis' = NoAnalysis
    /\ UNCHANGED <<clock, versions, reviews, rules, stateEvents, session>>

-----------------------------------------------------------------------------
(* Recording a review. *)

Move(p, record) ==
    /\ session' = [session EXCEPT ![p] = record]
    /\ UNCHANGED <<clock, versions, analyses, analysis, reviews, rules, stateEvents>>

\* `review add`: the clock, before anything is read.
BeginReview(p) == session[p] = Idle /\ Move(p, [pc |-> "begun", at |-> clock])

\* RecordReview.execute up to the append: findFinding still returns the
\* occurrence, and listReviews the superseded event as the newest one.
RecordReviewAccepts(e) ==
    e.analysis = Len(analyses) /\ e.supersedes = Current(e.analysis, e.finding)

Checked(p, event, rule) == Move(p, [pc |-> "checked", event |-> event, rule |-> rule])

\* Drafts are numbered as they are made; two with one time append in any order.
UsedIds ==
    {e.id : e \in reviews} \cup
    {session[q].event.id : q \in {r \in Reviewers : session[r].pc = "checked"}}

FreshIds == {id \in 1 .. bound.reviews \ UsedIds : 1 .. id - 1 \subseteq UsedIds}

\* findFinding and listReviews, twice: the command drafts an event that
\* supersedes the newest one of the current occurrence, with or without a rule,
\* and RecordReview.execute checks the draft against a second reading.  The
\* command goes on only if both agree, and gives up otherwise.
DraftReview(p) ==
    /\ session[p].pc = "begun" /\ analyses # <<>>
    /\ \E f \in Findings, id \in FreshIds :
          LET n == Len(analyses) IN
          \E rule \in {NoRule} \cup RulesFor(n, f, session[p].at) :
              /\ rule # NoRule => Cardinality(rules) < bound.rules
              /\ Checked(p, [id |-> id, analysis |-> n, finding |-> f, at |-> session[p].at,
                             supersedes |-> Current(n, f),
                             rule |-> IF rule = NoRule THEN NoRuleId ELSE rule.id], rule)

\* `review import`: a line written elsewhere, so with any occurrence, any past
\* time, any superseded event and an ID that may be stored already.  The line may
\* bring a rule, of which RecordReview.execute asks only that the event names it;
\* without one the event may name any rule.  AuthorizedReviewService.record hands
\* its caller's event and rule on in the same way.
ImportReview(p) ==
    /\ session[p] = Idle
    /\ \E n \in DOMAIN analyses, f \in Findings, id \in UsedIds \cup FreshIds, at \in 0 .. clock,
          supersedes \in {NoEvent} \cup {e.id : e \in reviews}, rule \in {NoRule} \cup bound.imports,
          named \in {NoRuleId} \cup {r.id : r \in bound.imports} :
          LET event == [id |-> id, analysis |-> n, finding |-> f, at |-> at,
                        supersedes |-> supersedes, rule |-> named]
          IN  /\ RecordReviewAccepts(event)
              /\ rule # NoRule => named = rule.id /\ Cardinality(rules) < bound.rules
              /\ Checked(p, event, rule)

\* appendReview reads the newest event again, in its transaction.
SupersedesAny(e) == e.supersedes = NoEvent \/ e.supersedes \in {o.id : o \in reviews}
SupersedesLatest(e) == e.supersedes = Current(e.analysis, e.finding)

\* A rule whose ID is stored must be that rule.
RuleConflicts(rule) == \E r \in rules : r.id = rule.id /\ r # rule

\* appendReview: an event that is stored already is left alone, rule included;
\* the rule and the event are inserted together.
AppendReview(p) ==
    /\ session[p].pc = "checked"
    /\ LET e == session[p].event
           rule == session[p].rule
           known == \E o \in reviews : o.id = e.id
           refused == known \/ ~SupersedesLatest(e) \/ (rule # NoRule /\ RuleConflicts(rule))
       IN  /\ reviews' = IF refused THEN reviews ELSE reviews \cup {e}
           /\ rules' = IF refused \/ rule = NoRule THEN rules ELSE rules \cup {rule}
    /\ session' = [session EXCEPT ![p] = Idle]
    /\ UNCHANGED <<clock, versions, analyses, analysis, stateEvents>>

\* A failed read, a refused authorization, the end of the process.
GiveUp(p) == session[p] # Idle /\ Move(p, Idle)

\* appendSuppressionState: a revocation or a renewal dated by its caller.
AppendSuppressionState ==
    \E rule \in rules, state \in {"revoked", "renewed"}, at \in 0 .. clock, extension \in {0, 1} :
        /\ Cardinality(stateEvents) < bound.states
        /\ stateEvents' = stateEvents \cup
              {[id |-> Cardinality(stateEvents) + 1, rule |-> rule.id, at |-> at, state |-> state,
                extension |-> IF state = "renewed" THEN extension ELSE 0]}
        /\ UNCHANGED <<clock, versions, analyses, analysis, reviews, rules, session>>

ReviewsInit ==
    /\ clock = 0
    /\ versions = [x \in Facets |-> 1]
    /\ analyses = <<>> /\ analysis = NoAnalysis
    /\ reviews = {} /\ rules = {} /\ stateEvents = {}
    /\ session = [p \in Reviewers |-> Idle]
    /\ bound \in Bounds

ReviewsStep ==
    \/ Tick \/ ListSuppressions \/ MatchSuppressions \/ AppendSuppressionState
    \/ \E x \in Facets : Change(x)
    \/ \E p \in Reviewers :
          BeginReview(p) \/ DraftReview(p) \/ ImportReview(p) \/ AppendReview(p) \/ GiveUp(p)

ReviewsNext == ReviewsStep /\ UNCHANGED bound

ReviewsSpec == ReviewsInit /\ [][ReviewsNext]_reviewVars

-----------------------------------------------------------------------------
(* Properties. *)

\* The supersession history of an occurrence has one first event, and forks only
\* where an event is dated before the one it supersedes, however the reviewers'
\* reads and appends interleave (appendReview re-reads the newest event in its
\* transaction; RecordReview chose it before).
ForkIsBackdated ==
    \A e \in reviews, o \in reviews :
        e # o /\ e.analysis = o.analysis /\ e.finding = o.finding /\ e.supersedes = o.supersedes =>
            \E s \in reviews : s.id = e.supersedes /\ (Precedes(e, s) \/ Precedes(o, s))

\* A suppression stands for a review, as far as the store can vouch for it: the
\* rule matches the finding, pins nothing but what the suppressing analysis used,
\* and is named by a stored review; unless it is one that imports bring, that
\* review was of an analysis with exactly these versions (matchSuppression,
\* createSuppressionRule, RecordReview.execute and appendReview).
SuppressedWasReviewed ==
    \A n \in DOMAIN analyses, f \in Findings :
        LET rule == analyses[n].suppressed[f] IN
        rule # NoRule =>
            /\ rule.matcher.key \in MatcherKeys(rule.matcher.scope, n, f)
            /\ \A x \in DOMAIN rule.pins : rule.pins[x] = analyses[n].versions[x]
            /\ \E e \in reviews :
                  /\ e.rule = rule.id
                  /\ rule \notin ForeignRules => analyses[e.analysis].versions = analyses[n].versions

\* What the specification asks of every suppression: that its scope's role owns it
\* (AC-8.6), and that any change since the review invalidates it (AC-8.4).
\* Not kept: an imported rule has any owner and any pins, and TLC refutes it
\* (README, section 6).
SuppressionIsAuthorized ==
    \A n \in DOMAIN analyses, f \in Findings :
        LET rule == analyses[n].suppressed[f] IN
        rule # NoRule =>
            /\ RoleAuthorized(rule.matcher.scope, rule.owner)
            /\ \E e \in reviews : /\ e.rule = rule.id
                                   /\ analyses[e.analysis].versions = analyses[n].versions
=============================================================================
