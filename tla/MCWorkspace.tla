---------------------------- MODULE MCWorkspace ----------------------------
(***************************************************************************)
(* What surrounds the analyses of a workspace, for TLC: reviews and the    *)
(* suppressions they make; the promotion of advisories; the walk over      *)
(* transitive candidates; the commands that change a local registry; and   *)
(* the rows of a hosted workspace, purged, or backed up and restored.  A   *)
(* behaviour is of one subject; the others stay unused.                    *)
(***************************************************************************)
EXTENDS Reviews, Promotion, LocalRegistry, TransitiveImpact, HostedWorkspace, TLC

CONSTANTS
    Subjects,   \* what a run looks at
    k2          \* a content that only a restore behaviour has

VARIABLE subject

Interchangeable ==
    Permutations(Reviewers) \cup Permutations(Deciders) \cup Permutations(Commands)
        \cup Permutations(HostedWorkers)

-----------------------------------------------------------------------------
(* Specification. *)

Yes == [edge |-> "confirmed", action |-> "coordinate"]

\* Bounds of a promotion behaviour: cases are labelled before a corpus is frozen,
\* corpora frozen before a decision, and no evidence file is decided twice.
\* Reviewers agree on the first case.
PromotionBound ==
    /\ labels' # labels => corpora = <<>>
    /\ labels'[1] \in {Unlabelled, Yes}
    /\ corpora' # corpora => records = <<>> /\ \A p \in Deciders : decider[p] = Undecided
    /\ \A p \in Deciders : decider[p] = Undecided /\ decider'[p] # Undecided =>
           /\ \A q \in Deciders : decider[q] # Undecided => decider[q].evidence # decider'[p].evidence
           /\ \A i \in DOMAIN records : records[i].evidence # decider'[p].evidence

\* Bounds of a purge behaviour: no backup is taken, and no execution of a job
\* differs from another.
PurgeBound ==
    /\ UNCHANGED <<backup, restore>>
    /\ \A a \in Analyses : canonical'[a] # k2

\* Bounds of a restore behaviour: one repository, one worker at a time, and one backup, with
\* the deliveries before it and the purges after it; a restore that fails is the
\* last.
RestoreBound ==
    /\ inbox'[3] = "none" /\ 3 \notin quiet'
    /\ \A v, w \in HostedWorkers : v # w => Waiting \in {hosted'[v], hosted'[w]}
    /\ backup' # backup => backup.pc # "done" \/ backup'.pc = "done"
    /\ restore.pc \in {"missing", "conflict"} => restore' = restore
    /\ inbox' # inbox => backup = NoBackup
    /\ jobs' # jobs /\ (\A a \in Analyses : jobs'[a] = "none") => backup # NoBackup

Init ==
    /\ subject \in Subjects
    /\ ReviewsInit /\ PromotionInit /\ WalkInit /\ LocalInit /\ WorkspaceInit
    /\ subject # "reviews" => bound = CHOOSE b \in Bounds : TRUE
    /\ subject # "promotion" => \A s \in Strata : running[s] = "v1"
    /\ subject # "walk" => links = (CHOOSE graph \in Links : TRUE) /\ depth = 0
    /\ subject # "local" => config = NoSnapshot

Next ==
    /\ UNCHANGED subject
    /\ \/ /\ subject = "reviews" /\ ReviewsNext
          /\ UNCHANGED <<promotionVars, walk, local, workspace>>
       \/ /\ subject = "promotion" /\ PromotionNext /\ PromotionBound
          /\ UNCHANGED <<reviewVars, walk, local, workspace>>
       \/ /\ subject = "walk" /\ Extend
          /\ UNCHANGED <<reviewVars, promotionVars, local, workspace>>
       \/ /\ subject = "local" /\ LocalNext
          /\ UNCHANGED <<reviewVars, promotionVars, walk, workspace>>
       \/ /\ subject = "purge" /\ WorkspaceNext /\ PurgeBound
          /\ UNCHANGED <<reviewVars, promotionVars, walk, local>>
       \/ /\ subject = "restore" /\ WorkspaceNext /\ RestoreBound
          /\ UNCHANGED <<reviewVars, promotionVars, walk, local>>

WorkspaceSpec == Init /\ [][Next]_<<subject, reviewVars, promotionVars, walk, local, workspace>>

-----------------------------------------------------------------------------
(* Two findings of one contract at two consumers, under five bounds. *)

Attribute(consumer) ==
    [kind |-> "http", key |-> "k", consumer |-> consumer, adapter |-> "a", rules |-> {"removed"}]
MCAttributes == [f1 |-> Attribute("c1"), f2 |-> Attribute("c2")]
MCLifetime == [review |-> 1, expiry |-> 2]

\* Rules of import files: one of an owner who may not make it, which pins only the
\* policy, and one with the ID of a rule that `review add` makes.
Brought(id, owner, pins) ==
    [id |-> id, matcher |-> [scope |-> "contract_consumer", key |-> <<"http", "k", "c1">>],
     owner |-> owner, created |-> 0, review |-> 2, expires |-> 3, pins |-> pins]
Unowned == Brought(<<"foreign">>, "reviewer", [x \in {"policy"} |-> 1])
Colliding ==
    Brought(RuleId(Unowned.matcher, "repository_owner", 0), "repository_owner", [x \in {"code"} |-> 1])
MCForeignRules == {Unowned, Colliding}

Bounded(version, at, analysed, reviewed, ruled, states, imports) ==
    [version |-> version, time |-> at, analyses |-> analysed, reviews |-> reviewed,
     rules |-> ruled, states |-> states, imports |-> imports]
MCBounds ==
    {Bounded(1, 1, 1, 3, 0, 0, {}), Bounded(2, 2, 2, 1, 1, 0, {}), Bounded(1, 1, 2, 1, 1, 1, {}),
     Bounded(2, 0, 2, 1, 1, 0, {Unowned}), Bounded(1, 0, 1, 2, 1, 0, {Colliding})}

-----------------------------------------------------------------------------
(* Three cases, the panels that may label them and the gate they have to pass. *)

Drafted(id, output, subset, suppressed) ==
    [id |-> id, pr |-> id, subset |-> subset, stratum |-> "s", output |-> output, impact |-> "breaking",
     action |-> "coordinate", selected |-> output = "candidate", suppressed |-> suppressed,
     required |-> output = "candidate" /\ ~suppressed, latency |-> id]
MCDrafts ==
    {Drafted(1, "candidate", "historical", FALSE), Drafted(2, "candidate", "historical", FALSE),
     Drafted(3, "no_candidate", "historical", FALSE)}
No == [edge |-> "absent", action |-> "no_action"]
Submission(reviewer, label, conflict) == [reviewer |-> reviewer, labels |-> label, conflict |-> conflict]
Nobody == Submission("none", Unlabelled, FALSE)
Panel(a, b, c) == [first |-> a, second |-> b, third |-> c]
MCPanels ==
    {Panel(Submission("a", Yes, FALSE), Submission("b", Yes, TRUE), Nobody),
     Panel(Submission("a", Yes, FALSE), Submission("b", No, FALSE), Nobody),
     Panel(Submission("a", Yes, FALSE), Submission("b", No, FALSE), Submission("c", No, FALSE))}
MCGate ==
    [labels |-> 2, audits |-> 1, alerted |-> 500, p95 |-> 3, precision |-> [num |-> 2, den |-> 5],
     confidentiality |-> 0, removal |-> 0, everyRemedy |-> TRUE]
Defective(n) == [confidentiality |-> 0, removal |-> n, withoutRemedy |-> 0]
MCDefects == {Defective(0)}
\* Files that claim the metrics that the gate asks, whatever was labelled.
MCForeignEvidence ==
    LET claimed(d) == [x \in DOMAIN d \cup {"labels"} |-> IF x = "labels" THEN Yes ELSE d[x]] IN
    {[stratum |-> "s", corpus |-> 1, metrics |-> MetricSet({claimed(d) : d \in MCDrafts}),
      defects |-> Defective(n), versions |-> "v1"] : n \in {0, 1}}
Granted ==
    [inScope |-> TRUE, currentHead |-> TRUE, authorized |-> TRUE, killSwitch |-> FALSE,
     advisory |-> TRUE, incomplete |-> FALSE]
MCRequests == {Granted} \cup {[Granted EXCEPT ![x] = ~@] : x \in DOMAIN Granted}

-----------------------------------------------------------------------------
(* Graphs of up to six edges over four repositories, with cycles. *)

Edge(id, producer, consumer) ==
    {[id |-> id, producer |-> producer, consumer |-> consumer, valid |-> v] : v \in BOOLEAN}

MCLinks ==
    {{a, b, c, d, e, f} :
        a \in Edge(1, "o", "x"), b \in Edge(2, "o", "y"), c \in Edge(3, "x", "y"),
        d \in Edge(4, "y", "z"), e \in Edge(5, "z", "o") \cup Edge(5, "z", "x"),
        f \in Edge(6, "y", "x") \cup Edge(6, "x", "z")}

-----------------------------------------------------------------------------
(* Registries of two repositories of which one runs a service, or both do. *)

MCNormalized == [v \in {"A", "a", "b"} |-> IF v = "A" THEN "a" ELSE v]

Member(id, name) == [id |-> id, alias |-> name, selected |-> TRUE, consent |-> "given"]

Service(id, repository) == [id |-> id, repository |-> repository, from |-> 0, until |-> Forever]

MCInitialConfigs ==
    LET snapshot(services) ==
            SnapshotOf("ws1", 1, {Member("r1", "m"), Member("r2", "n")}, services, {})
        both == <<Service("s1", "r2"), Service("s2", "r1")>>
    IN  {snapshot(<<Service("s1", "r2")>>), snapshot(both)}

-----------------------------------------------------------------------------
(* Two analyses of one pull request, and one of another repository's, whose   *)
(* pointer has no repository.                                              *)

MCPullRequestOf == <<"p", "p", "q">>

MCRepositoryOf == [p |-> "r", q |-> "s"]
=============================================================================
