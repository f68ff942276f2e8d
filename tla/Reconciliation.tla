--------------------------- MODULE Reconciliation ---------------------------
(***************************************************************************)
(* reconcileGitHubState: what a host must do so that its durable state     *)
(* follows the provider.  The provider changes while the actions of an     *)
(* earlier comparison still wait, so that actions are applied late; that a *)
(* host applies them, one at a time and in any order, is external.         *)
(***************************************************************************)
EXTENDS Integers

CONSTANTS
    Installed,       \* repositories of the installation
    Numbers,         \* pull requests of a repository
    Heads,           \* commits
    NoHead,          \* a branch or pull request that is not there
    MaxChanges       \* bound: changes at the provider

VARIABLES
    provider,        \* per repository: present, selected, head, open pull requests
    persisted,       \* the same as the host last wrote it
    waiting,         \* the actions of the last comparison that are left
    changes

reconciliation == <<provider, persisted, waiting, changes>>

\* An entry of ProviderRepositoryState and of ReconciliationState that is not in the
\* list; a repository that is in it is `known'.
Unknown ==
    [known |-> FALSE, selected |-> FALSE, head |-> NoHead, pulls |-> [n \in Numbers |-> NoHead]]

ReconciliationInit ==
    /\ provider = [r \in Installed |-> Unknown]
    /\ persisted = [r \in Installed |-> Unknown]
    /\ waiting = {} /\ changes = 0

Action(kind, r, n, head) == [kind |-> kind, repository |-> r, number |-> n, head |-> head]

\* Mutant: a repository that the provider no longer lists is passed over.
Lost(current, previous) == current.known /\ ~current.selected /\ previous.selected

\* A selected repository that the provider unselected or no longer lists.
Purged(current, previous) == ~(current.known /\ current.selected) /\ previous.selected

\* The actions for one repository.  An absent entry is neither selected nor not.
ActionsOf(r, current, previous) ==
    IF Purged(current, previous) THEN {Action("purge", r, 0, NoHead)}
    ELSE IF ~current.known THEN {}
    ELSE {a \in {Action("sync", r, 0, NoHead)} :
                ~previous.known \/ current.selected # previous.selected}
         \cup {a \in {Action("index", r, 0, current.head)} :
                current.selected /\ current.head # previous.head}
         \cup {Action("analyze", r, n, current.pulls[n]) :
                n \in {m \in Numbers : current.pulls[m] \notin {NoHead, previous.pulls[m]}}}

\* reconcileGitHubState; the order of its actions does not matter here.
Reconcile ==
    /\ waiting = {}
    /\ waiting' = UNION {ActionsOf(r, provider[r], persisted[r]) : r \in Installed}
    /\ waiting' # {}
    /\ UNCHANGED <<provider, persisted, changes>>

\* What applying an action makes of the durable state of its repository.
Applied(a, previous) ==
    CASE a.kind = "purge" -> Unknown
      [] a.kind = "sync" -> [previous EXCEPT !.known = TRUE,
                                !.selected = provider[a.repository].selected]
      [] a.kind = "index" -> [previous EXCEPT !.known = TRUE, !.head = a.head]
      [] a.kind = "analyze" -> [previous EXCEPT !.known = TRUE, !.pulls[a.number] = a.head]

Apply ==
    \E a \in waiting :
        /\ persisted' = [persisted EXCEPT ![a.repository] = Applied(a, @)]
        /\ waiting' = waiting \ {a}
        /\ UNCHANGED <<provider, changes>>

\* Selections, pushes, pull requests and removals at GitHub.
ProviderChanges ==
    /\ changes < MaxChanges /\ changes' = changes + 1
    /\ \E r \in Installed :
           \/ provider' = [provider EXCEPT ![r] = Unknown]
           \/ \E selected \in BOOLEAN, head \in Heads, n \in Numbers, pull \in Heads \cup {NoHead} :
                  provider' = [provider EXCEPT ![r] =
                      [known |-> TRUE, selected |-> selected, head |-> head,
                       pulls |-> [@.pulls EXCEPT ![n] = pull]]]
    /\ provider' # provider
    /\ UNCHANGED <<persisted, waiting>>

ReconciliationNext == Reconcile \/ Apply \/ ProviderChanges

ReconciliationFairness == WF_reconciliation(Reconcile) /\ WF_reconciliation(Apply)

-----------------------------------------------------------------------------
(* Properties. *)

Mirrors ==
    \A r \in Installed :
        LET current == provider[r]
            previous == persisted[r]
        IN  IF current.known /\ current.selected
            THEN /\ previous.selected /\ previous.head = current.head
                 /\ \A n \in Numbers : current.pulls[n] \in {NoHead, previous.pulls[n]}
            ELSE ~previous.selected

\* "Reconciliation compares current installation selection, exact default-branch
\* heads, and open PR heads against durable state" (docs/operations/
\* hosted-reference.md): once the provider stays as it is, repeated comparisons end,
\* with every selected repository, head and open pull request followed and nothing
\* else selected, although actions of earlier comparisons were applied late.
ReconciliationConverges == <>[](waiting = {} /\ Mirrors)
=============================================================================
