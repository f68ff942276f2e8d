--------------------------- MODULE LocalRegistry ----------------------------
(***************************************************************************)
(* Registry snapshots: what validateRegistrySnapshot admits, how an alias  *)
(* resolves to a service, and the reductions of a snapshot to fewer        *)
(* repositories.  A revision is identified by the hash of its workspace,   *)
(* sequence and content; the snapshot itself stands for that hash.         *)
(*                                                                         *)
(* The registry of a local workspace: the commands of the CLI that change  *)
(* it, LocalWorkspaceConfig's files (.reverb/workspace.yaml and one        *)
(* history file per revision) and the rows putRevision writes.  A command  *)
(* loads workspace.yaml, derives the next snapshot, writes the history     *)
(* file, renames the new yaml into place and puts the revision: four steps *)
(* that nothing makes atomic, and other commands may run in between.       *)
(***************************************************************************)
EXTENDS Integers, Sequences, FiniteSets, SequencesExt

\* A snapshot has a workspace, a sequence, memberships [id, alias, selected,
\* consent], service identities [id, repository, from, until] and aliases
\* [service, value, from, until]; the kind and the environment of an alias are part
\* of its value.  createRegistrySnapshot sorts the services by ID alone, and the sort
\* is stable: entries of one ID keep their order, and nothing looks at the order of
\* the others.
SnapshotOf(workspace, sequence, repositories, services, aliases) ==
    [workspace |-> workspace, sequence |-> sequence, repositories |-> repositories,
     services |-> services, aliases |-> aliases]

Ids(rows) == {row.id : row \in rows}

ServicesOf(snapshot) == ToSet(snapshot.services)

-----------------------------------------------------------------------------
(* validateRegistrySnapshot. *)

\* Half-open intervals; the code's far end of time stands for a missing end.
IntervalsOverlap(a, b) == a.from < b.until /\ b.from < a.until

\* No repository and no alias twice.
DistinctMembers(snapshot) ==
    \A a, b \in snapshot.repositories : (a.id = b.id \/ a.alias = b.alias) => a = b

\* A service is compared with the entry before it that has its ID, no other.
ServicesAdmitted(snapshot) ==
    \A k \in DOMAIN snapshot.services :
        LET service == snapshot.services[k]
            earlier == {i \in 1 .. k - 1 : snapshot.services[i].id = service.id}
        IN  /\ service.from < service.until
            /\ service.repository \in Ids(snapshot.repositories)
            /\ \A i \in earlier :
                   (\A j \in earlier : j <= i) => ~IntervalsOverlap(snapshot.services[i], service)

\* Aliases of two services overlap only if their values differ as written.
AliasesAdmitted(snapshot) ==
    /\ \A alias \in snapshot.aliases :
           alias.from < alias.until /\ alias.service \in Ids(ServicesOf(snapshot))
    /\ \A a, b \in snapshot.aliases :
           (a.value = b.value /\ a.service # b.service) => ~IntervalsOverlap(a, b)

ValidSnapshot(snapshot) ==
    /\ snapshot.sequence > 0
    /\ DistinctMembers(snapshot)
    /\ ServicesAdmitted(snapshot)
    /\ AliasesAdmitted(snapshot)

-----------------------------------------------------------------------------
(* resolveServiceAlias. *)

ActiveAt(row, at) == row.from <= at /\ at < row.until

\* The services a value names at an instant; normalized says which values read
\* alike once normalizedAliasValue is applied.
CandidateServices(snapshot, value, at, normalized) ==
    {alias.service : alias \in
        {a \in snapshot.aliases :
            /\ ActiveAt(a, at)
            /\ \E service \in ServicesOf(snapshot) : service.id = a.service /\ ActiveAt(service, at)
            /\ normalized[a.value] = normalized[value]}}

ResolveServiceAlias(snapshot, value, at, normalized) ==
    LET candidates == CandidateServices(snapshot, value, at, normalized)
    IN  CASE candidates = {} -> [state |-> "not_found"]
          [] Cardinality(candidates) > 1 -> [state |-> "ambiguous", services |-> candidates]
          [] OTHER -> [state |-> "resolved", service |-> CHOOSE s \in candidates : TRUE]

-----------------------------------------------------------------------------
(* Reductions. *)

\* The services of the retained repositories, in their order.
ServicesIn(services, retained) ==
    LET kept[k \in 0 .. Len(services)] ==
            IF k = 0 THEN <<>>
            ELSE IF services[k].repository \in retained THEN Append(kept[k - 1], services[k])
            ELSE kept[k - 1]
    IN  kept[Len(services)]

\* Mutant: aliases outlive the services they name.
RestrictedKeepingAliases(snapshot, retained) ==
    [snapshot EXCEPT
        !.repositories = {m \in @ : m.id \in retained},
        !.services = ServicesIn(@, retained)]

\* Only the services of the retained repositories, and their aliases, stay.
Restricted(snapshot, retained) ==
    LET services == ServicesIn(snapshot.services, retained)
    IN  [snapshot EXCEPT
            !.repositories = {m \in @ : m.id \in retained},
            !.services = services,
            !.aliases = {alias \in @ : alias.service \in Ids(ToSet(services))}]

\* syncGitHubRepositorySelection: the provider's selection replaces the
\* memberships; services and aliases of the previous snapshot that still have
\* their repository are carried over.
SyncGitHubRepositorySelection(previous, selection, consent) ==
    LET kept == Restricted(previous, Ids(selection))
    IN  SnapshotOf(previous.workspace, previous.sequence + 1,
                   {[m EXCEPT !.selected = TRUE, !.consent = consent] : m \in selection},
                   kept.services, kept.aliases)

-----------------------------------------------------------------------------
(* A local workspace. *)

CONSTANTS
    Commands,          \* CLI processes, one command each
    RepositoryIds,     \* repositories that can become members
    MemberAliases,     \* names given to them
    ServiceIds,        \* service IDs
    AliasValues,       \* alias values, as written
    Normalized,        \* what normalizedAliasValue makes of each
    Workspaces,        \* workspace IDs
    NoSnapshot,
    InitialConfigs,    \* snapshots that a workspace may start from
    Forever            \* the far end of time

\* The schema of workspace.yaml.
WellFormed(snapshot) ==
    /\ snapshot = SnapshotOf(snapshot.workspace, snapshot.sequence, snapshot.repositories,
                             snapshot.services, snapshot.aliases)
    /\ snapshot.sequence \in Nat
    /\ \A m \in snapshot.repositories :
           /\ m = [id |-> m.id, alias |-> m.alias, selected |-> m.selected, consent |-> m.consent]
           /\ m.id \in RepositoryIds
    /\ snapshot.services \in Seq([id : ServiceIds, repository : RepositoryIds,
                                  from : Nat, until : Nat])
    /\ IsFiniteSet(snapshot.aliases)

\* addService refuses an ID that a service has already.
OneEntryPerService(snapshot) ==
    \A i, j \in DOMAIN snapshot.services :
        snapshot.services[i].id = snapshot.services[j].id => i = j

ASSUME LocalRegistryAssumption ==
    /\ NoSnapshot \notin InitialConfigs
    /\ \A snapshot \in InitialConfigs :
           WellFormed(snapshot) /\ ValidSnapshot(snapshot) /\ OneEntryPerService(snapshot)
    /\ DOMAIN Normalized = AliasValues
    /\ Forever \in Nat

VARIABLES
    config,        \* .reverb/workspace.yaml
    history,       \* .reverb/registry/<revision>.json: the revisions that have a file
    truncated,     \* those whose file a crash cut short
    revisions,     \* workspace_revisions
    currents,      \* workspace_current_revisions, at most one per workspace
    command,       \* where each process is
    acknowledged   \* revisions that a command has printed

local == <<config, history, truncated, revisions, currents, command, acknowledged>>

files == <<config, history, truncated>>
store == <<revisions, currents>>

IdleCommand == [pc |-> "idle"]

LocalInit ==
    /\ config \in InitialConfigs \cup {NoSnapshot}
    /\ history = {config} \ {NoSnapshot} /\ truncated = {}
    /\ revisions = history /\ currents = history
    /\ command = [c \in Commands |-> IdleCommand]
    /\ acknowledged = history

-----------------------------------------------------------------------------
(* What a command makes of the snapshot it has loaded. *)

\* initialize: one member, the root itself, in a workspace of a new ID.
InitialSnapshot(workspace, r, name) ==
    SnapshotOf(workspace, 1,
               {[id |-> r, alias |-> name, selected |-> TRUE, consent |-> "local-default-v1"]},
               <<>>, {})

\* addRepository; the consent revision is the command's own instant.
WithRepository(snapshot, r, name, c) ==
    [snapshot EXCEPT !.sequence = @ + 1,
        !.repositories = @ \cup {[id |-> r, alias |-> name, selected |-> TRUE, consent |-> c]}]

\* removeRepository.
WithoutRepository(snapshot, name) ==
    [Restricted(snapshot, {m.id : m \in {n \in snapshot.repositories : n.alias # name}})
        EXCEPT !.sequence = @ + 1]

\* addService and addServiceAlias: valid from now on.
WithService(snapshot, service, r) ==
    [snapshot EXCEPT !.sequence = @ + 1,
        !.services = Append(@, [id |-> service, repository |-> r,
                                from |-> snapshot.sequence, until |-> Forever])]

WithServiceAlias(snapshot, service, value) ==
    [snapshot EXCEPT !.sequence = @ + 1,
        !.aliases = @ \cup {[service |-> service, value |-> value,
                             from |-> snapshot.sequence, until |-> Forever]}]

\* The snapshots a command may derive: refusals of its own come first, then
\* those of createRegistrySnapshot.
Derived(snapshot, c) ==
    LET names == {m.alias : m \in snapshot.repositories}
        services == Ids(ServicesOf(snapshot))
        drafts ==
            {WithRepository(snapshot, r, name, c) :
                r \in RepositoryIds \ Ids(snapshot.repositories), name \in MemberAliases \ names}
            \cup {WithoutRepository(snapshot, name) : name \in names}
            \cup {WithService(snapshot, service, m.id) :
                    service \in ServiceIds \ services, m \in snapshot.repositories}
            \cup {WithServiceAlias(snapshot, service, value) :
                    service \in services, value \in AliasValues}
    IN  {draft \in drafts : ValidSnapshot(draft)}

-----------------------------------------------------------------------------
(* The steps of a command. *)

At(c, pc) == command[c].pc = pc

Step(c, pc) == command' = [command EXCEPT ![c].pc = pc]

\* reverb init: stat finds no workspace.yaml.
Initialize(c) ==
    /\ At(c, "idle") /\ config = NoSnapshot
    /\ \E workspace \in Workspaces, r \in RepositoryIds, name \in MemberAliases :
           command' = [command EXCEPT ![c] =
                          [pc |-> "drafted", snapshot |-> InitialSnapshot(workspace, r, name)]]
    /\ UNCHANGED <<files, store, acknowledged>>

\* reverb workspace add, workspace remove, registry service-add, alias-add.
Mutate(c) ==
    /\ At(c, "idle") /\ config # NoSnapshot
    /\ \E draft \in Derived(config, c) :
           command' = [command EXCEPT ![c] = [pc |-> "drafted", snapshot |-> draft]]
    /\ UNCHANGED <<files, store, acknowledged>>

\* reverb index and analyze put the revision they have loaded, which recovers
\* one whose own command never reached the store.
Reload(c) ==
    /\ At(c, "idle") /\ config # NoSnapshot
    /\ command' = [command EXCEPT ![c] = [pc |-> "reloaded", snapshot |-> config]]
    /\ UNCHANGED <<files, store, acknowledged>>

\* write, first half: the history file, unless there is one.
WriteHistory(c) ==
    /\ At(c, "drafted")
    /\ history' = history \cup {command[c].snapshot}
    /\ Step(c, "recorded")
    /\ UNCHANGED <<config, truncated, store, acknowledged>>

\* write, second half: writeAtomic renames over whatever is there.
WriteConfig(c) ==
    /\ At(c, "recorded")
    /\ config' = command[c].snapshot
    /\ Step(c, "written")
    /\ UNCHANGED <<history, truncated, store, acknowledged>>

\* INSERT OR IGNORE: a row with this revision or this sequence stays as it is.
RowExists(snapshot) ==
    \E row \in revisions :
        row = snapshot \/ (row.workspace = snapshot.workspace /\ row.sequence = snapshot.sequence)

\* The revision becomes current if its sequence is the greatest.
NewCurrents(snapshot) ==
    LET rows == {row \in currents : row.workspace = snapshot.workspace}
    IN  IF \A row \in rows : row.sequence < snapshot.sequence
        THEN (currents \ rows) \cup {snapshot} ELSE currents

\* putRevision, one transaction, and the command's output.  The edges that it
\* invalidates are EvidenceGraph's.
PutSnapshot(c) ==
    LET snapshot == command[c].snapshot
    IN  /\ At(c, "written") \/ At(c, "reloaded")
        /\ revisions' = IF RowExists(snapshot) THEN revisions ELSE revisions \cup {snapshot}
        /\ currents' = NewCurrents(snapshot)
        /\ acknowledged' = IF At(c, "written") THEN acknowledged \cup {snapshot} ELSE acknowledged
        /\ Step(c, "done")
        /\ UNCHANGED files

\* The process dies; inside writeFile it leaves a part of the history file.
Crash(c) ==
    /\ command[c].pc \in {"drafted", "recorded", "written", "reloaded"}
    /\ \/ UNCHANGED <<history, truncated>>
       \/ /\ At(c, "drafted") /\ command[c].snapshot \notin history
          /\ history' = history \cup {command[c].snapshot}
          /\ truncated' = truncated \cup {command[c].snapshot}
    /\ Step(c, "done")
    /\ UNCHANGED <<config, store, acknowledged>>

LocalNext ==
    \E c \in Commands :
        \/ Initialize(c) \/ Mutate(c) \/ Reload(c)
        \/ WriteHistory(c) \/ WriteConfig(c) \/ PutSnapshot(c)
        \/ Crash(c)

LocalSpec == LocalInit /\ [][LocalNext]_local

-----------------------------------------------------------------------------
(* Properties. *)

\* Repositories can always leave: whatever a registry has come to hold, both
\* workspace remove and a provider sync that drops repositories produce a
\* snapshot that validateRegistrySnapshot admits, and every alias that resolved
\* to a service of a repository that stays resolves to it still.
ReducedScopeIsSound ==
    config # NoSnapshot =>
        \A retained \in SUBSET Ids(config.repositories) :
            LET selection == {m \in config.repositories : m.id \in retained}
                synced == SyncGitHubRepositorySelection(config, selection, "sync")
                resolved(snapshot, value) ==
                    ResolveServiceAlias(snapshot, value, config.sequence, Normalized)
            IN  /\ ValidSnapshot(synced)
                /\ \A value \in AliasValues :
                       resolved(config, value).state = "resolved" =>
                           \A service \in ServicesOf(synced) :
                               service.id = resolved(config, value).service =>
                                   resolved(synced, value) = resolved(config, value)
                /\ \A m \in config.repositories : ValidSnapshot(WithoutRepository(config, m.alias))

\* "every mutation creates an immutable revision" (phase 001 spec): a revision
\* that a command has reported is one of the stored revisions.
\* Not kept: TLC refutes it (README, section 6).
AcknowledgedIsStored == acknowledged \subseteq revisions
=============================================================================
