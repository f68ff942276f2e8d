-------------------------- MODULE AdapterSnapshots --------------------------
(***************************************************************************)
(* Adapter partitions and snapshots beside the generations they belong to, *)
(* and the contract observation of a generation.  Hosts extract, put a     *)
(* partition and put a snapshot, in three steps that other hosts, crashes  *)
(* and adapter upgrades come between; the snapshot of a derived generation *)
(* is the base's with the entries of an incremental update.  Records are   *)
(* content addressed: a record stands for its own hash.                    *)
(***************************************************************************)
EXTENDS TypeScriptAdapter, AdapterOutput

CONSTANTS
    Snapshotted,     \* generations; a number each, in the order they complete
    NoGeneration,
    Trees,           \* per generation, the trees it may be of: path -> content
    Revisions,       \* configuration revisions
    Context,         \* the adapter's context
    PackageRoot,     \* the partition key of the package
    OtherExtractions,\* extractions of the other adapters of the CLI
    Hosts,
    NoSnapshot,
    MaxVersion       \* bound on adapter upgrades

ASSUME AdapterSnapshotsAssumption ==
    /\ Snapshotted \subseteq Nat
    /\ MaxVersion \in Nat \ {0}

VARIABLES
    generations,     \* the completed ones
    version,         \* adapterVersion in use
    partitions,      \* adapter_semantic_partitions
    snapshots,       \* adapter_generation_snapshots
    host,            \* where each host is
    observations     \* contract_observations

adapters == <<generations, version, partitions, snapshots, host, observations>>

IdleHost == [pc |-> "idle"]

AdapterInit ==
    /\ generations = <<>> /\ version = 1
    /\ partitions = {} /\ snapshots = {} /\ observations = {}
    /\ host = [h \in Hosts |-> IdleHost]

Stamp(g) == [revision |-> generations[g].revision, version |-> version]

\* A generation completes, clean or derived from one of the same configuration.
CompleteGeneration ==
    LET g == Len(generations) + 1
    IN  /\ g \in Snapshotted
        /\ \E tree \in Trees[g], revision \in Revisions, state \in {"complete", "partial"},
              base \in {NoGeneration} \cup DOMAIN generations :
              /\ base # NoGeneration => generations[base].revision = revision
              /\ generations' = Append(generations,
                    [tree |-> tree, revision |-> revision, state |-> state, base |-> base])
        /\ UNCHANGED <<version, partitions, snapshots, host, observations>>

Upgrade ==
    /\ version < MaxVersion
    /\ version' = version + 1
    /\ UNCHANGED <<generations, partitions, snapshots, host, observations>>

-----------------------------------------------------------------------------
(* Snapshots. *)

\* resolveAdapterPartitions: the base's partitions, then the entries.
RECURSIVE Resolve(_)
Resolve(snapshot) ==
    LET inherited == IF snapshot.base = NoSnapshot THEN {} ELSE Resolve(snapshot.base)
    IN  {p \in inherited : p.key \notin DOMAIN snapshot.entries}
            \cup {p \in {snapshot.entries[k] : k \in DOMAIN snapshot.entries} : p # NoContent}

SnapshotOfGeneration(g) == {s \in snapshots : s.generation = g}

\* The files of a tree as artifacts, in a host's own order.
ArtifactOrders(tree, paths) ==
    LET sorted == SetToSortSeq({[path |-> p, content |-> tree[p]] : p \in paths}, ByRank)
    IN  {sorted, Reverse(sorted)}

\* Ways to report the difference of two trees: a file that is gone and a new one
\* may be a rename, and a new file may be a copy of one that stays.
ChangeSets(from, to) ==
    LET gone == DOMAIN from \ DOMAIN to
        new == DOMAIN to \ DOMAIN from
        stay == DOMAIN from \cap DOMAIN to
        change(kind, path, previous) == [kind |-> kind, path |-> path, previous |-> previous]
        plain == {change("deleted", p, NoPath) : p \in gone}
                     \cup {change("added", p, NoPath) : p \in new}
                     \cup {change("modified", p, NoPath) : p \in {q \in stay : from[q] # to[q]}}
        instead(p, c) == {d \in plain : d.path \notin {p, c.path}} \cup {c}
    IN  {plain}
        \cup {instead(p, change("renamed", q, p)) : p \in gone, q \in new}
        \cup {instead(q, change("copied", q, p)) : p \in stay, q \in new}

\* The partitions a host stores for a generation: a clean build, or an update of
\* the base's partitions from the changed files it could read.
Rebuilt(g) ==
    {[parts |-> BuildPartitions(PackageRoot, artifacts), base |-> NoSnapshot] :
        artifacts \in ArtifactOrders(generations[g].tree, DOMAIN generations[g].tree)}

Updated(g) ==
    LET tree == generations[g].tree
        base == generations[g].base
    IN  {[parts |-> UpdatePartitions({p.part : p \in Resolve(s)}, changes, supplied), base |-> s] :
            s \in SnapshotOfGeneration(base),
            changes \in ChangeSets(generations[base].tree, tree),
            supplied \in UNION {ArtifactOrders(tree, paths) :
                                    paths \in SUBSET (DOMAIN tree \ {p \in DOMAIN tree :
                                        p \in DOMAIN generations[base].tree
                                        /\ tree[p] = generations[base].tree[p]})}}

Prepare(h, g) ==
    /\ host[h] = IdleHost
    /\ \E work \in IF generations[g].base = NoGeneration THEN Rebuilt(g) ELSE Updated(g) :
           host' = [host EXCEPT ![h] =
               [pc |-> "prepared", generation |-> g, stamp |-> Stamp(g), base |-> work.base,
                parts |-> {[key |-> p.key, part |-> p, stamp |-> Stamp(g)] : p \in work.parts}]]
    /\ UNCHANGED <<generations, version, partitions, snapshots, observations>>

\* putAdapterPartition, once per partition.
PutAdapterPartition(h) ==
    /\ host[h].pc = "prepared"
    /\ partitions' = partitions \cup host[h].parts
    /\ host' = [host EXCEPT ![h].pc = "stored"]
    /\ UNCHANGED <<generations, version, snapshots, observations>>

Draft(h) ==
    [generation |-> host[h].generation, stamp |-> host[h].stamp, base |-> host[h].base,
     entries |-> [key \in {p.key : p \in host[h].parts} |->
                      CHOOSE p \in host[h].parts : p.key = key]]

AdapterSnapshotsCompatible(base, head) == base.stamp = head.stamp

\* The checks of putAdapterSnapshot.
Admitted(snapshot) ==
    LET generation == generations[snapshot.generation]
    IN  /\ generation.revision = snapshot.stamp.revision
        /\ snapshot.base # NoSnapshot =>
               /\ snapshot.base \in snapshots
               /\ AdapterSnapshotsCompatible(snapshot.base, snapshot)
               /\ generation.base # NoGeneration => snapshot.base.generation = generation.base
        /\ snapshot.base = NoSnapshot => generation.base = NoGeneration
        /\ \A key \in DOMAIN snapshot.entries :
               /\ snapshot.entries[key] \in partitions
               /\ snapshot.entries[key].stamp = snapshot.stamp
               /\ snapshot.entries[key].key = key
        /\ SnapshotOfGeneration(snapshot.generation) \subseteq {snapshot}

\* putAdapterSnapshot: stored, or a conflict that changes nothing.
PutAdapterSnapshot(h) ==
    /\ host[h].pc = "stored"
    /\ snapshots' = IF Admitted(Draft(h)) THEN snapshots \cup {Draft(h)} ELSE snapshots
    /\ host' = [host EXCEPT ![h] = IdleHost]
    /\ UNCHANGED <<generations, version, partitions, observations>>

CrashHost(h) ==
    /\ host[h] # IdleHost
    /\ host' = [host EXCEPT ![h] = IdleHost]
    /\ UNCHANGED <<generations, version, partitions, snapshots, observations>>

\* materializePartitions, and the diff a host takes of a snapshot and its base.
Materialized(s) == MaterializeState((CHOOSE p \in Resolve(s) : TRUE).part.payload, Context)

SnapshotDiff(base, head, stamp) ==
    IF Comparable(base.stamp, head.stamp, stamp)
    THEN Diff(Materialized(base), Materialized(head)) ELSE FailedDiff

-----------------------------------------------------------------------------
(* Contract observations, as the CLI makes them. *)

\* Mutant: a file that could not be read is not remembered.
IncompleteInputIfLarge(unread) == Cardinality(unread) > 1

IncompleteInput(unread) == unread # {}

\* The CLI names no repository, no entry points and no locked versions.
CliContext == [scoped |-> FALSE, entrypoints |-> <<>>, locked |-> {}]

\* extractContractsAtCommit and materializeContractObservation: unread files are
\* left out, and the trees have no artifact of a class that the command skips; the
\* other two adapters have extractions of their own.
ObservationOf(g, extractions, incomplete) ==
    [generation |-> g, definitions |-> ObservedDefinitions(extractions),
     references |-> ObservedReferences(extractions, Rank),
     coverage |-> EffectiveCoverage(ObservationCoverage(extractions), incomplete)]

Observed(g, artifacts, unread, others) ==
    ObservationOf(g, {Extract(artifacts, CliContext)} \cup others,
                  IncompleteInput(unread) \/ generations[g].state = "partial")

\* No observation is there yet; two hosts may both find none.
ObserveContracts(h, g) ==
    LET tree == generations[g].tree
    IN  /\ host[h] = IdleHost
        /\ \A o \in observations : o.generation # g
        /\ \E unread \in SUBSET DOMAIN tree, others \in OtherExtractions :
           \E artifacts \in ArtifactOrders(tree, DOMAIN tree \ unread) :
               host' = [host EXCEPT ![h] = [pc |-> "observed",
                           observation |-> Observed(g, artifacts, unread, others)]]
        /\ UNCHANGED <<generations, version, partitions, snapshots, observations>>

\* putContractObservation: an observation of a generation is never replaced.  The
\* edges that it invalidates are EvidenceGraph's.
PutContractObservation(h) ==
    /\ host[h].pc = "observed"
    /\ observations' = IF \E o \in observations : o.generation = host[h].observation.generation
                       THEN observations ELSE observations \cup {host[h].observation}
    /\ host' = [host EXCEPT ![h] = IdleHost]
    /\ UNCHANGED <<generations, version, partitions, snapshots>>

SnapshotNext ==
    \/ CompleteGeneration \/ Upgrade
    \/ \E h \in Hosts :
           \/ \E g \in DOMAIN generations : Prepare(h, g)
           \/ PutAdapterPartition(h) \/ PutAdapterSnapshot(h) \/ CrashHost(h)

ObservationNext ==
    \/ CompleteGeneration
    \/ \E h \in Hosts :
           \/ \E g \in DOMAIN generations : ObserveContracts(h, g)
           \/ PutContractObservation(h) \/ CrashHost(h)

-----------------------------------------------------------------------------
(* Properties. *)

CleanArtifacts(g) ==
    CHOOSE a \in ArtifactOrders(generations[g].tree, DOMAIN generations[g].tree) : TRUE

CleanSnapshotExtraction(g, context) == Extract(CleanArtifacts(g), context)

IsCleanOf(g, extraction) ==
    /\ ValidCoverage(extraction.coverage)
    /\ extraction.coverage.state = "complete" => extraction = CleanSnapshotExtraction(g, Context)

\* "Incremental and clean rebuilds are semantically identical" (phase 001): a
\* stored snapshot, however many updates it is made of, resolves to the one
\* partition of its package at its own stamp; and what is materialized from it
\* either is not complete or is the extraction of a clean build of its tree.
TypeScriptIsClean ==
    \A s \in snapshots :
        /\ Cardinality(Resolve(s)) = 1
        /\ \A p \in Resolve(s) : p.stamp = s.stamp
        /\ IsCleanOf(s.generation, Materialized(s))

HasAllOf(o, clean) ==
    /\ ObservedDefinitions({clean}) \subseteq o.definitions
    /\ \A r \in clean.references : \E seen \in o.references : StableId(seen) = StableId(r)
    /\ \A d \in o.definitions : d[1][1] = "public" => d \in ObservedDefinitions({clean})

\* A contract observation is complete only of a complete generation all of whose
\* files were read, and then has every definition and every stable reference that
\* a clean extraction finds, whichever order the host read them in.
CompleteObservationIsWhole ==
    \A o \in observations :
        o.coverage = "complete" =>
            /\ generations[o.generation].state = "complete"
            /\ HasAllOf(o, CleanSnapshotExtraction(o.generation, CliContext))

ReportsAll(diff, before, after) ==
    /\ ValidCoverage(diff.coverage)
    /\ diff.coverage.state = "complete" =>
           /\ \A key \in DOMAIN before \ DOMAIN after :
                  key \in DOMAIN diff.changes /\ diff.changes[key] = "breaking"
           /\ \A key \in DOMAIN before \cap DOMAIN after :
                  before[key] # after[key] => key \in DOMAIN diff.changes

\* The diff of two complete snapshots says of every definition that a clean build
\* has on one side only, or in another shape, that it changed, and calls the
\* loss of one breaking.
DiffIsWhole ==
    \A s \in snapshots :
        s.base # NoSnapshot =>
            ReportsAll(SnapshotDiff(s.base, s, s.stamp),
                       CleanSnapshotExtraction(s.base.generation, Context).definitions,
                       CleanSnapshotExtraction(s.generation, Context).definitions)
=============================================================================
