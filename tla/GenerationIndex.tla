-------------------------- MODULE GenerationIndex --------------------------
(***************************************************************************)
(* Building and publishing a repository generation:                        *)
(* IndexRepositoryGeneration.execute over SqliteStore's GenerationStore    *)
(* (beginGeneration, putArtifacts, completeGeneration, failGeneration,     *)
(* expireLease) and the artifact cache.                                    *)
(*                                                                         *)
(* execute is a sequence of awaits: a look for an existing generation, the *)
(* lease, the tree, one step per entry, one batch, the completion.  Any    *)
(* number of indexers interleave between them.  A second indexer of the    *)
(* same generation ID is handed the first one's lease, so the lease check  *)
(* of the store (same lease, row building) is "the row is building".       *)
(***************************************************************************)
EXTENDS Artifacts

CONSTANTS
    Indexers,                  \* processes running execute
    Generations, NoGeneration, \* generation IDs of the requests, and undefined
    CommitOf                   \* commitSha of each request

ASSUME GenerationsAssumption ==
    /\ NoGeneration \notin Generations
    /\ CommitOf \in [Generations -> Commits]

VARIABLES
    state,       \* generations.state of each ID; "absent" has no row
    artifacts,   \* file_artifacts of each generation: path |-> artifact
    coverage,    \* the file dimension of its coverage_records
    selected,    \* selected_generations of the repository
    cache,       \* artifact_cache: the <<path, blob>> it holds
    indexer      \* where each process is inside execute

vars == <<state, artifacts, coverage, selected, cache, indexer>>

store == <<state, artifacts, coverage, selected>>

-----------------------------------------------------------------------------
(* State. *)

States == {"absent", "building", "complete", "partial", "failed", "expired"}

Published(g) == state[g] \in {"complete", "partial"}

IdleIndexer == [pc |-> "idle"]

IndexerState ==
    {IdleIndexer}
    \cup [pc : {"begin", "list"}, generation : Generations]
    \cup [pc : {"entries"}, generation : Generations,
          previous : ArtifactMap, todo : SUBSET Paths, treeComplete : BOOLEAN,
          built : ArtifactMap, failedFiles : 0 .. Cardinality(Paths)]
    \cup [pc : {"complete"}, generation : Generations, summary : {"complete", "partial"}]
    \cup [pc : {"fail"}, generation : Generations, collided : BOOLEAN]

TypeOK ==
    /\ state \in [Generations -> States]
    /\ artifacts \in [Generations -> ArtifactMap]
    /\ coverage \in [Generations -> SUBSET (0 .. Cardinality(Paths))]
    /\ selected \in Generations \cup {NoGeneration}
    /\ cache \subseteq Paths \X Blobs
    /\ indexer \in [Indexers -> IndexerState]

Init ==
    /\ state = [g \in Generations |-> "absent"]
    /\ artifacts = [g \in Generations |-> NoArtifacts]
    /\ coverage = [g \in Generations |-> {}]
    /\ selected = NoGeneration
    /\ cache = {}
    /\ indexer = [x \in Indexers |-> IdleIndexer]

Goto(x, next) == indexer' = [indexer EXCEPT ![x] = next]

\* Every failure after the lease goes through fail().
GotoFail(x, collided) ==
    Goto(x, [pc |-> "fail", generation |-> indexer[x].generation, collided |-> collided])

-----------------------------------------------------------------------------
(* execute, one action per await that others can interleave with. *)

\* resolveCommit and selectGeneration for the exact commit: an existing
\* complete or selectable partial generation is returned as it is.
StartIndex(x, g) ==
    /\ indexer[x].pc = "idle"
    /\ ~\E h \in Generations : CommitOf[h] = CommitOf[g] /\ Published(h)
    /\ Goto(x, [pc |-> "begin", generation |-> g])
    /\ UNCHANGED <<store, cache>>

\* beginGeneration: a new row and lease, the existing lease of a building
\* row, or a conflict.
BeginGeneration(x) ==
    LET g == indexer[x].generation
    IN  /\ indexer[x].pc = "begin"
        /\ IF state[g] \in {"absent", "building"}
           THEN /\ state' = [state EXCEPT ![g] = "building"]
                /\ Goto(x, [pc |-> "list", generation |-> g])
           ELSE Goto(x, IdleIndexer) /\ UNCHANGED state
        /\ UNCHANGED <<artifacts, coverage, selected, cache>>

\* previousByBlob, keyed by blob and path, as far as the entries of g will look
\* it up; bundle, configuration and parser are the request's own.
PreviousByBlob(g, previous) ==
    [p \in Paths |->
        IF Published(previous) /\ artifacts[previous][p].blob = Tree[CommitOf[g]][p]
        THEN artifacts[previous][p] ELSE NoArtifact]

\* listTree, then the artifacts of the previous generation when it is
\* readable.  A tree that is not complete lists some of the entries.
ListTree(x, listed, complete, previous) ==
    LET g == indexer[x].generation
        entries == TreeEntries(CommitOf[g])
    IN  /\ indexer[x].pc = "list"
        /\ IF complete THEN listed = entries ELSE listed \subseteq entries
        /\ Goto(x, [pc |-> "entries", generation |-> g, todo |-> listed,
                    treeComplete |-> complete, built |-> NoArtifacts, failedFiles |-> 0,
                    previous |-> IF previous = NoGeneration THEN NoArtifacts
                                 ELSE PreviousByBlob(g, previous)])
        /\ UNCHANGED <<store, cache>>

\* The entry's artifact is done.
Built(x, p, artifact, failed) ==
    indexer' = [indexer EXCEPT ![x].built[p] = artifact, ![x].todo = @ \ {p},
                               ![x].failedFiles = @ + failed]

Entry(x) ==
    LET p == Min(indexer[x].todo) IN <<p, Tree[CommitOf[indexer[x].generation]][p]>>

HasEntry(x) == indexer[x].pc = "entries" /\ indexer[x].todo # {}

Reusable(x) == indexer[x].previous[Entry(x)[1]] # NoArtifact

ReusePrevious(x) ==
    LET p == Entry(x)[1]
    IN  /\ HasEntry(x) /\ Reusable(x)
        /\ Built(x, p, indexer[x].previous[p], 0)
        /\ UNCHANGED <<store, cache>>

ReuseCached(x) ==
    /\ HasEntry(x) /\ ~Reusable(x) /\ Entry(x) \in cache
    /\ Built(x, Entry(x)[1], Classified(Entry(x)[2]), 0)
    /\ UNCHANGED <<store, cache>>

\* readBlob and classify succeed, and the artifact is cached.
ReadEntry(x) ==
    /\ HasEntry(x) /\ ~Reusable(x) /\ Entry(x) \notin cache
    /\ Built(x, Entry(x)[1], Classified(Entry(x)[2]), 0)
    /\ cache' = cache \cup {Entry(x)}
    /\ UNCHANGED store

\* The blob is unreadable or incomplete (a spent source budget included), or
\* the parser threw: an artifact that says so, not cached.
ReadEntryFails(x) ==
    /\ HasEntry(x) /\ ~Reusable(x) /\ Entry(x) \notin cache
    /\ Built(x, Entry(x)[1], FailedArtifact(Entry(x)[2]), 1)
    /\ UNCHANGED <<store, cache>>

\* Mutant: the summary is that of the tree alone.
SummaryOfTree(x) == IF indexer[x].treeComplete THEN "complete" ELSE "partial"

\* `partial' of execute.
Summary(x) ==
    IF /\ indexer[x].treeComplete /\ indexer[x].failedFiles = 0
       /\ \A p \in Paths : indexer[x].built[p].parse \in {"parsed", "none"}
    THEN "complete" ELSE "partial"

\* putArtifacts: one transaction under the lease.  A path that another
\* indexer of the generation has already inserted breaks the primary key,
\* the transaction is rolled back and the port reports sqlite_failure.
PutArtifacts(x) ==
    LET g == indexer[x].generation
        built == indexer[x].built
        collides == \E p \in Paths : built[p] # NoArtifact /\ artifacts[g][p] # NoArtifact
    IN  /\ indexer[x].pc = "entries" /\ indexer[x].todo = {}
        /\ IF state[g] = "building" /\ ~collides
           THEN /\ artifacts' = [artifacts EXCEPT ![g] =
                     [p \in Paths |-> IF built[p] = NoArtifact THEN @[p] ELSE built[p]]]
                /\ coverage' = [coverage EXCEPT ![g] = @ \cup {indexer[x].failedFiles}]
                /\ Goto(x, [pc |-> "complete", generation |-> g, summary |-> Summary(x)])
           ELSE GotoFail(x, collides) /\ UNCHANGED <<artifacts, coverage>>
        /\ UNCHANGED <<state, selected, cache>>

\* completeGeneration: state, lease and selection in one transaction; a
\* conflict is returned to the caller and fails nothing.
CompleteGeneration(x) ==
    LET g == indexer[x].generation
    IN  /\ indexer[x].pc = "complete"
        /\ IF state[g] = "building"
           THEN state' = [state EXCEPT ![g] = indexer[x].summary] /\ selected' = g
           ELSE UNCHANGED <<state, selected>>
        /\ Goto(x, IdleIndexer)
        /\ UNCHANGED <<artifacts, coverage, cache>>

\* The tree cannot be listed, the indexer was superseded, or a statement or
\* the cache failed.
Interrupt(x) ==
    /\ indexer[x].pc \in {"list", "entries"}
    /\ GotoFail(x, FALSE)
    /\ UNCHANGED <<store, cache>>

\* finishFailedGeneration.  The rows of the batch stay in the database, but
\* every reader asks for a published generation: the model forgets them.
Abandon(g, verdict) ==
    /\ state' = [state EXCEPT ![g] = verdict]
    /\ artifacts' = [artifacts EXCEPT ![g] = NoArtifacts]
    /\ coverage' = [coverage EXCEPT ![g] = {}]

\* failGeneration.
FailGeneration(x) ==
    LET g == indexer[x].generation
    IN  /\ indexer[x].pc = "fail"
        /\ IF state[g] = "building" THEN Abandon(g, "failed")
           ELSE UNCHANGED <<state, artifacts, coverage>>
        /\ Goto(x, IdleIndexer)
        /\ UNCHANGED <<selected, cache>>

\* expireLease, by a host that gives up on the build.
ExpireLease(g) ==
    /\ state[g] = "building"
    /\ Abandon(g, "expired")
    /\ UNCHANGED <<selected, cache, indexer>>

\* The process dies; the row stays building.
CrashIndexer(x) ==
    /\ indexer[x].pc # "idle"
    /\ Goto(x, IdleIndexer)
    /\ UNCHANGED <<store, cache>>

IndexerStep(x) ==
    \/ \E g \in Generations : StartIndex(x, g)
    \/ BeginGeneration(x)
    \/ \E listed \in SUBSET Paths, complete \in BOOLEAN,
          previous \in Generations \cup {NoGeneration} : ListTree(x, listed, complete, previous)
    \/ ReusePrevious(x) \/ ReuseCached(x) \/ ReadEntry(x) \/ ReadEntryFails(x)
    \/ PutArtifacts(x) \/ CompleteGeneration(x)
    \/ Interrupt(x) \/ FailGeneration(x) \/ CrashIndexer(x)

Next == (\E g \in Generations : ExpireLease(g)) \/ \E x \in Indexers : IndexerStep(x)

Spec == Init /\ [][Next]_vars

-----------------------------------------------------------------------------
(* Safety. *)

\* What a reader of a generation sees is its own commit: every artifact is of
\* the blob that the commit has at the path, however much was reused from other
\* commits, and a complete generation covers the whole tree and has no
\* artifact that failed or was skipped.
PublishedMatchesTree ==
    \A g \in Generations : Published(g) => \A p \in Paths :
        /\ artifacts[g][p].blob \in {Tree[CommitOf[g]][p], NoBlob}
        /\ state[g] = "complete" =>
             /\ artifacts[g][p].blob = Tree[CommitOf[g]][p]
             /\ artifacts[g][p].parse \in {"parsed", "none"}

\* A published generation never changes again, although indexers that share
\* its lease, expiry and failures still run.
RowsStay ==
    \A g \in Generations : Published(g) =>
        /\ state'[g] = state[g] /\ artifacts'[g] = artifacts[g]
        /\ coverage'[g] = coverage[g]

-----------------------------------------------------------------------------
(* What the documentation says and the code does not do. *)

\* "leases make duplicate work idempotent": a second indexer of a generation
\* does not fail the one that the first is building.
DuplicateIsHarmless ==
    [][\A x, y \in Indexers :
         /\ x # y /\ indexer[x].pc = "fail" /\ indexer'[x].pc = "idle" /\ indexer[x].collided
         /\ indexer[y].pc = "complete" /\ indexer[y].generation = indexer[x].generation
         /\ state[indexer[x].generation] = "building"
         => state'[indexer[x].generation] = "building"]_vars
=============================================================================
