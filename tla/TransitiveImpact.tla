-------------------------- MODULE TransitiveImpact --------------------------
(***************************************************************************)
(* deriveBoundedTransitiveCandidates: a breadth-first walk over evidence   *)
(* edges from the producer of a change, which keeps the first path found   *)
(* to each repository at each depth from two up to the maximum.  Edge IDs  *)
(* are numbers; the walk takes the edges of a repository in that order.    *)
(***************************************************************************)
EXTENDS Integers, Sequences, FiniteSets, SequencesExt, Functions

CONSTANTS
    Origin,         \* the repository whose contract changes
    Links,          \* graphs to walk: sets of [id, producer, consumer, valid]
    Depths          \* values of maximumDepth; 0 stands for none given

ASSUME TransitiveAssumption ==
    /\ Depths \subseteq Nat
    /\ \A graph \in Links :
           /\ IsFiniteSet(graph) /\ \A l \in graph : l.id \in Nat
           /\ \A a, b \in graph : a.id = b.id => a = b

VARIABLES
    links,         \* currentEdges
    depth,         \* maximumDepth, as given
    queue,         \* paths still to extend, each a sequence of links
    candidates     \* <<repository, depth>> |-> the path it was first reached by

walk == <<links, depth, queue, candidates>>

MaximumDepth == IF depth > 3 THEN 3 ELSE IF depth < 2 THEN 2 ELSE depth

\* adjacency: the valid edges out of a repository, and their order by ID.
Adjacent(site) == {l \in links : l.producer = site /\ l.valid}

ById(edges) ==
    CHOOSE s \in Bijection(1 .. Cardinality(edges), edges) :
        \A i, j \in DOMAIN s : i < j => s[i].id < s[j].id

\* The repository a path ends in, and the ones it goes through.
EndOf(path) == IF path = <<>> THEN Origin ELSE Last(path).consumer

Visited(path) == {Origin} \cup {path[k].consumer : k \in DOMAIN path}

\* Mutant: only the path's last repository is checked against.
ExtensionsRevisiting(path) ==
    LET next == ById({l \in Adjacent(EndOf(path)) : l.consumer # EndOf(path)})
    IN  [k \in DOMAIN next |-> Append(path, next[k])]

\* The paths that go one edge further and visit no repository twice.
Extensions(path) ==
    LET next == ById({l \in Adjacent(EndOf(path)) : l.consumer \notin Visited(path)})
    IN  [k \in DOMAIN next |-> Append(path, next[k])]

KeyOfPath(path) == <<EndOf(path), Len(path)>>

\* A path of two edges or more is a candidate unless its key has one.
Reported(found, paths) ==
    LET keys == {KeyOfPath(paths[k]) : k \in {i \in DOMAIN paths : Len(paths[i]) >= 2}}
    IN  [key \in DOMAIN found \cup keys |->
            IF key \in DOMAIN found THEN found[key]
            ELSE paths[CHOOSE k \in DOMAIN paths :
                        /\ KeyOfPath(paths[k]) = key
                        /\ \A j \in 1 .. k - 1 : KeyOfPath(paths[j]) # key]]

WalkInit ==
    /\ links \in Links /\ depth \in Depths
    /\ queue = << <<>> >>
    /\ candidates = [key \in {} |-> <<>>]

\* One turn of the loop: take the first path, report and queue what extends it.
Extend ==
    LET path == Head(queue)
    IN  /\ queue # <<>>
        /\ IF Len(path) >= MaximumDepth
           THEN queue' = Tail(queue) /\ UNCHANGED candidates
           ELSE /\ queue' = Tail(queue) \o Extensions(path)
                /\ candidates' = Reported(candidates, Extensions(path))
        /\ UNCHANGED <<links, depth>>

WalkSpec == WalkInit /\ [][Extend]_walk

-----------------------------------------------------------------------------
(* Properties. *)

\* Paths of n valid edges that visit no repository twice.
SimplePaths(n) ==
    {path \in [1 .. n -> {l \in links : l.valid}] :
        \A k \in 1 .. n :
            /\ path[k].producer = IF k = 1 THEN Origin ELSE path[k - 1].consumer
            /\ path[k].consumer # Origin
            /\ \A j \in 1 .. k - 1 : path[j].consumer # path[k].consumer}

\* What the walk has found when its queue is empty: exactly one candidate for
\* each repository and each depth at which some simple path of valid edges
\* reaches it, and that candidate is such a path.
TransitiveIsExact ==
    queue = <<>> =>
        /\ DOMAIN candidates =
              {KeyOfPath(path) : path \in UNION {SimplePaths(n) : n \in 2 .. MaximumDepth}}
        /\ \A key \in DOMAIN candidates : candidates[key] \in SimplePaths(key[2])
=============================================================================
