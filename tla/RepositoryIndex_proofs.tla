----------------------- MODULE RepositoryIndex_proofs -----------------------
(***************************************************************************)
(* Proofs about the repository index: what a published generation holds    *)
(* (GenerationIndex), what a derived one lists (OverlayDerivation), and    *)
(* that neither changes afterwards.                                        *)
(*                                                                         *)
(* Indexers of one generation share its lease, so a row is written by any  *)
(* number of them.  The invariant follows an artifact from the tree entry, *)
(* the cache or another generation into the batch and the row, and says    *)
(* why a batch that makes a generation whole leaves nothing for another    *)
(* indexer to add: every path it could bring collides.                     *)
(***************************************************************************)
EXTENDS RepositoryIndex, TLAPS, FiniteSetTheorems, WellFoundedInduction, NaturalsInduction

-----------------------------------------------------------------------------
(* Numbers. *)

\* The least-number principle, for sets.
LEMMA LeastNumber ==
    ASSUME NEW S \in SUBSET Nat, S # {}
    PROVE  \E x \in S : \A y \in S : x <= y
<1> DEFINE Less == {ss \in Nat \X Nat : ss[1] < ss[2]}
<1>1. IsWellFoundedOn(OpToRel(<, Nat), Nat)
  BY NatLessThanWellFounded
<1>2. OpToRel(<, Nat) = Less
  BY DEF OpToRel
<1>3. \E x \in S : \A y \in S : <<y, x>> \notin Less
  <2> HIDE DEF Less
  <2> QED
    BY <1>1, <1>2, WFMin
<1>4. \A x, y \in Nat : <<y, x>> \in Less <=> y < x
  OBVIOUS
<1> HIDE DEF Less
<1>5. \A x \in S : x \in Nat
  OBVIOUS
<1>6. PICK x \in S : \A y \in S : <<y, x>> \notin Less
  BY <1>3
<1>7. ASSUME NEW y \in S PROVE x <= y
  <2>1. ~(y < x)
    BY <1>4, <1>5, <1>6
  <2> QED
    BY <2>1, <1>5
<1> QED
  BY <1>7

LEMMA MinIsMember ==
    ASSUME NEW S \in SUBSET Nat, S # {}
    PROVE  Min(S) \in S
  BY LeastNumber DEF Min

-----------------------------------------------------------------------------
(* Artifacts. *)

LEMMA ArtifactFacts ==
    /\ NoArtifact.blob = NoBlob /\ NoArtifact.parse = "none"
    /\ \A a \in Artifact : a.blob \in Blobs /\ a.blob # NoBlob /\ a # NoArtifact
    /\ \A blob \in Blobs :
          /\ Classified(blob) \in Artifact /\ FailedArtifact(blob) \in Artifact
          /\ Classified(blob).blob = blob /\ FailedArtifact(blob).blob = blob
  BY TreeAssumption DEF NoArtifact, Artifact, Classified, FailedArtifact

LEMMA TreeBlobs ==
    ASSUME NEW c \in Commits, NEW p \in Paths
    PROVE  /\ Tree[c][p] \in Blobs \cup {NoBlob}
           /\ p \in TreeEntries(c) <=> Tree[c][p] \in Blobs
           /\ p \notin TreeEntries(c) <=> Tree[c][p] = NoBlob
  BY TreeAssumption DEF TreeEntries

-----------------------------------------------------------------------------
(* GenerationIndex: its invariant. *)

TreeOf(g) == Tree[CommitOf[g]]

LEMMA TreeOfBlobs ==
    ASSUME NEW g \in Generations, NEW p \in Paths
    PROVE  /\ TreeOf(g)[p] \in Blobs \cup {NoBlob}
           /\ p \in TreeEntries(CommitOf[g]) <=> TreeOf(g)[p] \in Blobs
  BY TreeBlobs, GenerationsAssumption DEF TreeOf

Entering ==
    [pc : {"entries"}, generation : Generations, previous : ArtifactMap, todo : SUBSET Paths,
     treeComplete : BOOLEAN, built : ArtifactMap, failedFiles : 0 .. Cardinality(Paths)]

\* A batch holds artifacts of its own tree, whatever they were taken from, and
\* when the tree was listed whole every entry that is done has one.
Reading(s) ==
    /\ s.todo \subseteq TreeEntries(CommitOf[s.generation])
    /\ \A p \in Paths : s.built[p] # NoArtifact => s.built[p].blob = TreeOf(s.generation)[p]
    /\ \A p \in Paths : s.previous[p] # NoArtifact => s.previous[p].blob = TreeOf(s.generation)[p]
    /\ s.treeComplete => \A p \in TreeEntries(CommitOf[s.generation]) \ s.todo : s.built[p] # NoArtifact
    /\ s.failedFiles <= Cardinality(Paths \ s.todo)

\* The rows of a generation are the whole tree, and nothing failed.
Whole(g) ==
    \A p \in Paths : artifacts[g][p].blob = TreeOf(g)[p] /\ artifacts[g][p].parse \in {"parsed", "none"}

BatchesRead == \A x \in Indexers : indexer[x].pc = "entries" => Reading(indexer[x])

RowsOfTree == \A g \in Generations, p \in Paths : artifacts[g][p].blob \in {TreeOf(g)[p], NoBlob}

\* What is about to be completed, unless the row is settled already.
CompleteIsReady ==
    \A x \in Indexers :
        indexer[x].pc = "complete" /\ indexer[x].summary = "complete"
            /\ state[indexer[x].generation] \in {"absent", "building"} => Whole(indexer[x].generation)

CompleteHasTree == \A g \in Generations : state[g] = "complete" => Whole(g)

IndexInv == TypeOK /\ BatchesRead /\ RowsOfTree /\ CompleteIsReady /\ CompleteHasTree

LEMMA IndexStart ==
    ASSUME Init
    PROVE  IndexInv
<1> USE DEF Init
<1>1. NoArtifacts \in ArtifactMap /\ \A p \in Paths : NoArtifacts[p] = NoArtifact
  BY DEF NoArtifacts, ArtifactMap
<1>2. TypeOK
  <2>1. IdleIndexer \in IndexerState
    BY DEF IndexerState
  <2> HIDE DEF ArtifactMap
  <2> QED
    BY <1>1, <2>1 DEF TypeOK, States
<1>3. BatchesRead /\ CompleteIsReady /\ CompleteHasTree
  BY DEF BatchesRead, CompleteIsReady, CompleteHasTree, IdleIndexer
<1>4. RowsOfTree
  BY <1>1, ArtifactFacts DEF RowsOfTree
<1> QED
  BY <1>2, <1>3, <1>4 DEF IndexInv

\* Where an indexer is decides what it holds.
LEMMA IndexerShape ==
    ASSUME TypeOK, NEW x \in Indexers
    PROVE  /\ indexer[x].pc # "idle" => indexer[x].generation \in Generations
           /\ indexer[x].pc = "entries" => indexer[x] \in Entering
           /\ indexer[x].pc = "complete" => indexer[x].summary \in {"complete", "partial"}
<1>1. indexer[x] \in IndexerState
  BY DEF TypeOK
<1> QED
  BY <1>1 DEF IndexerState, IdleIndexer, Entering

\* A step that only moves an indexer.
LEMMA IndexerMoves ==
    ASSUME IndexInv, NEW x \in Indexers, NEW s \in IndexerState,
           s.pc = "entries" => Reading(s), s.pc # "complete",
           Goto(x, s), UNCHANGED store, cache' \subseteq Paths \X Blobs
    PROVE  IndexInv'
<1> USE DEF IndexInv, store
<1>1. indexer'[x] = s /\ \A y \in Indexers \ {x} : indexer'[y] = indexer[y]
  BY DEF Goto, TypeOK
<1>2. TypeOK'
  BY DEF TypeOK, Goto
<1>3. BatchesRead'
  BY <1>1 DEF BatchesRead
<1>4. RowsOfTree' /\ CompleteHasTree'
  BY DEF RowsOfTree, CompleteHasTree, Whole
<1>5. CompleteIsReady'
  BY <1>1 DEF CompleteIsReady, Whole
<1> QED
  BY <1>2, <1>3, <1>4, <1>5

-----------------------------------------------------------------------------
(* The steps of an indexer. *)

\* An entry's artifact is done: reused, read, or failed.
LEMMA BuiltStep ==
    ASSUME IndexInv, NEW x \in Indexers, HasEntry(x), NEW a \in Artifact, NEW failed \in {0, 1},
           a.blob = Entry(x)[2], Built(x, Entry(x)[1], a, failed),
           UNCHANGED store, cache' \subseteq Paths \X Blobs
    PROVE  IndexInv'
<1> DEFINE s == indexer[x]
           p == Min(s.todo)
           t == [s EXCEPT !.built[p] = a, !.todo = @ \ {p}, !.failedFiles = @ + failed]
<1>1. s \in Entering /\ Reading(s) /\ s.todo # {} /\ s.todo \subseteq Paths
  BY IndexerShape DEF IndexInv, BatchesRead, HasEntry, Entering
<1>2. p \in s.todo /\ p \in Paths
  BY <1>1, MinIsMember, TreeAssumption
<1>3. a.blob = TreeOf(s.generation)[p]
  BY DEF Entry, TreeOf
<1>4. Goto(x, t)
  BY DEF Built, Entry, Goto, IndexInv, TypeOK
<1> HIDE DEF p
<1>5. /\ t.pc = "entries" /\ t.generation = s.generation /\ t.previous = s.previous
      /\ t.treeComplete = s.treeComplete
      /\ t.todo = s.todo \ {p} /\ t.failedFiles = s.failedFiles + failed
      /\ t.built = [s.built EXCEPT ![p] = a]
      /\ DOMAIN t = DOMAIN s
  BY <1>1 DEF Entering
<1>6. t.built \in ArtifactMap /\ t.built[p] = a /\ \A q \in Paths \ {p} : t.built[q] = s.built[q]
  BY <1>1, <1>2, <1>5 DEF Entering, ArtifactMap
<1>7. t.failedFiles \in Nat /\ t.failedFiles <= Cardinality(Paths \ t.todo)
      /\ t.failedFiles \in 0 .. Cardinality(Paths)
  <2>1. IsFiniteSet(Paths) /\ IsFiniteSet(Paths \ s.todo)
    BY TreeAssumption, FS_Difference
  <2>2. Paths \ t.todo = (Paths \ s.todo) \cup {p} /\ p \notin Paths \ s.todo
    BY <1>2, <1>5
  <2>3. Cardinality(Paths \ t.todo) = Cardinality(Paths \ s.todo) + 1
    BY <2>1, <2>2, FS_AddElement
  <2>4. Cardinality(Paths \ t.todo) <= Cardinality(Paths)
    BY <2>1, FS_Subset
  <2>5. Cardinality(Paths) \in Nat /\ Cardinality(Paths \ s.todo) \in Nat
    BY <2>1, FS_CardinalityType
  <2>6. s.failedFiles \in Nat /\ s.failedFiles <= Cardinality(Paths \ s.todo)
    BY <1>1, <2>5 DEF Reading, Entering
  <2> HIDE DEF t, s
  <2> QED
    BY <1>5, <2>3, <2>4, <2>5, <2>6
<1>8. t \in Entering
  <2>1. t = [k \in DOMAIN t |-> t[k]]
    OBVIOUS
  <2>2. DOMAIN s = {"pc", "generation", "previous", "todo", "treeComplete", "built", "failedFiles"}
    BY <1>1 DEF Entering
  <2>3. /\ s.generation \in Generations /\ s.previous \in ArtifactMap
        /\ s.todo \ {p} \subseteq Paths /\ s.treeComplete \in BOOLEAN
    BY <1>1 DEF Entering
  <2> HIDE DEF t, s
  <2> QED
    BY <2>1, <2>2, <2>3, <1>5, <1>6, <1>7 DEF Entering
<1>9. Reading(t)
  <2> HIDE DEF t, s
  <2>1. a # NoArtifact
    BY ArtifactFacts
  <2>2. t.treeComplete => \A q \in TreeEntries(CommitOf[t.generation]) \ t.todo : t.built[q] # NoArtifact
    BY <1>1, <1>5, <1>6, <2>1 DEF Reading, TreeEntries
  <2> QED
    BY <1>1, <1>3, <1>5, <1>6, <1>7, <2>2 DEF Reading
<1>10. t \in IndexerState
  BY <1>8 DEF IndexerState, Entering
<1> HIDE DEF t, s
<1> QED
  BY <1>4, <1>5, <1>9, <1>10, IndexerMoves

LEMMA ReuseStep ==
    ASSUME IndexInv, NEW x \in Indexers, ReusePrevious(x)
    PROVE  IndexInv'
<1> DEFINE s == indexer[x]
           p == Min(s.todo)
<1>1. s \in Entering /\ Reading(s) /\ s.todo # {} /\ s.todo \subseteq Paths
  BY IndexerShape DEF IndexInv, BatchesRead, ReusePrevious, HasEntry, Entering
<1>2. p \in Paths
  BY <1>1, MinIsMember, TreeAssumption
<1>3. s.previous[p] # NoArtifact /\ s.previous[p] \in Artifact
  BY <1>1, <1>2 DEF ReusePrevious, Reusable, Entry, Entering, ArtifactMap
<1>4. s.previous[p].blob = Entry(x)[2] /\ Entry(x)[1] = p
  BY <1>1, <1>2, <1>3 DEF Reading, Entry, TreeOf
<1>5. HasEntry(x) /\ Built(x, Entry(x)[1], s.previous[p], 0) /\ UNCHANGED <<store, cache>>
  BY DEF ReusePrevious, Entry
<1>6. cache' \subseteq Paths \X Blobs
  BY <1>5 DEF IndexInv, TypeOK
<1> HIDE DEF p, s
<1> QED
  BY <1>3, <1>4, <1>5, <1>6, BuiltStep

\* The entry at hand is one of the tree.
LEMMA EntryOfTree ==
    ASSUME IndexInv, NEW x \in Indexers, HasEntry(x)
    PROVE  Entry(x)[1] \in Paths /\ Entry(x)[2] \in Blobs /\ Entry(x) \in Paths \X Blobs
<1> DEFINE s == indexer[x]
           p == Min(s.todo)
<1>1. s \in Entering /\ Reading(s) /\ s.todo # {} /\ s.todo \subseteq Paths
  BY IndexerShape DEF IndexInv, BatchesRead, HasEntry, Entering
<1>2. p \in s.todo /\ p \in Paths
  BY <1>1, MinIsMember, TreeAssumption
<1>3. TreeOf(s.generation)[p] \in Blobs
  BY <1>1, <1>2, TreeOfBlobs DEF Reading, Entering
<1> QED
  BY <1>2, <1>3 DEF Entry, TreeOf

LEMMA ReadStep ==
    ASSUME IndexInv, NEW x \in Indexers, ReuseCached(x) \/ ReadEntry(x) \/ ReadEntryFails(x)
    PROVE  IndexInv'
<1>1. HasEntry(x) /\ UNCHANGED store
  BY DEF ReuseCached, ReadEntry, ReadEntryFails
<1>2. Entry(x)[2] \in Blobs /\ Entry(x) \in Paths \X Blobs
  BY <1>1, EntryOfTree
<1>3. cache' \subseteq Paths \X Blobs
  BY <1>2 DEF ReuseCached, ReadEntry, ReadEntryFails, IndexInv, TypeOK
<1>4. PICK a \in {Classified(Entry(x)[2]), FailedArtifact(Entry(x)[2])}, failed \in {0, 1} :
          Built(x, Entry(x)[1], a, failed)
  BY DEF ReuseCached, ReadEntry, ReadEntryFails
<1>5. a \in Artifact /\ a.blob = Entry(x)[2]
  BY <1>2, ArtifactFacts
<1> QED
  BY <1>1, <1>3, <1>4, <1>5, BuiltStep

LEMMA ListStep ==
    ASSUME IndexInv, NEW x \in Indexers, NEW listed \in SUBSET Paths, NEW complete \in BOOLEAN,
           NEW previous \in Generations \cup {NoGeneration}, ListTree(x, listed, complete, previous)
    PROVE  IndexInv'
<1> DEFINE g == indexer[x].generation
           taken == IF previous = NoGeneration THEN NoArtifacts ELSE PreviousByBlob(g, previous)
           s == [pc |-> "entries", generation |-> g, todo |-> listed, treeComplete |-> complete,
                 built |-> NoArtifacts, failedFiles |-> 0, previous |-> taken]
<1>1. g \in Generations
  BY IndexerShape DEF IndexInv, ListTree
<1>2. NoArtifacts \in ArtifactMap /\ \A p \in Paths : NoArtifacts[p] = NoArtifact
  BY DEF NoArtifacts, ArtifactMap
<1>3. taken \in ArtifactMap /\ \A p \in Paths : taken[p] # NoArtifact => taken[p].blob = TreeOf(g)[p]
  <2>1. CASE previous = NoGeneration
    BY <2>1, <1>2
  <2>2. CASE previous # NoGeneration
    <3>1. artifacts[previous] \in ArtifactMap
      BY <2>2 DEF IndexInv, TypeOK
    <3>2. taken = PreviousByBlob(g, previous)
      BY <2>2
    <3> HIDE DEF taken
    <3> QED
      BY <3>1, <3>2 DEF PreviousByBlob, ArtifactMap, TreeOf
  <2> QED
    BY <2>1, <2>2
<1>4. listed \subseteq TreeEntries(CommitOf[g]) /\ (complete => listed = TreeEntries(CommitOf[g]))
  BY DEF ListTree
<1>5. 0 \in 0 .. Cardinality(Paths) /\ 0 <= Cardinality(Paths \ listed)
  <2>1. IsFiniteSet(Paths) /\ IsFiniteSet(Paths \ listed)
    BY TreeAssumption, FS_Difference
  <2>2. Cardinality(Paths) \in Nat /\ Cardinality(Paths \ listed) \in Nat
    BY <2>1, FS_CardinalityType
  <2> QED
    BY <2>2
<1>6. Goto(x, s) /\ UNCHANGED <<store, cache>>
  BY DEF ListTree
<1> HIDE DEF g, taken
<1>7. s \in Entering
  BY <1>1, <1>2, <1>3, <1>5 DEF Entering
<1>8. Reading(s)
  BY <1>2, <1>3, <1>4, <1>5 DEF Reading
<1>9. s \in IndexerState /\ s.pc = "entries"
  BY <1>7 DEF IndexerState, Entering
<1>10. cache' \subseteq Paths \X Blobs
  BY <1>6 DEF IndexInv, TypeOK
<1> HIDE DEF s
<1> QED
  BY <1>6, <1>8, <1>9, <1>10, IndexerMoves

\* putArtifacts: when the rows are whole, another batch collides or adds nothing.
LEMMA PutStep ==
    ASSUME IndexInv, NEW x \in Indexers, PutArtifacts(x)
    PROVE  IndexInv'
<1> DEFINE s == indexer[x]
           g == s.generation
           collides == \E p \in Paths : s.built[p] # NoArtifact /\ artifacts[g][p] # NoArtifact
<1>1. s \in Entering /\ Reading(s) /\ g \in Generations /\ s.todo = {}
  BY IndexerShape DEF IndexInv, BatchesRead, PutArtifacts, Entering
<1>2. CASE ~(state[g] = "building" /\ ~collides)
  <2> DEFINE t == [pc |-> "fail", generation |-> g, collided |-> collides]
  <2>1. Goto(x, t) /\ UNCHANGED <<store, cache>>
    BY <1>2 DEF PutArtifacts, GotoFail, store
  <2>2. t \in IndexerState /\ t.pc = "fail"
    BY <1>1 DEF IndexerState
  <2>3. cache' \subseteq Paths \X Blobs
    BY <2>1 DEF IndexInv, TypeOK
  <2> HIDE DEF t
  <2> QED
    BY <2>1, <2>2, <2>3, IndexerMoves
<1>3. CASE state[g] = "building" /\ ~collides
  <2> DEFINE row == [p \in Paths |-> IF s.built[p] = NoArtifact THEN artifacts[g][p] ELSE s.built[p]]
             summary == Summary(x)
             t == [pc |-> "complete", generation |-> g, summary |-> summary]
  <2>1. /\ artifacts' = [artifacts EXCEPT ![g] = row]
        /\ coverage' = [coverage EXCEPT ![g] = @ \cup {s.failedFiles}]
        /\ Goto(x, t) /\ UNCHANGED <<state, selected, cache>>
    BY <1>3 DEF PutArtifacts
  <2>2. s.built \in ArtifactMap /\ artifacts[g] \in ArtifactMap
    BY <1>1 DEF Entering, IndexInv, TypeOK
  <2>3. row \in ArtifactMap
    BY <2>2 DEF ArtifactMap
  <2>4. \A p \in Paths : row[p] = IF s.built[p] = NoArtifact THEN artifacts[g][p] ELSE s.built[p]
    OBVIOUS
  <2>5. summary \in {"complete", "partial"}
    BY DEF Summary
  <2>6. t \in IndexerState /\ t.pc = "complete" /\ t.generation = g /\ t.summary = summary
    BY <1>1, <2>5 DEF IndexerState
  <2>7. ASSUME summary = "complete", NEW p \in Paths
        PROVE  row[p].blob = TreeOf(g)[p] /\ row[p].parse \in {"parsed", "none"}
    <3>1. s.treeComplete /\ s.built[p].parse \in {"parsed", "none"}
      BY <2>7 DEF Summary
    <3>2. CASE s.built[p] # NoArtifact
      BY <3>1, <3>2, <2>4, <1>1 DEF Reading
    <3>3. CASE s.built[p] = NoArtifact
      <4>1. p \notin TreeEntries(CommitOf[g])
        BY <3>1, <3>3, <1>1 DEF Reading
      <4>2. TreeOf(g)[p] = NoBlob
        BY <4>1, <1>1, TreeOfBlobs
      <4>3. artifacts[g][p].blob = NoBlob
        BY <4>2, <1>1 DEF IndexInv, RowsOfTree
      <4>4. artifacts[g][p] = NoArtifact
        BY <4>3, <2>2, ArtifactFacts DEF ArtifactMap
      <4> QED
        BY <3>3, <4>2, <4>4, <2>4, ArtifactFacts
    <3> QED
      BY <3>2, <3>3
  <2>8. ASSUME Whole(g) PROVE row = artifacts[g]
    <3>1. ASSUME NEW p \in Paths PROVE row[p] = artifacts[g][p]
      <4>1. CASE s.built[p] = NoArtifact
        BY <4>1, <2>4
      <4>2. CASE s.built[p] # NoArtifact
        <5>1. artifacts[g][p] = NoArtifact
          BY <4>2, <1>3
        <5>2. TreeOf(g)[p] = NoBlob
          BY <5>1, <2>8, ArtifactFacts DEF Whole
        <5>3. s.built[p].blob = NoBlob /\ s.built[p] \in Artifact
          BY <5>2, <4>2, <1>1, <2>2 DEF Reading, ArtifactMap
        <5> QED
          BY <5>3, ArtifactFacts
      <4> QED
        BY <4>1, <4>2
    <3> QED
      BY <3>1, <2>2, <2>3 DEF ArtifactMap
  <2>9. \A p \in Paths : row[p].blob \in {TreeOf(g)[p], NoBlob}
    BY <2>4, <1>1 DEF Reading, IndexInv, RowsOfTree
  <2>10. s.failedFiles \in 0 .. Cardinality(Paths)
    BY <1>1 DEF Entering
  <2> HIDE DEF s, t, row, summary, g, collides
  <2>11. /\ artifacts'[g] = row /\ \A h \in Generations \ {g} : artifacts'[h] = artifacts[h]
         /\ indexer'[x] = t /\ \A y \in Indexers \ {x} : indexer'[y] = indexer[y]
    BY <2>1, <1>1 DEF IndexInv, TypeOK, Goto
  <2>12. TypeOK'
    <3>1. artifacts' \in [Generations -> ArtifactMap] /\ indexer' \in [Indexers -> IndexerState]
      BY <2>1, <2>3, <2>6, <1>1 DEF IndexInv, TypeOK, Goto
    <3>2. coverage' \in [Generations -> SUBSET (0 .. Cardinality(Paths))]
      BY <2>1, <2>10, <1>1 DEF IndexInv, TypeOK
    <3> QED
      BY <3>1, <3>2, <2>1 DEF IndexInv, TypeOK
  <2>13. \A h \in Generations : Whole(h) => Whole(h)'
    BY <2>8, <2>11 DEF Whole
  <2>14. BatchesRead'
    BY <2>6, <2>11 DEF IndexInv, BatchesRead
  <2>15. RowsOfTree'
    BY <2>9, <2>11, <1>1 DEF IndexInv, RowsOfTree
  <2>16. \A h \in Generations : h = g /\ summary = "complete" => Whole(h)'
    BY <2>7, <2>11 DEF Whole
  <2>17. CompleteIsReady'
    <3> SUFFICES ASSUME NEW y \in Indexers, indexer'[y].pc = "complete",
                        indexer'[y].summary = "complete",
                        state'[indexer'[y].generation] \in {"absent", "building"},
                        NEW h, h = indexer'[y].generation
                 PROVE  Whole(h)'
      BY DEF CompleteIsReady
    <3>1. CASE y = x
      BY <3>1, <1>1, <2>6, <2>11, <2>16 DEF g, s
    <3>2. CASE y # x
      <4>1. indexer'[y] = indexer[y] /\ indexer[y].generation \in Generations
        BY <3>2, <2>11, IndexerShape DEF IndexInv
      <4>2. Whole(h)
        BY <4>1, <2>1 DEF IndexInv, CompleteIsReady
      <4> QED
        BY <4>1, <4>2, <2>13
    <3> QED
      BY <3>1, <3>2
  <2>18. CompleteHasTree'
    BY <2>1, <2>13 DEF IndexInv, CompleteHasTree
  <2> QED
    BY <2>12, <2>14, <2>15, <2>17, <2>18 DEF IndexInv
<1> QED
  BY <1>2, <1>3

\* completeGeneration.
LEMMA CompleteStep ==
    ASSUME IndexInv, NEW x \in Indexers, CompleteGeneration(x)
    PROVE  IndexInv'
<1> DEFINE g == indexer[x].generation
<1>1. g \in Generations /\ indexer[x].summary \in {"complete", "partial"}
  BY IndexerShape DEF IndexInv, CompleteGeneration
<1>2. /\ Goto(x, IdleIndexer) /\ UNCHANGED <<artifacts, coverage, cache>>
      /\ indexer[x].pc = "complete"
      /\ IF state[g] = "building"
         THEN state' = [state EXCEPT ![g] = indexer[x].summary] /\ selected' = g
         ELSE UNCHANGED <<state, selected>>
  BY DEF CompleteGeneration
<1>3. indexer'[x] = IdleIndexer /\ \A y \in Indexers \ {x} : indexer'[y] = indexer[y]
  BY <1>2 DEF IndexInv, TypeOK, Goto
<1>4. IdleIndexer \in IndexerState /\ IdleIndexer.pc = "idle"
  BY DEF IndexerState, IdleIndexer
<1> HIDE DEF IndexerState
<1>5. TypeOK'
  BY <1>1, <1>2, <1>4 DEF IndexInv, TypeOK, Goto, States
<1>6. BatchesRead' /\ RowsOfTree'
  BY <1>2, <1>3, <1>4 DEF IndexInv, BatchesRead, RowsOfTree
<1>7. \A h \in Generations : Whole(h) => Whole(h)'
  BY <1>2 DEF Whole
<1>8. \A h \in Generations : state'[h] = state[h] \/ (h = g /\ state[h] = "building" /\ state'[h] = indexer[x].summary)
  BY <1>1, <1>2 DEF IndexInv, TypeOK
<1>9. CompleteHasTree'
  <2> SUFFICES ASSUME NEW h \in Generations, state'[h] = "complete" PROVE Whole(h)'
    BY DEF CompleteHasTree
  <2>1. CASE state'[h] = state[h]
    BY <2>1, <1>7 DEF IndexInv, CompleteHasTree
  <2>2. CASE h = g /\ state[h] = "building" /\ state'[h] = indexer[x].summary
    BY <2>2, <1>2, <1>7 DEF IndexInv, CompleteIsReady
  <2> QED
    BY <2>1, <2>2, <1>8
<1>10. CompleteIsReady'
  <2> SUFFICES ASSUME NEW y \in Indexers, indexer'[y].pc = "complete",
                      indexer'[y].summary = "complete",
                      state'[indexer'[y].generation] \in {"absent", "building"}
               PROVE  Whole(indexer[y].generation)'
    BY DEF CompleteIsReady
  <2>1. y # x /\ indexer'[y] = indexer[y] /\ indexer[y].generation \in Generations
    BY <1>3, <1>4, IndexerShape DEF IndexInv
  <2>2. state[indexer[y].generation] \in {"absent", "building"}
    BY <1>1, <1>8, <2>1
  <2>3. Whole(indexer[y].generation)
    BY <2>1, <2>2 DEF IndexInv, CompleteIsReady
  <2> QED
    BY <1>7, <2>1, <2>3
<1> QED
  BY <1>5, <1>6, <1>9, <1>10 DEF IndexInv

\* finishFailedGeneration, by failGeneration or by expireLease.
LEMMA AbandonStep ==
    ASSUME IndexInv, NEW g \in Generations, state[g] = "building",
           NEW verdict \in {"failed", "expired"}, Abandon(g, verdict),
           indexer' \in [Indexers -> IndexerState],
           \A y \in Indexers : indexer'[y] = indexer[y] \/ indexer'[y].pc = "idle",
           UNCHANGED <<selected, cache>>
    PROVE  IndexInv'
<1>1. /\ state'[g] = verdict /\ artifacts'[g] = NoArtifacts
      /\ \A h \in Generations \ {g} : state'[h] = state[h] /\ artifacts'[h] = artifacts[h]
  BY DEF Abandon, IndexInv, TypeOK
<1>2. NoArtifacts \in ArtifactMap /\ \A p \in Paths : NoArtifacts[p] = NoArtifact
  BY DEF NoArtifacts, ArtifactMap
<1> HIDE DEF ArtifactMap, NoArtifacts, IndexerState
<1>3. TypeOK'
  BY <1>2 DEF IndexInv, TypeOK, Abandon, States
<1>4. BatchesRead'
  BY DEF IndexInv, BatchesRead
<1>5. RowsOfTree'
  BY <1>1, <1>2, ArtifactFacts DEF IndexInv, RowsOfTree
<1>6. \A h \in Generations \ {g} : Whole(h) => Whole(h)'
  BY <1>1 DEF Whole
<1>7. CompleteHasTree'
  BY <1>1, <1>6 DEF IndexInv, CompleteHasTree
<1>8. CompleteIsReady'
  <2> SUFFICES ASSUME NEW y \in Indexers, indexer'[y].pc = "complete",
                      indexer'[y].summary = "complete",
                      state'[indexer'[y].generation] \in {"absent", "building"}
               PROVE  Whole(indexer[y].generation)'
    BY DEF CompleteIsReady
  <2>1. indexer'[y] = indexer[y] /\ indexer[y].generation \in Generations
    BY IndexerShape DEF IndexInv
  <2>2. indexer[y].generation # g
    BY <1>1, <2>1
  <2>3. Whole(indexer[y].generation)
    BY <1>1, <2>1, <2>2 DEF IndexInv, CompleteIsReady
  <2> QED
    BY <1>6, <2>1, <2>2, <2>3
<1> QED
  BY <1>3, <1>4, <1>5, <1>7, <1>8 DEF IndexInv

LEMMA BeginGenerationStep ==
    ASSUME IndexInv, NEW x \in Indexers, BeginGeneration(x)
    PROVE  IndexInv'
<1> DEFINE g == indexer[x].generation
<1>1. g \in Generations
  BY IndexerShape DEF IndexInv, BeginGeneration
<1>2. CASE state[g] \notin {"absent", "building"}
  <2>1. Goto(x, IdleIndexer) /\ UNCHANGED <<store, cache>>
    BY <1>2 DEF BeginGeneration, store
  <2>2. IdleIndexer \in IndexerState /\ IdleIndexer.pc = "idle"
    BY DEF IndexerState, IdleIndexer
  <2>3. cache' \subseteq Paths \X Blobs
    BY <2>1 DEF IndexInv, TypeOK
  <2> QED
    BY <2>1, <2>2, <2>3, IndexerMoves
<1>3. CASE state[g] \in {"absent", "building"}
  <2> DEFINE t == [pc |-> "list", generation |-> g]
  <2>1. /\ state' = [state EXCEPT ![g] = "building"] /\ Goto(x, t)
        /\ UNCHANGED <<artifacts, coverage, selected, cache>>
    BY <1>3 DEF BeginGeneration
  <2>2. t \in IndexerState /\ t.pc = "list"
    BY <1>1 DEF IndexerState
  <2> HIDE DEF t, IndexerState
  <2>3. indexer'[x] = t /\ \A y \in Indexers \ {x} : indexer'[y] = indexer[y]
    BY <2>1 DEF IndexInv, TypeOK, Goto
  <2>4. /\ \A h \in Generations : state'[h] = state[h] \/ (h = g /\ state'[h] = "building")
        /\ \A h \in Generations : Whole(h) => Whole(h)'
    BY <2>1, <1>1 DEF IndexInv, TypeOK, Whole
  <2>5. TypeOK'
    BY <2>1, <2>2 DEF IndexInv, TypeOK, Goto, States
  <2>6. BatchesRead' /\ RowsOfTree'
    BY <2>1, <2>2, <2>3 DEF IndexInv, BatchesRead, RowsOfTree
  <2>7. CompleteHasTree'
    BY <2>4 DEF IndexInv, CompleteHasTree
  <2>8. CompleteIsReady'
    <3> SUFFICES ASSUME NEW y \in Indexers, indexer'[y].pc = "complete",
                        indexer'[y].summary = "complete",
                        state'[indexer'[y].generation] \in {"absent", "building"}
                 PROVE  Whole(indexer[y].generation)'
      BY DEF CompleteIsReady
    <3>1. y # x /\ indexer'[y] = indexer[y] /\ indexer[y].generation \in Generations
      BY <2>2, <2>3, IndexerShape DEF IndexInv
    <3>2. state[indexer[y].generation] \in {"absent", "building"}
      BY <1>3, <2>4, <3>1
    <3>3. Whole(indexer[y].generation)
      BY <3>1, <3>2 DEF IndexInv, CompleteIsReady
    <3> QED
      BY <2>4, <3>1, <3>3
  <2> QED
    BY <2>5, <2>6, <2>7, <2>8 DEF IndexInv
<1> QED
  BY <1>2, <1>3

LEMMA FailStep ==
    ASSUME IndexInv, NEW x \in Indexers, FailGeneration(x)
    PROVE  IndexInv'
<1> DEFINE g == indexer[x].generation
<1>1. g \in Generations
  BY IndexerShape DEF IndexInv, FailGeneration
<1>2. IdleIndexer \in IndexerState /\ IdleIndexer.pc = "idle"
  BY DEF IndexerState, IdleIndexer
<1>3. Goto(x, IdleIndexer) /\ UNCHANGED <<selected, cache>>
  BY DEF FailGeneration
<1>4. CASE state[g] = "building"
  <2>1. Abandon(g, "failed")
    BY <1>4 DEF FailGeneration
  <2>2. /\ indexer' \in [Indexers -> IndexerState]
        /\ \A y \in Indexers : indexer'[y] = indexer[y] \/ indexer'[y].pc = "idle"
    BY <1>2, <1>3 DEF Goto, IndexInv, TypeOK
  <2> HIDE DEF g
  <2> QED
    BY <1>1, <1>3, <1>4, <2>1, <2>2, AbandonStep
<1>5. CASE state[g] # "building"
  <2>1. UNCHANGED store /\ cache' \subseteq Paths \X Blobs
    BY <1>3, <1>5 DEF FailGeneration, store, IndexInv, TypeOK
  <2> QED
    BY <1>2, <1>3, <2>1, IndexerMoves
<1> QED
  BY <1>4, <1>5

\* The steps that change nothing but where the indexer is.
LEMMA QuietStep ==
    ASSUME IndexInv, NEW x \in Indexers,
           (\E g \in Generations : StartIndex(x, g)) \/ Interrupt(x) \/ CrashIndexer(x)
    PROVE  IndexInv'
<1>1. UNCHANGED <<store, cache>> /\ cache' \subseteq Paths \X Blobs
  BY DEF StartIndex, Interrupt, CrashIndexer, IndexInv, TypeOK
<1>2. ASSUME NEW g \in Generations, StartIndex(x, g) PROVE IndexInv'
  <2> DEFINE t == [pc |-> "begin", generation |-> g]
  <2>1. Goto(x, t) /\ t \in IndexerState /\ t.pc = "begin"
    BY <1>2 DEF StartIndex, IndexerState
  <2> HIDE DEF t
  <2> QED
    BY <1>1, <2>1, IndexerMoves
<1>3. CASE Interrupt(x)
  <2> DEFINE t == [pc |-> "fail", generation |-> indexer[x].generation, collided |-> FALSE]
  <2>1. indexer[x].generation \in Generations
    BY <1>3, IndexerShape DEF IndexInv, Interrupt
  <2>2. Goto(x, t) /\ t \in IndexerState /\ t.pc = "fail"
    BY <1>3, <2>1 DEF Interrupt, GotoFail, IndexerState
  <2> HIDE DEF t
  <2> QED
    BY <1>1, <2>2, IndexerMoves
<1>4. CASE CrashIndexer(x)
  <2>1. Goto(x, IdleIndexer) /\ IdleIndexer \in IndexerState /\ IdleIndexer.pc = "idle"
    BY <1>4 DEF CrashIndexer, IndexerState, IdleIndexer
  <2> QED
    BY <1>1, <2>1, IndexerMoves
<1> QED
  BY <1>2, <1>3, <1>4

LEMMA IndexStep ==
    ASSUME IndexInv, [Next]_vars
    PROVE  IndexInv'
<1>1. CASE UNCHANGED vars
  <2>1. UNCHANGED <<state, artifacts, coverage, selected, cache, indexer>>
    BY <1>1 DEF vars
  <2>2. TypeOK' /\ BatchesRead' /\ RowsOfTree'
    BY <2>1 DEF IndexInv, TypeOK, BatchesRead, RowsOfTree
  <2>3. CompleteIsReady' /\ CompleteHasTree'
    BY <2>1 DEF IndexInv, CompleteIsReady, CompleteHasTree, Whole
  <2> QED
    BY <2>2, <2>3 DEF IndexInv
<1>2. ASSUME NEW g \in Generations, ExpireLease(g) PROVE IndexInv'
  <2>1. indexer' \in [Indexers -> IndexerState] /\ \A y \in Indexers : indexer'[y] = indexer[y]
    BY <1>2 DEF ExpireLease, IndexInv, TypeOK
  <2> QED
    BY <1>2, <2>1, AbandonStep DEF ExpireLease
<1>3. ASSUME NEW x \in Indexers, IndexerStep(x) PROVE IndexInv'
  <2> USE <1>3
  <2>1. CASE BeginGeneration(x) \/ PutArtifacts(x) \/ CompleteGeneration(x) \/ FailGeneration(x)
    BY <2>1, BeginGenerationStep, PutStep, CompleteStep, FailStep
  <2>2. CASE ReusePrevious(x) \/ ReuseCached(x) \/ ReadEntry(x) \/ ReadEntryFails(x)
    BY <2>2, ReuseStep, ReadStep
  <2>3. ASSUME NEW listed \in SUBSET Paths, NEW complete \in BOOLEAN,
               NEW previous \in Generations \cup {NoGeneration},
               ListTree(x, listed, complete, previous)
        PROVE  IndexInv'
    BY <2>3, ListStep
  <2> QED
    BY <2>1, <2>2, <2>3, QuietStep DEF IndexerStep
<1> QED
  BY <1>1, <1>2, <1>3 DEF Next

\* Only rows that are building are written.
LEMMA RowsStayStep ==
    ASSUME TypeOK, [Next]_vars
    PROVE  RowsStay
<1> SUFFICES ASSUME NEW g \in Generations, Published(g)
             PROVE  state'[g] = state[g] /\ artifacts'[g] = artifacts[g] /\ coverage'[g] = coverage[g]
  BY DEF RowsStay
<1>1. state[g] \notin {"absent", "building"}
  BY DEF Published
<1>2. CASE UNCHANGED store
  BY <1>2 DEF store
<1>3. ASSUME NEW h \in Generations, state[h] = "building", NEW verdict, Abandon(h, verdict)
      PROVE  state'[g] = state[g] /\ artifacts'[g] = artifacts[g] /\ coverage'[g] = coverage[g]
  BY <1>1, <1>3 DEF Abandon, TypeOK
<1>4. ASSUME NEW x \in Indexers, IndexerStep(x)
      PROVE  state'[g] = state[g] /\ artifacts'[g] = artifacts[g] /\ coverage'[g] = coverage[g]
  <2> DEFINE h == indexer[x].generation
  <2>1. CASE BeginGeneration(x)
    BY <1>1, <2>1 DEF BeginGeneration, TypeOK
  <2>2. CASE PutArtifacts(x)
    BY <1>1, <2>2 DEF PutArtifacts, TypeOK
  <2>3. CASE CompleteGeneration(x)
    BY <1>1, <2>3 DEF CompleteGeneration, TypeOK
  <2>4. CASE FailGeneration(x)
    <3>1. h \in Generations
      BY <2>4, IndexerShape DEF FailGeneration
    <3> QED
      BY <1>3, <2>4, <3>1 DEF FailGeneration
  <2> QED
    BY <1>2, <1>4, <2>1, <2>2, <2>3, <2>4 DEF IndexerStep, StartIndex, ListTree, ReusePrevious,
       ReuseCached, ReadEntry, ReadEntryFails, Interrupt, CrashIndexer
<1> QED
  BY <1>2, <1>3, <1>4 DEF Next, ExpireLease, vars, store

-----------------------------------------------------------------------------
(* Theorems of GenerationIndex. *)

\* The rows, the cache and the indexers of execute always have their types; in
\* particular a batch never counts more failed files than the tree has.
THEOREM IndexTypeCorrect == Spec => []TypeOK
<1>1. Init => IndexInv
  BY IndexStart
<1>2. IndexInv /\ [Next]_vars => IndexInv'
  BY IndexStep
<1>3. IndexInv => TypeOK
  BY DEF IndexInv
<1> QED
  BY <1>1, <1>2, <1>3, PTL DEF Spec

\* For any number of indexers that share leases, caches and earlier generations,
\* a published generation holds its own commit, and a complete one all of it
\* (IndexRepositoryGeneration.execute, putArtifacts, completeGeneration).
THEOREM PublishedGenerationsMatch == Spec => []PublishedMatchesTree
<1>1. Init => IndexInv
  BY IndexStart
<1>2. IndexInv /\ [Next]_vars => IndexInv'
  BY IndexStep
<1>3. IndexInv => PublishedMatchesTree
  BY DEF IndexInv, RowsOfTree, CompleteHasTree, Whole, TreeOf, PublishedMatchesTree
<1> QED
  BY <1>1, <1>2, <1>3, PTL DEF Spec

-----------------------------------------------------------------------------
(* OverlayDerivation: the effect of a diff. *)

\* The entries of an overlay that leads from one tree to another.
Delta(base, head) ==
    [p \in Paths |-> IF Tree[base][p] = Tree[head][p] THEN NoArtifact
                     ELSE IF p \in TreeEntries(head) THEN Classified(Tree[head][p]) ELSE Tombstone]

Differs(base, head, p) == Tree[base][p] # Tree[head][p]

Removed(base, head) == TreeEntries(base) \ TreeEntries(head)

LEMMA EntryFacts ==
    /\ Tombstone # NoArtifact
    /\ \A a \in Artifact : a # Tombstone /\ a # NoArtifact
    /\ \A a \in Artifact : a.blob \in Blobs
    /\ \A blob \in Blobs : Classified(blob) \in Artifact /\ FailedArtifact(blob) \in Artifact
  BY TreeAssumption DEF Tombstone, NoArtifact, Artifact, Classified, FailedArtifact

\* Applied to a clean index, the overlay gives a clean index.
LEMMA DeltaLeadsToHead ==
    ASSUME NEW base \in Commits, NEW head \in Commits
    PROVE  Materialize(CleanIndex(base), Delta(base, head)) = CleanIndex(head)
<1>1. ASSUME NEW p \in Paths
      PROVE  Materialize(CleanIndex(base), Delta(base, head))[p] = CleanIndex(head)[p]
  <2>1. CASE Tree[base][p] = Tree[head][p]
    <3>1. CleanIndex(base)[p] = CleanIndex(head)[p]
      BY <2>1 DEF CleanIndex, TreeEntries
    <3>2. Delta(base, head)[p] = NoArtifact
      BY <2>1 DEF Delta
    <3> QED
      BY <3>1, <3>2, EntryFacts DEF Materialize
  <2>2. CASE Tree[base][p] # Tree[head][p] /\ p \in TreeEntries(head)
    <3>1. Classified(Tree[head][p]) \in Artifact
      BY <2>2, TreeBlobs, EntryFacts
    <3>2. Delta(base, head)[p] = Classified(Tree[head][p])
      BY <2>2 DEF Delta
    <3>3. CleanIndex(head)[p] = Classified(Tree[head][p])
      BY <2>2 DEF CleanIndex
    <3> QED
      BY <3>1, <3>2, <3>3, EntryFacts DEF Materialize
  <2>3. CASE Tree[base][p] # Tree[head][p] /\ p \notin TreeEntries(head)
    <3>1. Delta(base, head)[p] = Tombstone /\ CleanIndex(head)[p] = NoArtifact
      BY <2>3 DEF Delta, CleanIndex
    <3> QED
      BY <3>1, EntryFacts DEF Materialize
  <2> QED
    BY <2>1, <2>2, <2>3
<1> QED
  BY <1>1 DEF Materialize, CleanIndex

\* What one entry of a diff says.
GoodChange(c, base, head) ==
    /\ c \in Change
    /\ c.kind = "deleted" => c.path \in Removed(base, head) /\ c.previous = c.path
    /\ c.kind # "deleted" =>
          /\ c.path \in TreeEntries(head) /\ Differs(base, head, c.path)
          /\ c.previous = c.path \/ c.previous \in Removed(base, head)

Covers(changes, p) == \E c \in changes : p \in {c.path, c.previous}

\* reader.compare: a diff, however it pairs renames, says what is so and covers
\* every path that differs.
LEMMA DiffIsRight ==
    ASSUME NEW base \in Commits, NEW head \in Commits, NEW renames \in Renames(base, head)
    PROVE  /\ \A c \in DiffEntries(base, head, renames) : GoodChange(c, base, head)
           /\ \A p \in Paths : Differs(base, head, p) => Covers(DiffEntries(base, head, renames), p)
<1>1. /\ Removed(base, head) \subseteq Paths /\ TreeEntries(head) \subseteq Paths
      /\ TreeEntries(base) \subseteq Paths
  BY DEF Removed, TreeEntries
<1>2. \A r \in renames : r[1] \in Removed(base, head) /\ r[2] \in TreeEntries(head) \ TreeEntries(base)
  BY DEF Renames, Removed
<1>3. \A p \in TreeEntries(head) \ TreeEntries(base) : Differs(base, head, p)
  BY DEF TreeEntries, Differs
<1>4. ASSUME NEW c \in DiffEntries(base, head, renames) PROVE GoodChange(c, base, head)
  <2>1. ASSUME NEW p \in Removed(base, head), c = [kind |-> "deleted", path |-> p, previous |-> p]
        PROVE  GoodChange(c, base, head)
    BY <1>1, <2>1 DEF GoodChange, Change
  <2>2. ASSUME NEW r \in renames, c = [kind |-> "renamed", path |-> r[2], previous |-> r[1]]
        PROVE  GoodChange(c, base, head)
    BY <1>1, <1>2, <1>3, <2>2 DEF GoodChange, Change
  <2>3. ASSUME NEW p \in TreeEntries(head), Differs(base, head, p),
               c = [kind |-> "changed", path |-> p, previous |-> p]
        PROVE  GoodChange(c, base, head)
    BY <1>1, <2>3 DEF GoodChange, Change
  <2> QED
    BY <2>1, <2>2, <2>3 DEF DiffEntries, Removed, Differs
<1>5. ASSUME NEW p \in Paths, Differs(base, head, p) PROVE Covers(DiffEntries(base, head, renames), p)
  <2>1. p \in Removed(base, head) \/ p \in TreeEntries(head)
    BY <1>5 DEF Removed, TreeEntries, Differs
  <2>2. ASSUME NEW r \in renames, p = r[1] \/ p = r[2] PROVE Covers(DiffEntries(base, head, renames), p)
    <3>1. [kind |-> "renamed", path |-> r[2], previous |-> r[1]] \in DiffEntries(base, head, renames)
      BY DEF DiffEntries
    <3> QED
      BY <3>1, <2>2 DEF Covers
  <2>3. CASE p \in Removed(base, head) /\ \A r \in renames : p # r[1]
    <3>1. [kind |-> "deleted", path |-> p, previous |-> p] \in DiffEntries(base, head, renames)
      BY <2>3 DEF DiffEntries, Removed
    <3> QED
      BY <3>1 DEF Covers
  <2>4. CASE p \in TreeEntries(head) /\ \A r \in renames : p # r[2]
    <3>1. [kind |-> "changed", path |-> p, previous |-> p] \in DiffEntries(base, head, renames)
      BY <1>5, <2>4 DEF DiffEntries, Differs
    <3> QED
      BY <3>1 DEF Covers
  <2> QED
    BY <2>1, <2>2, <2>3, <2>4
<1> QED
  BY <1>4, <1>5

-----------------------------------------------------------------------------
(* listArtifacts as an equation. *)

\* f lists the artifacts of every generation, along its ancestry.
Lists(f, generations, overlays) ==
    f = [g \in GenerationIds |->
            IF generations[g].base = NoBase THEN generations[g].artifacts
            ELSE Materialize(f[generations[g].base], overlays[generations[g].overlay].entries)]

LEMMA ListArtifactsIsChosen ==
    ASSUME NEW generations, NEW overlays, NEW f, Lists(f, generations, overlays)
    PROVE  Lists(ListArtifacts(generations, overlays), generations, overlays)
<1>1. ListArtifacts(generations, overlays) = CHOOSE h : Lists(h, generations, overlays)
  BY DEF ListArtifacts, Lists
<1> QED
  BY <1>1

-----------------------------------------------------------------------------
(* OverlayDerivation: its invariant. *)

CommitOfBase(request) == generation[request.base].commit

\* A derived generation is of a published base and a settled overlay on it, and
\* complete only if both are; a generation that is not derived is a clean index
\* when it is complete.
AncestryOf(g) ==
    IF generation[g].base = NoBase
    THEN generation[g].state = "complete" => generation[g].artifacts = CleanIndex(generation[g].commit)
    ELSE /\ IsPublished(g)
         /\ generation[g].base \in GenerationIds /\ IsPublished(generation[g].base)
         /\ generation[g].overlay \in Overlays /\ Completed(generation[g].overlay)
         /\ overlay[generation[g].overlay].base = generation[g].base
         /\ overlay[generation[g].overlay].head = generation[g].commit
         /\ generation[g].state = "complete" =>
               /\ generation[generation[g].base].state = "complete"
               /\ overlay[generation[g].overlay].state = "complete"

Ancestry == \A g \in GenerationIds : AncestryOf(g)

\* An overlay is of a request; it only has entries where the trees of its base and
\* its head differ, and when it is complete it has them all.
RowOf(row, o, base) ==
    /\ \E request \in Requests :
          request.overlay = o /\ row.base = request.base /\ row.head = request.head
    /\ \A p \in Paths : row.entries[p] # NoArtifact => Differs(base, row.head, p)
    /\ row.state = "complete" => row.entries = Delta(base, row.head)

OverlayOf(o) ==
    overlay[o].state # "absent" =>
        IsPublished(overlay[o].base) /\ RowOf(overlay[o], o, generation[overlay[o].base].commit)

OverlaysSound == \A o \in Overlays : OverlayOf(o)

\* The changes of its diff that a builder has still to do, and entries that are
\* right for the others unless it knows that it is partial.
Working(s, base) ==
    LET head == s.request.head
    IN  /\ \A c \in s.todo : GoodChange(c, base, head)
        /\ s.pc \in {"begin", "list"} /\ ~s.partial =>
              \A p \in Paths : Differs(base, head, p) => Covers(s.todo, p)
        /\ s.pc = "changes" =>
              /\ \A p \in Paths : s.entries[p] # NoArtifact => Differs(base, head, p)
              /\ ~s.partial =>
                    /\ s.listed = TreeEntries(head)
                    /\ \A p \in Paths : s.entries[p] = Delta(base, head)[p] \/ Covers(s.todo, p)

\* What a builder holds, given the row of its overlay.
Holds(s, base, row) ==
    /\ s.pc \in {"begin", "list", "changes"} => Working(s, base)
    /\ s.pc # "begin" => row.state # "absent"
    /\ s.pc = "complete" /\ ~s.partial /\ row.state = "building" =>
          row.entries = Delta(base, s.request.head)

GoodBuilder(s) ==
    s.pc # "idle" =>
        IsPublished(s.request.base) /\ Holds(s, CommitOfBase(s.request), overlay[s.request.overlay])

BuildersSound == \A b \in Builders : GoodBuilder(builder[b])

\* Every generation has one list of artifacts, and a complete one the right list.
ListingSound ==
    /\ \E f : Lists(f, generation, overlay)
    /\ \A f, h : Lists(f, generation, overlay) /\ Lists(h, generation, overlay) => f = h
    /\ \A f : Lists(f, generation, overlay) =>
          \A g \in GenerationIds : generation[g].state = "complete" =>
              f[g] = CleanIndex(generation[g].commit)

OverlayInv == OverlayTypeOK /\ Ancestry /\ OverlaysSound /\ BuildersSound /\ ListingSound

-----------------------------------------------------------------------------
(* Lists of artifacts. *)

\* The list depends on the derived generations and their overlays only.
LEMMA SameLists ==
    ASSUME NEW f, NEW G, NEW O, NEW H, NEW P,
           \A g \in GenerationIds :
              /\ G[g] = H[g]
              /\ H[g].base # NoBase => O[H[g].overlay].entries = P[H[g].overlay].entries
    PROVE  Lists(f, G, O) <=> Lists(f, H, P)
<1> DEFINE L(g) == IF G[g].base = NoBase THEN G[g].artifacts
                   ELSE Materialize(f[G[g].base], O[G[g].overlay].entries)
           M(g) == IF H[g].base = NoBase THEN H[g].artifacts
                   ELSE Materialize(f[H[g].base], P[H[g].overlay].entries)
<1>1. \A g \in GenerationIds : L(g) = M(g)
  OBVIOUS
<1>2. [g \in GenerationIds |-> L(g)] = [g \in GenerationIds |-> M(g)]
  <2> HIDE DEF L, M
  <2> QED
    BY <1>1
<1> QED
  BY <1>2 DEF Lists

LEMMA ListsAt ==
    ASSUME NEW f, NEW G, NEW O, NEW g \in GenerationIds, Lists(f, G, O)
    PROVE  f[g] = IF G[g].base = NoBase THEN G[g].artifacts
                  ELSE Materialize(f[G[g].base], O[G[g].overlay].entries)
  BY DEF Lists

LEMMA ListsIntro ==
    ASSUME NEW f, NEW G, NEW O, DOMAIN f = GenerationIds, f = [g \in DOMAIN f |-> f[g]],
           \A g \in GenerationIds :
              f[g] = IF G[g].base = NoBase THEN G[g].artifacts
                     ELSE Materialize(f[G[g].base], O[G[g].overlay].entries)
    PROVE  Lists(f, G, O)
  BY DEF Lists

LEMMA ListsDomain ==
    ASSUME NEW f, NEW G, NEW O, Lists(f, G, O)
    PROVE  DOMAIN f = GenerationIds /\ f = [g \in DOMAIN f |-> f[g]]
  BY DEF Lists

\* deriveGeneration extends the lists by one generation that no other is based
\* on: the old lists stay, and there is one new list.
LEMMA ListsExtend ==
    ASSUME NEW G, NEW H, NEW O, NEW g \in GenerationIds, NEW base \in GenerationIds \ {g},
           G[g].base = NoBase, H[g].base = base,
           \A x \in GenerationIds \ {g} : H[x] = G[x],
           \A x \in GenerationIds : G[x].base # NoBase => G[x].base \in GenerationIds \ {g}
    PROVE  /\ \A f : Lists(f, G, O) =>
                Lists([f EXCEPT ![g] = Materialize(f[base], O[H[g].overlay].entries)], H, O)
           /\ \A f : Lists(f, H, O) => Lists([f EXCEPT ![g] = G[g].artifacts], G, O)
<1>1. base # NoBase
  BY OverlayAssumption
<1>2. ASSUME NEW f, Lists(f, G, O)
      PROVE  Lists([f EXCEPT ![g] = Materialize(f[base], O[H[g].overlay].entries)], H, O)
  <2> DEFINE m == Materialize(f[base], O[H[g].overlay].entries)
             h == [f EXCEPT ![g] = m]
  <2>1. DOMAIN f = GenerationIds
    BY <1>2, ListsDomain
  <2> HIDE DEF m
  <2>2. /\ DOMAIN h = GenerationIds /\ h = [x \in DOMAIN h |-> h[x]]
        /\ h[g] = m /\ \A x \in GenerationIds \ {g} : h[x] = f[x]
    BY <2>1
  <2> HIDE DEF h
  <2>3. ASSUME NEW x \in GenerationIds
        PROVE  h[x] = IF H[x].base = NoBase THEN H[x].artifacts
                      ELSE Materialize(h[H[x].base], O[H[x].overlay].entries)
    <3>1. CASE x = g
      BY <3>1, <2>2, <1>1 DEF m
    <3>2. CASE x # g
      <4>1. f[x] = IF G[x].base = NoBase THEN G[x].artifacts
                   ELSE Materialize(f[G[x].base], O[G[x].overlay].entries)
        BY <1>2 DEF Lists
      <4>2. h[x] = f[x] /\ H[x] = G[x]
        BY <3>2, <2>2
      <4>3. G[x].base # NoBase => h[G[x].base] = f[G[x].base]
        BY <2>2
      <4> QED
        BY <4>1, <4>2, <4>3
    <3> QED
      BY <3>1, <3>2
  <2> QED
    BY <2>2, <2>3, ListsIntro DEF m, h
<1>3. ASSUME NEW f, Lists(f, H, O)
      PROVE  Lists([f EXCEPT ![g] = G[g].artifacts], G, O)
  <2> DEFINE h == [f EXCEPT ![g] = G[g].artifacts]
  <2>1. DOMAIN f = GenerationIds
    BY <1>3, ListsDomain
  <2>2. /\ DOMAIN h = GenerationIds /\ h = [x \in DOMAIN h |-> h[x]]
        /\ h[g] = G[g].artifacts /\ \A x \in GenerationIds \ {g} : h[x] = f[x]
    BY <2>1
  <2> HIDE DEF h
  <2>3. ASSUME NEW x \in GenerationIds
        PROVE  h[x] = IF G[x].base = NoBase THEN G[x].artifacts
                      ELSE Materialize(h[G[x].base], O[G[x].overlay].entries)
    <3>1. CASE x = g
      BY <3>1, <2>2
    <3>2. CASE x # g
      <4>1. f[x] = IF H[x].base = NoBase THEN H[x].artifacts
                   ELSE Materialize(f[H[x].base], O[H[x].overlay].entries)
        BY <1>3 DEF Lists
      <4>2. h[x] = f[x] /\ H[x] = G[x]
        BY <3>2, <2>2
      <4>3. G[x].base # NoBase => h[G[x].base] = f[G[x].base]
        BY <2>2
      <4> QED
        BY <4>1, <4>2, <4>3
    <3> QED
      BY <3>1, <3>2
  <2> QED
    BY <2>2, <2>3, ListsIntro DEF h
<1> QED
  BY <1>2, <1>3

-----------------------------------------------------------------------------
(* OverlayDerivation: the initial state and the frame of its steps. *)

LEMMA OverlayStart ==
    ASSUME OverlayInit
    PROVE  OverlayInv
<1>1. PICK artifacts0 \in ArtifactMap, state0 \in {"complete", "partial"} :
        /\ RootArtifacts(artifacts0, state0)
        /\ generation = [g \in GenerationIds |->
              IF g # Root THEN AbsentGeneration
              ELSE [state |-> state0, commit |-> RootCommit, artifacts |-> artifacts0,
                    base |-> NoBase, overlay |-> NoOverlay]]
  BY DEF OverlayInit
<1>2. overlay = [o \in Overlays |-> AbsentRow] /\ builder = [b \in Builders |-> Idle]
  BY DEF OverlayInit
<1> DEFINE root == [state |-> state0, commit |-> RootCommit, artifacts |-> artifacts0,
                    base |-> NoBase, overlay |-> NoOverlay]
<1>3. root \in GenerationRow
  BY OverlayAssumption DEF GenerationRow
<1>4. \A g \in GenerationIds : generation[g].base = NoBase
  BY <1>1 DEF AbsentGeneration
<1>5. \A g \in GenerationIds : generation[g].state = "complete" =>
          generation[g].artifacts = CleanIndex(generation[g].commit)
  BY <1>1 DEF AbsentGeneration, RootArtifacts
<1>6. OverlayTypeOK
  <2>1. \A g \in GenerationIds : generation[g] \in GenerationRow \cup {AbsentGeneration}
    BY <1>1, <1>3
  <2>2. Idle \in BuilderState
    BY DEF BuilderState
  <2>3. generation = [g \in GenerationIds |-> generation[g]]
    BY <1>1
  <2> QED
    BY <1>2, <2>1, <2>2, <2>3 DEF OverlayTypeOK
<1>7. Ancestry
  BY <1>4, <1>5 DEF Ancestry, AncestryOf
<1>8. OverlaysSound /\ BuildersSound
  BY <1>2 DEF OverlaysSound, OverlayOf, BuildersSound, GoodBuilder, AbsentRow, Idle
<1>9. ListingSound
  <2> DEFINE listed == [g \in GenerationIds |-> generation[g].artifacts]
  <2>1. \A f : Lists(f, generation, overlay) => f = listed
    <3> SUFFICES ASSUME NEW f, Lists(f, generation, overlay) PROVE f = listed
      OBVIOUS
    <3>1. DOMAIN f = GenerationIds /\ f = [g \in DOMAIN f |-> f[g]]
      BY ListsDomain
    <3>2. \A g \in GenerationIds : f[g] = generation[g].artifacts
      BY <1>4, ListsAt
    <3> QED
      BY <3>1, <3>2
  <2>2. Lists(listed, generation, overlay)
    BY <1>4, ListsIntro
  <2>3. \A g \in GenerationIds : listed[g] = generation[g].artifacts
    OBVIOUS
  <2> HIDE DEF listed
  <2> QED
    BY <2>1, <2>2, <2>3, <1>5 DEF ListingSound
<1> QED
  BY <1>6, <1>7, <1>8, <1>9 DEF OverlayInv

\* Where a builder is decides what it holds.
LEMMA BuilderShape ==
    ASSUME OverlayTypeOK, NEW b \in Builders
    PROVE  /\ builder[b] \in BuilderState
           /\ builder[b].pc # "idle" =>
                builder[b].request \in Requests /\ builder[b].request.overlay \in Overlays
                  /\ builder[b].request.base \in GenerationIds /\ builder[b].request.head \in Commits
<1>1. builder[b] \in BuilderState
  BY DEF OverlayTypeOK
<1>2. builder[b].pc # "idle" => builder[b].request \in Requests
  BY <1>1 DEF BuilderState, Idle
<1> QED
  BY <1>1, <1>2, OverlayAssumption

\* A published row has a commit, and nothing else does.
LEMMA GenerationShape ==
    ASSUME OverlayTypeOK, NEW g \in GenerationIds
    PROVE  /\ IsPublished(g) => generation[g] \in GenerationRow
           /\ ~IsPublished(g) => generation[g] = AbsentGeneration /\ generation[g].state = "absent"
  BY DEF OverlayTypeOK, IsPublished, GenerationRow, AbsentGeneration

LEMMA OverlayShape ==
    ASSUME OverlayTypeOK, NEW o \in Overlays
    PROVE  IF overlay[o].state = "absent" THEN overlay[o] = AbsentRow ELSE overlay[o] \in OverlayRow
  BY DEF OverlayTypeOK, OverlayRow, AbsentRow

\* A step that writes one overlay that is not settled, and moves its builder.
LEMMA OverlayWrites ==
    ASSUME OverlayInv, NEW b \in Builders, NEW s \in BuilderState, NEW o \in Overlays,
           NEW row \in OverlayRow,
           BuilderGoto(b, s), overlay' = [overlay EXCEPT ![o] = row], UNCHANGED generation,
           ~Completed(o), IsPublished(row.base), RowOf(row, o, generation[row.base].commit),
           s.pc # "idle" => /\ IsPublished(s.request.base) /\ s.request.overlay = o
                            /\ Holds(s, generation[s.request.base].commit, row),
           \A c \in Builders \ {b} : builder[c].pc # "idle" /\ builder[c].request.overlay = o =>
               Holds(builder[c], generation[builder[c].request.base].commit, row)
    PROVE  OverlayInv'
<1> USE DEF OverlayInv
<1>1. /\ builder' \in [Builders -> BuilderState] /\ builder'[b] = s
      /\ \A c \in Builders \ {b} : builder'[c] = builder[c]
  BY DEF BuilderGoto, OverlayTypeOK
<1>2. /\ overlay' \in [Overlays -> OverlayRow \cup {AbsentRow}] /\ overlay'[o] = row
      /\ \A p \in Overlays \ {o} : overlay'[p] = overlay[p]
  BY DEF OverlayTypeOK
<1>3. OverlayTypeOK'
  BY <1>1, <1>2 DEF OverlayTypeOK
<1>4. Ancestry'
  <2> SUFFICES ASSUME NEW g \in GenerationIds PROVE AncestryOf(g)'
    BY DEF Ancestry
  <2>1. AncestryOf(g) /\ generation' = generation
    BY DEF Ancestry
  <2>2. generation[g].base # NoBase => generation[g].overlay \in Overlays \ {o}
    BY <2>1 DEF AncestryOf
  <2>3. generation[g].base # NoBase => overlay'[generation[g].overlay] = overlay[generation[g].overlay]
    BY <1>2, <2>2
  <2> QED
    BY <2>1, <2>3 DEF AncestryOf, IsPublished, Completed
<1>5. OverlaysSound'
  <2> SUFFICES ASSUME NEW p \in Overlays PROVE OverlayOf(p)'
    BY DEF OverlaysSound
  <2>1. CASE p = o
    BY <2>1, <1>2 DEF OverlayOf, IsPublished
  <2>2. CASE p # o
    BY <2>2, <1>2 DEF OverlaysSound, OverlayOf, IsPublished
  <2> QED
    BY <2>1, <2>2
<1>6. BuildersSound'
  <2> SUFFICES ASSUME NEW c \in Builders PROVE GoodBuilder(builder[c])'
    BY DEF BuildersSound
  <2>1. CASE c = b
    BY <2>1, <1>1, <1>2 DEF GoodBuilder, CommitOfBase, IsPublished
  <2>2. CASE c # b
    <3>1. GoodBuilder(builder[c]) /\ builder'[c] = builder[c]
      BY <2>2, <1>1 DEF BuildersSound
    <3>2. builder[c].pc # "idle" => builder[c].request.overlay \in Overlays
      BY BuilderShape
    <3> QED
      BY <2>2, <3>1, <3>2, <1>2 DEF GoodBuilder, CommitOfBase, IsPublished
  <2> QED
    BY <2>1, <2>2
<1>7. ListingSound'
  <2>1. \A g \in GenerationIds : generation[g].base # NoBase =>
          overlay[generation[g].overlay].entries = overlay'[generation[g].overlay].entries
    <3> SUFFICES ASSUME NEW g \in GenerationIds, generation[g].base # NoBase
                 PROVE  overlay[generation[g].overlay] = overlay'[generation[g].overlay]
      OBVIOUS
    <3>1. generation[g].overlay \in Overlays \ {o}
      BY DEF Ancestry, AncestryOf
    <3> QED
      BY <3>1, <1>2
  <2>2. \A f : Lists(f, generation, overlay) <=> Lists(f, generation', overlay')
    BY <2>1, SameLists
  <2> QED
    BY <2>2 DEF ListingSound
<1> QED
  BY <1>3, <1>4, <1>5, <1>6, <1>7

\* A step that only moves a builder.
LEMMA BuilderMoves ==
    ASSUME OverlayInv, NEW b \in Builders, NEW s \in BuilderState,
           GoodBuilder(s), BuilderGoto(b, s), UNCHANGED <<generation, overlay>>
    PROVE  OverlayInv'
<1> USE DEF OverlayInv
<1>1. /\ builder' \in [Builders -> BuilderState] /\ builder'[b] = s
      /\ \A c \in Builders \ {b} : builder'[c] = builder[c]
  BY DEF BuilderGoto, OverlayTypeOK
<1>2. OverlayTypeOK'
  BY <1>1 DEF OverlayTypeOK
<1>3. Ancestry' /\ OverlaysSound' /\ ListingSound'
  BY DEF Ancestry, AncestryOf, OverlaysSound, OverlayOf, ListingSound, IsPublished, Completed
<1>4. BuildersSound'
  BY <1>1 DEF BuildersSound, GoodBuilder, CommitOfBase, IsPublished
<1> QED
  BY <1>2, <1>3, <1>4

-----------------------------------------------------------------------------
(* The steps of a builder. *)

\* What the invariant says of one builder.
LEMMA BuilderFacts ==
    ASSUME OverlayInv, NEW b \in Builders, builder[b].pc # "idle"
    PROVE  /\ builder[b].request \in Requests /\ builder[b].request.overlay \in Overlays
           /\ builder[b].request.base \in GenerationIds /\ builder[b].request.head \in Commits
           /\ IsPublished(builder[b].request.base) /\ CommitOfBase(builder[b].request) \in Commits
           /\ Holds(builder[b], CommitOfBase(builder[b].request), overlay[builder[b].request.overlay])
<1>1. /\ builder[b].request \in Requests /\ builder[b].request.overlay \in Overlays
      /\ builder[b].request.base \in GenerationIds /\ builder[b].request.head \in Commits
  BY BuilderShape DEF OverlayInv
<1>2. GoodBuilder(builder[b])
  BY DEF OverlayInv, BuildersSound
<1>3. IsPublished(builder[b].request.base) => CommitOfBase(builder[b].request) \in Commits
  BY <1>1, GenerationShape DEF OverlayInv, CommitOfBase, GenerationRow
<1> QED
  BY <1>1, <1>2, <1>3 DEF GoodBuilder

LEMMA StartStep ==
    ASSUME OverlayInv, NEW b \in Builders, NEW request \in Requests, IsPublished(request.base),
           NEW renames \in Renames(generation[request.base].commit, request.head),
           NEW listed, NEW complete \in BOOLEAN, StartOverlay(b, request, renames, listed, complete)
    PROVE  OverlayInv'
<1> DEFINE base == generation[request.base].commit
           s == [pc |-> "begin", request |-> request, todo |-> listed, partial |-> ~complete]
<1>1. request.base \in GenerationIds /\ request.head \in Commits
  BY OverlayAssumption
<1>2. base \in Commits
  BY <1>1, GenerationShape DEF OverlayInv, GenerationRow
<1>3. /\ \A c \in DiffEntries(base, request.head, renames) : GoodChange(c, base, request.head)
      /\ \A p \in Paths : Differs(base, request.head, p) =>
            Covers(DiffEntries(base, request.head, renames), p)
  BY <1>1, <1>2, DiffIsRight
<1>4. /\ listed \subseteq DiffEntries(base, request.head, renames)
      /\ complete => listed = DiffEntries(base, request.head, renames)
      /\ BuilderGoto(b, s) /\ UNCHANGED <<generation, overlay>>
  BY DEF StartOverlay
<1>5. listed \subseteq Change
  BY <1>3, <1>4 DEF GoodChange
<1> HIDE DEF base
<1>6. s \in BuilderState
  BY <1>5 DEF BuilderState
<1>7. Working(s, base)
  BY <1>3, <1>4 DEF Working
<1>8. GoodBuilder(s)
  BY <1>7 DEF GoodBuilder, Holds, CommitOfBase, base
<1> HIDE DEF s
<1> QED
  BY <1>4, <1>6, <1>8, BuilderMoves

\* The states of a builder with changes to do.
Beginning == [pc : {"begin", "list"}, request : Requests, todo : SUBSET Change, partial : BOOLEAN]

Changing ==
    [pc : {"changes"}, request : Requests, todo : SUBSET Change, partial : BOOLEAN,
     listed : SUBSET Paths, entries : Entries]

LEMMA WorkingShape ==
    ASSUME OverlayTypeOK, NEW b \in Builders
    PROVE  /\ builder[b].pc \in {"begin", "list"} => builder[b] \in Beginning
           /\ builder[b].pc = "changes" => builder[b] \in Changing
           /\ builder[b].pc = "complete" =>
                builder[b] \in [pc : {"complete"}, request : Requests, partial : BOOLEAN]
  BY DEF OverlayTypeOK, BuilderState, Idle, Beginning, Changing

LEMMA BeginStep ==
    ASSUME OverlayInv, NEW b \in Builders, BeginOverlay(b)
    PROVE  OverlayInv'
<1> DEFINE r == builder[b].request
           o == r.overlay
           base == CommitOfBase(r)
           s == [builder[b] EXCEPT !.pc = "list"]
           row == [state |-> "building", base |-> r.base, head |-> r.head, entries |-> NoArtifacts]
<1>1. builder[b].pc = "begin" /\ builder[b] \in Beginning
  BY WorkingShape DEF BeginOverlay, OverlayInv
<1>2. /\ r \in Requests /\ o \in Overlays /\ r.base \in GenerationIds /\ r.head \in Commits
      /\ IsPublished(r.base) /\ base \in Commits /\ Working(builder[b], base)
  BY <1>1, BuilderFacts DEF Holds
<1>3. /\ s \in Beginning /\ s.pc = "list" /\ s.request = r
      /\ s.todo = builder[b].todo /\ s.partial = builder[b].partial
  BY <1>1 DEF Beginning
<1>4. s \in BuilderState
  BY <1>3 DEF BuilderState, Beginning
<1>5. Working(s, base)
  BY <1>1, <1>2, <1>3 DEF Working
<1>6. CASE overlay[o].state = "absent"
  <2>1. /\ overlay' = [overlay EXCEPT ![o] = row] /\ BuilderGoto(b, s) /\ UNCHANGED generation
    BY <1>6 DEF BeginOverlay
  <2>2. NoArtifacts \in Entries /\ \A p \in Paths : NoArtifacts[p] = NoArtifact
    BY DEF Entries, NoArtifacts
  <2>3. row \in OverlayRow
    BY <1>2, <2>2 DEF OverlayRow
  <2>4. ~Completed(o)
    BY <1>6 DEF Completed
  <2>5. IsPublished(row.base) /\ row.state = "building" /\ row.base = r.base
    BY <1>2
  <2>6. RowOf(row, o, generation[row.base].commit)
    BY <1>2, <2>2 DEF RowOf
  <2>7. Holds(s, generation[s.request.base].commit, row)
    <3>1. generation[s.request.base].commit = base
      BY <1>3 DEF CommitOfBase
    <3> HIDE DEF base, row, s
    <3> QED
      BY <3>1, <1>3, <1>5, <2>5 DEF Holds
  <2>8. ASSUME NEW c \in Builders \ {b}, builder[c].pc # "idle", builder[c].request.overlay = o
        PROVE  Holds(builder[c], generation[builder[c].request.base].commit, row)
    <3>1. Holds(builder[c], CommitOfBase(builder[c].request), overlay[o])
      BY <2>8, BuilderFacts
    <3>2. builder[c].pc = "begin"
      BY <3>1, <1>6 DEF Holds
    <3> QED
      BY <3>1, <3>2 DEF Holds, CommitOfBase
  <2> HIDE DEF s, row, o
  <2> QED
    BY <1>2, <1>3, <1>4, <2>1, <2>3, <2>4, <2>5, <2>6, <2>7, <2>8, OverlayWrites DEF o
<1>7. CASE overlay[o].state = "building"
  <2>1. BuilderGoto(b, s) /\ UNCHANGED <<generation, overlay>>
    BY <1>7 DEF BeginOverlay
  <2>2. GoodBuilder(s)
    <3> HIDE DEF s
    <3> QED
      BY <1>2, <1>3, <1>5, <1>7 DEF GoodBuilder, Holds
  <2> HIDE DEF s
  <2> QED
    BY <1>4, <2>1, <2>2, BuilderMoves
<1>8. CASE overlay[o].state \notin {"absent", "building"}
  <2>1. BuilderGoto(b, Idle) /\ UNCHANGED <<generation, overlay>>
    BY <1>8 DEF BeginOverlay
  <2>2. Idle \in BuilderState /\ GoodBuilder(Idle)
    BY DEF BuilderState, Idle, GoodBuilder
  <2> QED
    BY <2>1, <2>2, BuilderMoves
<1> QED
  BY <1>6, <1>7, <1>8

LEMMA ListHeadStep ==
    ASSUME OverlayInv, NEW b \in Builders, NEW listed \in SUBSET Paths, NEW complete \in BOOLEAN,
           ListHead(b, listed, complete)
    PROVE  OverlayInv'
<1> DEFINE r == builder[b].request
           base == CommitOfBase(r)
           s == [pc |-> "changes", request |-> r, todo |-> builder[b].todo,
                 partial |-> builder[b].partial \/ ~complete, listed |-> listed,
                 entries |-> NoArtifacts]
<1>1. builder[b].pc = "list" /\ builder[b] \in Beginning
  BY WorkingShape DEF ListHead, OverlayInv
<1>2. /\ r \in Requests /\ r.head \in Commits /\ IsPublished(r.base) /\ base \in Commits
      /\ Working(builder[b], base) /\ overlay[r.overlay].state # "absent"
  BY <1>1, BuilderFacts DEF Holds
<1>3. NoArtifacts \in Entries /\ \A p \in Paths : NoArtifacts[p] = NoArtifact
  BY DEF Entries, NoArtifacts
<1>4. s \in BuilderState
  <2>1. builder[b].todo \in SUBSET Change /\ s.partial \in BOOLEAN
    BY <1>1 DEF Beginning
  <2> QED
    BY <1>2, <1>3, <2>1 DEF BuilderState
<1>5. /\ BuilderGoto(b, s) /\ UNCHANGED <<generation, overlay>>
      /\ complete => listed = TreeEntries(r.head)
  BY DEF ListHead
<1>6. \A p \in Paths : ~Differs(base, r.head, p) => Delta(base, r.head)[p] = NoArtifact
  BY DEF Delta, Differs
<1>7. Working(s, base)
  <2>1. s.partial = (builder[b].partial \/ ~complete) /\ s.todo = builder[b].todo /\ s.request = r
        /\ s.entries = NoArtifacts /\ s.pc = "changes" /\ s.listed = listed
    OBVIOUS
  <2>2. ~s.partial => ~builder[b].partial /\ complete
    BY <2>1, <1>1 DEF Beginning
  <2> HIDE DEF s, base
  <2> QED
    BY <1>1, <1>2, <1>3, <1>5, <1>6, <2>1, <2>2 DEF Working
<1>8. GoodBuilder(s)
  BY <1>2, <1>7 DEF GoodBuilder, Holds
<1> HIDE DEF s
<1> QED
  BY <1>4, <1>5, <1>8, BuilderMoves

\* The diff is in path order, so there is a change at its front.
LEMMA NextIsThere ==
    ASSUME OverlayInv, NEW b \in Builders, NEW kinds, HasChange(b, kinds)
    PROVE  /\ builder[b] \in Changing /\ NextChange(b) \in builder[b].todo
           /\ NextChange(b) \in Change /\ NextChange(b).kind \in kinds
           /\ GoodChange(NextChange(b), CommitOfBase(builder[b].request), builder[b].request.head)
<1> DEFINE todo == builder[b].todo
           paths == {c.path : c \in todo}
<1>1. builder[b].pc = "changes" /\ builder[b] \in Changing /\ todo # {} /\ todo \subseteq Change
  BY WorkingShape DEF HasChange, OverlayInv, Changing
<1>2. \A c \in todo : c.path \in Nat
  BY <1>1, TreeAssumption DEF Change
<1>3. paths \in SUBSET Nat /\ paths # {}
  BY <1>1, <1>2
<1>4. PICK x \in paths : \A y \in paths : x <= y
  BY <1>3, LeastNumber
<1>5. PICK c \in todo : c.path = x
  BY <1>4
<1>6. \A other \in todo : c.path <= other.path
  BY <1>4, <1>5
<1>7. NextChange(b) \in todo
  BY <1>6 DEF NextChange
<1>8. Working(builder[b], CommitOfBase(builder[b].request))
  BY <1>1, BuilderFacts DEF Holds
<1> QED
  BY <1>1, <1>7, <1>8 DEF HasChange, Working

\* One change is done: what it says of its paths is right unless the builder
\* marks itself partial.
LEMMA ChangeStep ==
    ASSUME OverlayInv, NEW b \in Builders, NEW kinds, HasChange(b, kinds),
           NEW entries \in Entries, NEW partial \in BOOLEAN,
           BuilderGoto(b, [builder[b] EXCEPT !.todo = @ \ {NextChange(b)},
                                             !.entries = entries, !.partial = partial]),
           UNCHANGED <<generation, overlay>>,
           \A p \in Paths \ {NextChange(b).path, NextChange(b).previous} :
               entries[p] = builder[b].entries[p],
           \A p \in {NextChange(b).path, NextChange(b).previous} : entries[p] # NoArtifact =>
               Differs(CommitOfBase(builder[b].request), builder[b].request.head, p),
           ~partial => /\ ~builder[b].partial
                       /\ \A p \in {NextChange(b).path, NextChange(b).previous} :
                            entries[p] = Delta(CommitOfBase(builder[b].request), builder[b].request.head)[p]
    PROVE  OverlayInv'
<1> DEFINE t == builder[b]
           r == t.request
           base == CommitOfBase(r)
           c == NextChange(b)
           s == [t EXCEPT !.todo = @ \ {c}, !.entries = entries, !.partial = partial]
<1>1. t \in Changing /\ c \in t.todo /\ c \in Change
  BY NextIsThere
<1>2. t.pc = "changes"
  BY <1>1 DEF Changing
<1>3. /\ IsPublished(r.base) /\ Working(t, base) /\ overlay[r.overlay].state # "absent"
  BY <1>2, BuilderFacts DEF Holds
<1> HIDE DEF c
<1>4. /\ s.pc = "changes" /\ s.request = r /\ s.todo = t.todo \ {c} /\ s.partial = partial
      /\ s.listed = t.listed /\ s.entries = entries /\ DOMAIN s = DOMAIN t
      /\ s = [k \in DOMAIN s |-> s[k]]
  BY <1>1, <1>2 DEF Changing
<1>5. s \in Changing
  <2>1. DOMAIN t = {"pc", "request", "todo", "partial", "listed", "entries"}
    BY <1>1 DEF Changing
  <2>2. r \in Requests /\ t.todo \ {c} \in SUBSET Change /\ t.listed \in SUBSET Paths
    BY <1>1 DEF Changing
  <2> HIDE DEF s, t, r
  <2> QED
    BY <2>1, <2>2, <1>4 DEF Changing
<1>6. Working(s, base)
  <2>1. \A p \in Paths : entries[p] # NoArtifact => Differs(base, r.head, p)
    BY <1>2, <1>3 DEF Working, c
  <2>2. ASSUME ~partial, NEW p \in Paths
        PROVE  entries[p] = Delta(base, r.head)[p] \/ Covers(t.todo \ {c}, p)
    <3>1. CASE p \in {c.path, c.previous}
      BY <2>2, <3>1 DEF c
    <3>2. CASE p \notin {c.path, c.previous}
      <4>1. t.entries[p] = Delta(base, r.head)[p] \/ Covers(t.todo, p)
        BY <1>2, <1>3, <2>2 DEF Working
      <4>2. Covers(t.todo, p) => Covers(t.todo \ {c}, p)
        BY <3>2 DEF Covers
      <4>3. entries[p] = t.entries[p]
        BY <3>2 DEF c
      <4> QED
        BY <4>1, <4>2, <4>3
    <3> QED
      BY <3>1, <3>2
  <2>3. ~partial => t.listed = TreeEntries(r.head)
    BY <1>2, <1>3 DEF Working
  <2>4. \A x \in t.todo \ {c} : GoodChange(x, base, r.head)
    BY <1>2, <1>3 DEF Working
  <2> HIDE DEF s, t, r, base
  <2> QED
    BY <1>4, <2>1, <2>2, <2>3, <2>4 DEF Working
<1>7. GoodBuilder(s)
  <2> HIDE DEF s
  <2> QED
    BY <1>3, <1>4, <1>6 DEF GoodBuilder, Holds
<1>8. s \in BuilderState
  BY <1>5 DEF BuilderState, Changing
<1>9. BuilderGoto(b, s)
  BY DEF c
<1> HIDE DEF s
<1> QED
  BY <1>7, <1>8, <1>9, BuilderMoves

\* The overlay has a tombstone for a removed path, and an artifact for the others.
LEMMA DeltaFacts ==
    ASSUME NEW base \in Commits, NEW head \in Commits, NEW p \in Paths
    PROVE  /\ p \in Removed(base, head) => Delta(base, head)[p] = Tombstone /\ Differs(base, head, p)
           /\ p \in TreeEntries(head) /\ Differs(base, head, p) =>
                Delta(base, head)[p] = Classified(Tree[head][p])
           /\ Delta(base, head)[p] # NoArtifact <=> Differs(base, head, p)
<1>1. p \in Removed(base, head) => Delta(base, head)[p] = Tombstone /\ Differs(base, head, p)
  BY DEF Removed, Delta, Differs, TreeEntries
<1>2. p \in TreeEntries(head) /\ Differs(base, head, p) =>
                Delta(base, head)[p] = Classified(Tree[head][p])
  BY DEF Delta, Differs
<1>3. p \in TreeEntries(head) => Classified(Tree[head][p]) \in Artifact
  BY TreeBlobs, EntryFacts
<1> QED
  BY <1>1, <1>2, <1>3, EntryFacts DEF Delta, Differs

LEMMA DeletesStep ==
    ASSUME OverlayInv, NEW b \in Builders, Deletes(b)
    PROVE  OverlayInv'
<1> DEFINE t == builder[b]
           base == CommitOfBase(t.request)
           head == t.request.head
           c == NextChange(b)
           entries == [t.entries EXCEPT ![c.path] = Tombstone]
<1>1. /\ t \in Changing /\ c \in t.todo /\ c \in Change /\ c.kind = "deleted"
      /\ GoodChange(c, base, head) /\ HasChange(b, {"deleted"})
  BY NextIsThere DEF Deletes
<1>2. base \in Commits /\ head \in Commits
  BY <1>1, BuilderFacts DEF Changing
<1>3. c.path \in Paths /\ c.previous = c.path /\ c.path \in Removed(base, head)
  BY <1>1 DEF GoodChange, Change
<1>4. Delta(base, head)[c.path] = Tombstone /\ Differs(base, head, c.path)
  BY <1>2, <1>3, DeltaFacts
<1> HIDE DEF c
<1>5. entries \in Entries /\ entries[c.path] = Tombstone /\ \A p \in Paths \ {c.path} : entries[p] = t.entries[p]
  BY <1>1, <1>3 DEF Changing, Entries
<1>6. BuilderGoto(b, [t EXCEPT !.todo = @ \ {c}, !.entries = entries, !.partial = t.partial])
      /\ UNCHANGED <<generation, overlay>>
  <2>1. builder' = [builder EXCEPT ![b] = [t EXCEPT !.todo = @ \ {c}, !.entries = entries]]
    BY DEF Deletes, c, OverlayInv, OverlayTypeOK
  <2>2. [t EXCEPT !.todo = @ \ {c}, !.entries = entries]
          = [t EXCEPT !.todo = @ \ {c}, !.entries = entries, !.partial = t.partial]
    BY <1>1 DEF Changing
  <2> QED
    BY <2>1, <2>2 DEF BuilderGoto, Deletes
<1>7. t.partial \in BOOLEAN
  BY <1>1 DEF Changing
<1>8. /\ \A p \in Paths \ {c.path, c.previous} : entries[p] = t.entries[p]
      /\ \A p \in {c.path, c.previous} :
            Differs(base, head, p) /\ entries[p] = Delta(base, head)[p]
  <2> HIDE DEF entries, base, head
  <2> QED
    BY <1>3, <1>4, <1>5
<1> HIDE DEF entries
<1> QED
  BY <1>1, <1>5, <1>6, <1>7, <1>8, ChangeStep DEF c

\* The entries of a file that is renamed or changed.
LEMMA EntriesWithFacts ==
    ASSUME OverlayInv, NEW b \in Builders, HasChange(b, {"renamed", "changed"}),
           NEW entry \in Artifact \cup {NoArtifact}
    PROVE  LET c == NextChange(b)
               base == CommitOfBase(builder[b].request)
               head == builder[b].request.head
           IN  /\ c.path \in Paths /\ c.path \in TreeEntries(head) /\ Differs(base, head, c.path)
               /\ EntriesWith(b, entry) \in Entries /\ EntriesWith(b, entry)[c.path] = entry
               /\ \A p \in Paths \ {c.path, c.previous} : EntriesWith(b, entry)[p] = builder[b].entries[p]
               /\ \A p \in {c.path, c.previous} : EntriesWith(b, entry)[p] # NoArtifact => Differs(base, head, p)
               /\ c.previous # c.path =>
                     EntriesWith(b, entry)[c.previous] = Tombstone /\ Delta(base, head)[c.previous] = Tombstone
<1> DEFINE t == builder[b]
           base == CommitOfBase(t.request)
           head == t.request.head
           c == NextChange(b)
           e == EntriesWith(b, entry)
<1>1. /\ t \in Changing /\ c \in Change /\ c.kind \in {"renamed", "changed"}
      /\ GoodChange(c, base, head)
  BY NextIsThere
<1>2. base \in Commits /\ head \in Commits
  BY <1>1, BuilderFacts DEF Changing
<1>3. c.path \in Paths /\ c.previous \in Paths
  BY <1>1 DEF Change
<1>4. /\ c.path \in TreeEntries(head) /\ Differs(base, head, c.path)
      /\ c.previous = c.path \/ c.previous \in Removed(base, head)
  BY <1>1 DEF GoodChange
<1>5. c.previous # c.path => Delta(base, head)[c.previous] = Tombstone /\ Differs(base, head, c.previous)
  BY <1>2, <1>3, <1>4, DeltaFacts
<1>6. e \in Entries
  <2>1. t.entries \in Entries
    BY <1>1 DEF Changing
  <2> QED
    BY <2>1 DEF EntriesWith, Entries
<1>7. /\ e[c.path] = entry
      /\ c.previous # c.path => e[c.previous] = Tombstone
      /\ \A p \in Paths \ {c.path, c.previous} : e[p] = t.entries[p]
  BY <1>3 DEF EntriesWith
<1>8. \A p \in {c.path, c.previous} : e[p] # NoArtifact => Differs(base, head, p)
  <2> HIDE DEF e, c, base, head
  <2> QED
    BY <1>4, <1>5, <1>7
<1> QED
  BY <1>3, <1>4, <1>5, <1>6, <1>7, <1>8

LEMMA ReplacesStep ==
    ASSUME OverlayInv, NEW b \in Builders, NEW readable \in BOOLEAN, Replaces(b, readable)
    PROVE  OverlayInv'
<1> DEFINE t == builder[b]
           base == CommitOfBase(t.request)
           head == t.request.head
           c == NextChange(b)
           blob == Tree[head][c.path]
           a == IF readable THEN Classified(blob) ELSE FailedArtifact(blob)
           e == EntriesWith(b, a)
           partial == t.partial \/ a.parse # "parsed"
<1>1. HasChange(b, {"renamed", "changed"}) /\ UNCHANGED <<generation, overlay>>
  BY DEF Replaces
<1>2. t \in Changing /\ t.partial \in BOOLEAN /\ partial \in BOOLEAN
  BY <1>1, NextIsThere DEF Changing
<1>3. base \in Commits /\ head \in Commits
  BY <1>2, BuilderFacts DEF Changing
<1>4. c.path \in Paths /\ c.path \in TreeEntries(head) /\ Differs(base, head, c.path)
  BY <1>1, EntriesWithFacts
<1>5. blob \in Blobs
  BY <1>3, <1>4, TreeBlobs
<1>6. a \in Artifact
  BY <1>5, EntryFacts
<1>7. a.parse = "parsed" => a = Delta(base, head)[c.path]
  <2>1. FailedArtifact(blob).parse = "failed"
    BY DEF FailedArtifact
  <2>2. Delta(base, head)[c.path] = Classified(blob)
    BY <1>3, <1>4, DeltaFacts
  <2> QED
    BY <2>1, <2>2
<1>8. BuilderGoto(b, [t EXCEPT !.todo = @ \ {c}, !.entries = e, !.partial = partial])
  BY DEF Replaces, BuilderGoto, OverlayInv, OverlayTypeOK
<1> HIDE DEF a, blob
<1>9. /\ e \in Entries /\ e[c.path] = a
      /\ \A p \in Paths \ {c.path, c.previous} : e[p] = t.entries[p]
      /\ \A p \in {c.path, c.previous} : e[p] # NoArtifact => Differs(base, head, p)
      /\ c.previous # c.path => e[c.previous] = Tombstone /\ Delta(base, head)[c.previous] = Tombstone
  BY <1>1, <1>6, EntriesWithFacts
<1>10. ~partial => ~t.partial /\ \A p \in {c.path, c.previous} : e[p] = Delta(base, head)[p]
  <2> HIDE DEF e, c, base, head
  <2> QED
    BY <1>7, <1>9
<1> HIDE DEF e, partial
<1> QED
  BY <1>1, <1>2, <1>8, <1>9, <1>10, ChangeStep

LEMMA MissesStep ==
    ASSUME OverlayInv, NEW b \in Builders, MissesHead(b)
    PROVE  OverlayInv'
<1> DEFINE t == builder[b]
           base == CommitOfBase(t.request)
           head == t.request.head
           c == NextChange(b)
           e == EntriesWith(b, NoArtifact)
<1>1. HasChange(b, {"renamed", "changed"}) /\ UNCHANGED <<generation, overlay>>
  BY DEF MissesHead
<1>2. BuilderGoto(b, [t EXCEPT !.todo = @ \ {c}, !.entries = e, !.partial = TRUE])
  BY DEF MissesHead, BuilderGoto, OverlayInv, OverlayTypeOK
<1>3. /\ e \in Entries
      /\ \A p \in Paths \ {c.path, c.previous} : e[p] = t.entries[p]
      /\ \A p \in {c.path, c.previous} : e[p] # NoArtifact => Differs(base, head, p)
  BY <1>1, EntriesWithFacts
<1> HIDE DEF e
<1> QED
  BY <1>1, <1>2, <1>3, ChangeStep

\* An overlay ID is made for one request, so the row of a builder's overlay is of
\* its own base and head.
LEMMA RowOfRequest ==
    ASSUME OverlayInv, NEW r \in Requests, overlay[r.overlay].state # "absent"
    PROVE  /\ overlay[r.overlay] \in OverlayRow
           /\ overlay[r.overlay].base = r.base /\ overlay[r.overlay].head = r.head
           /\ IsPublished(r.base) /\ RowOf(overlay[r.overlay], r.overlay, CommitOfBase(r))
<1>1. r.overlay \in Overlays
  BY OverlayAssumption
<1>2. OverlayOf(r.overlay) /\ overlay[r.overlay] \in OverlayRow
  BY <1>1, OverlayShape DEF OverlayInv, OverlaysSound
<1>3. PICK q \in Requests : q.overlay = r.overlay /\ overlay[r.overlay].base = q.base
                              /\ overlay[r.overlay].head = q.head
  BY <1>2 DEF OverlayOf, RowOf
<1>4. q = r
  BY <1>3, OverlayAssumption
<1> QED
  BY <1>2, <1>3, <1>4 DEF OverlayOf, CommitOfBase

LEMMA FailingStep ==
    ASSUME OverlayInv, NEW b \in Builders, builder[b].pc \in {"list", "changes"}, BuilderFails(b),
           UNCHANGED <<generation, overlay>>
    PROVE  OverlayInv'
<1> DEFINE s == [pc |-> "fail", request |-> builder[b].request]
<1>1. /\ builder[b].request \in Requests /\ IsPublished(builder[b].request.base)
      /\ overlay[builder[b].request.overlay].state # "absent"
  BY BuilderFacts DEF Holds
<1>2. s \in BuilderState /\ GoodBuilder(s)
  BY <1>1 DEF BuilderState, GoodBuilder, Holds
<1>3. BuilderGoto(b, s)
  BY DEF BuilderFails
<1> HIDE DEF s
<1> QED
  BY <1>2, <1>3, BuilderMoves

LEMMA IdlingStep ==
    ASSUME OverlayInv, NEW b \in Builders, BuilderGoto(b, Idle), UNCHANGED <<generation, overlay>>
    PROVE  OverlayInv'
<1>1. Idle \in BuilderState /\ GoodBuilder(Idle)
  BY DEF BuilderState, Idle, GoodBuilder
<1> QED
  BY <1>1, BuilderMoves

\* putOverlayEntries: when the row has every entry, another batch collides or adds
\* nothing; and a whole batch over an earlier one collides unless that was empty.
LEMMA PutEntriesStep ==
    ASSUME OverlayInv, NEW b \in Builders, PutEntries(b)
    PROVE  OverlayInv'
<1> DEFINE t == builder[b]
           r == t.request
           o == r.overlay
           base == CommitOfBase(r)
           entries == t.entries
           stored == overlay[o].entries
           collides == \E p \in Paths : entries[p] # NoArtifact /\ stored[p] # NoArtifact
<1>1. t.pc = "changes" /\ t \in Changing /\ t.todo = {}
  BY WorkingShape DEF PutEntries, OverlayInv
<1>2. /\ r \in Requests /\ o \in Overlays /\ r.head \in Commits /\ IsPublished(r.base) /\ base \in Commits
      /\ Working(t, base) /\ overlay[o].state # "absent"
  BY <1>1, BuilderFacts DEF Holds
<1>3. CASE ~(ActiveOverlayLease(r) /\ ~collides)
  BY <1>1, <1>3, FailingStep DEF PutEntries
<1>4. CASE ActiveOverlayLease(r) /\ ~collides
  <2> DEFINE merged == [p \in Paths |-> IF entries[p] = NoArtifact THEN stored[p] ELSE entries[p]]
             row == [overlay[o] EXCEPT !.entries = merged]
             s == [pc |-> "complete", request |-> r, partial |-> t.partial]
  <2>1. /\ overlay' = [overlay EXCEPT ![o] = row] /\ BuilderGoto(b, s) /\ UNCHANGED generation
    BY <1>4 DEF PutEntries, OverlayInv, OverlayTypeOK
  <2>2. /\ overlay[o] \in OverlayRow /\ overlay[o].base = r.base /\ overlay[o].head = r.head
        /\ RowOf(overlay[o], o, base) /\ overlay[o].state = "building"
    BY <1>2, <1>4, RowOfRequest DEF ActiveOverlayLease
  <2>3. entries \in Entries /\ stored \in Entries /\ t.partial \in BOOLEAN
    BY <1>1, <2>2 DEF Changing, OverlayRow
  <2>4. merged \in Entries
    BY <2>3 DEF Entries
  <2>5. /\ \A p \in Paths : entries[p] # NoArtifact => Differs(base, r.head, p)
        /\ \A p \in Paths : stored[p] # NoArtifact => Differs(base, r.head, p)
        /\ ~t.partial => \A p \in Paths : entries[p] = Delta(base, r.head)[p]
    BY <1>1, <1>2, <2>2 DEF Working, RowOf, Covers
  <2>6. \A p \in Paths : Delta(base, r.head)[p] # NoArtifact <=> Differs(base, r.head, p)
    BY <1>2, DeltaFacts
  <2>7. \A p \in Paths : merged[p] = IF entries[p] = NoArtifact THEN stored[p] ELSE entries[p]
    OBVIOUS
  <2>8. \A f \in Entries : (\A p \in Paths : f[p] = Delta(base, r.head)[p]) => f = Delta(base, r.head)
    BY DEF Entries, Delta
  <2> HIDE DEF merged
  <2>9. /\ row.state = "building" /\ row.base = r.base /\ row.head = r.head /\ row.entries = merged
        /\ row \in OverlayRow
    BY <2>2, <2>4 DEF OverlayRow
  <2> HIDE DEF row
  <2>10. RowOf(row, o, generation[row.base].commit)
    <3>1. generation[row.base].commit = base
      BY <2>9 DEF CommitOfBase
    <3>2. \A p \in Paths : merged[p] # NoArtifact => Differs(base, r.head, p)
      BY <2>5, <2>7
    <3> QED
      BY <1>2, <2>9, <3>1, <3>2 DEF RowOf
  <2>11. ~t.partial => merged = Delta(base, r.head)
    BY <2>4, <2>5, <2>6, <2>7, <2>8
  <2>12. s \in BuilderState /\ s.pc = "complete" /\ s.request = r /\ s.partial = t.partial
    BY <1>2, <2>3 DEF BuilderState
  <2> HIDE DEF s
  <2>13. Holds(s, generation[s.request.base].commit, row)
    BY <2>9, <2>11, <2>12 DEF Holds, CommitOfBase
  <2>14. ASSUME NEW c \in Builders \ {b}, builder[c].pc # "idle", builder[c].request.overlay = o
         PROVE  Holds(builder[c], generation[builder[c].request.base].commit, row)
    <3>1. builder[c].request \in Requests
      BY <2>14, BuilderFacts
    <3>2. builder[c].request = r
      BY <1>2, <2>14, <3>1, OverlayAssumption
    <3>3. Holds(builder[c], base, overlay[o])
      BY <2>14, <3>2, BuilderFacts
    <3>4. stored = Delta(base, r.head) => merged = Delta(base, r.head)
      <4> SUFFICES ASSUME stored = Delta(base, r.head) PROVE merged = Delta(base, r.head)
        OBVIOUS
      <4>1. \A p \in Paths : entries[p] = NoArtifact
        BY <1>4, <2>5, <2>6
      <4> QED
        BY <4>1, <2>4, <2>7, <2>8
    <3> QED
      BY <3>2, <3>3, <3>4, <2>2, <2>9 DEF Holds, CommitOfBase
  <2>15. ~Completed(o) /\ IsPublished(row.base)
    BY <1>2, <2>2, <2>9 DEF Completed
  <2> HIDE DEF o, base
  <2> QED
    BY <1>2, <2>1, <2>9, <2>10, <2>12, <2>13, <2>14, <2>15, OverlayWrites DEF o
<1> QED
  BY <1>3, <1>4

\* completeOverlay and failOverlay: a builder that is not partial completes a row
\* that has every entry.
LEMMA SettleStep ==
    ASSUME OverlayInv, NEW b \in Builders, NEW end \in {"complete", "partial", "failed"},
           builder[b].pc \in {"complete", "fail"},
           end = "complete" => builder[b].pc = "complete" /\ ~builder[b].partial,
           Settle(b, end)
    PROVE  OverlayInv'
<1> DEFINE t == builder[b]
           r == t.request
           o == r.overlay
           base == CommitOfBase(r)
           row == [overlay[o] EXCEPT !.state = end]
<1>1. /\ r \in Requests /\ o \in Overlays /\ IsPublished(r.base)
      /\ Holds(t, base, overlay[o]) /\ overlay[o].state # "absent"
  BY BuilderFacts DEF Holds
<1>2. CASE ~ActiveOverlayLease(r)
  BY <1>2, IdlingStep DEF Settle
<1>3. CASE ActiveOverlayLease(r)
  <2>1. /\ overlay' = [overlay EXCEPT ![o] = row] /\ BuilderGoto(b, Idle) /\ UNCHANGED generation
    BY <1>3 DEF Settle, OverlayInv, OverlayTypeOK
  <2>2. /\ overlay[o] \in OverlayRow /\ overlay[o].base = r.base /\ overlay[o].head = r.head
        /\ RowOf(overlay[o], o, base) /\ overlay[o].state = "building"
    BY <1>1, <1>3, RowOfRequest DEF ActiveOverlayLease
  <2>3. /\ row.state = end /\ row.base = r.base /\ row.head = r.head
        /\ row.entries = overlay[o].entries /\ row \in OverlayRow
    BY <2>2 DEF OverlayRow
  <2> HIDE DEF row
  <2>4. end = "complete" => overlay[o].entries = Delta(base, r.head)
    BY <1>1, <2>2 DEF Holds
  <2>5. RowOf(row, o, generation[row.base].commit)
    BY <1>1, <2>2, <2>3, <2>4 DEF RowOf, CommitOfBase
  <2>6. ASSUME NEW c \in Builders \ {b}, builder[c].pc # "idle", builder[c].request.overlay = o
        PROVE  Holds(builder[c], generation[builder[c].request.base].commit, row)
    <3>1. Holds(builder[c], CommitOfBase(builder[c].request), overlay[o])
      BY <2>6, BuilderFacts
    <3> QED
      BY <3>1, <2>3 DEF Holds, CommitOfBase
  <2>7. ~Completed(o) /\ IsPublished(row.base) /\ Idle \in BuilderState /\ Idle.pc = "idle"
    BY <1>1, <2>2, <2>3 DEF Completed, BuilderState, Idle
  <2> HIDE DEF o, base
  <2> QED
    BY <1>1, <2>1, <2>3, <2>5, <2>6, <2>7, OverlayWrites
<1> QED
  BY <1>2, <1>3

LEMMA BuilderStepKeeps ==
    ASSUME OverlayInv, NEW b \in Builders, BuilderStep(b)
    PROVE  OverlayInv'
<1>1. CASE \E request \in Requests : IsPublished(request.base)
             /\ \E renames \in Renames(generation[request.base].commit, request.head) :
                  \E listed \in SUBSET DiffEntries(generation[request.base].commit,
                                                   request.head, renames),
                     complete \in BOOLEAN : StartOverlay(b, request, renames, listed, complete)
  BY <1>1, StartStep
<1>2. CASE BeginOverlay(b)
  BY <1>2, BeginStep
<1>3. CASE \E listed \in SUBSET Paths, complete \in BOOLEAN : ListHead(b, listed, complete)
  BY <1>3, ListHeadStep
<1>4. CASE Deletes(b)
  BY <1>4, DeletesStep
<1>5. CASE MissesHead(b)
  BY <1>5, MissesStep
<1>6. CASE \E readable \in BOOLEAN : Replaces(b, readable)
  BY <1>6, ReplacesStep
<1>7. CASE PutEntries(b)
  BY <1>7, PutEntriesStep
<1>8. CASE CompleteOverlay(b)
  <2>1. builder[b].pc = "complete" /\ builder[b].partial \in BOOLEAN
    BY <1>8, WorkingShape DEF CompleteOverlay, OverlayInv
  <2> QED
    BY <1>8, <2>1, SettleStep DEF CompleteOverlay
<1>9. CASE FailOverlay(b)
  BY <1>9, SettleStep DEF FailOverlay
<1>10. CASE InterruptBuilder(b)
  BY <1>10, FailingStep DEF InterruptBuilder
<1>11. CASE CrashBuilder(b)
  BY <1>11, IdlingStep DEF CrashBuilder
<1> QED
  BY <1>1, <1>2, <1>3, <1>4, <1>5, <1>6, <1>7, <1>8, <1>9, <1>10, <1>11 DEF BuilderStep

-----------------------------------------------------------------------------
(* deriveGeneration. *)

\* Nothing is based on a generation that has no row, so deriving it leaves every
\* other list alone.
LEMMA DeriveFrame ==
    ASSUME OverlayInv, NEW g \in GenerationIds, NEW base \in GenerationIds, NEW o \in Overlays,
           DeriveGeneration(g, base, o)
    PROVE  /\ generation[g].base = NoBase /\ generation[g].state = "absent" /\ ~IsPublished(g)
           /\ base # g /\ IsPublished(base) /\ UNCHANGED <<overlay, builder>>
           /\ generation'[g].base = base /\ generation'[g].overlay = o
           /\ \A x \in GenerationIds \ {g} : generation'[x] = generation[x]
           /\ \A x \in GenerationIds : generation[x].base # NoBase =>
                 generation[x].base \in GenerationIds \ {g}
<1>1. generation[g].state = "absent" /\ ~IsPublished(g) /\ base # g /\ IsPublished(base)
  BY DEF DeriveGeneration, IsPublished
<1>2. generation[g].base = NoBase
  BY <1>1, GenerationShape DEF OverlayInv, AbsentGeneration
<1>3. generation'[g].base = base /\ generation'[g].overlay = o
      /\ \A x \in GenerationIds \ {g} : generation'[x] = generation[x]
  BY DEF DeriveGeneration, OverlayInv, OverlayTypeOK
<1>4. \A x \in GenerationIds : generation[x].base # NoBase => generation[x].base \in GenerationIds \ {g}
  BY <1>1 DEF OverlayInv, Ancestry, AncestryOf
<1> QED
  BY <1>1, <1>2, <1>3, <1>4 DEF DeriveGeneration

LEMMA DeriveStep ==
    ASSUME OverlayInv, NEW g \in GenerationIds, NEW base \in GenerationIds, NEW o \in Overlays,
           DeriveGeneration(g, base, o)
    PROVE  OverlayInv'
<1> DEFINE G == generation
           H == generation'
           O == overlay
           end == IF G[base].state = "partial" \/ O[o].state = "partial" THEN "partial" ELSE "complete"
           row == [state |-> end, commit |-> O[o].head, artifacts |-> NoArtifacts,
                   base |-> base, overlay |-> o]
<1>1. /\ G[g].base = NoBase /\ G[g].state = "absent" /\ ~IsPublished(g)
      /\ base # g /\ IsPublished(base) /\ UNCHANGED <<overlay, builder>>
      /\ H[g].base = base /\ H[g].overlay = o
      /\ \A x \in GenerationIds \ {g} : H[x] = G[x]
      /\ \A x \in GenerationIds : G[x].base # NoBase => G[x].base \in GenerationIds \ {g}
  BY DeriveFrame
<1>2. H = [G EXCEPT ![g] = row] /\ Completed(o) /\ O[o].base = base
  BY DEF DeriveGeneration
<1>3. O[o] \in OverlayRow /\ O[o].state # "absent" /\ OverlayOf(o)
  BY <1>2, OverlayShape DEF OverlayInv, OverlaysSound, Completed
<1>4. row \in GenerationRow
  <2>1. O[o].head \in Commits /\ end \in {"complete", "partial"}
    BY <1>3 DEF OverlayRow
  <2>2. NoArtifacts \in ArtifactMap
    BY DEF NoArtifacts, ArtifactMap
  <2> HIDE DEF end, ArtifactMap
  <2> QED
    BY <2>1, <2>2 DEF GenerationRow
<1>5. /\ H[g] = row /\ row.state = end /\ row.commit = O[o].head /\ row.base = base /\ row.overlay = o
  BY <1>2 DEF OverlayInv, OverlayTypeOK
<1>6. OverlayTypeOK'
  BY <1>1, <1>2, <1>4 DEF OverlayInv, OverlayTypeOK
<1>7. /\ end \in {"complete", "partial"}
      /\ end = "complete" => G[base].state = "complete" /\ O[o].state = "complete"
  BY <1>1, <1>2 DEF IsPublished, Completed
<1> HIDE DEF row, end
<1>8. \A x \in GenerationIds : IsPublished(x) => H[x] = G[x]
  BY <1>1 DEF IsPublished
<1>9. base # NoBase
  BY OverlayAssumption
<1>10. Ancestry'
  <2> SUFFICES ASSUME NEW x \in GenerationIds PROVE AncestryOf(x)'
    BY DEF Ancestry
  <2>1. CASE x = g
    <3>1. H[base] = G[base]
      BY <1>1
    <3> QED
      BY <2>1, <3>1, <1>1, <1>2, <1>5, <1>7, <1>9 DEF AncestryOf, IsPublished, Completed
  <2>2. CASE x # g
    <3>1. AncestryOf(x) /\ H[x] = G[x]
      BY <2>2, <1>1 DEF OverlayInv, Ancestry
    <3>2. G[x].base # NoBase => H[G[x].base] = G[G[x].base]
      BY <1>1
    <3> QED
      BY <3>1, <3>2, <1>1 DEF AncestryOf, IsPublished, Completed
  <2> QED
    BY <2>1, <2>2
<1>11. OverlaysSound'
  <2> SUFFICES ASSUME NEW p \in Overlays PROVE OverlayOf(p)'
    BY DEF OverlaysSound
  <2>1. OverlayOf(p) /\ (O[p].state # "absent" => O[p].base \in GenerationIds)
    BY OverlayShape DEF OverlayInv, OverlaysSound, OverlayRow
  <2>2. O[p].state # "absent" => H[O[p].base] = G[O[p].base]
    BY <2>1, <1>8 DEF OverlayOf
  <2> QED
    BY <1>1, <2>1, <2>2 DEF OverlayOf, IsPublished
<1>12. BuildersSound'
  <2> SUFFICES ASSUME NEW c \in Builders PROVE GoodBuilder(builder[c])'
    BY DEF BuildersSound
  <2>1. GoodBuilder(builder[c]) /\ (builder[c].pc # "idle" => builder[c].request.base \in GenerationIds)
    BY BuilderShape DEF OverlayInv, BuildersSound
  <2>2. builder[c].pc # "idle" => H[builder[c].request.base] = G[builder[c].request.base]
    BY <2>1, <1>8 DEF GoodBuilder
  <2> QED
    BY <1>1, <2>1, <2>2 DEF GoodBuilder, IsPublished, CommitOfBase
<1>13. ListingSound'
  <2> DEFINE entries == O[o].entries
  <2>1. /\ \A f : Lists(f, G, O) => Lists([f EXCEPT ![g] = Materialize(f[base], O[H[g].overlay].entries)], H, O)
        /\ \A f : Lists(f, H, O) => Lists([f EXCEPT ![g] = G[g].artifacts], G, O)
    <3> HIDE DEF G, H, O
    <3> QED
      BY <1>1, ListsExtend
  <2>2. /\ \E f : Lists(f, G, O)
        /\ \A f, h : Lists(f, G, O) /\ Lists(h, G, O) => f = h
        /\ \A f : Lists(f, G, O) =>
              \A x \in GenerationIds : G[x].state = "complete" => f[x] = CleanIndex(G[x].commit)
    BY DEF OverlayInv, ListingSound
  <2>3. ASSUME NEW f, Lists(f, H, O)
        PROVE  /\ DOMAIN f = GenerationIds /\ f = [x \in DOMAIN f |-> f[x]]
               /\ f[g] = Materialize(f[base], entries)
               /\ Lists([f EXCEPT ![g] = G[g].artifacts], G, O)
               /\ \A x \in GenerationIds \ {g} : [f EXCEPT ![g] = G[g].artifacts][x] = f[x]
    <3>1. f[g] = IF H[g].base = NoBase THEN H[g].artifacts
                 ELSE Materialize(f[H[g].base], O[H[g].overlay].entries)
      <4> HIDE DEF H, G, O
      <4> QED
        BY <2>3, ListsAt
    <3>2. DOMAIN f = GenerationIds /\ f = [x \in DOMAIN f |-> f[x]]
      BY <2>3, ListsDomain
    <3>3. f[g] = Materialize(f[base], entries)
      BY <3>1, <1>1, <1>9
    <3> HIDE DEF H, G, O, entries
    <3> QED
      BY <2>1, <2>3, <3>2, <3>3
  <2>4. \E f : Lists(f, H, O)
    <3> HIDE DEF H, G, O
    <3> QED
      BY <2>1, <2>2
  <2>5. ASSUME NEW f, NEW h, Lists(f, H, O), Lists(h, H, O) PROVE f = h
    <3>1. [f EXCEPT ![g] = G[g].artifacts] = [h EXCEPT ![g] = G[g].artifacts]
      <4> HIDE DEF H, G, O
      <4> QED
        BY <2>2, <2>3, <2>5
    <3>2. \A x \in GenerationIds \ {g} : f[x] = h[x]
      <4> HIDE DEF H, G, O
      <4> QED
        BY <2>3, <2>5, <3>1
    <3>3. f[g] = Materialize(f[base], entries) /\ h[g] = Materialize(h[base], entries)
      <4> HIDE DEF H, G, O, entries
      <4> QED
        BY <2>3, <2>5
    <3>4. f[g] = h[g]
      BY <3>2, <3>3, <1>1
    <3>5. /\ DOMAIN f = GenerationIds /\ f = [x \in DOMAIN f |-> f[x]]
          /\ DOMAIN h = GenerationIds /\ h = [x \in DOMAIN h |-> h[x]]
      <4> HIDE DEF H, G, O, entries
      <4> QED
        BY <2>3, <2>5
    <3>6. \A x \in GenerationIds : f[x] = h[x]
      BY <3>2, <3>4
    <3> HIDE DEF H, G, O, entries
    <3> QED
      BY <3>5, <3>6
  <2>6. ASSUME NEW f, Lists(f, H, O), NEW x \in GenerationIds, H[x].state = "complete"
        PROVE  f[x] = CleanIndex(H[x].commit)
    <3>1. \A y \in GenerationIds \ {g} : G[y].state = "complete" => f[y] = CleanIndex(G[y].commit)
      <4> HIDE DEF H, G, O
      <4> QED
        BY <2>2, <2>3, <2>6
    <3>2. CASE x # g
      BY <3>1, <3>2, <2>6, <1>1
    <3>3. CASE x = g
      <4>1. G[base].state = "complete" /\ O[o].state = "complete"
        BY <3>3, <2>6, <1>5, <1>7
      <4>2. f[base] = CleanIndex(G[base].commit)
        BY <4>1, <3>1, <1>1
      <4>3. entries = Delta(G[base].commit, O[o].head)
        BY <4>1, <1>2, <1>3 DEF OverlayOf, RowOf
      <4>4. G[base].commit \in Commits /\ O[o].head \in Commits
        BY <1>1, <1>3, GenerationShape DEF OverlayInv, GenerationRow, OverlayRow
      <4>5. f[g] = Materialize(CleanIndex(G[base].commit), Delta(G[base].commit, O[o].head))
        BY <2>3, <2>6, <4>2, <4>3
      <4> QED
        BY <3>3, <4>4, <4>5, <1>5, DeltaLeadsToHead
    <3> QED
      BY <3>2, <3>3
  <2>7. overlay' = O
    BY <1>1
  <2> QED
    BY <2>4, <2>5, <2>6, <2>7 DEF ListingSound
<1> QED
  BY <1>6, <1>10, <1>11, <1>12, <1>13 DEF OverlayInv

-----------------------------------------------------------------------------
(* OverlayDerivation: its theorem. *)

LEMMA OverlayStep ==
    ASSUME OverlayInv, [OverlayNext]_derivation
    PROVE  OverlayInv'
<1>1. CASE \E b \in Builders : BuilderStep(b)
  BY <1>1, BuilderStepKeeps
<1>2. CASE \E g, base \in GenerationIds, o \in Overlays : DeriveGeneration(g, base, o)
  BY <1>2, DeriveStep
<1>3. CASE UNCHANGED derivation
  BY <1>3 DEF derivation, OverlayInv, OverlayTypeOK, Ancestry, AncestryOf, OverlaysSound, OverlayOf,
              BuildersSound, GoodBuilder, CommitOfBase, ListingSound, IsPublished, Completed
<1> QED
  BY <1>1, <1>2, <1>3 DEF OverlayNext

LEMMA ListedIsList ==
    ASSUME OverlayInv
    PROVE  Lists(ListArtifacts(generation, overlay), generation, overlay)
  BY ListArtifactsIsChosen DEF OverlayInv, ListingSound

\* For any number of builders that share the leases of overlays, and ancestries of
\* any length, a complete derived generation lists exactly what a clean index of
\* its head commit would (CreatePullRequestOverlay.execute, deriveGeneration,
\* listArtifacts).
THEOREM DerivedGenerationsAreClean == OverlaySpec => []DerivedIsCleanIndex
<1>1. OverlayInit => OverlayInv
  BY OverlayStart
<1>2. OverlayInv /\ [OverlayNext]_derivation => OverlayInv'
  BY OverlayStep
<1>3. OverlayInv => DerivedIsCleanIndex
  BY ListedIsList DEF OverlayInv, ListingSound, DerivedIsCleanIndex
<1> QED
  BY <1>1, <1>2, <1>3, PTL DEF OverlaySpec

-----------------------------------------------------------------------------
(* The repository index: what is published stays. *)

\* A step of a builder settles or writes only an overlay that no generation is
\* derived from, and deriveGeneration adds a list.
LEMMA ViewsStayStep ==
    ASSUME OverlayInv, OverlayInv', [OverlayNext]_derivation
    PROVE  ViewsStay
<1> DEFINE f == ListArtifacts(generation, overlay)
           h == ListArtifacts(generation', overlay')
<1>1. Lists(f, generation, overlay) /\ Lists(h, generation', overlay')
  <2>1. Lists(ListArtifacts(generation, overlay), generation, overlay)
    BY ListedIsList
  <2>2. \E x : Lists(x, generation', overlay')
    BY DEF OverlayInv, ListingSound
  <2> QED
    BY <2>1, <2>2, ListArtifactsIsChosen
<1>2. ListArtifacts(generation, overlay)' = h
  OBVIOUS
<1> HIDE DEF f, h
<1>3. CASE UNCHANGED generation /\ \A o \in Overlays : Completed(o) => overlay'[o] = overlay[o]
  <2>1. \A g \in GenerationIds : generation[g].base # NoBase =>
          overlay[generation[g].overlay].entries = overlay'[generation[g].overlay].entries
    BY <1>3 DEF OverlayInv, Ancestry, AncestryOf
  <2>2. Lists(f, generation', overlay')
    BY <1>1, <1>3, <2>1, SameLists
  <2>3. f = h
    BY <1>1, <2>2 DEF OverlayInv, ListingSound
  <2> QED
    BY <1>2, <2>3 DEF ViewsStay, f
<1>4. ASSUME NEW b \in Builders, BuilderStep(b)
      PROVE  UNCHANGED generation /\ \A o \in Overlays : Completed(o) => overlay'[o] = overlay[o]
  <2>1. UNCHANGED generation
    BY <1>4 DEF BuilderStep, StartOverlay, BeginOverlay, ListHead, Deletes, MissesHead, Replaces,
                PutEntries, CompleteOverlay, FailOverlay, Settle, InterruptBuilder, CrashBuilder
  <2>2. CASE UNCHANGED overlay
    BY <2>1, <2>2
  <2>3. CASE BeginOverlay(b) \/ PutEntries(b) \/ CompleteOverlay(b) \/ FailOverlay(b)
    BY <2>1, <2>3 DEF BeginOverlay, PutEntries, CompleteOverlay, FailOverlay, Settle,
                      ActiveOverlayLease, Completed, OverlayInv, OverlayTypeOK
  <2> QED
    BY <1>4, <2>2, <2>3 DEF BuilderStep, StartOverlay, ListHead, Deletes, MissesHead, Replaces,
                            InterruptBuilder, CrashBuilder
<1>5. ASSUME NEW g \in GenerationIds, NEW base \in GenerationIds, NEW o \in Overlays,
             DeriveGeneration(g, base, o)
      PROVE  ViewsStay
  <2>1. /\ generation[g].base = NoBase /\ ~IsPublished(g) /\ base \in GenerationIds \ {g}
        /\ overlay' = overlay /\ generation'[g].base = base
        /\ \A x \in GenerationIds \ {g} : generation'[x] = generation[x]
        /\ \A x \in GenerationIds : generation[x].base # NoBase =>
              generation[x].base \in GenerationIds \ {g}
    BY <1>5, DeriveFrame
  <2> DEFINE k == [h EXCEPT ![g] = generation[g].artifacts]
  <2>2. Lists(k, generation, overlay)
    BY <1>1, <2>1, ListsExtend
  <2>3. f = k
    <3> HIDE DEF k
    <3> QED
      BY <1>1, <2>2 DEF OverlayInv, ListingSound
  <2>4. DOMAIN h = GenerationIds
    BY <1>1, ListsDomain
  <2>5. \A x \in GenerationIds \ {g} : f[x] = h[x]
    BY <2>3, <2>4
  <2> QED
    BY <1>2, <2>1, <2>5 DEF ViewsStay, f
<1>6. CASE UNCHANGED derivation
  BY <1>3, <1>6 DEF derivation
<1> QED
  BY <1>3, <1>4, <1>5, <1>6 DEF OverlayNext

\* What a published generation lists never changes: the rows of an indexed one, and
\* the view that listArtifacts computes of a derived one at every read
\* (putArtifacts, completeGeneration, putOverlayEntries, completeOverlay).
THEOREM PublishedStaysFrozen == RepositorySpec => PublishedIsFrozen
<1> DEFINE All == <<vars, derivation>>
<1>1. RepositoryInit => IndexInv /\ OverlayInv
  BY IndexStart, OverlayStart DEF RepositoryInit
<1>2. [RepositoryNext]_All => [Next]_vars /\ [OverlayNext]_derivation
  BY DEF RepositoryNext
<1>3. IndexInv /\ OverlayInv /\ [RepositoryNext]_All => (IndexInv /\ OverlayInv)'
  BY <1>2, IndexStep, OverlayStep
<1>4. /\ IndexInv /\ OverlayInv /\ OverlayInv' /\ [RepositoryNext]_All
      => [RowsStay /\ ViewsStay]_All
  BY <1>2, RowsStayStep, ViewsStayStep DEF IndexInv
<1> QED
  BY <1>1, <1>3, <1>4, PTL DEF RepositorySpec, PublishedIsFrozen
=============================================================================
