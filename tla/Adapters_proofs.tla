-------------------------- MODULE Adapters_proofs --------------------------
(***************************************************************************)
(* Proofs about two adapters.                                              *)
(*                                                                         *)
(* The configuration adapter.  The changes that Git reports between two    *)
(* trees name every path that is not the same in both (PathChangesAreExact)*)
(* so that an update which was given every changed file turns the          *)
(* documents of the one tree into those of the other (UpdateIsClean).  By  *)
(* ChainInv that holds along the chain of snapshots as long as no file was *)
(* unread, and unread files only accumulate; the rest is about coverage    *)
(* and diff of one or two extractions.                                     *)
(*                                                                         *)
(* The database adapter.  A replay and a server agree if they have the     *)
(* same enums and, of the tables the migrations made, the same columns.    *)
(* StatementAgrees: a statement that the server executes and that leaves   *)
(* the replay without a limitation keeps them in agreement.  DBInv adds    *)
(* the shapes of the schemas and that every column is of a type that       *)
(* exists; what the diff says of the columns of two agreeing pairs follows *)
(* by cases on what became of a column.                                    *)
(***************************************************************************)
EXTENDS ConfigurationAdapter, DatabaseAdapter, TLAPS, FiniteSetTheorems, SequenceTheorems

\* A document is of its path, and one that failed says why.
LEMMA ArtifactIsOfPath ==
    ASSUME NEW p, NEW file, ParseArtifact(p, file) # NoDocument
    PROVE  /\ ParseArtifact(p, file).path = p
           /\ ParseArtifact(p, file).state = "failed" => ParseArtifact(p, file).limitations # {}
<1>1. \A reason : /\ Excluded(p, reason).path = p /\ Excluded(p, reason).state = "incomplete"
                  /\ Failed(p, reason).path = p /\ Failed(p, reason).limitations = {reason}
  BY DEF Excluded, Failed
<1>2. ParsedDocument(p, file).path = p /\ ParsedDocument(p, file).state = "parsed"
  BY DEF ParsedDocument
<1>3. \/ \E reason : ParseArtifact(p, file) = Excluded(p, reason)
      \/ \E reason : ParseArtifact(p, file) = Failed(p, reason)
      \/ ParseArtifact(p, file) = ParsedDocument(p, file)
  BY DEF ParseArtifact
<1> QED
  BY <1>1, <1>2, <1>3

LEMMA DocumentsHavePaths ==
    ASSUME NEW tree
    PROVE  /\ \A d : d \in DocumentsOf(tree) <=>
                  \E p \in DOMAIN tree : d = ParseArtifact(p, tree[p]) /\ d # NoDocument
           /\ \A d \in DocumentsOf(tree) :
                  /\ d.path \in DOMAIN tree /\ d = ParseArtifact(d.path, tree[d.path])
                  /\ d.state = "failed" => d.limitations # {}
<1>1. \A d : d \in DocumentsOf(tree) <=>
          \E p \in DOMAIN tree : d = ParseArtifact(p, tree[p]) /\ d # NoDocument
  BY DEF DocumentsOf
<1> QED
  BY <1>1, ArtifactIsOfPath

LEMMA FinitelyManyDocuments ==
    ASSUME NEW tree, DOMAIN tree \subseteq Files
    PROVE  IsFiniteSet(DocumentsOf(tree))
<1> DEFINE parsed == {ParseArtifact(p, tree[p]) : p \in DOMAIN tree}
<1>1. IsFiniteSet(DOMAIN tree)
  BY ConfigurationAssumption, FS_Subset
<1>2. IsFiniteSet(parsed)
  <2> DEFINE parse == [p \in DOMAIN tree |-> ParseArtifact(p, tree[p])]
  <2>1. parse \in Surjection(DOMAIN tree, parsed)
    BY DEF Surjection
  <2> HIDE DEF parse, parsed
  <2> QED
    BY <1>1, <2>1, FS_Surjection
<1>3. DocumentsOf(tree) \subseteq parsed
  BY DEF DocumentsOf
<1> QED
  BY <1>2, <1>3, FS_Subset

-----------------------------------------------------------------------------
(* The coverage of documents. *)

IsCoverage(coverage) ==
    coverage = [state |-> coverage.state, eligible |-> coverage.eligible,
                skipped |-> coverage.skipped, processed |-> coverage.processed,
                failed |-> coverage.failed, limitations |-> coverage.limitations]

LEMMA CoverageIsValid ==
    ASSUME NEW documents, IsFiniteSet(documents),
           \A d \in documents : d.state = "failed" => d.limitations # {}
    PROVE  IsCoverage(ConfigCoverage(documents)) /\ ValidCoverageV2(ConfigCoverage(documents))
<1> DEFINE broken == {d \in documents : d.state = "failed"}
           limits == LimitationsOf(documents)
           state == IF documents = {} THEN "unsupported"
                    ELSE IF broken = documents THEN "failed"
                    ELSE IF limits # {} THEN "partial" ELSE "complete"
           named == IF documents = {} THEN {<<"configuration_inputs_not_found", "">>} ELSE limits
           coverage == [state |-> state, eligible |-> Cardinality(documents), skipped |-> 0,
                        processed |-> Cardinality(documents \ broken),
                        failed |-> Cardinality(broken), limitations |-> named]
<1>1. ConfigCoverage(documents) = coverage
  BY DEF ConfigCoverage
<1>2. /\ IsFiniteSet(broken) /\ IsFiniteSet(documents \ broken)
      /\ Cardinality(documents) \in Nat /\ Cardinality(broken) \in Nat
      /\ Cardinality(documents \ broken) \in Nat
  BY FS_Subset, FS_CardinalityType
<1>3. Cardinality(documents \ broken) = Cardinality(documents) - Cardinality(broken)
  <2>1. documents \cap broken = broken
    OBVIOUS
  <2> HIDE DEF broken
  <2> QED
    BY <2>1, <1>2, FS_Difference
<1>4. broken # {} => limits # {}
  <2> SUFFICES ASSUME NEW d \in broken PROVE limits # {}
    OBVIOUS
  <2>1. PICK l : l \in d.limitations
    OBVIOUS
  <2>2. d \in documents /\ <<l, d.path>> \in {<<x, d.path>> : x \in d.limitations}
    BY <2>1
  <2>3. <<l, d.path>> \in UNION {{<<x, e.path>> : x \in e.limitations} : e \in documents}
    BY <2>2
  <2> QED
    BY <2>3 DEF LimitationsOf
<1>5. Cardinality(broken) = 0 <=> broken = {}
  BY <1>2, FS_EmptySet
<1>6. broken \subseteq documents
  OBVIOUS
<1> HIDE DEF broken, limits
<1>7. state = "complete" <=> named = {}
  BY <1>4, <1>6
<1>8. state = "complete" => broken = {}
  BY <1>4, <1>6
<1>9. state \in {"complete", "partial", "failed", "unsupported"}
  OBVIOUS
<1> HIDE DEF state, named
<1>10. ValidCoverageV2(coverage)
  BY <1>2, <1>3, <1>5, <1>7, <1>8, <1>9 DEF ValidCoverageV2, ValidCoverage, CoverageStates
<1>11. IsCoverage(coverage)
  BY DEF IsCoverage
<1> QED
  BY <1>1, <1>10, <1>11

-----------------------------------------------------------------------------
(* What Git reports. *)

\* The paths that an update is given files of.
Expected(changes) == {c.path : c \in {x \in changes : x.kind # "deleted"}}

LEMMA RemovedAre ==
    ASSUME NEW changes, NEW p
    PROVE  p \in RemovedBy(changes) <=>
               \E c \in changes : p = c.path \/ (c.kind # "copied" /\ p = c.previous)
BY DEF RemovedBy

LEMMA PathChangeIs ==
    ASSUME NEW kind, NEW p, NEW q
    PROVE  /\ PathChange(kind, p, q).kind = kind /\ PathChange(kind, p, q).path = p
           /\ PathChange(kind, p, q).previous = q
BY DEF PathChange

LEMMA PlainChangeIs ==
    ASSUME NEW kind, NEW p
    PROVE  /\ PathChange(kind, p, "").kind = kind /\ PathChange(kind, p, "").path = p
           /\ PathChange(kind, p, "").previous = ""
BY DEF PathChange

\* What may have become of a path.
Deleted(from, to, p) == p \in DOMAIN from /\ p \notin DOMAIN to
Added(from, to, p) == p \in DOMAIN to /\ p \notin DOMAIN from
Stays(from, to, p) == p \in DOMAIN from /\ p \in DOMAIN to
Edited(from, to, p) == Stays(from, to, p) /\ from[p] # to[p]

LEMMA PlainChangesAre ==
    ASSUME NEW from, NEW to
    PROVE  /\ \A d \in PlainChanges(from, to) :
                  /\ d.previous = ""
                  /\ Deleted(from, to, d.path) \/ Added(from, to, d.path) \/ Edited(from, to, d.path)
                  /\ d.kind = "deleted" <=> Deleted(from, to, d.path)
           /\ \A p : Deleted(from, to, p) \/ Added(from, to, p) \/ Edited(from, to, p) =>
                  \E d \in PlainChanges(from, to) : d.path = p
<1>1. ASSUME NEW d \in PlainChanges(from, to)
      PROVE  /\ d.previous = ""
             /\ Deleted(from, to, d.path) \/ Added(from, to, d.path) \/ Edited(from, to, d.path)
             /\ d.kind = "deleted" <=> Deleted(from, to, d.path)
  <2>1. CASE \E p \in DOMAIN from \ DOMAIN to : d = PathChange("deleted", p, "")
    <3>1. PICK p \in DOMAIN from \ DOMAIN to : d = PathChange("deleted", p, "")
      BY <2>1
    <3>2. d.previous = "" /\ d.path = p /\ d.kind = "deleted"
      BY <3>1, PlainChangeIs
    <3> QED
      BY <3>1, <3>2 DEF Deleted
  <2>2. CASE \E p \in DOMAIN to \ DOMAIN from : d = PathChange("added", p, "")
    <3>1. PICK p \in DOMAIN to \ DOMAIN from : d = PathChange("added", p, "")
      BY <2>2
    <3>2. d.previous = "" /\ d.path = p /\ d.kind = "added"
      BY <3>1, PlainChangeIs
    <3> QED
      BY <3>1, <3>2 DEF Added, Deleted
  <2>3. CASE \E p \in DOMAIN from \cap DOMAIN to :
                 from[p] # to[p] /\ d = PathChange("modified", p, "")
    <3>1. PICK p \in DOMAIN from \cap DOMAIN to :
              from[p] # to[p] /\ d = PathChange("modified", p, "")
      BY <2>3
    <3>2. d.previous = "" /\ d.path = p /\ d.kind = "modified"
      BY <3>1, PlainChangeIs
    <3> QED
      BY <3>1, <3>2 DEF Edited, Stays, Deleted
  <2> QED
    BY <2>1, <2>2, <2>3 DEF PlainChanges
<1>2. ASSUME NEW p, Deleted(from, to, p) \/ Added(from, to, p) \/ Edited(from, to, p)
      PROVE  \E d \in PlainChanges(from, to) : d.path = p
  <2>1. \/ PathChange("deleted", p, "") \in PlainChanges(from, to)
        \/ PathChange("added", p, "") \in PlainChanges(from, to)
        \/ PathChange("modified", p, "") \in PlainChanges(from, to)
    BY <1>2 DEF PlainChanges, Deleted, Added, Edited, Stays
  <2> QED
    BY <2>1, PlainChangeIs
<1> QED
  BY <1>1, <1>2

LEMMA InsteadIs ==
    ASSUME NEW plain, NEW p, NEW c
    PROVE  /\ c \in Instead(plain, p, c)
           /\ \A d : d \in Instead(plain, p, c)
                        <=> (d \in plain /\ d.path # p /\ d.path # c.path) \/ d = c
BY DEF Instead

\* The plain changes, or those with one of them made a rename or a copy.
LEMMA PathChangesAre ==
    ASSUME NEW from, NEW to, NEW changes \in PathChanges(from, to)
    PROVE  \/ changes = PlainChanges(from, to)
           \/ \E p, q : \E c \in changes :
                  /\ Deleted(from, to, p) /\ Added(from, to, q)
                  /\ c.kind = "renamed" /\ c.path = q /\ c.previous = p
                  /\ \A d : d \in changes <=>
                         (d \in PlainChanges(from, to) /\ d.path # p /\ d.path # q) \/ d = c
           \/ \E q : \E c \in changes :
                  /\ Added(from, to, q) /\ c.kind = "copied" /\ c.path = q
                  /\ \A d : d \in changes <=>
                         (d \in PlainChanges(from, to) /\ d.path # q) \/ d = c
<1> DEFINE plain == PlainChanges(from, to)
<1>1. \/ changes = plain
      \/ \E p \in DOMAIN from \ DOMAIN to, q \in DOMAIN to \ DOMAIN from :
             changes = Instead(plain, p, PathChange("renamed", q, p))
      \/ \E p \in DOMAIN from \cap DOMAIN to, q \in DOMAIN to \ DOMAIN from :
             changes = Instead(plain, q, PathChange("copied", q, p))
  BY DEF PathChanges
<1> HIDE DEF plain
<1>2. ASSUME NEW p \in DOMAIN from \ DOMAIN to, NEW q \in DOMAIN to \ DOMAIN from,
             changes = Instead(plain, p, PathChange("renamed", q, p))
      PROVE  \E c \in changes :
                 /\ Deleted(from, to, p) /\ Added(from, to, q)
                 /\ c.kind = "renamed" /\ c.path = q /\ c.previous = p
                 /\ \A d : d \in changes <=> (d \in plain /\ d.path # p /\ d.path # q) \/ d = c
  <2> DEFINE c == PathChange("renamed", q, p)
  <2>1. c.kind = "renamed" /\ c.path = q /\ c.previous = p
    BY PathChangeIs
  <2>2. changes = Instead(plain, p, c)
    BY <1>2
  <2> HIDE DEF c
  <2>3. /\ c \in changes
        /\ \A d : d \in changes <=> (d \in plain /\ d.path # p /\ d.path # q) \/ d = c
    BY <2>1, <2>2, InsteadIs
  <2>4. Deleted(from, to, p) /\ Added(from, to, q)
    BY DEF Deleted, Added
  <2> QED
    BY <2>1, <2>3, <2>4
<1>3. ASSUME NEW p, NEW q \in DOMAIN to \ DOMAIN from,
             changes = Instead(plain, q, PathChange("copied", q, p))
      PROVE  \E c \in changes :
                 /\ Added(from, to, q) /\ c.kind = "copied" /\ c.path = q
                 /\ \A d : d \in changes <=> (d \in plain /\ d.path # q) \/ d = c
  <2> DEFINE c == PathChange("copied", q, p)
  <2>1. c.kind = "copied" /\ c.path = q
    BY PathChangeIs
  <2>2. changes = Instead(plain, q, c)
    BY <1>3
  <2> HIDE DEF c
  <2>3. c \in changes /\ \A d : d \in changes <=> (d \in plain /\ d.path # q) \/ d = c
    BY <2>1, <2>2, InsteadIs
  <2>4. Added(from, to, q)
    BY DEF Added
  <2> QED
    BY <2>1, <2>3, <2>4
<1>4. CASE changes = plain
  BY <1>4 DEF plain
<1>5. CASE \E p \in DOMAIN from \ DOMAIN to, q \in DOMAIN to \ DOMAIN from :
               changes = Instead(plain, p, PathChange("renamed", q, p))
  BY <1>2, <1>5 DEF plain
<1>6. CASE \E p \in DOMAIN from \cap DOMAIN to, q \in DOMAIN to \ DOMAIN from :
               changes = Instead(plain, q, PathChange("copied", q, p))
  BY <1>3, <1>6 DEF plain
<1> QED
  BY <1>1, <1>4, <1>5, <1>6

LEMMA PathChangesAreExact ==
    ASSUME NEW from, NEW to, "" \notin DOMAIN from \cup DOMAIN to,
           NEW changes \in PathChanges(from, to)
    PROVE  /\ Expected(changes) \subseteq DOMAIN to
           /\ \A p \in DOMAIN to \ Expected(changes) :
                  p \in DOMAIN from /\ from[p] = to[p] /\ p \notin RemovedBy(changes)
           /\ \A p \in DOMAIN from :
                  p \notin RemovedBy(changes) => p \in DOMAIN to /\ from[p] = to[p]
<1> DEFINE plain == PlainChanges(from, to)
<1>1. \A d \in plain : /\ d.previous = ""
                       /\ Deleted(from, to, d.path) \/ Added(from, to, d.path) \/ Edited(from, to, d.path)
                       /\ d.kind = "deleted" <=> Deleted(from, to, d.path)
  BY PlainChangesAre
<1>2. \A p : Deleted(from, to, p) \/ Added(from, to, p) \/ Edited(from, to, p) => \E d \in plain : d.path = p
  BY PlainChangesAre
<1>3. /\ \A p : Deleted(from, to, p) <=> p \in DOMAIN from /\ p \notin DOMAIN to
      /\ \A p : Added(from, to, p) <=> p \in DOMAIN to /\ p \notin DOMAIN from
      /\ \A p : Edited(from, to, p) <=> p \in DOMAIN from /\ p \in DOMAIN to /\ from[p] # to[p]
  BY DEF Deleted, Added, Edited, Stays
<1>4. \/ changes = plain
      \/ \E p, q : \E c \in changes :
             /\ Deleted(from, to, p) /\ Added(from, to, q)
             /\ c.kind = "renamed" /\ c.path = q /\ c.previous = p
             /\ \A d : d \in changes <=> (d \in plain /\ d.path # p /\ d.path # q) \/ d = c
      \/ \E q : \E c \in changes :
             /\ Added(from, to, q) /\ c.kind = "copied" /\ c.path = q
             /\ \A d : d \in changes <=> (d \in plain /\ d.path # q) \/ d = c
  BY PathChangesAre, Zenon
<1> HIDE DEF plain
\* The change of a path that is no longer as it was.
<1>5. \A p : Added(from, to, p) \/ Edited(from, to, p) => \E c \in changes : c.path = p /\ c.kind # "deleted"
  <2> SUFFICES ASSUME NEW p, Added(from, to, p) \/ Edited(from, to, p)
               PROVE  \E c \in changes : c.path = p /\ c.kind # "deleted"
    OBVIOUS
  <2>1. ~Deleted(from, to, p)
    BY <1>3
  <2>2. PICK d \in plain : d.path = p /\ d.kind # "deleted"
    BY <1>1, <1>2, <2>1
  <2> QED
    BY <2>1, <2>2, <1>4
<1>6. \A p : Deleted(from, to, p) => \E c \in changes : p = c.path \/ (c.kind # "copied" /\ p = c.previous)
  <2> SUFFICES ASSUME NEW p, Deleted(from, to, p)
               PROVE  \E c \in changes : p = c.path \/ (c.kind # "copied" /\ p = c.previous)
    OBVIOUS
  <2>1. ~Added(from, to, p)
    BY <1>3
  <2>2. PICK d \in plain : d.path = p
    BY <1>2
  <2> QED
    BY <2>1, <2>2, <1>4
\* Of what the changes are, and whose paths they remove.
<1>7. \A c \in changes : /\ Deleted(from, to, c.path) \/ Added(from, to, c.path) \/ Edited(from, to, c.path)
                         /\ c.kind # "deleted" => ~Deleted(from, to, c.path)
                         /\ c.kind # "copied" => c.previous = "" \/ Deleted(from, to, c.previous)
  <2> SUFFICES ASSUME NEW c \in changes
               PROVE  /\ Deleted(from, to, c.path) \/ Added(from, to, c.path) \/ Edited(from, to, c.path)
                      /\ c.kind # "deleted" => ~Deleted(from, to, c.path)
                      /\ c.kind # "copied" => c.previous = "" \/ Deleted(from, to, c.previous)
    OBVIOUS
  <2>1. CASE c \in plain
    BY <2>1, <1>1
  <2>2. CASE c \notin plain
    <3>1. Added(from, to, c.path) /\ (c.kind # "copied" => Deleted(from, to, c.previous))
      BY <2>2, <1>4
    <3> QED
      BY <3>1, <1>3
  <2> QED
    BY <2>1, <2>2
<1>8. \A p : p \in Expected(changes) <=> \E c \in changes : c.kind # "deleted" /\ p = c.path
  BY DEF Expected
<1>9. Expected(changes) \subseteq DOMAIN to
  <2> SUFFICES ASSUME NEW p \in Expected(changes) PROVE p \in DOMAIN to
    OBVIOUS
  <2>1. PICK c \in changes : c.kind # "deleted" /\ p = c.path
    BY <1>8
  <2>2. Added(from, to, p) \/ Edited(from, to, p)
    BY <2>1, <1>7
  <2> QED
    BY <2>2, <1>3
<1>10. ASSUME NEW p \in DOMAIN to, p \notin Expected(changes)
       PROVE  p \in DOMAIN from /\ from[p] = to[p] /\ p \notin RemovedBy(changes)
  <2>1. ~Added(from, to, p) /\ ~Edited(from, to, p) /\ ~Deleted(from, to, p)
    BY <1>3, <1>5, <1>8, <1>10
  <2>2. p # ""
    OBVIOUS
  <2>3. p \notin RemovedBy(changes)
    <3> SUFFICES ASSUME NEW c \in changes, p = c.path \/ (c.kind # "copied" /\ p = c.previous)
                 PROVE  FALSE
      BY RemovedAre
    <3>1. /\ Deleted(from, to, c.path) \/ Added(from, to, c.path) \/ Edited(from, to, c.path)
          /\ c.kind # "copied" => c.previous = "" \/ Deleted(from, to, c.previous)
      BY <1>7
    <3> QED
      BY <2>1, <2>2, <3>1
  <2> QED
    BY <2>1, <2>3, <1>3
<1>11. ASSUME NEW p \in DOMAIN from, p \notin RemovedBy(changes)
       PROVE  p \in DOMAIN to /\ from[p] = to[p]
  <2>1. ~Deleted(from, to, p) /\ ~Edited(from, to, p)
    BY <1>5, <1>6, <1>11, RemovedAre
  <2> QED
    BY <2>1, <1>3
<1> QED
  BY <1>9, <1>10, <1>11

-----------------------------------------------------------------------------
(* An update. *)

PathsIn(documents) == {d.path : d \in documents}

Updated(documents, changes, tree, supplied) ==
    ResolvedDocuments(documents, ConfigUpdate(documents, changes, tree, supplied))

\* The documents of the files that an update was given.
Given(tree, supplied) == DocumentsOf([p \in supplied |-> tree[p]])

LEMMA GivenAre ==
    ASSUME NEW tree, NEW supplied
    PROVE  /\ \A d : d \in Given(tree, supplied) <=>
                  \E p \in supplied : d = ParseArtifact(p, tree[p]) /\ d # NoDocument
           /\ \A d \in Given(tree, supplied) :
                  d.path \in supplied /\ d = ParseArtifact(d.path, tree[d.path])
<1> DEFINE part == [p \in supplied |-> tree[p]]
<1>1. DOMAIN part = supplied /\ \A p \in supplied : part[p] = tree[p]
  OBVIOUS
<1>2. Given(tree, supplied) = DocumentsOf(part)
  BY DEF Given
<1> HIDE DEF part
<1> QED
  BY <1>1, <1>2, DocumentsHavePaths

LEMMA CoverageShape ==
    ASSUME NEW documents
    PROVE  IsCoverage(ConfigCoverage(documents))
BY DEF ConfigCoverage, IsCoverage

LEMMA PartialState ==
    ASSUME NEW coverage, IsCoverage(coverage), NEW more
    PROVE  [coverage EXCEPT !.state = "partial", !.limitations = @ \cup more].state = "partial"
BY DEF IsCoverage

\* A document stays, is replaced or is removed; and only the full update is complete.
LEMMA UpdatedAre ==
    ASSUME NEW documents, NEW changes, NEW tree, NEW supplied
    PROVE  /\ \A d : d \in Updated(documents, changes, tree, supplied) <=>
                  \/ d \in Given(tree, supplied)
                  \/ /\ d \in documents /\ d.path \notin RemovedBy(changes)
                     /\ d.path \notin PathsIn(Given(tree, supplied))
           /\ Expected(changes) \subseteq supplied =>
                  (ConfigUpdate(documents, changes, tree, supplied).coverage.state = "complete"
                   <=> ConfigCoverage(Updated(documents, changes, tree, supplied)).state = "complete")
           /\ ConfigUpdate(documents, changes, tree, supplied).replacements = Given(tree, supplied)
           /\ ConfigUpdate(documents, changes, tree, supplied).tombstones \subseteq
                  {p \in PathsIn(documents) : p \in RemovedBy(changes)}
<1> DEFINE kept == {d \in documents : d.path \notin RemovedBy(changes)}
           new == Given(tree, supplied)
           logical == {d \in kept : d.path \notin {n.path : n \in new}} \cup new
           dead == {d.path : d \in documents \ kept} \ {n.path : n \in new}
           missing == {c.path : c \in {x \in changes : x.kind # "deleted"}} \ supplied
           coverage == ConfigCoverage(logical)
           lacking == {<<"changed_artifact_missing", p>> : p \in missing}
           reduced == [coverage EXCEPT !.state = "partial", !.limitations = @ \cup lacking]
           reported == IF missing = {} /\ coverage.state = "complete" THEN coverage ELSE reduced
           update == [replacements |-> new, tombstones |-> dead, coverage |-> reported]
<1>1. ConfigUpdate(documents, changes, tree, supplied) = update
  BY DEF ConfigUpdate, Given
<1>2. \A d : d \in ResolvedDocuments(documents, update) <=>
          \/ d \in new
          \/ d \in documents /\ d.path \notin dead /\ \A n \in new : n.path # d.path
  <2> HIDE DEF new, dead, reported
  <2> QED
    BY DEF ResolvedDocuments
<1>3. \A p : p \in dead <=> /\ \E d \in documents : p = d.path /\ p \in RemovedBy(changes)
                            /\ \A n \in new : n.path # p
  <2> HIDE DEF new
  <2> QED
    OBVIOUS
<1>4. \A d : d \in logical <=> \/ d \in new
                               \/ /\ d \in documents /\ d.path \notin RemovedBy(changes)
                                  /\ \A n \in new : n.path # d.path
  <2> HIDE DEF new
  <2> QED
    OBVIOUS
<1>5. reduced.state = "partial"
  <2>1. IsCoverage(coverage)
    BY CoverageShape
  <2> HIDE DEF coverage, lacking
  <2> QED
    BY <2>1, PartialState
<1>6. missing = {} <=> Expected(changes) \subseteq supplied
  BY DEF Expected
<1> HIDE DEF new, dead, logical, kept, missing, reduced
<1>7. ResolvedDocuments(documents, update) = logical
  BY <1>2, <1>3, <1>4
<1>8. Updated(documents, changes, tree, supplied) = logical
  BY <1>1, <1>7 DEF Updated
<1>9. missing = {} => (reported.state = "complete" <=> coverage.state = "complete")
  BY <1>5
<1>10. dead \subseteq {p \in PathsIn(documents) : p \in RemovedBy(changes)}
  BY <1>3 DEF PathsIn
<1>11. \A p : p \in PathsIn(new) <=> \E n \in new : n.path = p
  BY DEF PathsIn
<1>12. update.replacements = new /\ update.tombstones = dead /\ update.coverage = reported
  OBVIOUS
<1> HIDE DEF update, reported
<1> QED
  BY <1>1, <1>4, <1>6, <1>8, <1>9, <1>10, <1>11, <1>12 DEF new

\* Given every changed file, the documents of one tree become those of the next.
LEMMA UpdateIsClean ==
    ASSUME NEW from, NEW tree, DOMAIN from \subseteq Files, DOMAIN tree \subseteq Files,
           NEW changes \in PathChanges(from, tree)
    PROVE  Updated(DocumentsOf(from), changes, tree, Expected(changes)) = DocumentsOf(tree)
<1> DEFINE before == DocumentsOf(from)
           new == Given(tree, Expected(changes))
           after == Updated(before, changes, tree, Expected(changes))
<1>1. /\ Expected(changes) \subseteq DOMAIN tree
      /\ \A p \in DOMAIN tree \ Expected(changes) :
             p \in DOMAIN from /\ from[p] = tree[p] /\ p \notin RemovedBy(changes)
      /\ \A p \in DOMAIN from :
             p \notin RemovedBy(changes) => p \in DOMAIN tree /\ from[p] = tree[p]
  <2>1. "" \notin DOMAIN from \cup DOMAIN tree
    BY ConfigurationAssumption
  <2> QED
    BY <2>1, PathChangesAreExact
<1>2. \A d : d \in after <=> \/ d \in new
                             \/ /\ d \in before /\ d.path \notin RemovedBy(changes)
                                /\ d.path \notin PathsIn(new)
  BY UpdatedAre
<1>3. /\ \A d : d \in new <=>
             \E p \in Expected(changes) : d = ParseArtifact(p, tree[p]) /\ d # NoDocument
      /\ \A d \in new : d.path \in Expected(changes)
  BY GivenAre
<1>4. /\ \A d : d \in before <=>
             \E p \in DOMAIN from : d = ParseArtifact(p, from[p]) /\ d # NoDocument
      /\ \A d \in before : d.path \in DOMAIN from /\ d = ParseArtifact(d.path, from[d.path])
  BY DocumentsHavePaths
<1>5. \A p, file : ParseArtifact(p, file) # NoDocument => ParseArtifact(p, file).path = p
  BY ArtifactIsOfPath
<1>6. \A d : d \in DocumentsOf(tree) <=>
          \E p \in DOMAIN tree : d = ParseArtifact(p, tree[p]) /\ d # NoDocument
  BY DocumentsHavePaths
<1>7. \A d \in PathsIn(new) : d \in Expected(changes)
  BY <1>3 DEF PathsIn
<1> HIDE DEF before, new, after
<1>8. ASSUME NEW d \in after PROVE d \in DocumentsOf(tree)
  <2>1. CASE d \in new
    BY <2>1, <1>1, <1>3, <1>6
  <2>2. CASE d \in before /\ d.path \notin RemovedBy(changes)
    <3>1. d.path \in DOMAIN from /\ d = ParseArtifact(d.path, from[d.path]) /\ d # NoDocument
      BY <2>2, <1>4
    <3>2. d.path \in DOMAIN tree /\ from[d.path] = tree[d.path]
      BY <2>2, <3>1, <1>1
    <3> QED
      BY <3>1, <3>2, <1>6
  <2> QED
    BY <2>1, <2>2, <1>2
<1>9. ASSUME NEW d \in DocumentsOf(tree) PROVE d \in after
  <2>1. PICK p \in DOMAIN tree : d = ParseArtifact(p, tree[p]) /\ d # NoDocument
    BY <1>6
  <2>2. d.path = p
    BY <2>1, <1>5
  <2>3. CASE p \in Expected(changes)
    BY <2>1, <2>3, <1>2, <1>3
  <2>4. CASE p \notin Expected(changes)
    <3>1. p \in DOMAIN from /\ from[p] = tree[p] /\ p \notin RemovedBy(changes)
      BY <2>4, <1>1
    <3>2. d \in before /\ p \notin PathsIn(new)
      BY <2>1, <2>4, <3>1, <1>4, <1>7
    <3> QED
      BY <2>2, <3>1, <3>2, <1>2
  <2> QED
    BY <2>3, <2>4
<1>10. after = DocumentsOf(tree)
  BY <1>8, <1>9
<1> QED
  BY <1>10 DEF after, before

\* Whatever files an update is given, it touches what the plan named, or is new.
LEMMA UpdateIsPlanned ==
    ASSUME NEW documents, NEW changes, NEW tree, DOMAIN tree \subseteq Files,
           NEW supplied \in SUBSET Expected(changes), Expected(changes) \subseteq DOMAIN tree
    PROVE  PathsIn(ConfigUpdate(documents, changes, tree, supplied).replacements)
               \cup ConfigUpdate(documents, changes, tree, supplied).tombstones
           \subseteq Invalidated(documents, changes) \cup (Files \ PathsIn(documents))
<1> DEFINE update == ConfigUpdate(documents, changes, tree, supplied)
<1>1. /\ update.replacements = Given(tree, supplied)
      /\ update.tombstones \subseteq {p \in PathsIn(documents) : p \in RemovedBy(changes)}
  BY UpdatedAre
<1>2. \A p : p \in Invalidated(documents, changes) <=>
          p \in PathsIn(documents) /\ \E c \in changes : p = c.path \/ p = c.previous
  BY DEF Invalidated, PathsIn
<1>3. \A p \in PathsIn(update.replacements) : p \in supplied
  <2> HIDE DEF update
  <2> QED
    BY <1>1, GivenAre DEF PathsIn
<1>4. \A p \in supplied : p \in Files /\ \E c \in changes : p = c.path
  BY DEF Expected
<1> HIDE DEF update
<1>5. \A p \in update.tombstones : p \in Invalidated(documents, changes)
  BY <1>1, <1>2, RemovedAre
<1>6. \A p \in PathsIn(update.replacements) :
          p \in Invalidated(documents, changes) \cup (Files \ PathsIn(documents))
  BY <1>2, <1>3, <1>4
<1>7. PathsIn(update.replacements) \cup update.tombstones
          \subseteq Invalidated(documents, changes) \cup (Files \ PathsIn(documents))
  BY <1>5, <1>6
<1> QED
  BY <1>7 DEF update

-----------------------------------------------------------------------------
(* The inductive invariant. *)

SnapshotIsSound(s) ==
    /\ s.tree \in ConfigTrees
    /\ s.unread = {} =>
           /\ s.documents = DocumentsOf(s.tree)
           /\ s.coverage.state = "complete" <=> ConfigCoverage(s.documents).state = "complete"

StepIsPlanned(last, s) ==
    s.changed \subseteq s.invalidated \cup (Files \ PathsIn(last.documents))

IsSequence(s) == \E S : s \in Seq(S)

ChainInv ==
    /\ IsSequence(chain)
    /\ \A i \in DOMAIN chain : SnapshotIsSound(chain[i])
    /\ \A i, j \in DOMAIN chain : i < j => chain[i].unread \subseteq chain[j].unread
    /\ \A i \in DOMAIN chain : i > 1 => StepIsPlanned(chain[i - 1], chain[i])

LEMMA AppendIs ==
    ASSUME NEW s, IsSequence(s), NEW e
    PROVE  /\ IsSequence(Append(s, e)) /\ Len(s) \in Nat
           /\ DOMAIN s = 1 .. Len(s) /\ DOMAIN Append(s, e) = 1 .. Len(s) + 1
           /\ Append(s, e)[Len(s) + 1] = e
           /\ \A i \in DOMAIN s : Append(s, e)[i] = s[i]
<1>1. PICK S : s \in Seq(S)
  BY DEF IsSequence
<1>2. s \in Seq(S \cup {e}) /\ e \in S \cup {e}
  BY <1>1
<1>3. Append(s, e) \in Seq(S \cup {e}) /\ Len(Append(s, e)) = Len(s) + 1
  BY <1>2
<1>4. /\ Len(s) \in Nat /\ DOMAIN s = 1 .. Len(s)
      /\ DOMAIN Append(s, e) = 1 .. Len(s) + 1
      /\ Append(s, e)[Len(s) + 1] = e
      /\ \A i \in 1 .. Len(s) : Append(s, e)[i] = s[i]
  BY <1>2
<1> QED
  BY <1>3, <1>4 DEF IsSequence

LEMMA ConfigInitInv == ASSUME ConfigInit PROVE ChainInv
<1>1. chain = <<>> /\ chain \in Seq({})
  BY DEF ConfigInit
<1>2. \A i : i \notin DOMAIN chain
  BY <1>1
<1>3. IsSequence(chain)
  BY <1>1 DEF IsSequence
<1> QED
  BY <1>2, <1>3 DEF ChainInv

LEMMA BuildInv ==
    ASSUME ChainInv, BuildSnapshot
    PROVE  ChainInv'
<1>1. PICK tree \in ConfigTrees :
          chain' = <<[tree |-> tree, documents |-> DocumentsOf(tree),
                      changed |-> {}, invalidated |-> {}, unread |-> {},
                      coverage |-> ConfigCoverage(DocumentsOf(tree))]>>
  BY DEF BuildSnapshot
<1> DEFINE s == [tree |-> tree, documents |-> DocumentsOf(tree),
                 changed |-> {}, invalidated |-> {}, unread |-> {},
                 coverage |-> ConfigCoverage(DocumentsOf(tree))]
<1>2. SnapshotIsSound(s)
  BY DEF SnapshotIsSound
<1>3. chain' = <<s>>
  BY <1>1
<1> HIDE DEF s
<1>4. DOMAIN chain' = {1} /\ chain'[1] = s /\ chain' \in Seq({s})
  BY <1>3
<1>5. IsSequence(chain')
  BY <1>4 DEF IsSequence
<1>6. \A i \in DOMAIN chain' : i = 1 /\ SnapshotIsSound(chain'[i])
  BY <1>2, <1>4
<1> QED
  BY <1>5, <1>6 DEF ChainInv

LEMMA UpdateInv ==
    ASSUME ChainInv, UpdateSnapshot
    PROVE  ChainInv'
<1> DEFINE last == chain[Len(chain)]
           n == Len(chain)
<1>1. PICK tree \in ConfigTrees : \E changes \in PathChanges(last.tree, tree) :
          \E supplied \in SUBSET Expected(changes) :
              chain' = Append(chain,
                  [tree |-> tree, documents |-> Updated(last.documents, changes, tree, supplied),
                   changed |-> PathsIn(ConfigUpdate(last.documents, changes, tree, supplied).replacements)
                               \cup ConfigUpdate(last.documents, changes, tree, supplied).tombstones,
                   invalidated |-> Invalidated(last.documents, changes),
                   unread |-> last.unread \cup (Expected(changes) \ supplied),
                   coverage |-> ConfigUpdate(last.documents, changes, tree, supplied).coverage])
  BY DEF UpdateSnapshot, Expected, Updated, PathsIn
<1>2. PICK changes \in PathChanges(last.tree, tree) : \E supplied \in SUBSET Expected(changes) :
              chain' = Append(chain,
                  [tree |-> tree, documents |-> Updated(last.documents, changes, tree, supplied),
                   changed |-> PathsIn(ConfigUpdate(last.documents, changes, tree, supplied).replacements)
                               \cup ConfigUpdate(last.documents, changes, tree, supplied).tombstones,
                   invalidated |-> Invalidated(last.documents, changes),
                   unread |-> last.unread \cup (Expected(changes) \ supplied),
                   coverage |-> ConfigUpdate(last.documents, changes, tree, supplied).coverage])
  BY <1>1
<1>3. PICK supplied \in SUBSET Expected(changes) :
              chain' = Append(chain,
                  [tree |-> tree, documents |-> Updated(last.documents, changes, tree, supplied),
                   changed |-> PathsIn(ConfigUpdate(last.documents, changes, tree, supplied).replacements)
                               \cup ConfigUpdate(last.documents, changes, tree, supplied).tombstones,
                   invalidated |-> Invalidated(last.documents, changes),
                   unread |-> last.unread \cup (Expected(changes) \ supplied),
                   coverage |-> ConfigUpdate(last.documents, changes, tree, supplied).coverage])
  BY <1>2
<1> DEFINE update == ConfigUpdate(last.documents, changes, tree, supplied)
           after == Updated(last.documents, changes, tree, supplied)
           touched == PathsIn(update.replacements) \cup update.tombstones
           s == [tree |-> tree, documents |-> after, changed |-> touched,
                 invalidated |-> Invalidated(last.documents, changes),
                 unread |-> last.unread \cup (Expected(changes) \ supplied),
                 coverage |-> update.coverage]
<1>4. chain' = Append(chain, s)
  BY <1>3
<1>5. chain # <<>> /\ IsSequence(chain)
  BY DEF UpdateSnapshot, ChainInv
<1>6. n \in Nat /\ n # 0 /\ n \in DOMAIN chain /\ DOMAIN chain = 1 .. n
  <2>1. PICK S : chain \in Seq(S)
    BY <1>5 DEF IsSequence
  <2> QED
    BY <2>1, <1>5
<1>7. SnapshotIsSound(last)
  BY <1>6 DEF ChainInv
<1>8. DOMAIN tree \subseteq Files /\ DOMAIN last.tree \subseteq Files
  BY <1>7, ConfigurationAssumption DEF SnapshotIsSound
<1>9. SnapshotIsSound(s)
  <2> SUFFICES ASSUME s.unread = {}
               PROVE  /\ s.documents = DocumentsOf(s.tree)
                      /\ s.coverage.state = "complete"
                             <=> ConfigCoverage(s.documents).state = "complete"
    BY DEF SnapshotIsSound
  <2>1. last.unread = {} /\ supplied = Expected(changes)
    OBVIOUS
  <2>2. last.documents = DocumentsOf(last.tree)
    BY <2>1, <1>7 DEF SnapshotIsSound
  <2>3. after = DocumentsOf(tree)
    BY <2>1, <2>2, <1>8, UpdateIsClean
  <2>4. update.coverage.state = "complete" <=> ConfigCoverage(after).state = "complete"
    BY <2>1, UpdatedAre
  <2>5. s.documents = after /\ s.tree = tree /\ s.coverage = update.coverage
    OBVIOUS
  <2> HIDE DEF s, after, update
  <2> QED
    BY <2>3, <2>4, <2>5
<1>10. StepIsPlanned(last, s)
  <2>1. "" \notin DOMAIN last.tree \cup DOMAIN tree
    BY <1>8, ConfigurationAssumption
  <2>2. Expected(changes) \subseteq DOMAIN tree
    BY <2>1, PathChangesAreExact
  <2>3. touched \subseteq Invalidated(last.documents, changes) \cup (Files \ PathsIn(last.documents))
    BY <2>2, <1>8, UpdateIsPlanned
  <2>4. s.changed = touched /\ s.invalidated = Invalidated(last.documents, changes)
    OBVIOUS
  <2> HIDE DEF s, touched
  <2> QED
    BY <2>3, <2>4 DEF StepIsPlanned
<1>11. last.unread \subseteq s.unread
  OBVIOUS
<1> HIDE DEF s, n
<1>12. /\ IsSequence(chain') /\ DOMAIN chain' = 1 .. n + 1 /\ chain'[n + 1] = s
       /\ \A i \in 1 .. n : chain'[i] = chain[i]
  <2>1. n = Len(chain)
    BY DEF n
  <2> QED
    BY <2>1, <1>4, <1>5, <1>6, AppendIs
<1>13. last = chain[n]
  BY DEF n
<1> HIDE DEF last
<1>14. ASSUME NEW i \in DOMAIN chain' PROVE SnapshotIsSound(chain'[i])
  <2>1. CASE i = n + 1
    BY <2>1, <1>9, <1>12
  <2>2. CASE i \in 1 .. n
    BY <2>2, <1>6, <1>12 DEF ChainInv
  <2> QED
    BY <2>1, <2>2, <1>6, <1>12
<1>15. ASSUME NEW i \in DOMAIN chain', NEW j \in DOMAIN chain', i < j
       PROVE  chain'[i].unread \subseteq chain'[j].unread
  <2>1. CASE j \in 1 .. n
    <3>1. i \in 1 .. n
      BY <2>1, <1>6, <1>12, <1>15
    <3> QED
      BY <2>1, <3>1, <1>6, <1>12, <1>15 DEF ChainInv
  <2>2. CASE j = n + 1
    <3>1. i \in 1 .. n
      BY <2>2, <1>6, <1>12, <1>15
    <3>2. chain[i].unread \subseteq last.unread
      <4>1. CASE i = n
        BY <4>1, <1>13
      <4>2. CASE i # n
        <5>1. i < n
          BY <4>2, <3>1, <1>6
        <5> QED
          BY <5>1, <3>1, <1>6, <1>13 DEF ChainInv
      <4> QED
        BY <4>1, <4>2
    <3> QED
      BY <2>2, <3>1, <3>2, <1>11, <1>12
  <2> QED
    BY <2>1, <2>2, <1>6, <1>12
<1>16. ASSUME NEW i \in DOMAIN chain', i > 1 PROVE StepIsPlanned(chain'[i - 1], chain'[i])
  <2>1. CASE i \in 1 .. n
    <3>1. i - 1 \in 1 .. n
      BY <2>1, <1>6, <1>16
    <3> QED
      BY <2>1, <3>1, <1>6, <1>12, <1>16 DEF ChainInv
  <2>2. CASE i = n + 1
    <3>1. i - 1 = n /\ n \in 1 .. n
      BY <2>2, <1>6
    <3> QED
      BY <2>2, <3>1, <1>10, <1>12, <1>13
  <2> QED
    BY <2>1, <2>2, <1>6, <1>12
<1> QED
  BY <1>12, <1>14, <1>15, <1>16 DEF ChainInv

LEMMA ChainStutter ==
    ASSUME ChainInv, UNCHANGED chain
    PROVE  ChainInv'
BY DEF ChainInv

LEMMA ChainInvariant == ConfigSpec => []ChainInv
<1>1. ConfigInit => ChainInv
  BY ConfigInitInv
<1>2. ChainInv /\ [ConfigNext]_chain => ChainInv'
  BY BuildInv, UpdateInv, ChainStutter DEF ConfigNext
<1> QED
  BY <1>1, <1>2, PTL DEF ConfigSpec

LEMMA InvIsClean ==
    ASSUME ChainInv
    PROVE  DocumentsAreClean
<1> SUFFICES ASSUME NEW i \in DOMAIN chain
             PROVE  /\ chain[i].unread = {} =>
                           /\ ConfigExtraction(chain[i].documents) = CleanExtraction(chain[i])
                           /\ chain[i].coverage.state = "complete" <=>
                                  CleanExtraction(chain[i]).coverage.state = "complete"
                    /\ i > 1 => chain[i].changed \subseteq chain[i].invalidated
                                    \cup (Files \ {d.path : d \in chain[i - 1].documents})
  BY DEF DocumentsAreClean
<1>1. ASSUME chain[i].unread = {}
      PROVE  /\ ConfigExtraction(chain[i].documents) = CleanExtraction(chain[i])
             /\ chain[i].coverage.state = "complete" <=>
                    CleanExtraction(chain[i]).coverage.state = "complete"
  <2>1. /\ chain[i].documents = DocumentsOf(chain[i].tree)
        /\ chain[i].coverage.state = "complete"
               <=> ConfigCoverage(chain[i].documents).state = "complete"
    BY <1>1 DEF ChainInv, SnapshotIsSound
  <2>2. CleanExtraction(chain[i]) = ConfigExtraction(DocumentsOf(chain[i].tree))
    BY DEF CleanExtraction
  <2>3. \A x : ConfigExtraction(x).coverage = ConfigCoverage(x)
    BY DEF ConfigExtraction
  <2> QED
    BY <2>1, <2>2, <2>3
<1>2. ASSUME i > 1
      PROVE  chain[i].changed \subseteq chain[i].invalidated
                 \cup (Files \ {d.path : d \in chain[i - 1].documents})
  BY <1>2 DEF ChainInv, StepIsPlanned, PathsIn
<1> QED
  BY <1>1, <1>2

KeysOf(definitions) == {d.key : d \in definitions}

\* The changes between two sets of keys, each of them decided.
Decided(changes, before, after) ==
    /\ \A k : k \in DOMAIN changes <=>
           (k \in before /\ k \notin after) \/ (k \in after /\ k \notin before)
    /\ \A k \in DOMAIN changes : changes[k] = IF k \in before THEN "breaking" ELSE "compatible"

Undecided(changes) == \A k \in DOMAIN changes : changes[k] = "unknown"

LEMMA ConfigChangesAre ==
    ASSUME NEW base, NEW head, NEW complete \in BOOLEAN
    PROVE  /\ complete => Decided(ConfigChanges(base, head, complete), KeysOf(base), KeysOf(head))
           /\ ~complete => Undecided(ConfigChanges(base, head, complete))
<1> DEFINE before == KeysOf(base)
           after == KeysOf(head)
           keys == (before \cup after) \ (before \cap after)
           changes == ConfigChanges(base, head, complete)
<1>1. changes = [k \in keys |-> IF ~complete THEN "unknown"
                               ELSE IF k \in before THEN "breaking" ELSE "compatible"]
  BY DEF ConfigChanges, KeysOf
<1>2. \A k : k \in keys <=> (k \in before /\ k \notin after) \/ (k \in after /\ k \notin before)
  OBVIOUS
<1> HIDE DEF keys, before, after, changes
<1>3. complete => Decided(changes, before, after)
  BY <1>1, <1>2 DEF Decided
<1>4. ~complete => Undecided(changes)
  BY <1>1 DEF Undecided
<1> QED
  BY <1>3, <1>4 DEF before, after, changes

\* What a diff reports of extractions one of which is not complete.
LEMMA PartialIsValid ==
    ASSUME NEW coverage, IsCoverage(coverage), ValidCoverageV2(coverage), NEW reason
    PROVE  /\ ValidCoverageV2([coverage EXCEPT !.state = "partial", !.limitations = {reason}])
           /\ [coverage EXCEPT !.state = "partial", !.limitations = {reason}].state = "partial"
<1> DEFINE new == [coverage EXCEPT !.state = "partial", !.limitations = {reason}]
<1>1. /\ new.state = "partial" /\ new.eligible = coverage.eligible
      /\ new.skipped = coverage.skipped /\ new.processed = coverage.processed
      /\ new.failed = coverage.failed /\ new.limitations = {reason}
  BY DEF IsCoverage
<1> HIDE DEF new
<1>2. ValidCoverageV2(new)
  BY <1>1 DEF ValidCoverageV2, ValidCoverage, CoverageStates
<1> QED
  BY <1>1, <1>2 DEF new

LEMMA ConfigDiffIs ==
    ASSUME NEW base, NEW head,
           IsCoverage(head.coverage), ValidCoverageV2(head.coverage)
    PROVE  /\ ValidCoverageV2(ConfigDiff(base, head).coverage)
           /\ \/ /\ base.coverage.state = "complete" /\ head.coverage.state = "complete"
                 /\ ConfigDiff(base, head).coverage.state = "complete"
                 /\ Decided(ConfigDiff(base, head).changes,
                            KeysOf(base.definitions), KeysOf(head.definitions))
              \/ /\ ConfigDiff(base, head).coverage.state = "partial"
                 /\ Undecided(ConfigDiff(base, head).changes)
<1> DEFINE complete == BothExtracted(base, head)
           changes == ConfigChanges(base.definitions, head.definitions, complete)
           reduced == [head.coverage EXCEPT !.state = "partial",
                           !.limitations = {<<"incomplete_configuration_extraction", "">>}]
           coverage == IF complete THEN head.coverage ELSE reduced
<1>1. ValidCoverageV2(reduced) /\ reduced.state = "partial"
  BY PartialIsValid
<1>2. /\ complete \in BOOLEAN
      /\ complete <=> base.coverage.state = "complete" /\ head.coverage.state = "complete"
  BY DEF BothExtracted
<1>3. ConfigDiff(base, head) = [changes |-> changes, coverage |-> coverage]
  BY DEF ConfigDiff
<1> HIDE DEF reduced, complete
<1>4. /\ complete => Decided(changes, KeysOf(base.definitions), KeysOf(head.definitions))
      /\ ~complete => Undecided(changes)
  BY <1>2, ConfigChangesAre
<1>5. /\ complete => coverage = head.coverage
      /\ ~complete => coverage = reduced
  OBVIOUS
<1> HIDE DEF changes, coverage
<1>6. ConfigDiff(base, head).changes = changes /\ ConfigDiff(base, head).coverage = coverage
  BY <1>3
<1> QED
  BY <1>1, <1>2, <1>4, <1>5, <1>6

LEMMA InvIsExact ==
    ASSUME ChainInv
    PROVE  ConfigDiffIsExact
<1> SUFFICES ASSUME NEW i \in DOMAIN chain, NEW j \in DOMAIN chain, i < j, chain[j].unread = {}
             PROVE  LET base == CleanExtraction(chain[i])
                        head == CleanExtraction(chain[j])
                        diff == ConfigDiff(ConfigExtraction(chain[i].documents),
                                           ConfigExtraction(chain[j].documents))
                        keys(e) == {d.key : d \in e.definitions}
                    IN  /\ ValidCoverageV2(diff.coverage)
                        /\ IF diff.coverage.state = "complete"
                           THEN /\ \A f \in {base, head} : f.coverage.state = "complete"
                                /\ {k \in DOMAIN diff.changes : diff.changes[k] = "breaking"}
                                       = keys(base) \ keys(head)
                                /\ {k \in DOMAIN diff.changes : diff.changes[k] = "compatible"}
                                       = keys(head) \ keys(base)
                           ELSE \A k \in DOMAIN diff.changes : diff.changes[k] = "unknown"
  BY DEF ConfigDiffIsExact
<1> DEFINE base == CleanExtraction(chain[i])
           head == CleanExtraction(chain[j])
           diff == ConfigDiff(ConfigExtraction(chain[i].documents),
                              ConfigExtraction(chain[j].documents))
<1>1. chain[i].unread = {}
  BY DEF ChainInv
<1>2. /\ chain[i].documents = DocumentsOf(chain[i].tree)
      /\ chain[j].documents = DocumentsOf(chain[j].tree) /\ chain[j].tree \in ConfigTrees
  BY <1>1 DEF ChainInv, SnapshotIsSound
<1>3. /\ base = ConfigExtraction(chain[i].documents)
      /\ head = ConfigExtraction(DocumentsOf(chain[j].tree))
      /\ head = ConfigExtraction(chain[j].documents)
  BY <1>2 DEF CleanExtraction
<1>4. IsCoverage(head.coverage) /\ ValidCoverageV2(head.coverage)
  <2>1. DOMAIN chain[j].tree \subseteq Files
    BY <1>2, ConfigurationAssumption
  <2>2. IsFiniteSet(DocumentsOf(chain[j].tree))
    BY <2>1, FinitelyManyDocuments
  <2>3. \A d \in DocumentsOf(chain[j].tree) : d.state = "failed" => d.limitations # {}
    BY DocumentsHavePaths
  <2>4. head.coverage = ConfigCoverage(DocumentsOf(chain[j].tree))
    BY <1>3 DEF ConfigExtraction
  <2> QED
    BY <2>2, <2>3, <2>4, CoverageIsValid
<1>5. diff = ConfigDiff(base, head)
  BY <1>3
<1> HIDE DEF base, head, diff
<1>6. /\ ValidCoverageV2(diff.coverage)
      /\ \/ /\ base.coverage.state = "complete" /\ head.coverage.state = "complete"
            /\ diff.coverage.state = "complete"
            /\ Decided(diff.changes, KeysOf(base.definitions), KeysOf(head.definitions))
         \/ diff.coverage.state = "partial" /\ Undecided(diff.changes)
  BY <1>4, <1>5, ConfigDiffIs
<1>7. CASE diff.coverage.state = "complete"
  <2> DEFINE before == KeysOf(base.definitions)
             after == KeysOf(head.definitions)
  <2>1. /\ base.coverage.state = "complete" /\ head.coverage.state = "complete"
        /\ Decided(diff.changes, before, after)
    BY <1>6, <1>7
  <2> HIDE DEF before, after
  <2>2. /\ {k \in DOMAIN diff.changes : diff.changes[k] = "breaking"} = before \ after
        /\ {k \in DOMAIN diff.changes : diff.changes[k] = "compatible"} = after \ before
    BY <2>1 DEF Decided
  <2> QED
    BY <2>1, <2>2, <1>6, <1>7 DEF before, after, KeysOf, base, head, diff
<1>8. CASE diff.coverage.state # "complete"
  <2>1. Undecided(diff.changes)
    BY <1>6, <1>8
  <2> QED
    BY <2>1, <1>6, <1>8 DEF diff, Undecided
<1> QED
  BY <1>7, <1>8

\* updatePartitions and diff: while every changed file could be read, snapshots
\* that were updated however often hold what clean builds hold, and a complete
\* diff of two of them is that of the clean builds.
THEOREM UpdatesAreExact == ConfigSpec => []ConfigUpdatesAreExact
<1>1. ChainInv => ConfigUpdatesAreExact
  BY InvIsClean, InvIsExact DEF ConfigUpdatesAreExact
<1> QED
  BY <1>1, ChainInvariant, PTL

-----------------------------------------------------------------------------
(* Functions with a key less, more or renamed. *)

IsFunction(f) == f = [x \in DOMAIN f |-> f[x]]

LEMMA WithoutKeys ==
    ASSUME NEW f, NEW keys
    PROVE  /\ IsFunction(Without(f, keys))
           /\ \A x : x \in DOMAIN Without(f, keys) <=> x \in DOMAIN f /\ x \notin keys
           /\ \A x \in DOMAIN f : x \notin keys => Without(f, keys)[x] = f[x]
BY DEF Without, Restrict, IsFunction

LEMMA WithKey ==
    ASSUME NEW f, NEW key, NEW value
    PROVE  /\ IsFunction(With(f, key, value))
           /\ \A x : x \in DOMAIN With(f, key, value) <=> x \in DOMAIN f \/ x = key
           /\ With(f, key, value)[key] = value
           /\ \A x \in DOMAIN f : x # key => With(f, key, value)[x] = f[x]
BY DEF With, IsFunction

LEMMA RenamedKey ==
    ASSUME NEW f, NEW from, NEW to
    PROVE  /\ IsFunction(Rekeyed(f, from, to))
           /\ \A x : x \in DOMAIN Rekeyed(f, from, to)
                        <=> (x \in DOMAIN f /\ x # from) \/ x = to
           /\ Rekeyed(f, from, to)[to] = f[from]
           /\ \A x \in DOMAIN f : x # from /\ x # to => Rekeyed(f, from, to)[x] = f[x]
<1> DEFINE rest == Without(f, {from})
<1>1. Rekeyed(f, from, to) = With(rest, to, f[from])
  BY DEF Rekeyed
<1>2. /\ \A x : x \in DOMAIN rest <=> x \in DOMAIN f /\ x # from
      /\ \A x \in DOMAIN f : x # from => rest[x] = f[x]
  BY WithoutKeys
<1> HIDE DEF rest
<1> QED
  BY <1>1, <1>2, WithKey

-----------------------------------------------------------------------------
(* The shapes of the two schemas, and when they agree. *)

IsColumn(column, nullables) ==
    /\ column = [type |-> column.type, nullable |-> column.nullable]
    /\ column.nullable \in nullables

IsReplay(schema) ==
    /\ schema = [tables |-> schema.tables, columns |-> schema.columns,
                 enums |-> schema.enums, limitations |-> schema.limitations]
    /\ IsFunction(schema.columns)
    /\ IsFunction(schema.enums)
    /\ \A k \in DOMAIN schema.columns :
           k = <<k[1], k[2]>> /\ IsColumn(schema.columns[k], {"yes", "no", "unknown"})

IsServer(schema) ==
    /\ schema = [tables |-> schema.tables, enums |-> schema.enums]
    /\ IsFunction(schema.tables)
    /\ IsFunction(schema.enums)
    /\ \A t \in DOMAIN schema.tables :
           /\ IsFunction(schema.tables[t])
           /\ \A c \in DOMAIN schema.tables[t] : IsColumn(schema.tables[t][c], {"yes", "no"})

\* A column of the replay is the server's.
Matches(column, shape) ==
    column.type = shape.type /\ (column.nullable = "no" <=> shape.nullable = "no")

TableAgrees(mine, theirs, t) ==
    /\ \A c \in DOMAIN theirs.tables[t] :
           <<t, c>> \in DOMAIN mine.columns /\ Matches(mine.columns[<<t, c>>], theirs.tables[t][c])
    /\ \A k \in DOMAIN mine.columns : k[1] = t => k[2] \in DOMAIN theirs.tables[t]

Agrees(mine, theirs) ==
    /\ legacy \subseteq DOMAIN theirs.tables
    /\ \A t : t \in mine.tables <=> t \in DOMAIN theirs.tables /\ t \notin legacy
    /\ mine.enums = theirs.enums
    /\ \A k \in DOMAIN mine.columns : k[1] \in mine.tables
    /\ \A t \in mine.tables : TableAgrees(mine, theirs, t)

TypesExist(schema) ==
    \A t \in DOMAIN schema.tables : \A c \in DOMAIN schema.tables[t] :
        TypeExists(schema, schema.tables[t][c].type)

LegacyStays ==
    \A t \in legacy :
        /\ server.tables[t] = released.server.tables[t]
        /\ \A c \in DOMAIN server.tables[t] : server.tables[t][c].type \in DOMAIN Accepts

\* A statement as the adapter replays it.
Replayed(mine, s) == ApplyOperation(mine, Operation(s))

NoLimit(mine, s) == Replayed(mine, s).limitations = {}

-----------------------------------------------------------------------------
(* What a replayed statement leaves. *)

LEMMA MissingBaseShape ==
    ASSUME NEW mine, IsReplay(mine)
    PROVE  /\ IsReplay(MissingBase(mine)) /\ MissingBase(mine).limitations # {}
           /\ mine.limitations \subseteq MissingBase(mine).limitations
<1>1. MissingBase(mine) = [tables |-> mine.tables, columns |-> mine.columns, enums |-> mine.enums,
                           limitations |-> mine.limitations \cup {"migration_base_missing"}]
  BY DEF MissingBase, IsReplay
<1> QED
  BY <1>1 DEF IsReplay, IsColumn

LEMMA DeclaredShape ==
    ASSUME NEW column, Declared(column)
    PROVE  /\ IsColumn(ColumnShape(column), {"yes", "no", "unknown"})
           /\ IsColumn(ServerColumn(column), {"yes", "no"})
           /\ ColumnShape(column).type = column.type /\ ServerColumn(column).type = column.type
           /\ ColumnShape(column).nullable = "no" <=> ServerColumn(column).nullable = "no"
BY DEF Declared, IsColumn, ColumnShape, ServerColumn

LEMMA CreateTableReplayed ==
    ASSUME NEW mine, IsReplay(mine), NEW s, Recognised(s), s.kind = "create_table"
    PROVE  /\ IsReplay(Replayed(mine, s))
           /\ Replayed(mine, s).tables = mine.tables \cup {s.target}
           /\ Replayed(mine, s).enums = mine.enums
           /\ Replayed(mine, s).limitations = mine.limitations
           /\ DOMAIN Replayed(mine, s).columns
                  = DOMAIN mine.columns \cup {<<s.target, c>> : c \in DOMAIN s.columns}
           /\ \A c \in DOMAIN s.columns :
                  Replayed(mine, s).columns[<<s.target, c>>] = ColumnShape(s.columns[c])
           /\ \A k \in DOMAIN mine.columns :
                  k[1] # s.target => Replayed(mine, s).columns[k] = mine.columns[k]
<1> DEFINE op == [kind |-> "create_table", target |-> s.target,
                  columns |-> [c \in DOMAIN s.columns |-> ColumnShape(s.columns[c])]]
           made == {<<s.target, c>> : c \in DOMAIN s.columns}
           columns == [k \in DOMAIN mine.columns \cup made |->
                          IF k \in made THEN op.columns[k[2]] ELSE mine.columns[k]]
           new == [tables |-> mine.tables \cup {s.target}, columns |-> columns,
                   enums |-> mine.enums, limitations |-> mine.limitations]
<1>1. Operation(s) = op /\ op.kind = "create_table" /\ op.target = s.target
      /\ DOMAIN op.columns = DOMAIN s.columns
  BY DEF Operation
<1>2. \A c \in DOMAIN s.columns : op.columns[c] = ColumnShape(s.columns[c])
  OBVIOUS
<1> HIDE DEF op
<1>3. Replayed(mine, s) = CreateTable(mine, op)
  BY <1>1 DEF Replayed, ApplyOperation
<1>4. CreateTable(mine, op) = new
  BY <1>1 DEF CreateTable
<1>5. /\ DOMAIN columns = DOMAIN mine.columns \cup made
      /\ IsFunction(columns)
      /\ \A c \in DOMAIN s.columns : columns[<<s.target, c>>] = ColumnShape(s.columns[c])
      /\ \A k \in DOMAIN mine.columns : k[1] # s.target => columns[k] = mine.columns[k]
  BY <1>2 DEF IsFunction
<1>6. \A k \in DOMAIN columns :
          k = <<k[1], k[2]>> /\ IsColumn(columns[k], {"yes", "no", "unknown"})
  <2> SUFFICES ASSUME NEW k \in DOMAIN columns
               PROVE  k = <<k[1], k[2]>> /\ IsColumn(columns[k], {"yes", "no", "unknown"})
    OBVIOUS
  <2>1. CASE k \in made
    <3>1. PICK c \in DOMAIN s.columns : k = <<s.target, c>>
      BY <2>1
    <3>2. Declared(s.columns[c]) /\ columns[k] = ColumnShape(s.columns[c])
      BY <3>1, <1>5 DEF Recognised
    <3>3. IsColumn(columns[k], {"yes", "no", "unknown"})
      BY <3>2, DeclaredShape
    <3> QED
      BY <3>1, <3>3
  <2>2. CASE k \notin made
    BY <2>2, <1>5 DEF IsReplay
  <2> QED
    BY <2>1, <2>2
<1>7. DOMAIN columns = DOMAIN mine.columns \cup {<<s.target, c>> : c \in DOMAIN s.columns}
  BY <1>5
<1> HIDE DEF columns, made
<1>8. IsReplay(new)
  BY <1>5, <1>6 DEF IsReplay
<1> QED
  BY <1>3, <1>4, <1>5, <1>7, <1>8

LEMMA DropTableReplayed ==
    ASSUME NEW mine, IsReplay(mine), NEW s, s.kind = "drop_table"
    PROVE  /\ IsReplay(Replayed(mine, s))
           /\ mine.limitations \subseteq Replayed(mine, s).limitations
           /\ Replayed(mine, s).tables = mine.tables \ {s.target}
           /\ Replayed(mine, s).enums = mine.enums
           /\ NoLimit(mine, s) => s.target \in mine.tables
           /\ \A k : k \in DOMAIN Replayed(mine, s).columns
                        <=> k \in DOMAIN mine.columns /\ k[1] # s.target
           /\ \A k \in DOMAIN Replayed(mine, s).columns :
                  Replayed(mine, s).columns[k] = mine.columns[k]
<1> DEFINE gone == ColumnsOf(mine, s.target)
           columns == Without(mine.columns, gone)
           limitations == IF s.target \in mine.tables THEN mine.limitations
                          ELSE MissingBase(mine).limitations
           new == [tables |-> mine.tables \ {s.target}, columns |-> columns,
                   enums |-> mine.enums, limitations |-> limitations]
<1>1. Replayed(mine, s) = DropTable(mine, s)
  BY DEF Replayed, Operation, ApplyOperation
<1>2. DropTable(mine, s) = new
  BY DEF DropTable
<1>3. /\ \A k : k \in DOMAIN columns <=> k \in DOMAIN mine.columns /\ k \notin gone
      /\ IsFunction(columns)
      /\ \A k \in DOMAIN mine.columns : k \notin gone => columns[k] = mine.columns[k]
  <2> HIDE DEF gone
  <2> QED
    BY WithoutKeys
<1>4. \A k : k \in gone <=> k \in DOMAIN mine.columns /\ k[1] = s.target
  BY DEF ColumnsOf
<1>5. /\ mine.limitations \subseteq limitations
      /\ limitations = {} => s.target \in mine.tables
  BY MissingBaseShape
<1> HIDE DEF columns, limitations, gone
<1>6. \A k \in DOMAIN columns : k \in DOMAIN mine.columns /\ columns[k] = mine.columns[k]
  BY <1>3
<1>7. IsReplay(new)
  BY <1>3, <1>6 DEF IsReplay
<1>8. \A k : k \in DOMAIN columns <=> k \in DOMAIN mine.columns /\ k[1] # s.target
  BY <1>3, <1>4
<1> QED
  BY <1>1, <1>2, <1>5, <1>6, <1>7, <1>8 DEF NoLimit

LEMMA RenameTableReplayed ==
    ASSUME NEW mine, IsReplay(mine), NEW s, s.kind = "rename_table"
    PROVE  /\ IsReplay(Replayed(mine, s))
           /\ mine.limitations \subseteq Replayed(mine, s).limitations
           /\ NoLimit(mine, s) =>
                  /\ s.target \in mine.tables
                  /\ Replayed(mine, s).tables = (mine.tables \ {s.target}) \cup {s.to}
                  /\ Replayed(mine, s).enums = mine.enums
                  /\ DOMAIN Replayed(mine, s).columns
                         = {k \in DOMAIN mine.columns : k[1] # s.target}
                           \cup {<<s.to, k[2]>> : k \in ColumnsOf(mine, s.target)}
                  /\ \A k \in ColumnsOf(mine, s.target) :
                         Replayed(mine, s).columns[<<s.to, k[2]>>] = mine.columns[k]
                  /\ \A k \in DOMAIN mine.columns :
                         k[1] \notin {s.target, s.to} =>
                             Replayed(mine, s).columns[k] = mine.columns[k]
<1>1. Replayed(mine, s) = RenameTable(mine, s)
  BY DEF Replayed, Operation, ApplyOperation
<1>2. CASE s.target \notin mine.tables
  BY <1>1, <1>2, MissingBaseShape DEF RenameTable, NoLimit
<1>3. CASE s.target \in mine.tables
  <2> DEFINE moved == ColumnsOf(mine, s.target)
             there == {<<s.to, k[2]>> : k \in moved}
             columns == RenamedColumns(mine, s.target, s.to)
             new == [tables |-> (mine.tables \ {s.target}) \cup {s.to}, columns |-> columns,
                     enums |-> mine.enums, limitations |-> mine.limitations]
  <2>1. RenameTable(mine, s) = new
    BY <1>3 DEF RenameTable
  <2>2. columns = [k \in (DOMAIN mine.columns \ moved) \cup there |->
                      IF k \in there THEN mine.columns[<<s.target, k[2]>>] ELSE mine.columns[k]]
    BY DEF RenamedColumns
  <2>3. \A k \in moved : k = <<s.target, k[2]>> /\ k \in DOMAIN mine.columns
    BY DEF ColumnsOf, IsReplay
  <2>4. \A k \in moved : <<s.to, k[2]>> \in there /\ columns[<<s.to, k[2]>>] = mine.columns[k]
    BY <2>2, <2>3
  <2>5. \A k \in DOMAIN mine.columns :
            k[1] \notin {s.target, s.to} => k \in DOMAIN columns /\ columns[k] = mine.columns[k]
    BY <2>2 DEF ColumnsOf
  <2>6. DOMAIN columns = {k \in DOMAIN mine.columns : k[1] # s.target} \cup there
    BY <2>2 DEF ColumnsOf
  <2>7. \A k \in DOMAIN columns :
            k = <<k[1], k[2]>> /\ IsColumn(columns[k], {"yes", "no", "unknown"})
    <3> SUFFICES ASSUME NEW k \in DOMAIN columns
                 PROVE  k = <<k[1], k[2]>> /\ IsColumn(columns[k], {"yes", "no", "unknown"})
      OBVIOUS
    <3>1. CASE k \in there
      <4>1. PICK x \in moved : k = <<s.to, x[2]>>
        BY <3>1
      <4> QED
        BY <4>1, <2>3, <2>4 DEF IsReplay
    <3>2. CASE k \notin there
      BY <3>2, <2>2 DEF IsReplay
    <3> QED
      BY <3>1, <3>2
  <2>8. IsFunction(columns)
    BY <2>2 DEF IsFunction
  <2> HIDE DEF columns, there, moved
  <2>9. IsReplay(new)
    BY <2>7, <2>8 DEF IsReplay
  <2>10. \A k \in ColumnsOf(mine, s.target) : columns[<<s.to, k[2]>>] = mine.columns[k]
    BY <2>4 DEF moved
  <2>11. DOMAIN columns = {k \in DOMAIN mine.columns : k[1] # s.target}
                          \cup {<<s.to, k[2]>> : k \in ColumnsOf(mine, s.target)}
    BY <2>6 DEF moved, there
  <2> QED
    BY <1>1, <1>3, <2>1, <2>5, <2>9, <2>10, <2>11
<1> QED
  BY <1>2, <1>3

\* The operations on the columns of one table leave the rest.
ColumnsOnly(mine, s, columns) ==
    /\ Replayed(mine, s).tables = mine.tables /\ Replayed(mine, s).enums = mine.enums
    /\ Replayed(mine, s).columns = columns

IsKey(k) == k = <<k[1], k[2]>>

LEMMA ColumnsShape ==
    ASSUME NEW mine, IsReplay(mine), NEW columns, IsFunction(columns),
           \A k \in DOMAIN columns : IsKey(k) /\ IsColumn(columns[k], {"yes", "no", "unknown"})
    PROVE  /\ IsReplay([mine EXCEPT !.columns = columns])
           /\ [mine EXCEPT !.columns = columns].tables = mine.tables
           /\ [mine EXCEPT !.columns = columns].columns = columns
           /\ [mine EXCEPT !.columns = columns].enums = mine.enums
           /\ [mine EXCEPT !.columns = columns].limitations = mine.limitations
<1>1. [mine EXCEPT !.columns = columns]
          = [tables |-> mine.tables, columns |-> columns, enums |-> mine.enums,
             limitations |-> mine.limitations]
  BY DEF IsReplay
<1> QED
  BY <1>1 DEF IsReplay, IsKey

LEMMA AddColumnReplayed ==
    ASSUME NEW mine, IsReplay(mine), NEW s, Recognised(s), s.kind = "add_column"
    PROVE  /\ IsReplay(Replayed(mine, s))
           /\ mine.limitations \subseteq Replayed(mine, s).limitations
           /\ NoLimit(mine, s) =>
                  /\ s.target \in mine.tables
                  /\ ColumnsOnly(mine, s,
                         With(mine.columns, <<s.target, s.name>>, ColumnShape(s.column)))
<1> DEFINE op == [kind |-> "add_column", target |-> s.target, name |-> s.name,
                  column |-> ColumnShape(s.column)]
           key == <<s.target, s.name>>
           columns == With(mine.columns, key, ColumnShape(s.column))
<1>1. /\ Operation(s) = op /\ op.kind = "add_column" /\ op.target = s.target
      /\ op.name = s.name /\ op.column = ColumnShape(s.column)
  BY DEF Operation
<1> HIDE DEF op
<1>2. Replayed(mine, s) = AddColumn(mine, op)
  BY <1>1 DEF Replayed, ApplyOperation
<1>3. CASE s.target \notin mine.tables
  BY <1>1, <1>2, <1>3, MissingBaseShape DEF AddColumn, NoLimit
<1>4. CASE s.target \in mine.tables
  <2>1. AddColumn(mine, op) = [mine EXCEPT !.columns = columns]
    BY <1>1, <1>4 DEF AddColumn
  <2>2. IsColumn(ColumnShape(s.column), {"yes", "no", "unknown"})
    BY DeclaredShape DEF Recognised
  <2>3. /\ IsFunction(columns)
        /\ \A k : k \in DOMAIN columns <=> k \in DOMAIN mine.columns \/ k = key
        /\ columns[key] = ColumnShape(s.column)
        /\ \A k \in DOMAIN mine.columns : k # key => columns[k] = mine.columns[k]
    BY WithKey
  <2>4. IsKey(key)
    BY DEF IsKey
  <2>5. columns = With(mine.columns, <<s.target, s.name>>, ColumnShape(s.column))
    OBVIOUS
  <2> HIDE DEF columns, key
  <2>6. \A k \in DOMAIN columns : IsKey(k) /\ IsColumn(columns[k], {"yes", "no", "unknown"})
    BY <2>2, <2>3, <2>4 DEF IsReplay, IsKey
  <2> QED
    BY <1>2, <1>4, <2>1, <2>3, <2>5, <2>6, ColumnsShape DEF ColumnsOnly
<1> QED
  BY <1>3, <1>4

\* The column of a statement.
Key(s) == <<s.target, s.name>>

LEMMA ChangeColumnReplayed ==
    ASSUME NEW mine, IsReplay(mine), NEW s, Recognised(s),
           s.kind \in {"alter_column", "drop_column", "rename_column", "set_column_nullability"}
    PROVE  /\ IsReplay(Replayed(mine, s))
           /\ mine.limitations \subseteq Replayed(mine, s).limitations
           /\ NoLimit(mine, s) =>
                  /\ Key(s) \in DOMAIN mine.columns
                  /\ s.kind = "alter_column" =>
                         ColumnsOnly(mine, s, [mine.columns EXCEPT ![Key(s)].type = s.type])
                  /\ s.kind = "drop_column" =>
                         ColumnsOnly(mine, s, Without(mine.columns, {Key(s)}))
                  /\ s.kind = "rename_column" =>
                         ColumnsOnly(mine, s, Rekeyed(mine.columns, Key(s), <<s.target, s.to>>))
                  /\ s.kind = "set_column_nullability" =>
                         ColumnsOnly(mine, s, [mine.columns EXCEPT ![Key(s)].nullable = s.nullable])
<1> DEFINE old == mine.columns
           key == Key(s)
<1>1. Replayed(mine, s) = ChangeColumn(mine, s)
  BY DEF Replayed, Operation, ApplyOperation
<1>2. CASE key \notin DOMAIN old
  <2>1. ChangeColumn(mine, s) = MissingBase(mine)
    BY <1>2 DEF ChangeColumn, Key
  <2> QED
    BY <1>1, <2>1, MissingBaseShape DEF NoLimit
<1>3. CASE key \in DOMAIN old
  <2>1. /\ IsFunction(old)
        /\ \A k \in DOMAIN old : IsKey(k) /\ IsColumn(old[k], {"yes", "no", "unknown"})
    BY DEF IsReplay, IsKey
  <2>2. old[key] = [type |-> old[key].type, nullable |-> old[key].nullable]
        /\ old[key].nullable \in {"yes", "no", "unknown"}
    BY <1>3, <2>1 DEF IsColumn
  <2>3. ASSUME NEW column, IsColumn(column, {"yes", "no", "unknown"})
        PROVE  /\ IsFunction([old EXCEPT ![key] = column])
               /\ \A k \in DOMAIN [old EXCEPT ![key] = column] :
                      /\ IsKey(k)
                      /\ IsColumn([old EXCEPT ![key] = column][k], {"yes", "no", "unknown"})
    BY <1>3, <2>1, <2>3 DEF IsFunction
  <2>4. CASE s.kind = "alter_column"
    <3> DEFINE columns == [old EXCEPT ![key].type = s.type]
               column == [type |-> s.type, nullable |-> old[key].nullable]
    <3>1. columns = [old EXCEPT ![key] = column]
      BY <2>2
    <3>2. IsColumn(column, {"yes", "no", "unknown"})
      BY <2>2 DEF IsColumn
    <3>3. ChangeColumn(mine, s) = [mine EXCEPT !.columns = columns]
      BY <1>3, <2>4 DEF ChangeColumn, Key
    <3> HIDE DEF columns, column, old
    <3>4. /\ IsFunction(columns)
          /\ \A k \in DOMAIN columns : IsKey(k) /\ IsColumn(columns[k], {"yes", "no", "unknown"})
      BY <3>1, <3>2, <2>3
    <3>5. IsReplay(Replayed(mine, s)) /\ Replayed(mine, s).limitations = mine.limitations
          /\ ColumnsOnly(mine, s, columns)
      BY <1>1, <3>3, <3>4, ColumnsShape DEF ColumnsOnly
    <3> QED
      BY <1>3, <2>4, <3>5 DEF columns, old
  <2>5. CASE s.kind = "set_column_nullability"
    <3> DEFINE columns == [old EXCEPT ![key].nullable = s.nullable]
               column == [type |-> old[key].type, nullable |-> s.nullable]
    <3>1. columns = [old EXCEPT ![key] = column]
      BY <2>2
    <3>2. IsColumn(column, {"yes", "no", "unknown"})
      BY <2>5 DEF IsColumn, Recognised
    <3>3. ChangeColumn(mine, s) = [mine EXCEPT !.columns = columns]
      BY <1>3, <2>5 DEF ChangeColumn, Key
    <3> HIDE DEF columns, column, old
    <3>4. /\ IsFunction(columns)
          /\ \A k \in DOMAIN columns : IsKey(k) /\ IsColumn(columns[k], {"yes", "no", "unknown"})
      BY <3>1, <3>2, <2>3
    <3>5. IsReplay(Replayed(mine, s)) /\ Replayed(mine, s).limitations = mine.limitations
          /\ ColumnsOnly(mine, s, columns)
      BY <1>1, <3>3, <3>4, ColumnsShape DEF ColumnsOnly
    <3> QED
      BY <1>3, <2>5, <3>5 DEF columns, old
  <2>6. CASE s.kind = "drop_column"
    <3> DEFINE columns == Without(old, {key})
    <3>1. ChangeColumn(mine, s) = [mine EXCEPT !.columns = columns]
      BY <1>3, <2>6 DEF ChangeColumn, Key
    <3>2. /\ IsFunction(columns) /\ \A k : k \in DOMAIN columns <=> k \in DOMAIN old /\ k # key
          /\ \A k \in DOMAIN old : k # key => columns[k] = old[k]
      BY WithoutKeys
    <3> HIDE DEF columns, old
    <3>3. \A k \in DOMAIN columns : IsKey(k) /\ IsColumn(columns[k], {"yes", "no", "unknown"})
      BY <3>2, <2>1
    <3>4. IsReplay(Replayed(mine, s)) /\ Replayed(mine, s).limitations = mine.limitations
          /\ ColumnsOnly(mine, s, columns)
      BY <1>1, <3>1, <3>2, <3>3, ColumnsShape DEF ColumnsOnly
    <3> QED
      BY <1>3, <2>6, <3>4 DEF columns, old
  <2>7. CASE s.kind = "rename_column"
    <3> DEFINE to == <<s.target, s.to>>
               columns == Rekeyed(old, key, to)
    <3>1. ChangeColumn(mine, s) = [mine EXCEPT !.columns = columns]
      BY <1>3, <2>7 DEF ChangeColumn, Key
    <3>2. IsKey(to)
      BY DEF IsKey
    <3>3. columns = Rekeyed(mine.columns, Key(s), <<s.target, s.to>>)
      OBVIOUS
    <3> HIDE DEF to, old
    <3>4. /\ IsFunction(columns)
          /\ \A k : k \in DOMAIN columns <=> (k \in DOMAIN old /\ k # key) \/ k = to
          /\ columns[to] = old[key]
          /\ \A k \in DOMAIN old : k # key /\ k # to => columns[k] = old[k]
      BY RenamedKey
    <3> HIDE DEF columns
    <3>5. ASSUME NEW k \in DOMAIN columns
          PROVE  IsKey(k) /\ IsColumn(columns[k], {"yes", "no", "unknown"})
      <4>1. CASE k = to
        BY <4>1, <3>2, <3>4, <2>1, <1>3
      <4>2. CASE k # to
        <5>1. k \in DOMAIN old /\ k # key /\ columns[k] = old[k]
          BY <4>2, <3>4
        <5> QED
          BY <5>1, <2>1
      <4> QED
        BY <4>1, <4>2
    <3>6. IsReplay(Replayed(mine, s)) /\ Replayed(mine, s).limitations = mine.limitations
          /\ ColumnsOnly(mine, s, columns)
      BY <1>1, <3>1, <3>4, <3>5, ColumnsShape DEF ColumnsOnly
    <3> QED
      BY <1>3, <2>7, <3>3, <3>6 DEF old
  <2> QED
    BY <2>4, <2>5, <2>6, <2>7
<1> QED
  BY <1>2, <1>3

LEMMA ChangeEnumReplayed ==
    ASSUME NEW mine, IsReplay(mine), NEW s, Recognised(s),
           s.kind \in {"create_enum", "add_enum_value", "rename_enum", "drop_enum"}
    PROVE  /\ IsReplay(Replayed(mine, s))
           /\ mine.limitations \subseteq Replayed(mine, s).limitations
           /\ NoLimit(mine, s) =>
                  /\ Replayed(mine, s).tables = mine.tables
                  /\ Replayed(mine, s).columns = mine.columns
                  /\ s.kind = "create_enum" =>
                         Replayed(mine, s).enums = With(mine.enums, s.target, s.values)
                  /\ s.kind = "add_enum_value" =>
                         Replayed(mine, s).enums
                             = With(mine.enums, s.target, mine.enums[s.target] \cup {s.value})
                  /\ s.kind = "rename_enum" =>
                         Replayed(mine, s).enums = Rekeyed(mine.enums, s.target, s.to)
                  /\ s.kind = "drop_enum" =>
                         Replayed(mine, s).enums = Without(mine.enums, {s.target})
<1>1. Replayed(mine, s) = ChangeEnum(mine, s)
  BY DEF Replayed, Operation, ApplyOperation
<1>2. ASSUME NEW enums, IsFunction(enums), ChangeEnum(mine, s) = [mine EXCEPT !.enums = enums]
      PROVE  /\ IsReplay(Replayed(mine, s)) /\ Replayed(mine, s).limitations = mine.limitations
             /\ Replayed(mine, s).tables = mine.tables /\ Replayed(mine, s).enums = enums
             /\ Replayed(mine, s).columns = mine.columns
  <2>1. [mine EXCEPT !.enums = enums]
            = [tables |-> mine.tables, columns |-> mine.columns, enums |-> enums,
               limitations |-> mine.limitations]
    BY DEF IsReplay
  <2> QED
    BY <1>1, <1>2, <2>1 DEF IsReplay
<1>3. CASE s.kind # "create_enum" /\ s.target \notin DOMAIN mine.enums
  <2>1. ChangeEnum(mine, s) = MissingBase(mine)
    BY <1>3 DEF ChangeEnum
  <2> QED
    BY <1>1, <2>1, MissingBaseShape DEF NoLimit
<1>4. CASE s.kind = "create_enum"
  <2>1. ChangeEnum(mine, s) = [mine EXCEPT !.enums = With(mine.enums, s.target, s.values)]
    BY <1>4 DEF ChangeEnum
  <2>2. IsFunction(With(mine.enums, s.target, s.values))
    BY WithKey
  <2> QED
    BY <1>2, <1>4, <2>1, <2>2
<1>5. CASE s.kind = "add_enum_value" /\ s.target \in DOMAIN mine.enums
  <2> DEFINE enums == With(mine.enums, s.target, mine.enums[s.target] \cup {s.value})
  <2>1. ChangeEnum(mine, s) = [mine EXCEPT !.enums = enums]
    BY <1>5 DEF ChangeEnum
  <2>2. IsFunction(enums)
    BY WithKey
  <2> HIDE DEF enums
  <2> QED
    BY <1>2, <1>5, <2>1, <2>2 DEF enums
<1>6. CASE s.kind = "rename_enum" /\ s.target \in DOMAIN mine.enums
  <2>1. ChangeEnum(mine, s) = [mine EXCEPT !.enums = Rekeyed(mine.enums, s.target, s.to)]
    BY <1>6 DEF ChangeEnum
  <2>2. IsFunction(Rekeyed(mine.enums, s.target, s.to))
    BY RenamedKey
  <2> QED
    BY <1>2, <1>6, <2>1, <2>2
<1>7. CASE s.kind = "drop_enum" /\ s.target \in DOMAIN mine.enums
  <2>1. ChangeEnum(mine, s) = [mine EXCEPT !.enums = Without(mine.enums, {s.target})]
    BY <1>7 DEF ChangeEnum
  <2>2. IsFunction(Without(mine.enums, {s.target}))
    BY WithoutKeys
  <2> QED
    BY <1>2, <1>7, <2>1, <2>2
<1> QED
  BY <1>3, <1>4, <1>5, <1>6, <1>7

-----------------------------------------------------------------------------
(* What an executed statement leaves. *)

LEMMA TablesShape ==
    ASSUME NEW theirs, IsServer(theirs), NEW tables, IsFunction(tables),
           \A t \in DOMAIN tables :
               /\ IsFunction(tables[t])
               /\ \A c \in DOMAIN tables[t] : IsColumn(tables[t][c], {"yes", "no"})
    PROVE  /\ IsServer([theirs EXCEPT !.tables = tables])
           /\ [theirs EXCEPT !.tables = tables].tables = tables
           /\ [theirs EXCEPT !.tables = tables].enums = theirs.enums
<1>1. [theirs EXCEPT !.tables = tables] = [tables |-> tables, enums |-> theirs.enums]
  BY DEF IsServer
<1> QED
  BY <1>1 DEF IsServer

LEMMA ServerTables ==
    ASSUME NEW theirs, IsServer(theirs)
    PROVE  /\ IsFunction(theirs.tables)
           /\ \A t \in DOMAIN theirs.tables :
                  /\ IsFunction(theirs.tables[t])
                  /\ \A c \in DOMAIN theirs.tables[t] : IsColumn(theirs.tables[t][c], {"yes", "no"})
BY DEF IsServer

LEMMA CreateTableMigrated ==
    ASSUME NEW theirs, IsServer(theirs), NEW s, Recognised(s), s.kind = "create_table"
    PROVE  /\ IsServer(Migrated(theirs, s)) /\ Migrated(theirs, s).enums = theirs.enums
           /\ \A t : t \in DOMAIN Migrated(theirs, s).tables
                        <=> t \in DOMAIN theirs.tables \/ t = s.target
           /\ \A t \in DOMAIN theirs.tables :
                  t # s.target => Migrated(theirs, s).tables[t] = theirs.tables[t]
           /\ DOMAIN Migrated(theirs, s).tables[s.target] = DOMAIN s.columns
           /\ \A c \in DOMAIN s.columns :
                  Migrated(theirs, s).tables[s.target][c] = ServerColumn(s.columns[c])
<1> DEFINE made == [c \in DOMAIN s.columns |-> ServerColumn(s.columns[c])]
           tables == With(theirs.tables, s.target, made)
<1>1. Migrated(theirs, s) = [theirs EXCEPT !.tables = tables]
  BY DEF Migrated
<1>2. /\ IsFunction(made) /\ DOMAIN made = DOMAIN s.columns
      /\ \A c \in DOMAIN s.columns : made[c] = ServerColumn(s.columns[c])
  BY DEF IsFunction
<1> HIDE DEF made
<1>3. /\ IsFunction(tables)
      /\ \A t : t \in DOMAIN tables <=> t \in DOMAIN theirs.tables \/ t = s.target
      /\ tables[s.target] = made
      /\ \A t \in DOMAIN theirs.tables : t # s.target => tables[t] = theirs.tables[t]
  BY WithKey
<1> HIDE DEF tables
<1>4. \A c \in DOMAIN made : IsColumn(made[c], {"yes", "no"})
  <2> SUFFICES ASSUME NEW c \in DOMAIN s.columns
               PROVE  IsColumn(ServerColumn(s.columns[c]), {"yes", "no"})
    BY <1>2
  <2>1. Declared(s.columns[c])
    BY DEF Recognised
  <2> QED
    BY <2>1, DeclaredShape
<1>5. \A t \in DOMAIN tables :
          /\ IsFunction(tables[t])
          /\ \A c \in DOMAIN tables[t] : IsColumn(tables[t][c], {"yes", "no"})
  BY <1>2, <1>3, <1>4, ServerTables
<1> QED
  BY <1>1, <1>2, <1>3, <1>5, TablesShape

LEMMA DropTableMigrated ==
    ASSUME NEW theirs, IsServer(theirs), NEW s, s.kind = "drop_table"
    PROVE  /\ IsServer(Migrated(theirs, s)) /\ Migrated(theirs, s).enums = theirs.enums
           /\ \A t : t \in DOMAIN Migrated(theirs, s).tables
                        <=> t \in DOMAIN theirs.tables /\ t # s.target
           /\ \A t \in DOMAIN theirs.tables :
                  t # s.target => Migrated(theirs, s).tables[t] = theirs.tables[t]
<1> DEFINE tables == Without(theirs.tables, {s.target})
<1>1. Migrated(theirs, s) = [theirs EXCEPT !.tables = tables]
  BY DEF Migrated
<1>2. /\ IsFunction(tables)
      /\ \A t : t \in DOMAIN tables <=> t \in DOMAIN theirs.tables /\ t # s.target
      /\ \A t \in DOMAIN theirs.tables : t # s.target => tables[t] = theirs.tables[t]
  BY WithoutKeys
<1> HIDE DEF tables
<1>3. \A t \in DOMAIN tables :
          /\ IsFunction(tables[t])
          /\ \A c \in DOMAIN tables[t] : IsColumn(tables[t][c], {"yes", "no"})
  BY <1>2, ServerTables
<1> QED
  BY <1>1, <1>2, <1>3, TablesShape

LEMMA RenameTableMigrated ==
    ASSUME NEW theirs, IsServer(theirs), NEW s, s.kind = "rename_table",
           s.target \in DOMAIN theirs.tables
    PROVE  /\ IsServer(Migrated(theirs, s)) /\ Migrated(theirs, s).enums = theirs.enums
           /\ \A t : t \in DOMAIN Migrated(theirs, s).tables
                        <=> (t \in DOMAIN theirs.tables /\ t # s.target) \/ t = s.to
           /\ Migrated(theirs, s).tables[s.to] = theirs.tables[s.target]
           /\ \A t \in DOMAIN theirs.tables :
                  t # s.target /\ t # s.to => Migrated(theirs, s).tables[t] = theirs.tables[t]
<1> DEFINE tables == Rekeyed(theirs.tables, s.target, s.to)
<1>1. Migrated(theirs, s) = [theirs EXCEPT !.tables = tables]
  BY DEF Migrated
<1>2. /\ IsFunction(tables)
      /\ \A t : t \in DOMAIN tables <=> (t \in DOMAIN theirs.tables /\ t # s.target) \/ t = s.to
      /\ tables[s.to] = theirs.tables[s.target]
      /\ \A t \in DOMAIN theirs.tables :
             t # s.target /\ t # s.to => tables[t] = theirs.tables[t]
  BY RenamedKey
<1> HIDE DEF tables
<1>3. \A t \in DOMAIN tables :
          /\ IsFunction(tables[t])
          /\ \A c \in DOMAIN tables[t] : IsColumn(tables[t][c], {"yes", "no"})
  BY <1>2, ServerTables
<1> QED
  BY <1>1, <1>2, <1>3, TablesShape

LEMMA EnumMigrated ==
    ASSUME NEW theirs, IsServer(theirs), NEW s,
           s.kind \in {"create_enum", "add_enum_value", "drop_enum"}
    PROVE  /\ IsServer(Migrated(theirs, s)) /\ Migrated(theirs, s).tables = theirs.tables
           /\ s.kind = "create_enum" =>
                  Migrated(theirs, s).enums = With(theirs.enums, s.target, s.values)
           /\ s.kind = "add_enum_value" =>
                  Migrated(theirs, s).enums
                      = With(theirs.enums, s.target, theirs.enums[s.target] \cup {s.value})
           /\ s.kind = "drop_enum" =>
                  Migrated(theirs, s).enums = Without(theirs.enums, {s.target})
<1>1. ASSUME NEW enums, IsFunction(enums), Migrated(theirs, s) = [theirs EXCEPT !.enums = enums]
      PROVE  /\ IsServer(Migrated(theirs, s)) /\ Migrated(theirs, s).tables = theirs.tables
             /\ Migrated(theirs, s).enums = enums
  <2>1. [theirs EXCEPT !.enums = enums] = [tables |-> theirs.tables, enums |-> enums]
    BY DEF IsServer
  <2> QED
    BY <1>1, <2>1 DEF IsServer
<1>2. CASE s.kind = "create_enum"
  <2>1. Migrated(theirs, s) = [theirs EXCEPT !.enums = With(theirs.enums, s.target, s.values)]
    BY <1>2 DEF Migrated
  <2>2. IsFunction(With(theirs.enums, s.target, s.values))
    BY WithKey
  <2> QED
    BY <1>1, <1>2, <2>1, <2>2
<1>3. CASE s.kind = "add_enum_value"
  <2> DEFINE enums == With(theirs.enums, s.target, theirs.enums[s.target] \cup {s.value})
  <2>1. Migrated(theirs, s) = [theirs EXCEPT !.enums = enums]
    BY <1>3 DEF Migrated
  <2>2. IsFunction(enums)
    BY WithKey
  <2> HIDE DEF enums
  <2> QED
    BY <1>1, <1>3, <2>1, <2>2 DEF enums
<1>4. CASE s.kind = "drop_enum"
  <2>1. Migrated(theirs, s) = [theirs EXCEPT !.enums = Without(theirs.enums, {s.target})]
    BY <1>4 DEF Migrated
  <2>2. IsFunction(Without(theirs.enums, {s.target}))
    BY WithoutKeys
  <2> QED
    BY <1>1, <1>4, <2>1, <2>2
<1> QED
  BY <1>2, <1>3, <1>4

LEMMA RenameEnumMigrated ==
    ASSUME NEW theirs, IsServer(theirs), NEW s, s.kind = "rename_enum"
    PROVE  /\ IsServer(Migrated(theirs, s))
           /\ Migrated(theirs, s).enums = Rekeyed(theirs.enums, s.target, s.to)
           /\ Uses(theirs, s.target) = {} => Migrated(theirs, s).tables = theirs.tables
<1> DEFINE tables == [t \in DOMAIN theirs.tables |-> Retyped(theirs.tables[t], s.target, s.to)]
           enums == Rekeyed(theirs.enums, s.target, s.to)
<1>1. Migrated(theirs, s) = [enums |-> enums, tables |-> tables]
  BY DEF Migrated
<1>2. IsFunction(enums)
  BY RenamedKey
<1>3. IsFunction(tables) /\ DOMAIN tables = DOMAIN theirs.tables
      /\ \A t \in DOMAIN tables : tables[t] = Retyped(theirs.tables[t], s.target, s.to)
  BY DEF IsFunction
<1>4. ASSUME NEW t \in DOMAIN theirs.tables
      PROVE  /\ IsFunction(Retyped(theirs.tables[t], s.target, s.to))
             /\ \A c \in DOMAIN Retyped(theirs.tables[t], s.target, s.to) :
                    IsColumn(Retyped(theirs.tables[t], s.target, s.to)[c], {"yes", "no"})
             /\ Uses(theirs, s.target) = {} =>
                    Retyped(theirs.tables[t], s.target, s.to) = theirs.tables[t]
  <2> DEFINE old == theirs.tables[t]
             new == [c \in DOMAIN old |->
                        IF old[c].type = s.target THEN [old[c] EXCEPT !.type = s.to] ELSE old[c]]
  <2>1. IsFunction(old) /\ \A c \in DOMAIN old : IsColumn(old[c], {"yes", "no"})
    BY ServerTables
  <2>2. Retyped(old, s.target, s.to) = new
    BY DEF Retyped
  <2>3. IsFunction(new) /\ DOMAIN new = DOMAIN old
    BY DEF IsFunction
  <2>4. \A c \in DOMAIN old : IsColumn(new[c], {"yes", "no"})
    <3> SUFFICES ASSUME NEW c \in DOMAIN old PROVE IsColumn(new[c], {"yes", "no"})
      OBVIOUS
    <3>1. old[c] = [type |-> old[c].type, nullable |-> old[c].nullable]
          /\ old[c].nullable \in {"yes", "no"}
      BY <2>1 DEF IsColumn
    <3>2. [old[c] EXCEPT !.type = s.to] = [type |-> s.to, nullable |-> old[c].nullable]
      BY <3>1
    <3>3. IsColumn([type |-> s.to, nullable |-> old[c].nullable], {"yes", "no"})
      BY <3>1 DEF IsColumn
    <3>4. new[c] = IF old[c].type = s.target THEN [type |-> s.to, nullable |-> old[c].nullable]
                   ELSE old[c]
      BY <3>2
    <3> HIDE DEF new
    <3> QED
      BY <3>3, <3>4, <2>1
  <2>5. ASSUME Uses(theirs, s.target) = {} PROVE new = old
    <3>1. \A c \in DOMAIN old : old[c].type # s.target
      BY <2>5 DEF Uses
    <3>2. \A c \in DOMAIN old : new[c] = old[c]
      BY <3>1
    <3> HIDE DEF new
    <3> QED
      BY <3>2, <2>1, <2>3 DEF IsFunction
  <2> HIDE DEF new
  <2> QED
    BY <2>2, <2>3, <2>4, <2>5
<1> HIDE DEF tables, enums
<1>5. \A t \in DOMAIN tables :
          /\ IsFunction(tables[t])
          /\ \A c \in DOMAIN tables[t] : IsColumn(tables[t][c], {"yes", "no"})
  BY <1>3, <1>4
<1>6. IsServer([enums |-> enums, tables |-> tables])
  BY <1>2, <1>3, <1>5 DEF IsServer
<1>7. ASSUME Uses(theirs, s.target) = {} PROVE tables = theirs.tables
  <2>1. \A t \in DOMAIN tables : tables[t] = theirs.tables[t]
    BY <1>3, <1>4, <1>7
  <2> QED
    BY <2>1, <1>3, ServerTables DEF IsFunction
<1> QED
  BY <1>1, <1>6, <1>7 DEF enums

\* A statement about one column, of which the table is there.
LEMMA ColumnMigrated ==
    ASSUME NEW theirs, IsServer(theirs), NEW s, Recognised(s),
           s.kind \in {"add_column", "drop_column", "alter_column", "rename_column",
                       "set_column_nullability"},
           s.target \in DOMAIN theirs.tables,
           s.kind # "add_column" => s.name \in DOMAIN theirs.tables[s.target]
    PROVE  /\ IsServer(Migrated(theirs, s)) /\ Migrated(theirs, s).enums = theirs.enums
           /\ DOMAIN Migrated(theirs, s).tables = DOMAIN theirs.tables
           /\ \A t \in DOMAIN theirs.tables :
                  t # s.target => Migrated(theirs, s).tables[t] = theirs.tables[t]
           /\ Migrated(theirs, s).tables[s.target] = MigratedTable(theirs.tables[s.target], s)
<1> DEFINE old == theirs.tables[s.target]
           new == MigratedTable(old, s)
           tables == [theirs.tables EXCEPT ![s.target] = new]
<1>1. Migrated(theirs, s) = [theirs EXCEPT !.tables = tables]
  BY DEF Migrated, IsServer
<1>2. IsFunction(old) /\ \A c \in DOMAIN old : IsColumn(old[c], {"yes", "no"})
  BY ServerTables
<1>3. IsFunction(new) /\ \A c \in DOMAIN new : IsColumn(new[c], {"yes", "no"})
  <2>1. CASE s.kind = "add_column"
    <3>1. new = With(old, s.name, ServerColumn(s.column))
      BY <2>1 DEF MigratedTable
    <3>2. IsColumn(ServerColumn(s.column), {"yes", "no"})
      BY <2>1, DeclaredShape DEF Recognised
    <3> HIDE DEF new, old
    <3> QED
      BY <3>1, <3>2, <1>2, WithKey
  <2>2. CASE s.kind = "drop_column"
    <3>1. new = Without(old, {s.name})
      BY <2>2 DEF MigratedTable
    <3> HIDE DEF new, old
    <3> QED
      BY <3>1, <1>2, WithoutKeys
  <2>3. CASE s.kind = "rename_column"
    <3>1. new = Rekeyed(old, s.name, s.to)
      BY <2>3 DEF MigratedTable
    <3>2. s.name \in DOMAIN old
      BY <2>3
    <3> HIDE DEF new, old
    <3> QED
      BY <3>1, <3>2, <1>2, RenamedKey
  <2>4. ASSUME s.name \in DOMAIN old, NEW column, IsColumn(column, {"yes", "no"}),
               new = [old EXCEPT ![s.name] = column]
        PROVE  IsFunction(new) /\ \A c \in DOMAIN new : IsColumn(new[c], {"yes", "no"})
    <3> HIDE DEF new, old
    <3> QED
      BY <1>2, <2>4 DEF IsFunction
  <2>5. CASE s.kind = "alter_column"
    <3> DEFINE column == [type |-> s.type, nullable |-> old[s.name].nullable]
    <3>1. new = [old EXCEPT ![s.name].type = s.type] /\ s.name \in DOMAIN old
      BY <2>5 DEF MigratedTable
    <3> HIDE DEF new, old
    <3>2. old[s.name] = [type |-> old[s.name].type, nullable |-> old[s.name].nullable]
          /\ old[s.name].nullable \in {"yes", "no"}
      BY <3>1, <1>2 DEF IsColumn
    <3>3. IsColumn(column, {"yes", "no"})
      BY <3>1, <3>2 DEF IsColumn
    <3>4. [old[s.name] EXCEPT !.type = s.type] = column
      BY <3>2
    <3>5. new = [old EXCEPT ![s.name] = [old[s.name] EXCEPT !.type = s.type]]
      BY <3>1
    <3> HIDE DEF column
    <3> QED
      BY <2>4, <3>1, <3>3, <3>4, <3>5
  <2>6. CASE s.kind = "set_column_nullability"
    <3> DEFINE column == [type |-> old[s.name].type, nullable |-> s.nullable]
    <3>1. new = [old EXCEPT ![s.name].nullable = s.nullable] /\ s.name \in DOMAIN old
          /\ s.nullable \in {"yes", "no"}
      BY <2>6 DEF MigratedTable, Recognised
    <3> HIDE DEF new, old
    <3>2. old[s.name] = [type |-> old[s.name].type, nullable |-> old[s.name].nullable]
      BY <3>1, <1>2 DEF IsColumn
    <3>3. IsColumn(column, {"yes", "no"})
      BY <3>1, <3>2 DEF IsColumn
    <3>4. [old[s.name] EXCEPT !.nullable = s.nullable] = column
      BY <3>2
    <3>5. new = [old EXCEPT ![s.name] = [old[s.name] EXCEPT !.nullable = s.nullable]]
      BY <3>1
    <3> HIDE DEF column
    <3> QED
      BY <2>4, <3>1, <3>3, <3>4, <3>5
  <2> QED
    BY <2>1, <2>2, <2>3, <2>5, <2>6
<1> HIDE DEF new
<1>4. /\ IsFunction(tables) /\ DOMAIN tables = DOMAIN theirs.tables
      /\ tables[s.target] = new
      /\ \A t \in DOMAIN theirs.tables : t # s.target => tables[t] = theirs.tables[t]
  BY ServerTables DEF IsFunction
<1> HIDE DEF tables
<1>5. \A t \in DOMAIN tables :
          /\ IsFunction(tables[t])
          /\ \A c \in DOMAIN tables[t] : IsColumn(tables[t][c], {"yes", "no"})
  BY <1>3, <1>4, ServerTables
<1> QED
  BY <1>1, <1>4, <1>5, TablesShape DEF new

-----------------------------------------------------------------------------
(* The two schemas agree after every statement that both take. *)

Both(mine, theirs, s) ==
    /\ IsReplay(mine) /\ IsServer(theirs) /\ Recognised(s) /\ Agrees(mine, theirs)
    /\ Applies(theirs, s) /\ Allowed(theirs, s) /\ NoLimit(mine, s)

After(mine, theirs, s) ==
    /\ Agrees(Replayed(mine, s), Migrated(theirs, s))
    /\ \A t \in legacy : Migrated(theirs, s).tables[t] = theirs.tables[t]

\* A table that neither side touched.
LEMMA UntouchedAgrees ==
    ASSUME NEW mine, NEW theirs, NEW new, NEW after, NEW t, TableAgrees(mine, theirs, t),
           after.tables[t] = theirs.tables[t],
           \A c : <<t, c>> \in DOMAIN mine.columns =>
                      /\ <<t, c>> \in DOMAIN new.columns
                      /\ new.columns[<<t, c>>] = mine.columns[<<t, c>>],
           \A k \in DOMAIN new.columns : k[1] = t => k \in DOMAIN mine.columns
    PROVE  TableAgrees(new, after, t)
BY DEF TableAgrees

LEMMA CreateTableAgrees ==
    ASSUME NEW mine, NEW theirs, NEW s, Both(mine, theirs, s), s.kind = "create_table"
    PROVE  After(mine, theirs, s)
<1> DEFINE new == Replayed(mine, s)
           after == Migrated(theirs, s)
<1>1. /\ IsReplay(mine) /\ IsServer(theirs) /\ Recognised(s) /\ Agrees(mine, theirs)
      /\ s.target \notin DOMAIN theirs.tables
  BY DEF Both, Applies
<1>2. /\ new.tables = mine.tables \cup {s.target} /\ new.enums = mine.enums
      /\ DOMAIN new.columns
             = DOMAIN mine.columns \cup {<<s.target, c>> : c \in DOMAIN s.columns}
      /\ \A c \in DOMAIN s.columns : new.columns[<<s.target, c>>] = ColumnShape(s.columns[c])
      /\ \A k \in DOMAIN mine.columns : k[1] # s.target => new.columns[k] = mine.columns[k]
  BY <1>1, CreateTableReplayed
<1>3. /\ after.enums = theirs.enums
      /\ \A t : t \in DOMAIN after.tables <=> t \in DOMAIN theirs.tables \/ t = s.target
      /\ \A t \in DOMAIN theirs.tables : t # s.target => after.tables[t] = theirs.tables[t]
      /\ DOMAIN after.tables[s.target] = DOMAIN s.columns
      /\ \A c \in DOMAIN s.columns : after.tables[s.target][c] = ServerColumn(s.columns[c])
  BY <1>1, CreateTableMigrated
<1> HIDE DEF new, after
<1>4. s.target \notin legacy /\ s.target \notin mine.tables
  BY <1>1 DEF Agrees
<1>5. \A k \in DOMAIN mine.columns : k[1] \in mine.tables /\ k[1] # s.target
  BY <1>1, <1>4 DEF Agrees
<1>6. \A k \in DOMAIN new.columns :
          \/ k \in DOMAIN mine.columns
          \/ \E c \in DOMAIN s.columns : k = <<s.target, c>>
  BY <1>2
<1>7. ASSUME NEW t \in new.tables PROVE TableAgrees(new, after, t)
  <2>1. CASE t = s.target
    <3>1. ASSUME NEW c \in DOMAIN s.columns
          PROVE  /\ <<t, c>> \in DOMAIN new.columns
                 /\ Matches(new.columns[<<t, c>>], after.tables[t][c])
      <4>1. Declared(s.columns[c])
        BY <1>1 DEF Recognised
      <4>2. Matches(ColumnShape(s.columns[c]), ServerColumn(s.columns[c]))
        BY <4>1, DeclaredShape DEF Matches
      <4> QED
        BY <4>2, <2>1, <1>2, <1>3
    <3>2. ASSUME NEW k \in DOMAIN new.columns, k[1] = t PROVE k[2] \in DOMAIN s.columns
      BY <3>2, <2>1, <1>5, <1>6
    <3> QED
      BY <3>1, <3>2, <2>1, <1>3 DEF TableAgrees
  <2>2. CASE t # s.target
    <3>1. t \in mine.tables /\ t \in DOMAIN theirs.tables /\ TableAgrees(mine, theirs, t)
      BY <2>2, <1>1, <1>2 DEF Agrees
    <3>2. \A c : <<t, c>> \in DOMAIN mine.columns =>
                     /\ <<t, c>> \in DOMAIN new.columns
                     /\ new.columns[<<t, c>>] = mine.columns[<<t, c>>]
      BY <2>2, <1>2
    <3>3. \A k \in DOMAIN new.columns : k[1] = t => k \in DOMAIN mine.columns
      BY <2>2, <1>6
    <3> QED
      BY <3>1, <3>2, <3>3, <2>2, <1>3, UntouchedAgrees
  <2> QED
    BY <2>1, <2>2
<1>8. Agrees(new, after)
  <2>1. legacy \subseteq DOMAIN after.tables /\ new.enums = after.enums
    BY <1>1, <1>2, <1>3 DEF Agrees
  <2>2. \A t : t \in new.tables <=> t \in DOMAIN after.tables /\ t \notin legacy
    BY <1>1, <1>2, <1>3, <1>4 DEF Agrees
  <2>3. \A k \in DOMAIN new.columns : k[1] \in new.tables
    BY <1>2, <1>5, <1>6
  <2> QED
    BY <2>1, <2>2, <2>3, <1>7 DEF Agrees
<1>9. \A t \in legacy : after.tables[t] = theirs.tables[t]
  BY <1>1, <1>3, <1>4 DEF Agrees
<1> QED
  BY <1>8, <1>9 DEF After, new, after

LEMMA DropTableAgrees ==
    ASSUME NEW mine, NEW theirs, NEW s, Both(mine, theirs, s), s.kind = "drop_table"
    PROVE  After(mine, theirs, s)
<1> DEFINE new == Replayed(mine, s)
           after == Migrated(theirs, s)
<1>1. IsReplay(mine) /\ IsServer(theirs) /\ Agrees(mine, theirs) /\ NoLimit(mine, s)
  BY DEF Both
<1>2. /\ new.tables = mine.tables \ {s.target} /\ new.enums = mine.enums
      /\ s.target \in mine.tables
      /\ \A k : k \in DOMAIN new.columns <=> k \in DOMAIN mine.columns /\ k[1] # s.target
      /\ \A k \in DOMAIN new.columns : new.columns[k] = mine.columns[k]
  BY <1>1, DropTableReplayed
<1>3. /\ after.enums = theirs.enums
      /\ \A t : t \in DOMAIN after.tables <=> t \in DOMAIN theirs.tables /\ t # s.target
      /\ \A t \in DOMAIN theirs.tables : t # s.target => after.tables[t] = theirs.tables[t]
  BY <1>1, DropTableMigrated
<1> HIDE DEF new, after
<1>4. s.target \notin legacy
  BY <1>1, <1>2 DEF Agrees
<1>5. ASSUME NEW t \in new.tables PROVE TableAgrees(new, after, t)
  <2>1. t # s.target /\ t \in mine.tables /\ t \in DOMAIN theirs.tables
        /\ TableAgrees(mine, theirs, t)
    BY <1>1, <1>2 DEF Agrees
  <2>2. \A c : <<t, c>> \in DOMAIN mine.columns =>
                   /\ <<t, c>> \in DOMAIN new.columns
                   /\ new.columns[<<t, c>>] = mine.columns[<<t, c>>]
    BY <2>1, <1>2
  <2> QED
    BY <2>1, <2>2, <1>2, <1>3, UntouchedAgrees
<1>6. Agrees(new, after)
  <2>1. legacy \subseteq DOMAIN after.tables /\ new.enums = after.enums
    BY <1>1, <1>2, <1>3, <1>4 DEF Agrees
  <2>2. \A t : t \in new.tables <=> t \in DOMAIN after.tables /\ t \notin legacy
    BY <1>1, <1>2, <1>3 DEF Agrees
  <2>3. \A k \in DOMAIN new.columns : k[1] \in new.tables
    BY <1>1, <1>2 DEF Agrees
  <2> QED
    BY <2>1, <2>2, <2>3, <1>5 DEF Agrees
<1>7. \A t \in legacy : after.tables[t] = theirs.tables[t]
  BY <1>1, <1>3, <1>4 DEF Agrees
<1> QED
  BY <1>6, <1>7 DEF After, new, after

LEMMA RenameTableAgrees ==
    ASSUME NEW mine, NEW theirs, NEW s, Both(mine, theirs, s), s.kind = "rename_table"
    PROVE  After(mine, theirs, s)
<1> DEFINE new == Replayed(mine, s)
           after == Migrated(theirs, s)
           moved == ColumnsOf(mine, s.target)
<1>1. /\ IsReplay(mine) /\ IsServer(theirs) /\ Agrees(mine, theirs) /\ NoLimit(mine, s)
      /\ s.target \in DOMAIN theirs.tables /\ s.to \notin DOMAIN theirs.tables
  BY DEF Both, Applies, Allowed
<1>2. /\ s.target \in mine.tables
      /\ new.tables = (mine.tables \ {s.target}) \cup {s.to} /\ new.enums = mine.enums
      /\ DOMAIN new.columns = {k \in DOMAIN mine.columns : k[1] # s.target}
                              \cup {<<s.to, k[2]>> : k \in moved}
      /\ \A k \in moved : new.columns[<<s.to, k[2]>>] = mine.columns[k]
      /\ \A k \in DOMAIN mine.columns :
             k[1] \notin {s.target, s.to} => new.columns[k] = mine.columns[k]
  BY <1>1, RenameTableReplayed
<1>3. /\ after.enums = theirs.enums
      /\ \A t : t \in DOMAIN after.tables
                   <=> (t \in DOMAIN theirs.tables /\ t # s.target) \/ t = s.to
      /\ after.tables[s.to] = theirs.tables[s.target]
      /\ \A t \in DOMAIN theirs.tables :
             t # s.target /\ t # s.to => after.tables[t] = theirs.tables[t]
  BY <1>1, RenameTableMigrated
<1>4. \A k : k \in moved <=> k \in DOMAIN mine.columns /\ k[1] = s.target
  BY DEF ColumnsOf
<1> HIDE DEF new, after, moved
<1>5. s.target \notin legacy /\ s.to \notin legacy /\ s.to \notin mine.tables /\ s.to # s.target
  BY <1>1, <1>2 DEF Agrees
<1>6. \A k \in DOMAIN mine.columns : k[1] \in mine.tables /\ k[1] # s.to
  BY <1>1, <1>5 DEF Agrees
<1>7. \A k : k \in DOMAIN new.columns
                 <=> \/ k \in DOMAIN mine.columns /\ k[1] # s.target
                     \/ \E x \in moved : k = <<s.to, x[2]>>
  BY <1>2
<1>8. ASSUME NEW t \in new.tables PROVE TableAgrees(new, after, t)
  <2>1. CASE t = s.to
    <3>1. TableAgrees(mine, theirs, s.target)
      BY <1>1, <1>2 DEF Agrees
    <3>2. ASSUME NEW c \in DOMAIN after.tables[t]
          PROVE  /\ <<t, c>> \in DOMAIN new.columns
                 /\ Matches(new.columns[<<t, c>>], after.tables[t][c])
      <4> DEFINE k == <<s.target, c>>
      <4>1. k \in DOMAIN mine.columns /\ Matches(mine.columns[k], theirs.tables[s.target][c])
        BY <3>1, <2>1, <1>3 DEF TableAgrees
      <4>2. k \in moved /\ k[2] = c
        BY <4>1, <1>4
      <4> HIDE DEF k
      <4>3. <<t, c>> \in DOMAIN new.columns /\ new.columns[<<t, c>>] = mine.columns[k]
        BY <4>2, <2>1, <1>2, <1>7
      <4> QED
        BY <4>1, <4>3, <2>1, <1>3
    <3>3. ASSUME NEW k \in DOMAIN new.columns, k[1] = t PROVE k[2] \in DOMAIN after.tables[t]
      <4>1. PICK x \in moved : k = <<s.to, x[2]>>
        BY <3>3, <2>1, <1>6, <1>7
      <4>2. x[2] \in DOMAIN theirs.tables[s.target]
        BY <3>1, <1>4 DEF TableAgrees
      <4> QED
        BY <4>1, <4>2, <2>1, <1>3
    <3> QED
      BY <3>2, <3>3 DEF TableAgrees
  <2>2. CASE t # s.to
    <3>1. t # s.target /\ t \in mine.tables /\ t \in DOMAIN theirs.tables
          /\ TableAgrees(mine, theirs, t)
      BY <2>2, <1>1, <1>2 DEF Agrees
    <3>2. \A c : <<t, c>> \in DOMAIN mine.columns =>
                     /\ <<t, c>> \in DOMAIN new.columns
                     /\ new.columns[<<t, c>>] = mine.columns[<<t, c>>]
      BY <2>2, <3>1, <1>2, <1>7
    <3>3. \A k \in DOMAIN new.columns : k[1] = t => k \in DOMAIN mine.columns
      BY <2>2, <1>7
    <3> QED
      BY <3>1, <3>2, <3>3, <2>2, <1>3, UntouchedAgrees
  <2> QED
    BY <2>1, <2>2
<1>9. Agrees(new, after)
  <2>1. legacy \subseteq DOMAIN after.tables /\ new.enums = after.enums
    BY <1>1, <1>2, <1>3, <1>5 DEF Agrees
  <2>2. \A t : t \in new.tables <=> t \in DOMAIN after.tables /\ t \notin legacy
    BY <1>1, <1>2, <1>3, <1>5 DEF Agrees
  <2>3. \A k \in DOMAIN new.columns : k[1] \in new.tables
    BY <1>2, <1>6, <1>7
  <2> QED
    BY <2>1, <2>2, <2>3, <1>8 DEF Agrees
<1>10. \A t \in legacy : after.tables[t] = theirs.tables[t]
  BY <1>1, <1>3, <1>5 DEF Agrees
<1> QED
  BY <1>9, <1>10 DEF After, new, after

LEMMA OneTableAgrees ==
    ASSUME NEW mine, NEW theirs, NEW new, NEW after, NEW t0 \in mine.tables,
           Agrees(mine, theirs), new.tables = mine.tables, new.enums = mine.enums,
           after.enums = theirs.enums, DOMAIN after.tables = DOMAIN theirs.tables,
           \A t \in DOMAIN theirs.tables : t # t0 => after.tables[t] = theirs.tables[t],
           \A k \in DOMAIN mine.columns :
               k[1] # t0 => k \in DOMAIN new.columns /\ new.columns[k] = mine.columns[k],
           \A k \in DOMAIN new.columns : k[1] # t0 => k \in DOMAIN mine.columns,
           TableAgrees(new, after, t0)
    PROVE  Agrees(new, after) /\ \A t \in legacy : after.tables[t] = theirs.tables[t]
<1>1. ASSUME NEW t \in mine.tables, t # t0 PROVE TableAgrees(new, after, t)
  <2>1. TableAgrees(mine, theirs, t) /\ t \in DOMAIN theirs.tables
    BY DEF Agrees
  <2>2. \A c : <<t, c>> \in DOMAIN mine.columns =>
                   /\ <<t, c>> \in DOMAIN new.columns
                   /\ new.columns[<<t, c>>] = mine.columns[<<t, c>>]
    BY <1>1
  <2>3. \A k \in DOMAIN new.columns : k[1] = t => k \in DOMAIN mine.columns
    BY <1>1
  <2> QED
    BY <2>1, <2>2, <2>3, <1>1, UntouchedAgrees
<1>2. t0 \notin legacy
  BY DEF Agrees
<1>3. \A k \in DOMAIN new.columns : k[1] \in new.tables
  BY DEF Agrees
<1> QED
  BY <1>1, <1>2, <1>3 DEF Agrees

\* What both sides take of a statement about a column that is there.
LEMMA ColumnIsThere ==
    ASSUME NEW mine, NEW theirs, NEW s, Both(mine, theirs, s),
           s.kind \in {"alter_column", "drop_column", "rename_column", "set_column_nullability"}
    PROVE  /\ Key(s) \in DOMAIN mine.columns /\ s.target \in mine.tables
           /\ s.target \in DOMAIN theirs.tables /\ s.name \in DOMAIN theirs.tables[s.target]
           /\ TableAgrees(mine, theirs, s.target)
<1>1. IsReplay(mine) /\ Recognised(s) /\ Agrees(mine, theirs) /\ NoLimit(mine, s)
  BY DEF Both
<1>2. Key(s) \in DOMAIN mine.columns
  BY <1>1, ChangeColumnReplayed
<1>3. Key(s)[1] = s.target /\ Key(s)[2] = s.name
  BY DEF Key
<1>4. s.target \in mine.tables
  BY <1>1, <1>2, <1>3 DEF Agrees
<1> QED
  BY <1>1, <1>2, <1>3, <1>4 DEF Agrees, TableAgrees

\* A replay that keeps the other tables' columns, and agrees on this one.
LEMMA ColumnAgrees ==
    ASSUME NEW mine, NEW theirs, NEW s, Both(mine, theirs, s), NEW columns,
           s.kind \in {"add_column", "alter_column", "drop_column", "rename_column",
                       "set_column_nullability"},
           s.target \in mine.tables, s.target \in DOMAIN theirs.tables,
           s.kind # "add_column" => s.name \in DOMAIN theirs.tables[s.target],
           ColumnsOnly(mine, s, columns),
           \A k \in DOMAIN mine.columns :
               k[1] # s.target => k \in DOMAIN columns /\ columns[k] = mine.columns[k],
           \A k \in DOMAIN columns : k[1] # s.target => k \in DOMAIN mine.columns,
           \A c \in DOMAIN MigratedTable(theirs.tables[s.target], s) :
               /\ <<s.target, c>> \in DOMAIN columns
               /\ Matches(columns[<<s.target, c>>], MigratedTable(theirs.tables[s.target], s)[c]),
           \A k \in DOMAIN columns :
               k[1] = s.target => k[2] \in DOMAIN MigratedTable(theirs.tables[s.target], s)
    PROVE  After(mine, theirs, s)
<1> DEFINE new == Replayed(mine, s)
           after == Migrated(theirs, s)
<1>1. IsServer(theirs) /\ Recognised(s) /\ Agrees(mine, theirs)
  BY DEF Both
<1>2. new.tables = mine.tables /\ new.enums = mine.enums /\ new.columns = columns
  BY DEF ColumnsOnly
<1>3. /\ after.enums = theirs.enums /\ DOMAIN after.tables = DOMAIN theirs.tables
      /\ \A t \in DOMAIN theirs.tables : t # s.target => after.tables[t] = theirs.tables[t]
      /\ after.tables[s.target] = MigratedTable(theirs.tables[s.target], s)
  BY <1>1, ColumnMigrated
<1> HIDE DEF new, after
<1>4. TableAgrees(new, after, s.target)
  BY <1>2, <1>3 DEF TableAgrees
<1>5. Agrees(new, after) /\ \A t \in legacy : after.tables[t] = theirs.tables[t]
  BY <1>1, <1>2, <1>3, <1>4, OneTableAgrees
<1> QED
  BY <1>5 DEF After, new, after

LEMMA AddColumnAgrees ==
    ASSUME NEW mine, NEW theirs, NEW s, Both(mine, theirs, s), s.kind = "add_column"
    PROVE  After(mine, theirs, s)
<1> DEFINE key == <<s.target, s.name>>
           columns == With(mine.columns, key, ColumnShape(s.column))
           old == theirs.tables[s.target]
           new == MigratedTable(old, s)
<1>1. /\ IsReplay(mine) /\ Recognised(s) /\ Agrees(mine, theirs) /\ NoLimit(mine, s)
      /\ s.target \in DOMAIN theirs.tables
  BY DEF Both, Allowed
<1>2. s.target \in mine.tables /\ ColumnsOnly(mine, s, columns)
  BY <1>1, AddColumnReplayed
<1>3. TableAgrees(mine, theirs, s.target)
  BY <1>1, <1>2 DEF Agrees
<1>4. new = With(old, s.name, ServerColumn(s.column))
  BY DEF MigratedTable
<1>5. key[1] = s.target /\ key[2] = s.name /\ \A t, c : <<t, c>> = key <=> t = s.target /\ c = s.name
  OBVIOUS
<1>6. Matches(ColumnShape(s.column), ServerColumn(s.column))
  BY <1>1, DeclaredShape DEF Recognised, Matches
<1> HIDE DEF key, new, old
<1>7. /\ \A k : k \in DOMAIN columns <=> k \in DOMAIN mine.columns \/ k = key
      /\ columns[key] = ColumnShape(s.column)
      /\ \A k \in DOMAIN mine.columns : k # key => columns[k] = mine.columns[k]
  BY WithKey
<1>8. /\ \A c : c \in DOMAIN new <=> c \in DOMAIN old \/ c = s.name
      /\ new[s.name] = ServerColumn(s.column)
      /\ \A c \in DOMAIN old : c # s.name => new[c] = old[c]
  BY <1>4, WithKey
<1> HIDE DEF columns
<1>9. \A k \in DOMAIN mine.columns :
          k[1] # s.target => k \in DOMAIN columns /\ columns[k] = mine.columns[k]
  BY <1>5, <1>7
<1>10. \A k \in DOMAIN columns : k[1] # s.target => k \in DOMAIN mine.columns
  BY <1>5, <1>7
<1>11. ASSUME NEW c \in DOMAIN new
       PROVE  <<s.target, c>> \in DOMAIN columns /\ Matches(columns[<<s.target, c>>], new[c])
  <2>1. CASE c = s.name
    BY <2>1, <1>5, <1>6, <1>7, <1>8
  <2>2. CASE c # s.name
    <3>1. c \in DOMAIN old /\ new[c] = old[c]
      BY <2>2, <1>8
    <3>2. <<s.target, c>> \in DOMAIN mine.columns /\ Matches(mine.columns[<<s.target, c>>], old[c])
      BY <3>1, <1>3 DEF TableAgrees, old
    <3> QED
      BY <2>2, <3>1, <3>2, <1>5, <1>7
  <2> QED
    BY <2>1, <2>2
<1>12. ASSUME NEW k \in DOMAIN columns, k[1] = s.target PROVE k[2] \in DOMAIN new
  BY <1>12, <1>3, <1>5, <1>7, <1>8 DEF TableAgrees, old
<1> QED
  BY <1>1, <1>2, <1>9, <1>10, <1>11, <1>12, ColumnAgrees DEF new, old

\* ALTER COLUMN TYPE, or SET and DROP NOT NULL.
LEMMA ReshapeAgrees ==
    ASSUME NEW mine, NEW theirs, NEW s, Both(mine, theirs, s),
           s.kind \in {"alter_column", "set_column_nullability"}
    PROVE  After(mine, theirs, s)
<1> DEFINE key == Key(s)
           was == mine.columns[key]
           shape == theirs.tables[s.target][s.name]
           old == theirs.tables[s.target]
           new == MigratedTable(old, s)
<1>1. /\ IsReplay(mine) /\ IsServer(theirs) /\ Recognised(s) /\ NoLimit(mine, s)
  BY DEF Both
<1>2. /\ key \in DOMAIN mine.columns /\ s.target \in mine.tables
      /\ s.target \in DOMAIN theirs.tables /\ s.name \in DOMAIN old
      /\ TableAgrees(mine, theirs, s.target)
  BY ColumnIsThere
<1>3. key[1] = s.target /\ key[2] = s.name /\ \A t, c : <<t, c>> = key <=> t = s.target /\ c = s.name
  BY DEF Key
<1>4. /\ was = [type |-> was.type, nullable |-> was.nullable]
      /\ shape = [type |-> shape.type, nullable |-> shape.nullable]
      /\ shape = old[s.name] /\ Matches(was, shape)
  <2>1. IsColumn(was, {"yes", "no", "unknown"}) /\ IsColumn(shape, {"yes", "no"})
    BY <1>1, <1>2 DEF IsReplay, IsServer
  <2>2. Matches(mine.columns[<<s.target, s.name>>], shape)
    BY <1>2 DEF TableAgrees
  <2> QED
    BY <2>1, <2>2 DEF IsColumn, Key
<1> HIDE DEF key, was, shape
<1>5. ASSUME NEW columns, NEW column, NEW served, Matches(column, served),
             ColumnsOnly(mine, s, columns),
             columns = [mine.columns EXCEPT ![key] = column],
             new = [old EXCEPT ![s.name] = served]
      PROVE  After(mine, theirs, s)
  <2>1. /\ DOMAIN columns = DOMAIN mine.columns /\ columns[key] = column
        /\ \A k \in DOMAIN mine.columns : k # key => columns[k] = mine.columns[k]
    BY <1>2, <1>5
  <2>2. /\ DOMAIN new = DOMAIN old /\ new[s.name] = served
        /\ \A c \in DOMAIN old : c # s.name => new[c] = old[c]
    <3> HIDE DEF old, new
    <3> QED
      BY <1>2, <1>5
  <2> HIDE DEF new
  <2>3. \A k \in DOMAIN mine.columns :
            k[1] # s.target => k \in DOMAIN columns /\ columns[k] = mine.columns[k]
    BY <2>1, <1>3
  <2>4. ASSUME NEW c \in DOMAIN new
        PROVE  <<s.target, c>> \in DOMAIN columns /\ Matches(columns[<<s.target, c>>], new[c])
    <3>1. CASE c = s.name
      BY <3>1, <2>1, <2>2, <1>2, <1>3, <1>5
    <3>2. CASE c # s.name
      <4>1. <<s.target, c>> \in DOMAIN mine.columns
            /\ Matches(mine.columns[<<s.target, c>>], old[c])
        BY <2>2, <1>2 DEF TableAgrees
      <4> HIDE DEF old
      <4> QED
        BY <4>1, <3>2, <2>1, <2>2, <1>3
    <3> QED
      BY <3>1, <3>2
  <2>5. ASSUME NEW k \in DOMAIN columns, k[1] = s.target PROVE k[2] \in DOMAIN new
    BY <2>5, <2>1, <2>2, <1>2 DEF TableAgrees
  <2> QED
    BY <1>2, <1>5, <2>1, <2>3, <2>4, <2>5, ColumnAgrees DEF new
<1>6. CASE s.kind = "alter_column"
  <2> DEFINE column == [type |-> s.type, nullable |-> was.nullable]
             served == [type |-> s.type, nullable |-> shape.nullable]
             columns == [mine.columns EXCEPT ![key].type = s.type]
  <2>1. ColumnsOnly(mine, s, columns)
    BY <1>1, <1>6, ChangeColumnReplayed DEF key
  <2>2. Matches(column, served)
    BY <1>4 DEF Matches
  <2>3. columns = [mine.columns EXCEPT ![key] = column]
    <3>1. [was EXCEPT !.type = s.type] = column
      BY <1>4
    <3>2. columns = [mine.columns EXCEPT ![key] = [was EXCEPT !.type = s.type]]
      BY DEF was
    <3> QED
      BY <3>1, <3>2
  <2>4. new = [old EXCEPT ![s.name] = served]
    <3>1. [shape EXCEPT !.type = s.type] = served
      BY <1>4
    <3>2. new = [old EXCEPT ![s.name].type = s.type]
      BY <1>6 DEF MigratedTable
    <3> HIDE DEF new, old, served
    <3>3. new = [old EXCEPT ![s.name] = [shape EXCEPT !.type = s.type]]
      BY <3>2, <1>4
    <3> QED
      BY <3>1, <3>3
  <2> HIDE DEF column, served, columns, new, old
  <2> QED
    BY <1>5, <2>1, <2>2, <2>3, <2>4
<1>7. CASE s.kind = "set_column_nullability"
  <2> DEFINE column == [type |-> was.type, nullable |-> s.nullable]
             served == [type |-> shape.type, nullable |-> s.nullable]
             columns == [mine.columns EXCEPT ![key].nullable = s.nullable]
  <2>1. ColumnsOnly(mine, s, columns)
    BY <1>1, <1>7, ChangeColumnReplayed DEF key
  <2>2. Matches(column, served)
    BY <1>4 DEF Matches
  <2>3. columns = [mine.columns EXCEPT ![key] = column]
    <3>1. [was EXCEPT !.nullable = s.nullable] = column
      BY <1>4
    <3>2. columns = [mine.columns EXCEPT ![key] = [was EXCEPT !.nullable = s.nullable]]
      BY DEF was
    <3> QED
      BY <3>1, <3>2
  <2>4. new = [old EXCEPT ![s.name] = served]
    <3>1. [shape EXCEPT !.nullable = s.nullable] = served
      BY <1>4
    <3>2. new = [old EXCEPT ![s.name].nullable = s.nullable]
      BY <1>7 DEF MigratedTable
    <3> HIDE DEF new, old, served
    <3>3. new = [old EXCEPT ![s.name] = [shape EXCEPT !.nullable = s.nullable]]
      BY <3>2, <1>4
    <3> QED
      BY <3>1, <3>3
  <2> HIDE DEF column, served, columns, new, old
  <2> QED
    BY <1>5, <2>1, <2>2, <2>3, <2>4
<1> QED
  BY <1>6, <1>7

LEMMA DropColumnAgrees ==
    ASSUME NEW mine, NEW theirs, NEW s, Both(mine, theirs, s), s.kind = "drop_column"
    PROVE  After(mine, theirs, s)
<1> DEFINE key == Key(s)
           columns == Without(mine.columns, {key})
           old == theirs.tables[s.target]
           new == MigratedTable(old, s)
<1>1. IsReplay(mine) /\ Recognised(s) /\ NoLimit(mine, s)
  BY DEF Both
<1>2. /\ s.target \in mine.tables /\ s.target \in DOMAIN theirs.tables /\ s.name \in DOMAIN old
      /\ TableAgrees(mine, theirs, s.target)
  BY ColumnIsThere
<1>3. /\ key[1] = s.target /\ key[2] = s.name
      /\ \A t, c : <<t, c>> = key <=> t = s.target /\ c = s.name
  BY DEF Key
<1>4. ColumnsOnly(mine, s, columns)
  BY <1>1, ChangeColumnReplayed
<1>5. new = Without(old, {s.name})
  BY DEF MigratedTable
<1> HIDE DEF key, new
<1>6. /\ \A k : k \in DOMAIN columns <=> k \in DOMAIN mine.columns /\ k # key
      /\ \A k \in DOMAIN mine.columns : k # key => columns[k] = mine.columns[k]
  BY WithoutKeys
<1>7. /\ \A c : c \in DOMAIN new <=> c \in DOMAIN old /\ c # s.name
      /\ \A c \in DOMAIN old : c # s.name => new[c] = old[c]
  <2> HIDE DEF old
  <2> QED
    BY <1>5, WithoutKeys
<1> HIDE DEF columns
<1>8. \A k \in DOMAIN mine.columns :
          k[1] # s.target => k \in DOMAIN columns /\ columns[k] = mine.columns[k]
  BY <1>3, <1>6
<1>9. ASSUME NEW c \in DOMAIN new
      PROVE  <<s.target, c>> \in DOMAIN columns /\ Matches(columns[<<s.target, c>>], new[c])
  <2>1. c \in DOMAIN old /\ c # s.name /\ new[c] = old[c]
    BY <1>7
  <2>2. <<s.target, c>> \in DOMAIN mine.columns /\ Matches(mine.columns[<<s.target, c>>], old[c])
    BY <2>1, <1>2 DEF TableAgrees
  <2> HIDE DEF old
  <2> QED
    BY <2>1, <2>2, <1>3, <1>6
<1>10. ASSUME NEW k \in DOMAIN columns, k[1] = s.target PROVE k[2] \in DOMAIN new
  <2>1. k \in DOMAIN mine.columns /\ k # key /\ k = <<k[1], k[2]>>
    BY <1>1, <1>6 DEF IsReplay
  <2>2. k[2] # s.name
    BY <2>1, <1>3, <1>10
  <2>3. k[2] \in DOMAIN old
    BY <2>1, <1>2, <1>10 DEF TableAgrees
  <2> HIDE DEF old
  <2> QED
    BY <2>2, <2>3, <1>7
<1> QED
  BY <1>2, <1>4, <1>6, <1>8, <1>9, <1>10, ColumnAgrees DEF new

LEMMA RenameColumnAgrees ==
    ASSUME NEW mine, NEW theirs, NEW s, Both(mine, theirs, s), s.kind = "rename_column"
    PROVE  After(mine, theirs, s)
<1> DEFINE key == Key(s)
           to == <<s.target, s.to>>
           columns == Rekeyed(mine.columns, key, to)
           old == theirs.tables[s.target]
           new == MigratedTable(old, s)
<1>1. IsReplay(mine) /\ Recognised(s) /\ NoLimit(mine, s)
  BY DEF Both
<1>2. /\ key \in DOMAIN mine.columns /\ s.target \in mine.tables
      /\ s.target \in DOMAIN theirs.tables /\ s.name \in DOMAIN old
      /\ TableAgrees(mine, theirs, s.target)
  BY ColumnIsThere
<1>3. /\ key[1] = s.target /\ key[2] = s.name
      /\ \A t, c : <<t, c>> = key <=> t = s.target /\ c = s.name
  BY DEF Key
<1>4. to[1] = s.target /\ to[2] = s.to /\ \A t, c : <<t, c>> = to <=> t = s.target /\ c = s.to
  OBVIOUS
<1>5. ColumnsOnly(mine, s, columns)
  BY <1>1, ChangeColumnReplayed
<1>6. new = Rekeyed(old, s.name, s.to)
  BY DEF MigratedTable
<1>7. Matches(mine.columns[key], old[s.name])
  BY <1>2 DEF TableAgrees, Key
<1> HIDE DEF key, to, new
<1>8. /\ \A k : k \in DOMAIN columns <=> (k \in DOMAIN mine.columns /\ k # key) \/ k = to
      /\ columns[to] = mine.columns[key]
      /\ \A k \in DOMAIN mine.columns : k # key /\ k # to => columns[k] = mine.columns[k]
  BY RenamedKey
<1>9. /\ \A c : c \in DOMAIN new <=> (c \in DOMAIN old /\ c # s.name) \/ c = s.to
      /\ new[s.to] = old[s.name]
      /\ \A c \in DOMAIN old : c # s.name /\ c # s.to => new[c] = old[c]
  <2> HIDE DEF old
  <2> QED
    BY <1>6, RenamedKey
<1> HIDE DEF columns
<1>10. \A k \in DOMAIN mine.columns :
           k[1] # s.target => k \in DOMAIN columns /\ columns[k] = mine.columns[k]
  BY <1>3, <1>4, <1>8
<1>11. \A k \in DOMAIN columns : k[1] # s.target => k \in DOMAIN mine.columns
  BY <1>4, <1>8
<1>12. ASSUME NEW c \in DOMAIN new
       PROVE  <<s.target, c>> \in DOMAIN columns /\ Matches(columns[<<s.target, c>>], new[c])
  <2>1. CASE c = s.to
    <3> HIDE DEF old
    <3> QED
      BY <2>1, <1>4, <1>7, <1>8, <1>9
  <2>2. CASE c # s.to
    <3>1. c \in DOMAIN old /\ c # s.name /\ new[c] = old[c]
      BY <2>2, <1>9
    <3>2. <<s.target, c>> \in DOMAIN mine.columns /\ Matches(mine.columns[<<s.target, c>>], old[c])
      BY <3>1, <1>2 DEF TableAgrees
    <3> HIDE DEF old
    <3> QED
      BY <2>2, <3>1, <3>2, <1>3, <1>4, <1>8
  <2> QED
    BY <2>1, <2>2
<1>13. ASSUME NEW k \in DOMAIN columns, k[1] = s.target PROVE k[2] \in DOMAIN new
  <2>1. CASE k = to
    BY <2>1, <1>4, <1>9
  <2>2. CASE k # to
    <3>1. k \in DOMAIN mine.columns /\ k # key /\ k = <<k[1], k[2]>>
      BY <2>2, <1>1, <1>8 DEF IsReplay
    <3>2. k[2] # s.name
      BY <3>1, <1>3, <1>13
    <3>3. k[2] \in DOMAIN old
      BY <3>1, <1>2, <1>13 DEF TableAgrees
    <3> HIDE DEF old
    <3> QED
      BY <3>2, <3>3, <1>9
  <2> QED
    BY <2>1, <2>2
<1> QED
  BY <1>2, <1>5, <1>10, <1>11, <1>12, <1>13, ColumnAgrees DEF new

\* Enums, of which a renamed one has no column: there the server changes tables.
LEMMA EnumAgrees ==
    ASSUME NEW mine, NEW theirs, NEW s, Both(mine, theirs, s),
           s.kind \in {"create_enum", "add_enum_value", "rename_enum", "drop_enum"},
           s.kind = "rename_enum" => Uses(theirs, s.target) = {}
    PROVE  After(mine, theirs, s) /\ Migrated(theirs, s).tables = theirs.tables
<1> DEFINE new == Replayed(mine, s)
           after == Migrated(theirs, s)
<1>1. /\ IsReplay(mine) /\ IsServer(theirs) /\ Recognised(s) /\ NoLimit(mine, s)
      /\ Agrees(mine, theirs)
  BY DEF Both
<1>2. mine.enums = theirs.enums
  BY <1>1 DEF Agrees
<1>3. /\ new.tables = mine.tables /\ new.columns = mine.columns
      /\ s.kind = "create_enum" => new.enums = With(mine.enums, s.target, s.values)
      /\ s.kind = "add_enum_value" =>
             new.enums = With(mine.enums, s.target, mine.enums[s.target] \cup {s.value})
      /\ s.kind = "rename_enum" => new.enums = Rekeyed(mine.enums, s.target, s.to)
      /\ s.kind = "drop_enum" => new.enums = Without(mine.enums, {s.target})
  BY <1>1, ChangeEnumReplayed
<1>4. CASE s.kind = "rename_enum"
  <2>1. after.tables = theirs.tables /\ after.enums = Rekeyed(theirs.enums, s.target, s.to)
    BY <1>1, <1>4, RenameEnumMigrated
  <2> HIDE DEF new, after
  <2>2. Agrees(new, after)
    BY <2>1, <1>1, <1>2, <1>3, <1>4 DEF Agrees, TableAgrees
  <2> QED
    BY <2>1, <2>2 DEF After, new, after
<1>5. CASE s.kind # "rename_enum"
  <2>1. /\ after.tables = theirs.tables
        /\ s.kind = "create_enum" => after.enums = With(theirs.enums, s.target, s.values)
        /\ s.kind = "add_enum_value" =>
               after.enums = With(theirs.enums, s.target, theirs.enums[s.target] \cup {s.value})
        /\ s.kind = "drop_enum" => after.enums = Without(theirs.enums, {s.target})
    BY <1>1, <1>5, EnumMigrated
  <2> HIDE DEF new, after
  <2>2. new.enums = after.enums
    BY <2>1, <1>2, <1>3, <1>5
  <2>3. Agrees(new, after)
    BY <2>1, <2>2, <1>1, <1>3 DEF Agrees, TableAgrees
  <2> QED
    BY <2>1, <2>3 DEF After, new, after
<1> QED
  BY <1>4, <1>5

\* Every statement that both sides take keeps them together.
LEMMA StatementAgrees ==
    ASSUME NEW mine, NEW theirs, NEW s, Both(mine, theirs, s),
           s.kind = "rename_enum" => Uses(theirs, s.target) = {}
    PROVE  After(mine, theirs, s)
BY CreateTableAgrees, DropTableAgrees, RenameTableAgrees, AddColumnAgrees, ReshapeAgrees,
   DropColumnAgrees, RenameColumnAgrees, EnumAgrees DEF Both, Recognised

-----------------------------------------------------------------------------
(* Every statement keeps the shapes, and the types that columns are of. *)

LEMMA ReplayedShape ==
    ASSUME NEW mine, IsReplay(mine), NEW s, Recognised(s)
    PROVE  IsReplay(Replayed(mine, s)) /\ mine.limitations \subseteq Replayed(mine, s).limitations
<1>1. CASE s.kind = "create_table"
  BY <1>1, CreateTableReplayed
<1>2. CASE s.kind = "drop_table"
  BY <1>2, DropTableReplayed
<1>3. CASE s.kind = "rename_table"
  BY <1>3, RenameTableReplayed
<1>4. CASE s.kind = "add_column"
  BY <1>4, AddColumnReplayed
<1>5. CASE s.kind \in {"alter_column", "drop_column", "rename_column", "set_column_nullability"}
  BY <1>5, ChangeColumnReplayed
<1>6. CASE s.kind \in {"create_enum", "add_enum_value", "rename_enum", "drop_enum"}
  BY <1>6, ChangeEnumReplayed
<1> QED
  BY <1>1, <1>2, <1>3, <1>4, <1>5, <1>6 DEF Recognised

LEMMA AppliesToColumn ==
    ASSUME NEW theirs, NEW s, Applies(theirs, s), Allowed(theirs, s),
           s.kind \in {"add_column", "drop_column", "alter_column", "rename_column",
                       "set_column_nullability"}
    PROVE  /\ s.target \in DOMAIN theirs.tables
           /\ s.kind # "add_column" => s.name \in DOMAIN theirs.tables[s.target]
<1>1. CASE s.kind = "add_column"
  BY <1>1 DEF Allowed
<1>2. CASE s.kind # "add_column"
  <2>1. s.name \in DOMAIN Table(theirs, s)
    BY <1>2 DEF Applies
  <2> QED
    BY <1>2, <2>1 DEF Table
<1> QED
  BY <1>1, <1>2

LEMMA MigratedShape ==
    ASSUME NEW theirs, IsServer(theirs), NEW s, Recognised(s), Applies(theirs, s),
           Allowed(theirs, s)
    PROVE  IsServer(Migrated(theirs, s))
<1>1. CASE s.kind = "rename_table"
  <2>1. s.target \in DOMAIN theirs.tables
    BY <1>1 DEF Applies
  <2> QED
    BY <1>1, <2>1, RenameTableMigrated
<1>2. CASE s.kind \in {"add_column", "drop_column", "alter_column", "rename_column",
                       "set_column_nullability"}
  BY <1>2, AppliesToColumn, ColumnMigrated
<1>3. CASE s.kind = "create_table"
  BY <1>3, CreateTableMigrated
<1>4. CASE s.kind = "drop_table"
  BY <1>4, DropTableMigrated
<1>5. CASE s.kind \in {"create_enum", "add_enum_value", "drop_enum"}
  <2> DEFINE after == Migrated(theirs, s)
  <2>1. /\ IsServer(after) /\ after.tables = theirs.tables
        /\ s.kind = "create_enum" => after.enums = With(theirs.enums, s.target, s.values)
        /\ s.kind = "add_enum_value" =>
               after.enums = With(theirs.enums, s.target, theirs.enums[s.target] \cup {s.value})
        /\ s.kind = "drop_enum" => after.enums = Without(theirs.enums, {s.target})
    BY <1>5, EnumMigrated, SMTT(30)
  <2> QED
    BY <2>1
<1>6. CASE s.kind = "rename_enum"
  BY <1>6, RenameEnumMigrated
<1> QED
  BY <1>1, <1>2, <1>3, <1>4, <1>5, <1>6 DEF Recognised

\* The types of the columns of one table.
TypesOf(columns, schema) == \A c \in DOMAIN columns : TypeExists(schema, columns[c].type)

LEMMA ColumnTypesKept ==
    ASSUME NEW theirs, NEW s, NEW columns, TypesOf(columns, theirs), Recognised(s),
           \A c \in DOMAIN columns : IsColumn(columns[c], {"yes", "no"}),
           Allowed(theirs, s), s.kind # "add_column" => s.name \in DOMAIN columns,
           s.kind \in {"add_column", "drop_column", "alter_column", "rename_column",
                       "set_column_nullability"}
    PROVE  TypesOf(MigratedTable(columns, s), theirs)
<1> DEFINE new == MigratedTable(columns, s)
           shape == columns[s.name]
<1>1. CASE s.kind = "add_column"
  <2>1. new = With(columns, s.name, ServerColumn(s.column))
    BY <1>1 DEF MigratedTable
  <2>2. TypeExists(theirs, ServerColumn(s.column).type)
    BY <1>1, DeclaredShape DEF Recognised, Allowed
  <2> QED
    BY <2>1, <2>2, WithKey DEF TypesOf
<1>2. CASE s.kind = "drop_column"
  <2>1. new = Without(columns, {s.name})
    BY <1>2 DEF MigratedTable
  <2> QED
    BY <2>1, WithoutKeys DEF TypesOf
<1>3. CASE s.kind = "rename_column"
  <2>1. new = Rekeyed(columns, s.name, s.to)
    BY <1>3 DEF MigratedTable
  <2> QED
    BY <1>3, <2>1, RenamedKey DEF TypesOf
<1>4. CASE s.kind = "alter_column"
  <2>1. new = [columns EXCEPT ![s.name].type = s.type]
    BY <1>4 DEF MigratedTable
  <2>2. shape = [type |-> shape.type, nullable |-> shape.nullable]
    BY <1>4 DEF IsColumn
  <2>3. TypeExists(theirs, s.type)
    BY <1>4 DEF Allowed
  <2>4. new[s.name] = [shape EXCEPT !.type = s.type]
    BY <1>4, <2>1
  <2> HIDE DEF shape
  <2>5. new[s.name].type = s.type
    BY <2>2, <2>4
  <2>6. /\ DOMAIN new = DOMAIN columns
        /\ \A c \in DOMAIN columns : c # s.name => new[c] = columns[c]
    BY <2>1
  <2> HIDE DEF new
  <2>7. TypesOf(new, theirs)
    BY <2>3, <2>5, <2>6 DEF TypesOf
  <2> QED
    BY <2>7 DEF new
<1>5. CASE s.kind = "set_column_nullability"
  <2>1. new = [columns EXCEPT ![s.name].nullable = s.nullable]
    BY <1>5 DEF MigratedTable
  <2>2. shape = [type |-> shape.type, nullable |-> shape.nullable]
    BY <1>5 DEF IsColumn
  <2>3. new[s.name] = [shape EXCEPT !.nullable = s.nullable]
    BY <1>5, <2>1
  <2>4. shape = columns[s.name]
    OBVIOUS
  <2> HIDE DEF shape
  <2>5. new[s.name].type = shape.type
    BY <2>2, <2>3
  <2>6. /\ DOMAIN new = DOMAIN columns
        /\ \A c \in DOMAIN columns : c # s.name => new[c] = columns[c]
    BY <2>1
  <2> HIDE DEF new
  <2>7. TypesOf(new, theirs)
    BY <1>5, <2>4, <2>5, <2>6 DEF TypesOf
  <2> QED
    BY <2>7 DEF new
<1> QED
  BY <1>1, <1>2, <1>3, <1>4, <1>5

LEMMA TypesKept ==
    ASSUME NEW theirs, IsServer(theirs), TypesExist(theirs), NEW s, Recognised(s),
           Applies(theirs, s), Allowed(theirs, s),
           s.kind = "rename_enum" => Uses(theirs, s.target) = {}
    PROVE  TypesExist(Migrated(theirs, s))
<1> DEFINE after == Migrated(theirs, s)
<1>1. \A t \in DOMAIN theirs.tables : TypesOf(theirs.tables[t], theirs)
  BY DEF TypesExist, TypesOf
<1>2. ASSUME after.enums = theirs.enums, \A t \in DOMAIN after.tables : TypesOf(after.tables[t], theirs)
      PROVE  TypesExist(Migrated(theirs, s))
  <2> HIDE DEF after
  <2>1. TypesExist(after)
    BY <1>2 DEF TypesExist, TypesOf, TypeExists
  <2> QED
    BY <2>1 DEF after
<1>3. CASE s.kind = "create_table"
  <2>1. /\ after.enums = theirs.enums
        /\ \A t : t \in DOMAIN after.tables <=> t \in DOMAIN theirs.tables \/ t = s.target
        /\ \A t \in DOMAIN theirs.tables : t # s.target => after.tables[t] = theirs.tables[t]
        /\ DOMAIN after.tables[s.target] = DOMAIN s.columns
        /\ \A c \in DOMAIN s.columns : after.tables[s.target][c] = ServerColumn(s.columns[c])
    BY <1>3, CreateTableMigrated
  <2>2. \A c \in DOMAIN s.columns : TypeExists(theirs, ServerColumn(s.columns[c]).type)
    BY <1>3, DeclaredShape DEF Recognised, Allowed
  <2> HIDE DEF after
  <2>3. TypesOf(after.tables[s.target], theirs)
    BY <2>1, <2>2 DEF TypesOf
  <2> QED
    BY <1>1, <1>2, <2>1, <2>3
<1>4. CASE s.kind = "drop_table"
  BY <1>1, <1>2, <1>4, DropTableMigrated
<1>5. CASE s.kind = "rename_table"
  <2>1. s.target \in DOMAIN theirs.tables
    BY <1>5 DEF Applies
  <2>2. /\ after.enums = theirs.enums
        /\ \A t : t \in DOMAIN after.tables
                     <=> (t \in DOMAIN theirs.tables /\ t # s.target) \/ t = s.to
        /\ after.tables[s.to] = theirs.tables[s.target]
        /\ \A t \in DOMAIN theirs.tables :
               t # s.target /\ t # s.to => after.tables[t] = theirs.tables[t]
    BY <1>5, <2>1, RenameTableMigrated
  <2> HIDE DEF after
  <2> QED
    BY <1>1, <1>2, <2>1, <2>2
<1>6. CASE s.kind \in {"add_column", "drop_column", "alter_column", "rename_column",
                       "set_column_nullability"}
  <2>1. /\ s.target \in DOMAIN theirs.tables
        /\ s.kind # "add_column" => s.name \in DOMAIN theirs.tables[s.target]
    BY <1>6, AppliesToColumn
  <2>2. /\ after.enums = theirs.enums /\ DOMAIN after.tables = DOMAIN theirs.tables
        /\ \A t \in DOMAIN theirs.tables : t # s.target => after.tables[t] = theirs.tables[t]
        /\ after.tables[s.target] = MigratedTable(theirs.tables[s.target], s)
    BY <1>6, <2>1, ColumnMigrated
  <2>3. \A c \in DOMAIN theirs.tables[s.target] : IsColumn(theirs.tables[s.target][c], {"yes", "no"})
    BY <2>1, ServerTables
  <2>4. TypesOf(MigratedTable(theirs.tables[s.target], s), theirs)
    BY <1>1, <1>6, <2>1, <2>3, ColumnTypesKept
  <2> HIDE DEF after
  <2> QED
    BY <1>1, <1>2, <2>1, <2>2, <2>4
<1>7. ASSUME after.tables = theirs.tables,
             \A e \in DOMAIN theirs.enums :
                 e \in DOMAIN after.enums \/ Uses(theirs, e) = {}
      PROVE  TypesExist(Migrated(theirs, s))
  <2> HIDE DEF after
  <2>1. TypesExist(after)
    BY <1>7 DEF TypesExist, TypeExists, Uses
  <2> QED
    BY <2>1 DEF after
<1>8. CASE s.kind \in {"create_enum", "add_enum_value", "drop_enum"}
  <2>1. /\ after.tables = theirs.tables
        /\ s.kind = "create_enum" => after.enums = With(theirs.enums, s.target, s.values)
        /\ s.kind = "add_enum_value" =>
               after.enums = With(theirs.enums, s.target, theirs.enums[s.target] \cup {s.value})
        /\ s.kind = "drop_enum" => after.enums = Without(theirs.enums, {s.target})
    BY <1>8, EnumMigrated
  <2>2. s.kind = "drop_enum" => Uses(theirs, s.target) = {}
    BY DEF Allowed
  <2> HIDE DEF after
  <2>3. \A e \in DOMAIN theirs.enums : e \in DOMAIN after.enums \/ Uses(theirs, e) = {}
    BY <1>8, <2>1, <2>2, WithKey, WithoutKeys
  <2> QED
    BY <1>7, <2>1, <2>3
<1>9. CASE s.kind = "rename_enum"
  <2>1. after.tables = theirs.tables /\ after.enums = Rekeyed(theirs.enums, s.target, s.to)
    BY <1>9, RenameEnumMigrated
  <2> HIDE DEF after
  <2>2. \A e \in DOMAIN theirs.enums : e \in DOMAIN after.enums \/ Uses(theirs, e) = {}
    BY <1>9, <2>1, RenamedKey
  <2> QED
    BY <1>7, <2>1, <2>2
<1> QED
  BY <1>3, <1>4, <1>5, <1>6, <1>8, <1>9 DEF Recognised

-----------------------------------------------------------------------------
(* The inductive invariant. *)

DBInv ==
    /\ IsReplay(replay) /\ IsReplay(released.replay)
    /\ IsServer(server) /\ IsServer(released.server)
    /\ released.replay.limitations \subseteq replay.limitations
    /\ drift = {} => TypesExist(server) /\ TypesExist(released.server)
    /\ drift = {} /\ replay.limitations = {} =>
           Agrees(replay, server) /\ Agrees(released.replay, released.server) /\ LegacyStays

LEMMA DBInit == ASSUME MigrationsInit PROVE DBInv
<1> USE DEF MigrationsInit
<1>1. /\ released.replay = replay /\ released.server = server
      /\ replay.limitations = {}
  OBVIOUS
<1>2. IsLegacy(server)
  BY DatabaseAssumption
<1>3. IsServer(server)
  <2>1. /\ server = [tables |-> server.tables, enums |-> server.enums]
        /\ server.enums = <<>>
    BY <1>2 DEF IsLegacy
  <2>2. /\ IsFunction(server.tables)
        /\ \A t \in DOMAIN server.tables :
               /\ IsFunction(server.tables[t])
               /\ \A c \in DOMAIN server.tables[t] : IsColumn(server.tables[t][c], {"yes", "no"})
    BY <1>2 DEF IsLegacy, IsColumn, IsFunction
  <2>3. IsFunction(server.enums)
    BY <2>1 DEF IsFunction
  <2> QED
    BY <2>1, <2>2, <2>3 DEF IsServer
<1>4. IsReplay(replay)
  BY DEF IsReplay, IsFunction
<1>5. TypesExist(server)
  BY <1>2 DEF IsLegacy, TypesExist, TypeExists
<1>6. Agrees(replay, server)
  <2>1. server.enums = <<>> /\ replay.enums = <<>>
    BY <1>2 DEF IsLegacy
  <2> QED
    BY <2>1 DEF Agrees
<1>7. LegacyStays
  BY <1>1, <1>2 DEF LegacyStays, IsLegacy
<1> QED
  BY <1>1, <1>3, <1>4, <1>5, <1>6, <1>7 DEF DBInv

LEMMA DBMigrate ==
    ASSUME DBInv, NEW s \in Statements, Migrate(s)
    PROVE  DBInv'
<1>1. Recognised(s)
  BY DatabaseAssumption
<1>2. /\ replay' = Replayed(replay, s) /\ released' = released /\ legacy' = legacy
  BY DEF Migrate, Replayed
<1>3. /\ IsReplay(replay') /\ replay.limitations \subseteq replay'.limitations
  BY <1>1, <1>2, ReplayedShape DEF DBInv
<1>4. released'.replay.limitations \subseteq replay'.limitations
  BY <1>2, <1>3 DEF DBInv
<1>5. CASE /\ ~Applies(server, s) /\ server' = server /\ drift' = drift \cup {"skipped"}
  BY <1>2, <1>3, <1>4, <1>5 DEF DBInv, IsServer
<1>6. CASE /\ Applies(server, s) /\ Allowed(server, s) /\ server' = Migrated(server, s)
           /\ drift' = drift \cup
                  {x \in {"retyped"} : s.kind = "rename_enum" /\ Uses(server, s.target) # {}}
  <2>1. IsServer(server')
    BY <1>1, <1>6, MigratedShape DEF DBInv
  <2>2. ASSUME drift' = {}
        PROVE  drift = {} /\ (s.kind = "rename_enum" => Uses(server, s.target) = {})
    BY <1>6, <2>2
  <2>3. ASSUME drift' = {} PROVE TypesExist(server') /\ TypesExist(released'.server)
    BY <1>1, <1>2, <1>6, <2>2, <2>3, TypesKept DEF DBInv
  <2>4. ASSUME drift' = {}, replay'.limitations = {}
        PROVE  /\ Agrees(replay, server)' /\ Agrees(released.replay, released.server)'
               /\ LegacyStays'
    <3>1. /\ drift = {} /\ replay.limitations = {}
          /\ s.kind = "rename_enum" => Uses(server, s.target) = {}
      BY <2>2, <2>4, <1>3
    <3>2. /\ Agrees(replay, server) /\ Agrees(released.replay, released.server) /\ LegacyStays
      BY <3>1 DEF DBInv
    <3>3. Both(replay, server, s)
      BY <1>1, <1>2, <1>6, <2>4, <3>2 DEF Both, DBInv, NoLimit
    <3>4. After(replay, server, s)
      BY <3>1, <3>3, StatementAgrees
    <3>5. Agrees(replay, server)'
      BY <1>2, <1>6, <3>4 DEF After, Agrees, TableAgrees
    <3>6. \A t \in legacy : server'.tables[t] = server.tables[t]
      BY <1>6, <3>4 DEF After
    <3>7. LegacyStays'
      BY <1>2, <3>2, <3>6 DEF LegacyStays
    <3> QED
      BY <1>2, <3>2, <3>5, <3>7 DEF Agrees, TableAgrees
  <2> QED
    BY <1>2, <1>3, <1>4, <2>1, <2>3, <2>4 DEF DBInv
<1> QED
  BY <1>5, <1>6 DEF Migrate

LEMMA DBRelease ==
    ASSUME DBInv, Release
    PROVE  DBInv'
<1>1. /\ released'.replay = replay /\ released'.server = server
      /\ UNCHANGED <<replay, server, legacy, drift>>
  BY DEF Release
<1>2. ASSUME LegacyStays PROVE LegacyStays'
  BY <1>1, <1>2 DEF LegacyStays
<1> QED
  BY <1>1, <1>2 DEF DBInv, Agrees, TableAgrees, TypesExist, TypeExists

LEMMA DBStutter ==
    ASSUME DBInv, UNCHANGED migrations
    PROVE  DBInv'
BY DEF DBInv, migrations, Agrees, TableAgrees, TypesExist, TypeExists, LegacyStays

LEMMA DBInvariant == MigrationsSpec => []DBInv
<1>1. MigrationsInit => DBInv
  BY DBInit
<1>2. DBInv /\ [MigrationsNext]_migrations => DBInv'
  BY DBMigrate, DBRelease, DBStutter DEF MigrationsNext
<1> QED
  BY <1>1, <1>2, PTL DEF MigrationsSpec

LEMMA ServerColumnsOf ==
    ASSUME NEW schema, NEW t, NEW c
    PROVE  <<t, c>> \in ServerColumns(schema)
               <=> t \in DOMAIN schema.tables /\ c \in DOMAIN schema.tables[t]
BY DEF ServerColumns

LEMMA ServerColumnsAre ==
    ASSUME NEW schema, NEW k \in ServerColumns(schema)
    PROVE  k = <<k[1], k[2]>> /\ k[1] \in DOMAIN schema.tables
           /\ k[2] \in DOMAIN schema.tables[k[1]]
BY DEF ServerColumns

\* A replay that agrees with the server has the columns of the tables that it made.
LEMMA AgreesOnColumns ==
    ASSUME NEW mine, NEW theirs, IsReplay(mine), Agrees(mine, theirs)
    PROVE  /\ \A k : k \in DOMAIN mine.columns <=> k \in ServerColumns(theirs) /\ k[1] \notin legacy
           /\ \A k \in DOMAIN mine.columns : Matches(mine.columns[k], At(theirs, k))
<1>1. ASSUME NEW k \in DOMAIN mine.columns
      PROVE  /\ k \in ServerColumns(theirs) /\ k[1] \notin legacy
             /\ Matches(mine.columns[k], At(theirs, k))
  <2>1. k = <<k[1], k[2]>>
    BY DEF IsReplay
  <2>2. k[1] \in DOMAIN theirs.tables /\ k[1] \notin legacy /\ TableAgrees(mine, theirs, k[1])
    BY DEF Agrees
  <2>3. k[2] \in DOMAIN theirs.tables[k[1]]
    BY <2>2 DEF TableAgrees
  <2>4. Matches(mine.columns[<<k[1], k[2]>>], theirs.tables[k[1]][k[2]])
    BY <2>2, <2>3 DEF TableAgrees
  <2>5. <<k[1], k[2]>> \in ServerColumns(theirs)
    BY <2>2, <2>3, ServerColumnsOf
  <2> QED
    BY <2>1, <2>2, <2>4, <2>5 DEF At
<1>2. ASSUME NEW k \in ServerColumns(theirs), k[1] \notin legacy
      PROVE  k \in DOMAIN mine.columns
  <2>1. k = <<k[1], k[2]>> /\ k[1] \in DOMAIN theirs.tables /\ k[2] \in DOMAIN theirs.tables[k[1]]
    BY ServerColumnsAre
  <2>2. TableAgrees(mine, theirs, k[1])
    BY <1>2, <2>1 DEF Agrees
  <2>3. <<k[1], k[2]>> \in DOMAIN mine.columns
    BY <2>1, <2>2 DEF TableAgrees
  <2> QED
    BY <2>1, <2>3
<1> QED
  BY <1>1, <1>2

LEMMA AgreesIsServer ==
    ASSUME DBInv
    PROVE  ReplayIsServer
<1> SUFFICES ASSUME replay.limitations = {}, drift = {}
             PROVE  /\ replay.tables = DOMAIN server.tables \ legacy
                    /\ DOMAIN replay.columns = {k \in ServerColumns(server) : k[1] \notin legacy}
                    /\ \A k \in DOMAIN replay.columns :
                           /\ replay.columns[k].type = At(server, k).type
                           /\ replay.columns[k].nullable = "no" <=> At(server, k).nullable = "no"
                    /\ replay.enums = server.enums
  BY DEF ReplayIsServer
<1>1. Agrees(replay, server) /\ IsReplay(replay)
  BY DEF DBInv
<1>2. /\ \A t : t \in replay.tables <=> t \in DOMAIN server.tables /\ t \notin legacy
      /\ replay.enums = server.enums
  BY <1>1 DEF Agrees
<1>3. /\ \A k : k \in DOMAIN replay.columns <=> k \in ServerColumns(server) /\ k[1] \notin legacy
      /\ \A k \in DOMAIN replay.columns : Matches(replay.columns[k], At(server, k))
  BY <1>1, AgreesOnColumns
<1>4. replay.tables = DOMAIN server.tables \ legacy
  BY <1>2
<1>5. DOMAIN replay.columns = {k \in ServerColumns(server) : k[1] \notin legacy}
  BY <1>3
<1> QED
  BY <1>2, <1>3, <1>4, <1>5 DEF Matches

\* applyOperations: whatever the migrations are, a replay without a limitation is
\* the schema of the server, of the tables that the migrations made; unless the
\* server skipped a conditional statement or retyped a column with its enum.
THEOREM ReplayIsTheServer == MigrationsSpec => []ReplayIsServer
BY DBInvariant, AgreesIsServer, PTL

-----------------------------------------------------------------------------

LEMMA ColumnDefinitions ==
    ASSUME NEW schema, NEW k
    PROVE  /\ <<"column", k>> \in DOMAIN SchemaDefinitions(schema) <=> k \in DOMAIN schema.columns
           /\ k \in DOMAIN schema.columns =>
                  SchemaDefinitions(schema)[<<"column", k>>] = schema.columns[k]
<1> DEFINE key == <<"column", k>>
           keys == ({"table"} \X schema.tables) \cup ({"column"} \X DOMAIN schema.columns)
                       \cup ({"enum"} \X DOMAIN schema.enums)
<1>1. key \in keys <=> k \in DOMAIN schema.columns
  OBVIOUS
<1>2. key[1] = "column" /\ key[2] = k
  OBVIOUS
<1> HIDE DEF key
<1>3. DOMAIN SchemaDefinitions(schema) = keys
  BY DEF SchemaDefinitions
<1>4. key \in keys => SchemaDefinitions(schema)[key] = schema.columns[key[2]]
  <2> HIDE DEF keys
  <2> QED
    BY <1>2 DEF SchemaDefinitions, keys
<1> QED
  BY <1>1, <1>2, <1>3, <1>4 DEF key

LEMMA EnumDefinitions ==
    ASSUME NEW schema, NEW e
    PROVE  /\ <<"enum", e>> \in DOMAIN SchemaDefinitions(schema) <=> e \in DOMAIN schema.enums
           /\ e \in DOMAIN schema.enums =>
                  SchemaDefinitions(schema)[<<"enum", e>>] = schema.enums[e]
<1> DEFINE key == <<"enum", e>>
           keys == ({"table"} \X schema.tables) \cup ({"column"} \X DOMAIN schema.columns)
                       \cup ({"enum"} \X DOMAIN schema.enums)
<1>1. key \in keys <=> e \in DOMAIN schema.enums
  OBVIOUS
<1>2. key[1] = "enum" /\ key[2] = e
  OBVIOUS
<1> HIDE DEF key
<1>3. DOMAIN SchemaDefinitions(schema) = keys
  BY DEF SchemaDefinitions
<1>4. key \in keys => SchemaDefinitions(schema)[key] = schema.enums[key[2]]
  BY <1>2 DEF SchemaDefinitions
<1> QED
  BY <1>1, <1>2, <1>3, <1>4 DEF key

\* Between two complete schemas: a definition that is gone, new, or another one.
LEMMA ChangesOf ==
    ASSUME NEW base, NEW head, base.limitations = {}, head.limitations = {}, NEW key
    PROVE  /\ key \in DOMAIN SchemaDefinitions(base) /\ key \notin DOMAIN SchemaDefinitions(head) =>
                  /\ key \in DOMAIN SchemaChanges(base, head)
                  /\ SchemaChanges(base, head)[key] = "breaking"
           /\ key \notin DOMAIN SchemaDefinitions(base) /\ key \in DOMAIN SchemaDefinitions(head) =>
                  /\ key \in DOMAIN SchemaChanges(base, head)
                  /\ SchemaChanges(base, head)[key]
                         = AdditionCompatibility(key[1], SchemaDefinitions(head)[key])
           /\ /\ key \in DOMAIN SchemaDefinitions(base) /\ key \in DOMAIN SchemaDefinitions(head)
              /\ SchemaDefinitions(base)[key] # SchemaDefinitions(head)[key]
              => /\ key \in DOMAIN SchemaChanges(base, head)
                 /\ SchemaChanges(base, head)[key]
                        = DatabaseCompatibility(key[1], SchemaDefinitions(base)[key],
                                                SchemaDefinitions(head)[key])
<1> DEFINE before == SchemaDefinitions(base)
           after == SchemaDefinitions(head)
           same == {k \in DOMAIN before \cap DOMAIN after : before[k] = after[k]}
           changed == (DOMAIN before \cup DOMAIN after) \ same
<1>1. SchemaChanges(base, head)
          = [k \in changed |->
                IF k \notin DOMAIN before THEN AdditionCompatibility(k[1], after[k])
                ELSE IF k \notin DOMAIN after THEN "breaking"
                ELSE DatabaseCompatibility(k[1], before[k], after[k])]
  BY DEF SchemaChanges
<1>2. key \in changed <=> /\ key \in DOMAIN before \/ key \in DOMAIN after
                          /\ ~(key \in DOMAIN before /\ key \in DOMAIN after /\ before[key] = after[key])
  OBVIOUS
<1> HIDE DEF changed, before, after
<1> QED
  BY <1>1, <1>2 DEF before, after

\* A column that the replay has no more.
LEMMA GoneIsReported ==
    ASSUME Compared, NEW k, k \in DOMAIN released.replay.columns, k \notin DOMAIN replay.columns
    PROVE  Reported(<<"column", k>>)
<1>1. released.replay.limitations = {} /\ replay.limitations = {}
  BY DEF Compared
<1>2. /\ <<"column", k>> \in DOMAIN SchemaDefinitions(released.replay)
      /\ <<"column", k>> \notin DOMAIN SchemaDefinitions(replay)
  BY ColumnDefinitions
<1>3. /\ <<"column", k>> \in DOMAIN SchemaChanges(released.replay, replay)
      /\ SchemaChanges(released.replay, replay)[<<"column", k>>] = "breaking"
  BY <1>1, <1>2, ChangesOf
<1> QED
  BY <1>3 DEF Reported

\* A new column that must have a value.
LEMMA NewIsReported ==
    ASSUME Compared, NEW k, k \in DOMAIN replay.columns, k \notin DOMAIN released.replay.columns,
           replay.columns[k].nullable = "no"
    PROVE  Reported(<<"column", k>>)
<1> DEFINE key == <<"column", k>>
<1>1. released.replay.limitations = {} /\ replay.limitations = {}
  BY DEF Compared
<1>2. /\ key \notin DOMAIN SchemaDefinitions(released.replay)
      /\ key \in DOMAIN SchemaDefinitions(replay)
      /\ SchemaDefinitions(replay)[key] = replay.columns[k]
  BY ColumnDefinitions
<1>3. key[1] = "column"
  OBVIOUS
<1> HIDE DEF key
<1>4. /\ key \in DOMAIN SchemaChanges(released.replay, replay)
      /\ SchemaChanges(released.replay, replay)[key] = AdditionCompatibility("column", replay.columns[k])
  BY <1>1, <1>2, <1>3, ChangesOf
<1>5. AdditionCompatibility("column", replay.columns[k]) = "potentially_breaking"
  BY DEF AdditionCompatibility
<1>6. Reported(key)
  BY <1>4, <1>5 DEF Reported
<1> QED
  BY <1>6 DEF key

\* A column that is there on both sides.
LEMMA ChangedIsReported ==
    ASSUME Compared, NEW k, k \in DOMAIN released.replay.columns, k \in DOMAIN replay.columns,
           released.replay.columns[k] # replay.columns[k],
           DatabaseCompatibility("column", released.replay.columns[k], replay.columns[k])
               # "compatible"
    PROVE  Reported(<<"column", k>>)
<1> DEFINE key == <<"column", k>>
<1>1. released.replay.limitations = {} /\ replay.limitations = {}
  BY DEF Compared
<1>2. /\ key \in DOMAIN SchemaDefinitions(released.replay)
      /\ SchemaDefinitions(released.replay)[key] = released.replay.columns[k]
      /\ key \in DOMAIN SchemaDefinitions(replay)
      /\ SchemaDefinitions(replay)[key] = replay.columns[k]
  BY ColumnDefinitions
<1>3. key[1] = "column"
  OBVIOUS
<1> HIDE DEF key
<1>4. /\ key \in DOMAIN SchemaChanges(released.replay, replay)
      /\ SchemaChanges(released.replay, replay)[key]
             = DatabaseCompatibility("column", released.replay.columns[k], replay.columns[k])
  BY <1>1, <1>2, <1>3, ChangesOf
<1>5. Reported(key)
  BY <1>4 DEF Reported
<1> QED
  BY <1>5 DEF key

\* An enum that is there on both sides, with other values.
LEMMA ChangedEnumIsReported ==
    ASSUME Compared, NEW e, e \in DOMAIN released.replay.enums, e \in DOMAIN replay.enums,
           released.replay.enums[e] # replay.enums[e]
    PROVE  Reported(<<"enum", e>>)
<1> DEFINE key == <<"enum", e>>
<1>1. released.replay.limitations = {} /\ replay.limitations = {}
  BY DEF Compared
<1>2. /\ key \in DOMAIN SchemaDefinitions(released.replay)
      /\ SchemaDefinitions(released.replay)[key] = released.replay.enums[e]
      /\ key \in DOMAIN SchemaDefinitions(replay)
      /\ SchemaDefinitions(replay)[key] = replay.enums[e]
  BY EnumDefinitions
<1>3. key[1] = "enum"
  OBVIOUS
<1> HIDE DEF key
<1>4. /\ key \in DOMAIN SchemaChanges(released.replay, replay)
      /\ SchemaChanges(released.replay, replay)[key]
             = DatabaseCompatibility("enum", released.replay.enums[e], replay.enums[e])
  BY <1>1, <1>2, <1>3, ChangesOf
<1>5. DatabaseCompatibility("enum", released.replay.enums[e], replay.enums[e]) # "compatible"
  BY DEF DatabaseCompatibility
<1>6. Reported(key)
  BY <1>4, <1>5 DEF Reported
<1> QED
  BY <1>6 DEF key

\* A wider type holds what the narrower one held.
LEMMA WiderHoldsMore ==
    ASSUME NEW before, NEW after, IsWideningTypeChange(before, after)
    PROVE  /\ before \in DOMAIN Accepts /\ after \in DOMAIN Accepts
           /\ Accepts[before] \subseteq Accepts[after]
BY DatabaseAssumption DEF IsWideningTypeChange

\* The columns of the tables that were there at first stay as they are.
LEMMA LegacyColumnsStay ==
    ASSUME LegacyStays, Agrees(replay, server), Agrees(released.replay, released.server),
           NEW k, k[1] \in legacy
    PROVE  /\ k \in ServerColumns(server) <=> k \in ServerColumns(released.server)
           /\ k \in ServerColumns(server) =>
                  /\ At(server, k) = At(released.server, k)
                  /\ At(server, k).type \in DOMAIN Accepts
<1>1. /\ k[1] \in DOMAIN server.tables /\ k[1] \in DOMAIN released.server.tables
      /\ server.tables[k[1]] = released.server.tables[k[1]]
      /\ \A c \in DOMAIN server.tables[k[1]] : server.tables[k[1]][c].type \in DOMAIN Accepts
  BY DEF LegacyStays, Agrees
<1>2. ASSUME k \in ServerColumns(server) PROVE k \in ServerColumns(released.server)
  BY <1>1, <1>2, ServerColumnsAre, ServerColumnsOf
<1>3. ASSUME k \in ServerColumns(released.server) PROVE k \in ServerColumns(server)
  BY <1>1, <1>3, ServerColumnsAre, ServerColumnsOf
<1>4. ASSUME k \in ServerColumns(server)
      PROVE  At(server, k) = At(released.server, k) /\ At(server, k).type \in DOMAIN Accepts
  BY <1>1, <1>4, ServerColumnsAre DEF At
<1> QED
  BY <1>2, <1>3, <1>4

LEMMA ComparedSchemas ==
    ASSUME DBInv, Compared
    PROVE  /\ IsReplay(replay) /\ IsReplay(released.replay)
           /\ IsServer(server) /\ IsServer(released.server)
           /\ Agrees(replay, server) /\ Agrees(released.replay, released.server) /\ LegacyStays
           /\ TypesExist(server) /\ TypesExist(released.server)
BY DEF DBInv, Compared

\* The column of the server is of one of two nullabilities, and of a type that there is.
LEMMA ServerShape ==
    ASSUME NEW schema, IsServer(schema), TypesExist(schema), NEW k \in ServerColumns(schema)
    PROVE  At(schema, k).nullable \in {"yes", "no"} /\ TypeExists(schema, At(schema, k).type)
<1>1. k[1] \in DOMAIN schema.tables /\ k[2] \in DOMAIN schema.tables[k[1]]
  BY ServerColumnsAre
<1>2. IsColumn(schema.tables[k[1]][k[2]], {"yes", "no"})
  BY <1>1 DEF IsServer
<1> QED
  BY <1>1, <1>2 DEF IsColumn, At, TypesExist

\* A column that took a value and does not take it any more.
LEMMA LostValueIsReported ==
    ASSUME DBInv, Compared, NEW k \in ServerColumns(released.server), NEW v,
           Fits(released.server, k, v), ~Fits(server, k, v)
    PROVE  \/ Reported(<<"column", k>>) \/ ReportedEnum(<<"column", k>>)
           \/ Tightened(<<"column", k>>)
<1> DEFINE was == At(released.server, k)
           is == At(server, k)
           before == released.replay.columns[k]
           after == replay.columns[k]
<1>1. /\ IsReplay(replay) /\ IsReplay(released.replay)
      /\ IsServer(server) /\ IsServer(released.server)
      /\ Agrees(replay, server) /\ Agrees(released.replay, released.server) /\ LegacyStays
      /\ TypesExist(server) /\ TypesExist(released.server)
  BY ComparedSchemas
<1>2. CASE k[1] \in legacy
  <2>1. k \in ServerColumns(server) /\ At(server, k) = At(released.server, k)
        /\ At(server, k).type \in DOMAIN Accepts
    BY <1>1, <1>2, LegacyColumnsStay
  <2> QED
    BY <2>1 DEF Fits
<1>3. CASE k[1] \notin legacy /\ k \notin ServerColumns(server)
  <2>1. k \in DOMAIN released.replay.columns /\ k \notin DOMAIN replay.columns
    BY <1>1, <1>3, AgreesOnColumns
  <2> QED
    BY <2>1, GoneIsReported
<1>4. CASE k[1] \notin legacy /\ k \in ServerColumns(server)
  <2>1. /\ k \in DOMAIN released.replay.columns /\ k \in DOMAIN replay.columns
        /\ Matches(before, was) /\ Matches(after, is)
    BY <1>1, <1>4, AgreesOnColumns
  <2>2. /\ was.nullable \in {"yes", "no"} /\ TypeExists(released.server, was.type)
        /\ is.nullable \in {"yes", "no"} /\ TypeExists(server, is.type)
    BY <1>1, <1>4, ServerShape
  <2>3. /\ v = NoValue => was.nullable = "yes" /\ is.nullable = "no"
        /\ v # NoValue =>
               /\ v \in IF was.type \in DOMAIN Accepts THEN Accepts[was.type]
                        ELSE released.server.enums[was.type]
               /\ v \notin IF is.type \in DOMAIN Accepts THEN Accepts[is.type]
                           ELSE server.enums[is.type]
    BY <1>4, <2>2 DEF Fits
  <2>4. ASSUME was.type = is.type, was.type \notin DOMAIN Accepts, v # NoValue
        PROVE  ReportedEnum(<<"column", k>>)
    <3>1. /\ released.replay.enums = released.server.enums /\ replay.enums = server.enums
      BY <1>1 DEF Agrees
    <3>2. is.type \in DOMAIN released.server.enums /\ is.type \in DOMAIN server.enums
      BY <2>2, <2>4 DEF TypeExists
    <3>3. released.server.enums[is.type] # server.enums[is.type]
      BY <2>3, <2>4
    <3>4. Reported(<<"enum", is.type>>)
      BY <3>1, <3>2, <3>3, ChangedEnumIsReported
    <3>5. <<"column", k>>[2] = k
      OBVIOUS
    <3> QED
      BY <1>4, <2>4, <3>4, <3>5 DEF ReportedEnum
  <2>5. ASSUME before.type # after.type, ~IsWideningTypeChange(before.type, after.type)
        PROVE  Reported(<<"column", k>>)
    <3>1. DatabaseCompatibility("column", before, after) # "compatible"
      BY <2>5 DEF DatabaseCompatibility
    <3> QED
      BY <2>1, <2>5, <3>1, ChangedIsReported
  <2>6. CASE v = NoValue
    <3>1. before.nullable # "no" /\ after.nullable = "no"
      BY <2>1, <2>3, <2>6 DEF Matches
    <3>2. CASE before.type = after.type
      <4>1. DatabaseCompatibility("column", before, after) = "breaking"
        BY <3>1, <3>2 DEF DatabaseCompatibility
      <4> QED
        BY <2>1, <3>1, <4>1, ChangedIsReported
    <3>3. CASE before.type # after.type /\ IsWideningTypeChange(before.type, after.type)
      <4>1. <<"column", k>>[2] = k
        OBVIOUS
      <4> QED
        BY <2>1, <3>1, <3>3, <4>1 DEF Tightened
    <3> QED
      BY <2>5, <3>2, <3>3
  <2>7. CASE v # NoValue
    <3>1. before.type = was.type /\ after.type = is.type
      BY <2>1 DEF Matches
    <3>2. ~IsWideningTypeChange(was.type, is.type)
      BY <2>3, <2>7, WiderHoldsMore
    <3>3. CASE was.type # is.type
      BY <2>5, <3>1, <3>2, <3>3
    <3>4. CASE was.type = is.type
      <4>1. was.type \notin DOMAIN Accepts
        BY <2>3, <2>7, <3>4
      <4> QED
        BY <2>4, <2>7, <3>4, <4>1
    <3> QED
      BY <3>3, <3>4
  <2> QED
    BY <2>6, <2>7
<1> QED
  BY <1>2, <1>3, <1>4

\* A column that an INSERT must now name.
LEMMA NewColumnIsReported ==
    ASSUME DBInv, Compared, NEW k \in ServerColumns(server), k \notin ServerColumns(released.server),
           At(server, k).nullable = "no"
    PROVE  Reported(<<"column", k>>)
<1>1. /\ IsReplay(replay) /\ IsReplay(released.replay)
      /\ Agrees(replay, server) /\ Agrees(released.replay, released.server) /\ LegacyStays
  BY ComparedSchemas
<1>2. k[1] \notin legacy
  BY <1>1, LegacyColumnsStay
<1>3. /\ k \in DOMAIN replay.columns /\ k \notin DOMAIN released.replay.columns
      /\ Matches(replay.columns[k], At(server, k))
  BY <1>1, <1>2, AgreesOnColumns
<1> QED
  BY <1>3, NewIsReported DEF Matches

LEMMA InvReportsBroken ==
    ASSUME DBInv
    PROVE  BrokenIsReported
<1> SUFFICES ASSUME Compared, NEW key \in BrokenColumns
             PROVE  Reported(key) \/ ReportedEnum(key) \/ Tightened(key)
  BY DEF BrokenIsReported
<1>1. CASE \E k \in ServerColumns(released.server) : \E v \in Values :
               key = <<"column", k>> /\ Fits(released.server, k, v) /\ ~Fits(server, k, v)
  BY <1>1, LostValueIsReported
<1>2. CASE \E k \in ServerColumns(server) \ ServerColumns(released.server) :
               key = <<"column", k>> /\ At(server, k).nullable = "no"
  BY <1>2, NewColumnIsReported
<1> QED
  BY <1>1, <1>2 DEF BrokenColumns

\* databaseCompatibility and additionCompatibility: whatever the migrations and the
\* types are, a complete diff names every column that takes a value or an INSERT
\* from a consumer, or the enum it is of; but for one widened and made NOT NULL.
THEOREM BrokenIsNamed == MigrationsSpec => []BrokenIsReported
BY DBInvariant, InvReportsBroken, PTL
=============================================================================
