------------------------ MODULE ConfigurationAdapter ------------------------
(***************************************************************************)
(* The configuration adapter: a partition per document, so that an update  *)
(* replaces and tombstones documents, and the chain of snapshots a         *)
(* repository gets from a clean build and later updates.  The events, HTTP *)
(* and infrastructure adapters update their partitions in the same way.    *)
(*                                                                         *)
(* The text of a file is what the parser finds in it: facts, computed      *)
(* accesses, or nothing because it throws.                                 *)
(***************************************************************************)
EXTENDS AdapterOutput

CONSTANTS
    Files,            \* paths
    SensitivePaths,   \* .env, .tfvars, secrets and credentials
    ProbablePaths,    \* reverb.config.json, .env templates and source files
    ExplicitPaths,    \* the first two of these
    SecretKeys,       \* keys that name a secret
    ConfigTrees,      \* trees of a repository: path -> file
    ConfigContext,    \* whether the context has a namespace and a salt
    NoDocument,
    MaxSnapshots      \* bound on the chain

ASSUME ConfigurationAssumption ==
    /\ ExplicitPaths \subseteq ProbablePaths /\ ProbablePaths \subseteq Files
    /\ IsFiniteSet(Files) /\ "" \notin Files
    /\ \A tree \in ConfigTrees : DOMAIN tree \subseteq Files
    /\ MaxSnapshots \in Nat

VARIABLE chain        \* the snapshots of successive commits

-----------------------------------------------------------------------------
(* Documents. *)

\* isSecretConfigurationKey and the kinds of fact.
IsSecret(fact) ==
    \/ fact.kind = "secret_reference"
    \/ fact.kind = "configuration_key" /\ fact.key \in SecretKeys

\* The identity of a secret is its salted hash; without a salt it is left out.
StoredFact(fact) == IF IsSecret(fact) THEN [fact EXCEPT !.kind = "secret_reference"] ELSE fact

\* parseConfigurationSource: an explicit file in which nothing is found is
\* unresolved, and any other is no document.
ParseLimitations(path, file) ==
    file.computed \cup IF path \in ExplicitPaths /\ file.facts = {} /\ file.computed = {}
                       THEN {"configuration_syntax_unresolved"} ELSE {}

Excluded(path, reason) ==
    [path |-> path, state |-> "incomplete", facts |-> {}, limitations |-> {reason}]
Failed(path, reason) ==
    [path |-> path, state |-> "failed", facts |-> {}, limitations |-> {reason}]

ParsedDocument(path, file) ==
    LET secrets == {f \in file.facts : IsSecret(f)}
        unsalted == secrets # {} /\ ~ConfigContext.salt
    IN  [path |-> path, state |-> "parsed",
         facts |-> {StoredFact(f) : f \in IF unsalted THEN file.facts \ secrets ELSE file.facts},
         limitations |-> ParseLimitations(path, file)
             \cup IF unsalted THEN {"secret_identity_salt_missing"} ELSE {}]

\* parseArtifact.  A file over the byte limit or not in UTF-8 is unreadable.
ParseArtifact(path, file) ==
    IF file.class \in {"vendored", "test"} THEN NoDocument
    ELSE IF path \in SensitivePaths
         THEN Excluded(path, "sensitive_configuration_values_excluded")
    ELSE IF ~file.readable
         THEN IF path \in ProbablePaths THEN Failed(path, "unreadable") ELSE NoDocument
    ELSE IF path \notin ProbablePaths /\ ~file.likely THEN NoDocument
    ELSE IF file.class = "generated" THEN Excluded(path, "generated_configuration_excluded")
    ELSE IF file.throws THEN Failed(path, "parse_failure")
    ELSE IF file.facts = {} /\ ParseLimitations(path, file) = {} THEN NoDocument
    ELSE ParsedDocument(path, file)

-----------------------------------------------------------------------------
(* Extraction and diff. *)

\* materialize: the contracts of the parsed documents, in the namespace.
Contracts(documents, role) ==
    UNION {{[key |-> <<f.kind, f.key>>, path |-> d.path] : f \in {x \in d.facts : x.role = role}} :
              d \in {x \in documents : ConfigContext.namespace}}

LimitationsOf(documents) ==
    UNION {{<<l, d.path>> : l \in d.limitations} : d \in documents}
    \cup {<<"configuration_namespace_missing", d.path>> :
             d \in {x \in documents : x.state = "parsed" /\ ~ConfigContext.namespace}}

ConfigCoverage(documents) ==
    LET failed == {d \in documents : d.state = "failed"}
        limitations == LimitationsOf(documents)
    IN  [state |-> IF documents = {} THEN "unsupported"
                   ELSE IF failed = documents THEN "failed"
                   ELSE IF limitations # {} THEN "partial" ELSE "complete",
         eligible |-> Cardinality(documents), skipped |-> 0,
         processed |-> Cardinality(documents \ failed), failed |-> Cardinality(failed),
         limitations |-> IF documents = {} THEN {<<"configuration_inputs_not_found", "">>}
                         ELSE limitations]

ConfigExtraction(documents) ==
    [definitions |-> Contracts(documents, "definition"),
     references |-> Contracts(documents, "reference"),
     coverage |-> ConfigCoverage(documents)]

\* changes: the shape of a definition is a function of its key, so that a key is
\* added or removed and never changed.
ConfigChanges(base, head, complete) ==
    LET before == {d.key : d \in base}
        after == {d.key : d \in head}
    IN  [key \in (before \cup after) \ (before \cap after) |->
            IF ~complete THEN "unknown" ELSE IF key \in before THEN "breaking" ELSE "compatible"]

\* Mutant: only the head must be complete.
BothExtractedByHead(base, head) == head.coverage.state = "complete"

BothExtracted(base, head) == base.coverage.state = "complete" /\ head.coverage.state = "complete"

\* diff, of extractions at the adapter's own versions.
ConfigDiff(base, head) ==
    LET complete == BothExtracted(base, head)
    IN  [changes |-> ConfigChanges(base.definitions, head.definitions, complete),
         coverage |-> IF complete THEN head.coverage
                      ELSE [head.coverage EXCEPT !.state = "partial",
                               !.limitations = {<<"incomplete_configuration_extraction", "">>}]]

-----------------------------------------------------------------------------
(* Partitions. *)

DocumentsOf(tree) ==
    {ParseArtifact(p, tree[p]) : p \in DOMAIN tree} \ {NoDocument}

\* planInvalidation: the partitions of the changed and the previous paths.
Invalidated(documents, changes) ==
    {d.path : d \in documents} \cap ({c.path : c \in changes} \cup {c.previous : c \in changes})

\* The paths an update removes: a copy leaves its source.
RemovedBy(changes) ==
    {c.path : c \in changes} \cup {c.previous : c \in {x \in changes : x.kind # "copied"}}

\* updatePartitions: removal, then the documents of the supplied artifacts.  A
\* changed file that was not supplied makes the coverage of this update partial.
ConfigUpdate(documents, changes, tree, supplied) ==
    LET kept == {d \in documents : d.path \notin RemovedBy(changes)}
        new == DocumentsOf([p \in supplied |-> tree[p]])
        logical == {d \in kept : d.path \notin {n.path : n \in new}} \cup new
        missing == {c.path : c \in {x \in changes : x.kind # "deleted"}} \ supplied
        coverage == ConfigCoverage(logical)
    IN  [replacements |-> new,
         tombstones |-> {d.path : d \in documents \ kept} \ {n.path : n \in new},
         coverage |-> IF missing = {} /\ coverage.state = "complete" THEN coverage
                      ELSE [coverage EXCEPT !.state = "partial",
                               !.limitations = @ \cup {<<"changed_artifact_missing", p>> : p \in missing}]]

\* resolveAdapterPartitions of a snapshot on its base.
ResolvedDocuments(base, update) ==
    {d \in base : d.path \notin update.tombstones
                  /\ \A n \in update.replacements : n.path # d.path} \cup update.replacements

-----------------------------------------------------------------------------
(* The snapshots of a repository. *)

\* What Git may report between two trees.
PathChange(kind, path, previous) == [kind |-> kind, path |-> path, previous |-> previous]

PlainChanges(from, to) ==
    {PathChange("deleted", p, "") : p \in DOMAIN from \ DOMAIN to}
    \cup {PathChange("added", p, "") : p \in DOMAIN to \ DOMAIN from}
    \cup {PathChange("modified", p, "") :
             p \in {q \in DOMAIN from \cap DOMAIN to : from[q] # to[q]}}

\* A rename or a copy c instead of the changes of its path and of p.
Instead(plain, p, c) == {d \in plain : d.path \notin {p, c.path}} \cup {c}

PathChanges(from, to) ==
    {PlainChanges(from, to)}
    \cup {Instead(PlainChanges(from, to), p, PathChange("renamed", q, p)) :
             p \in DOMAIN from \ DOMAIN to, q \in DOMAIN to \ DOMAIN from}
    \cup {Instead(PlainChanges(from, to), q, PathChange("copied", q, p)) :
             p \in DOMAIN from \cap DOMAIN to, q \in DOMAIN to \ DOMAIN from}

ConfigInit == chain = <<>>

\* buildPartitions of a first commit, all of whose files were read.
BuildSnapshot ==
    /\ chain = <<>>
    /\ \E tree \in ConfigTrees :
           chain' = <<[tree |-> tree, documents |-> DocumentsOf(tree),
                       changed |-> {}, invalidated |-> {}, unread |-> {},
                       coverage |-> ConfigCoverage(DocumentsOf(tree))]>>

\* The next commit.  Which of its changed files can be read is up to the host, and
\* so is that a snapshot has the state of the update it is made of.
UpdateSnapshot ==
    /\ chain # <<>> /\ Len(chain) < MaxSnapshots
    /\ \E tree \in ConfigTrees :
       LET last == chain[Len(chain)]
       IN  \E changes \in PathChanges(last.tree, tree) :
           LET expected == {c.path : c \in {x \in changes : x.kind # "deleted"}}
           IN  \E supplied \in SUBSET expected :
               LET update == ConfigUpdate(last.documents, changes, tree, supplied)
               IN  chain' = Append(chain,
                       [tree |-> tree, documents |-> ResolvedDocuments(last.documents, update),
                        changed |-> {d.path : d \in update.replacements} \cup update.tombstones,
                        invalidated |-> Invalidated(last.documents, changes),
                        unread |-> last.unread \cup (expected \ supplied),
                        coverage |-> update.coverage])

ConfigNext == BuildSnapshot \/ UpdateSnapshot

ConfigSpec == ConfigInit /\ [][ConfigNext]_chain

-----------------------------------------------------------------------------
(* Properties. *)

CleanExtraction(s) == ConfigExtraction(DocumentsOf(s.tree))

\* While every changed file could be read, the partitions of a snapshot, however
\* many updates made them, materialize to the extraction of a clean build of its
\* tree; the coverage of an update is complete exactly if that extraction is, and
\* the update touched no document that the plan did not name, except new ones.
DocumentsAreClean ==
    \A i \in DOMAIN chain :
        LET s == chain[i]
        IN  /\ s.unread = {} =>
                   /\ ConfigExtraction(s.documents) = CleanExtraction(s)
                   /\ s.coverage.state = "complete" <=>
                          CleanExtraction(s).coverage.state = "complete"
            /\ i > 1 => s.changed \subseteq s.invalidated
                            \cup (Files \ {d.path : d \in chain[i - 1].documents})

\* diff: of two snapshots all of whose files could be read, a complete diff names
\* exactly the keys that one clean build defines and the other does not, and calls
\* each that is gone breaking; an incomplete one decides nothing.
ConfigDiffIsExact ==
    \A i, j \in DOMAIN chain :
        i < j /\ chain[j].unread = {} =>
            LET base == CleanExtraction(chain[i])
                head == CleanExtraction(chain[j])
                diff == ConfigDiff(ConfigExtraction(chain[i].documents),
                                   ConfigExtraction(chain[j].documents))
                keys(e) == {d.key : d \in e.definitions}
            IN  /\ ValidCoverageV2(diff.coverage)
                /\ IF diff.coverage.state = "complete"
                   THEN /\ \A f \in {base, head} : f.coverage.state = "complete"
                        /\ {k \in DOMAIN diff.changes : diff.changes[k] = "breaking"}
                               = keys(base) \ keys(head)
                        /\ {k \in DOMAIN diff.changes : diff.changes[k] = "compatible"}
                               = keys(head) \ keys(base)
                   ELSE \A k \in DOMAIN diff.changes : diff.changes[k] = "unknown"

\* Both, of the updates of a repository: the configuration half of "Incremental and
\* clean rebuilds are semantically identical".
ConfigUpdatesAreExact == DocumentsAreClean /\ ConfigDiffIsExact

\* "Incremental and clean generation, adapter snapshot, contract observation/change,
\* and analysis hashes must be equal" (docs/adr/0006-index-first-pr-overlays.md:45),
\* and incomplete evidence "cannot produce a clean result" (line 130): a snapshot
\* whose coverage is complete has what a clean build of its tree has.
\* Not kept: TLC refutes it (README, section 6).
CompleteSnapshotIsClean ==
    \A i \in DOMAIN chain :
        chain[i].coverage.state = "complete" =>
            ConfigExtraction(chain[i].documents) = CleanExtraction(chain[i])
=============================================================================
