------------------------------ MODULE Artifacts ------------------------------
(***************************************************************************)
(* File artifacts of the index: what classifyArtifact and failedArtifact   *)
(* make of a tree entry, by the blob it was read from and how that went.   *)
(* Source text, sizes, languages and diagnostics are abstracted; a blob is *)
(* in Parses when the classifier parses it as source, and is skipped with  *)
(* a coverage limitation otherwise (binary, oversized, generated, vendored,*)
(* unsupported, symlink, submodule).                                       *)
(***************************************************************************)
EXTENDS FiniteSets, FiniteSetsExt, Naturals

CONSTANTS
    Commits,                   \* commit SHAs
    Paths, Blobs, NoBlob,      \* tree entries: path |-> blob, or no entry
    Tree,                      \* the tree of each commit
    Parses                     \* blobs the classifier parses; it skips the others

ASSUME TreeAssumption ==
    /\ NoBlob \notin Blobs /\ Parses \subseteq Blobs
    /\ Paths \subseteq Nat /\ IsFiniteSet(Paths)
    /\ Tree \in [Commits -> [Paths -> Blobs \cup {NoBlob}]]

Artifact == [blob : Blobs, parse : {"parsed", "skipped", "failed"}]

NoArtifact == [blob |-> NoBlob, parse |-> "none"]

NoArtifacts == [p \in Paths |-> NoArtifact]

ArtifactMap == [Paths -> Artifact \cup {NoArtifact}]

\* classifyArtifact on readable bytes.
Classified(blob) ==
    [blob |-> blob, parse |-> IF blob \in Parses THEN "parsed" ELSE "skipped"]

\* failedArtifact: the blob was unreadable or incomplete, or the parser threw.
FailedArtifact(blob) == [blob |-> blob, parse |-> "failed"]

TreeEntries(commit) == {p \in Paths : Tree[commit][p] # NoBlob}

\* The artifacts of a clean index of the commit in which every read succeeds.
CleanIndex(commit) ==
    [p \in Paths |-> IF p \in TreeEntries(commit) THEN Classified(Tree[commit][p]) ELSE NoArtifact]
=============================================================================
