------------------------- MODULE TypeScriptAdapter --------------------------
(***************************************************************************)
(* The TypeScript adapter: the semantic state it keeps per package, the    *)
(* extraction it materializes from it, the partition it encodes it in, the *)
(* incremental update of a partition and the diff of two extractions.      *)
(*                                                                         *)
(* The Maps of a state keep their insertion order, so a state is a         *)
(* sequence of entries, one per path.  A specifier or an export target is  *)
(* a stem; the paths it may resolve to, in the order they are tried, are   *)
(* Candidates[stem].  A symbol's name carries its space (type or value).   *)
(***************************************************************************)
EXTENDS Integers, Sequences, FiniteSets, SequencesExt

CONSTANTS
    Role,            \* path -> "module", "package", "config" or "other"
    Rank,            \* path -> its place in localeCompare's order
    Within,          \* path of a configuration -> paths below its directory
    DirnameLength,   \* path of a configuration -> length of its directory's name
    ModuleName,      \* path of a module -> normalizeTypeScriptModulePath of it
    Candidates,      \* stem -> paths, in the order resolveModuleCandidate tries them
    Relative,        \* specifiers that are relative, which name a stem themselves
    DefaultEntry,    \* stem of src/index and index
    MaximumItems,    \* manifest.resourceBudget.maximumItems
    NoContent, NoFailure, NoPath, NoKey

TypeScriptPaths == DOMAIN Role

\* The required parameters of a signature that is not of a function.
NotCallable == -1

ASSUME TypeScriptAssumption ==
    /\ DOMAIN Rank = TypeScriptPaths
    /\ \A p, q \in TypeScriptPaths : Rank[p] = Rank[q] => p = q
    /\ MaximumItems \in Nat \ {0}
    /\ Relative \cup {DefaultEntry} \subseteq DOMAIN Candidates

ByRank(a, b) == Rank[a.path] < Rank[b.path]

FirstOf(sequence, default) == IF sequence = <<>> THEN default ELSE sequence[1]

-----------------------------------------------------------------------------
(* TypeScriptSemanticState. *)

RelevantPath(path) == Role[path] # "other"

\* A file that is there: a module that does not parse is a failure.
AddedEntry(path, content) ==
    [path |-> path, content |-> content,
     failure |-> IF Role[path] = "module" /\ content.class \notin {"vendored", "test"}
                    /\ content.parse # "ok"
                 THEN content.parse ELSE NoFailure]

MissingEntry(path) == [path |-> path, content |-> NoContent, failure |-> "missing_changed_blob"]

RemoveStatePath(state, path) == SelectSeq(state, LAMBDA e : e.path # path)

AddArtifactToState(state, artifact) ==
    IF RelevantPath(artifact.path)
    THEN Append(RemoveStatePath(state, artifact.path), AddedEntry(artifact.path, artifact.content))
    ELSE state

PrepareState(artifacts) == FoldLeft(AddArtifactToState, <<>>, artifacts)

\* The entries that have a parsed module, and their paths.
IsModule(e) ==
    /\ Role[e.path] = "module" /\ e.content # NoContent
    /\ e.content.class \notin {"vendored", "test"} /\ e.failure = NoFailure

Modules(state) == SelectSeq(state, IsModule)

PathsOf(entries) == {e.path : e \in ToSet(entries)}

ModuleAt(state, path) == SelectSeq(Modules(state), LAMBDA e : e.path = path)[1]

OfRole(state, role) ==
    SelectSeq(state, LAMBDA e : Role[e.path] = role /\ e.content # NoContent)

\* packageMetadata: the first manifest, by path, that has a name.
PackageMetadata(state) ==
    FirstOf(SelectSeq(SortSeq(OfRole(state, "package"), ByRank), LAMBDA e : e.content.name # ""),
            [content |-> NoContent]).content

-----------------------------------------------------------------------------
(* Resolution. *)

FirstAvailable(stem, available) ==
    FirstOf(SelectSeq(Candidates[stem], LAMBDA p : p \in available), NoPath)

\* The configurations above a module, deepest directory first.
Applicable(state, from) ==
    SortSeq(SelectSeq(OfRole(state, "config"), LAMBDA e : from \in Within[e.path]),
            LAMBDA a, b : \/ DirnameLength[a.path] > DirnameLength[b.path]
                          \/ DirnameLength[a.path] = DirnameLength[b.path] /\ ByRank(a, b))

\* The mapped targets of a specifier, in the order they are tried.
MappedStems(state, from, specifier) ==
    FoldLeft(LAMBDA stems, e :
                 stems \o (IF specifier \in DOMAIN e.content.mapping
                           THEN e.content.mapping[specifier] ELSE <<>>),
             <<>>, Applicable(state, from))

\* resolveTypeScriptModule: relative, else through compilerOptions.paths; the
\* first stem that has an available candidate.
ResolveTypeScriptModule(state, from, specifier) ==
    LET available == PathsOf(Modules(state))
        stems == (IF specifier \in Relative THEN <<specifier>> ELSE <<>>)
                     \o MappedStems(state, from, specifier)
    IN  FirstOf(SelectSeq(FoldLeft(LAMBDA tried, stem : tried \o Candidates[stem], <<>>, stems),
                          LAMBDA p : p \in available),
                NoPath)

ConfiguredSpecifier(state, specifier) ==
    \E e \in ToSet(OfRole(state, "config")) : specifier \in DOMAIN e.content.mapping

\* The context's own entry points, else the export targets of the manifest in
\* the order of their subpaths; without any exports, the index module if there
\* is one.
EntrypointsAmong(available, metadata, context) ==
    LET target(k) == FirstAvailable(metadata.exports[k], available)
        subpaths == SetToSortSeq(DOMAIN metadata.exports, <)
        index == FirstAvailable(DefaultEntry, available)
    IN  IF context.entrypoints # <<>>
        THEN [values |-> SelectSeq(context.entrypoints, LAMBDA e : e.path \in available),
              unresolved |-> Len(SelectSeq(context.entrypoints, LAMBDA e : e.path \notin available))]
        ELSE IF metadata # NoContent /\ metadata.exports # <<>>
        THEN [values |-> SelectSeq([k \in DOMAIN subpaths |->
                            [path |-> target(k), subpath |-> k]], LAMBDA e : e.path # NoPath),
              unresolved |-> Cardinality({k \in DOMAIN subpaths : target(k) = NoPath})]
        ELSE [values |-> IF index = NoPath THEN <<>> ELSE <<[path |-> index, subpath |-> 0]>>,
              unresolved |-> 0]

Entrypoints(state, context) ==
    EntrypointsAmong(PathsOf(Modules(state)), PackageMetadata(state), context)

\* A re-export whose source is not in the repository: its names are external.
UnresolvedExport(r) ==
    IF r.star THEN [symbols |-> <<>>, unresolved |-> 1]
    ELSE [symbols |-> <<[name |-> r.exported, impl |-> "external",
                         sig |-> [required |-> NotCallable, text |-> r.source]]>>,
          unresolved |-> 0]

\* What a re-export takes over of the module it names.
ReExported(r, child) ==
    IF r.star
    THEN [child EXCEPT !.symbols = SelectSeq(@, LAMBDA s : s.name # "default")]
    ELSE LET selected == SelectSeq(child.symbols, LAMBDA s : s.name = r.imported)
         IN  [symbols |-> [k \in DOMAIN selected |-> [selected[k] EXCEPT !.name = r.exported]],
              unresolved |-> child.unresolved + (IF selected = <<>> THEN 1 ELSE 0)]

Together(a, b) == [symbols |-> a.symbols \o b.symbols, unresolved |-> a.unresolved + b.unresolved]

\* visit: what a module exports, its own symbols and those it re-exports.  A
\* re-export cycle and a module that is not there count as unresolved.
RECURSIVE Visit(_, _, _)
Visit(state, path, seen) ==
    LET module == ModuleAt(state, path).content
        through(r) ==
            LET target == ResolveTypeScriptModule(state, path, r.source)
            IN  IF target = NoPath THEN UnresolvedExport(r)
                ELSE ReExported(r, Visit(state, target, seen \cup {path}))
    IN  IF path \in seen THEN [symbols |-> <<>>, unresolved |-> 1]
        ELSE FoldLeft(LAMBDA acc, r : Together(acc, through(r)),
                      [symbols |-> module.symbols, unresolved |-> module.unresolvedExports],
                      module.reExports)

\* aggregateSymbols: one symbol per name, with every shape it was given.
AggregateSymbols(symbols) ==
    LET first == SelectSeq([k \in DOMAIN symbols |-> [k |-> k, name |-> symbols[k].name]],
                           LAMBDA s : \A j \in 1 .. s.k - 1 : symbols[j].name # s.name)
        shapes(name) == SelectSeq(symbols, LAMBDA s : s.name = name)
    IN  [i \in DOMAIN first |->
            [name |-> first[i].name,
             sigs |-> [k \in DOMAIN shapes(first[i].name) |-> shapes(first[i].name)[k].sig],
             impl |-> shapes(first[i].name)[1].impl]]

ResolvePublicSymbols(state, path) == [Visit(state, path, {}) EXCEPT !.symbols = AggregateSymbols(@)]

-----------------------------------------------------------------------------
(* materializeState. *)

\* The modules of the state, and those that failed.
FailedModules(state) == {e \in ToSet(state) : e.failure # NoFailure /\ Role[e.path] = "module"}
Eligible(state) == Len(Modules(state)) + Cardinality(FailedModules(state))

\* The loop over the symbols of one entry point: a key given two shapes is
\* dropped for good, and the item limit ends the loop.
Define(acc, candidate) ==
    CASE acc.stopped -> acc
      [] ~acc.stopped /\ Cardinality(DOMAIN acc.definitions) >= MaximumItems ->
            [acc EXCEPT !.stopped = TRUE, !.unresolved = @ + 1]
      [] ~acc.stopped /\ candidate.key \in acc.ambiguous -> acc
      [] ~acc.stopped /\ candidate.key \in DOMAIN acc.definitions ->
            IF acc.definitions[candidate.key] = candidate.shape THEN acc
            ELSE [acc EXCEPT !.unresolved = @ + 1, !.ambiguous = @ \cup {candidate.key},
                             !.definitions = [k \in DOMAIN @ \ {candidate.key} |-> @[k]]]
      [] OTHER -> [acc EXCEPT !.definitions =
                      [k \in DOMAIN @ \cup {candidate.key} |->
                          IF k = candidate.key THEN candidate.shape ELSE @[k]]]

DefineAll(acc, candidates, unresolved) ==
    FoldLeft(Define, [acc EXCEPT !.stopped = FALSE, !.unresolved = @ + unresolved], candidates)

\* Every module's exports, when the context names the repository.
InternalCandidates(path, symbols) ==
    [k \in DOMAIN symbols |->
        [key |-> <<"internal", ModuleName[path], symbols[k].name>>,
         shape |-> [sigs |-> symbols[k].sigs, impl |-> symbols[k].impl]]]

DefineModule(acc, path, found) ==
    DefineAll(acc, InternalCandidates(path, found.symbols), found.unresolved)

InternalDefinitions(state, context, none) ==
    IF context.scoped
    THEN FoldLeft(LAMBDA acc, e : DefineModule(acc, e.path, ResolvePublicSymbols(state, e.path)),
                  none, SortSeq(Modules(state), ByRank))
    ELSE none

\* The exports of the entry points, when the package has a name.
PublicCandidates(metadata, entry, symbols) ==
    [k \in DOMAIN symbols |->
        [key |-> <<"public", metadata.name, entry.subpath, symbols[k].name>>,
         shape |-> [sigs |-> symbols[k].sigs, impl |-> "public"]]]

DefineEntry(acc, metadata, entry, found) ==
    DefineAll(acc, PublicCandidates(metadata, entry, found.symbols), found.unresolved)

PublicDefinitions(state, metadata, entries, internal) ==
    IF metadata = NoContent
    THEN [internal EXCEPT !.unresolved = @ + (IF Eligible(state) = 0 THEN 0 ELSE 1)]
    ELSE FoldLeft(LAMBDA acc, e : DefineEntry(acc, metadata, e, ResolvePublicSymbols(state, e.path)),
                  internal, entries)

Definitions(state, context) ==
    LET entries == Entrypoints(state, context)
        none == [definitions |-> [k \in {} |-> NoKey], ambiguous |-> {}, stopped |-> FALSE,
                 unresolved |-> entries.unresolved]
    IN  PublicDefinitions(state, PackageMetadata(state), entries.values,
                          InternalDefinitions(state, context, none))

\* references: an import of a module of the repository, one that should be but
\* does not resolve, one whose identity is unknown, or one of a package.  The
\* importing file owns a reference within the repository.  A relative import
\* outside a named repository is no reference; nor is one of a file that is not
\* code, which the imports of a module here leave out.
ReferenceTo(target, metadata, state, context, path, import) ==
    LET declared == metadata # NoContent /\ import.source \in metadata.dependencies
        found(key, stratum, activation) ==
            [path |-> path, key |-> key, pattern |-> import.source,
             owner |-> IF stratum \in {"internal_static_import", "internal_dynamic_import"}
                       THEN <<path, import.symbol>> ELSE <<import.source, import.symbol>>,
             stratum |-> stratum, activation |-> activation]
        isLocal == target # NoPath \/ import.source \in Relative
                       \/ ConfiguredSpecifier(state, import.source)
    IN  IF context.scoped /\ isLocal
        THEN IF target # NoPath /\ import.symbol # ""
             THEN found(<<"internal", ModuleName[target], import.symbol>>,
                        "internal_static_import", "current_runtime")
             ELSE found(NoKey, "internal_dynamic_import", "unknown")
        ELSE IF import.source \in Relative THEN found(NoKey, "none", "unknown")
        ELSE IF import.symbol = "" THEN found(NoKey, "dynamic_import", "unknown")
        ELSE found(<<"public", import.source, import.symbol>>, "static_import",
                   IF ~declared THEN "unknown"
                   ELSE IF import.source \in context.locked THEN "on_upgrade" ELSE "current_runtime")

Reference(state, context, path, import) ==
    ReferenceTo(ResolveTypeScriptModule(state, path, import.source), PackageMetadata(state),
                state, context, path, import)

References(state, context) ==
    {r \in UNION {{Reference(state, context, e.path, e.content.imports[k]) :
                        k \in DOMAIN e.content.imports} : e \in ToSet(Modules(state))} :
        r.stratum # "none"}

ExtractionOf(state, defined, references) ==
    LET failed == Cardinality(FailedModules(state))
        processed == Len(Modules(state))
        eligible == Eligible(state)
        partial == \/ \E e \in ToSet(state) : e.failure # NoFailure
                   \/ defined.unresolved > 0
                   \/ \E r \in references : r.stratum = "internal_dynamic_import"
    IN  [definitions |-> defined.definitions, references |-> references,
         coverage |-> [state |-> CASE eligible = 0 -> "unsupported"
                                   [] eligible > 0 /\ failed = eligible -> "failed"
                                   [] eligible > 0 /\ processed > 0 /\ partial -> "partial"
                                   [] OTHER -> "complete",
                       eligible |-> eligible, processed |-> processed, skipped |-> 0,
                       failed |-> failed]]

MaterializeState(state, context) ==
    ExtractionOf(state, Definitions(state, context), References(state, context))

Extract(artifacts, context) == MaterializeState(PrepareState(artifacts), context)

-----------------------------------------------------------------------------
(* Partitions: a record of a key, the paths it owns, the keys it depends   *)
(* on and its payload.                                                     *)

\* encodeState sorts every collection by path; decodeState reads it back.
EncodeState(state) == SortSeq(state, ByRank)

BuildPartition(root, state) ==
    [key |-> root, owned |-> {e.path : e \in {x \in ToSet(state) : x.content # NoContent}},
     dependencies |-> {}, payload |-> EncodeState(state)]

BuildPartitions(root, artifacts) == {BuildPartition(root, PrepareState(artifacts))}

\* A change has a kind, a path and, if renamed or copied, a previous path.
ChangedPaths(changes) == UNION {{c.path, c.previous} : c \in changes} \ {NoPath}

\* adapterRelevantChange, over all changes.
RelevantChanges(changes) ==
    {[kind |-> c.kind,
      path |-> IF RelevantPath(c.path) THEN c.path ELSE c.previous,
      previous |-> IF RelevantPath(c.path) /\ c.previous # NoPath /\ RelevantPath(c.previous)
                   THEN c.previous ELSE NoPath] :
        c \in {x \in changes : RelevantPath(x.path)
                                   \/ (x.previous # NoPath /\ RelevantPath(x.previous))}}

\* planPathPartitionInvalidation: the owners of the changed paths and every
\* partition that depends on one of them, directly or not.
PlanPathPartitionInvalidation(partitions, changes) ==
    LET changed == ChangedPaths(changes)
        keys == {p.key : p \in partitions}
        direct == {p.key : p \in {q \in partitions : q.owned \cap changed # {}}}
        closed(S) == direct \subseteq S
                         /\ \A p \in partitions : p.dependencies \cap S # {} => p.key \in S
    IN  [changed |-> changed,
         invalidated |-> {k \in keys : \A S \in SUBSET keys : closed(S) => k \in S},
         complete |-> \A path \in changed : \E p \in partitions : path \in p.owned]

\* planInvalidation: a package's only partition owns whatever has changed.
PlanInvalidation(partitions, changes) ==
    LET relevant == RelevantChanges(changes)
        owning(p) == [p EXCEPT !.owned = @ \cup ChangedPaths(relevant)]
    IN  PlanPathPartitionInvalidation(
            IF Cardinality(partitions) = 1 THEN {owning(p) : p \in partitions} ELSE partitions,
            relevant)

\* Mutant: a rename leaves the entry of the previous path.
WithoutChangedKeepingPrevious(state, changes) ==
    SelectSeq(state, LAMBDA e : \A c \in changes : e.path # c.path)

\* The state without what the changes replaced, moved or deleted.
WithoutChanged(state, changes) ==
    SelectSeq(state, LAMBDA e :
        \A c \in changes : e.path # c.path /\ (c.kind # "copied" => e.path # c.previous))

\* The files of the head that an update must be given.
ExpectedHeadPaths(changes) ==
    {c.path : c \in {x \in changes : x.kind # "deleted" /\ RelevantPath(x.path)}}

\* updatePartitions: no replacement unless the plan is complete and invalidates
\* the one partition there is.  A file that was not supplied is a failure.
UpdatePartitions(partitions, changes, supplied) ==
    LET plan == PlanInvalidation(partitions, changes)
        base == CHOOSE p \in partitions : TRUE
        kept == WithoutChanged(base.payload, changes)
        updated == FoldLeft(AddArtifactToState, kept, supplied)
        missing == SetToSortSeq(
                       {MissingEntry(path) :
                           path \in ExpectedHeadPaths(changes) \ {a.path : a \in ToSet(supplied)}},
                       ByRank)
    IN  IF plan.complete /\ Cardinality(partitions) = 1 /\ plan.invalidated = {base.key}
        THEN {BuildPartition(base.key, updated \o missing)}
        ELSE {}

-----------------------------------------------------------------------------
(* diff. *)

\* requiredParameterCounts: none unless every shape is a function's.
RequiredCounts(sigs) ==
    LET counts == {sigs[k].required : k \in DOMAIN sigs}
    IN  IF NotCallable \in counts THEN {} ELSE counts

ChangedCompatibility(before, after) ==
    LET prior == RequiredCounts(before.sigs)
        next == RequiredCounts(after.sigs)
    IN  IF prior = {} \/ next = {} THEN "unknown"
        ELSE IF \A n \in next, m \in prior : n > m THEN "breaking"
        ELSE IF ToSet(before.sigs) \subseteq ToSet(after.sigs) /\ before.impl = after.impl
        THEN "compatible" ELSE "potentially_breaking"

BothComplete(base, head) == base.coverage.state = "complete" /\ head.coverage.state = "complete"

\* The changes of two extractions of the same adapter version; anything less
\* than two complete extractions leaves their compatibility unknown.
Diff(base, head) ==
    LET complete == BothComplete(base, head)
        before == DOMAIN base.definitions
        after == DOMAIN head.definitions
        changed == (before \ after) \cup (after \ before)
                       \cup {k \in before \cap after : base.definitions[k] # head.definitions[k]}
        verdict(k) ==
            IF ~complete THEN "unknown"
            ELSE IF k \notin before THEN "compatible"
            ELSE IF k \notin after THEN "breaking"
            ELSE ChangedCompatibility(base.definitions[k], head.definitions[k])
    IN  [changes |-> [k \in changed |-> verdict(k)],
         coverage |-> [state |-> IF complete THEN "complete" ELSE "partial",
                       eligible |-> Cardinality(before \cup after), processed |-> Cardinality(changed),
                       skipped |-> Cardinality(before \cup after) - Cardinality(changed), failed |-> 0]]
=============================================================================
