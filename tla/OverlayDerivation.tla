-------------------------- MODULE OverlayDerivation --------------------------
(***************************************************************************)
(* Pull-request overlays and the logical head generations derived from     *)
(* them: CreatePullRequestOverlay.execute over SqliteStore's beginOverlay, *)
(* putOverlayEntries, completeOverlay and failOverlay, deriveGeneration,   *)
(* and listArtifacts, which computes the artifacts of a derived generation *)
(* from its base and its overlay every time it is asked.                   *)
(*                                                                         *)
(* The root generation is one that GenerationIndex publishes: its          *)
(* PublishedMatchesTree is what OverlayInit assumes.                       *)
(***************************************************************************)
EXTENDS Artifacts

CONSTANTS
    Builders,                  \* processes running execute
    Overlays, NoOverlay,       \* overlay IDs, and null
    GenerationIds, NoBase,     \* generation IDs, and null
    Root, RootCommit,          \* the indexed generation
    Requests                   \* what builders ask for

\* An overlay ID is made for one request (createSystemId).
ASSUME OverlayAssumption ==
    /\ NoOverlay \notin Overlays /\ NoBase \notin GenerationIds
    /\ Root \in GenerationIds /\ RootCommit \in Commits
    /\ Requests \subseteq [overlay : Overlays, base : GenerationIds, head : Commits]
    /\ \A a, b \in Requests : a.overlay = b.overlay => a = b

VARIABLES
    generation,   \* generations: the row of each ID
    overlay,      \* overlays with their entries and lease
    builder       \* where each process is inside execute

derivation == <<generation, overlay, builder>>

-----------------------------------------------------------------------------
(* State. *)

AbsentRow == [state |-> "absent"]

\* A generation without a row lists nothing.
AbsentGeneration == [state |-> "absent", artifacts |-> NoArtifacts, base |-> NoBase]

GenerationRow ==
    [state : {"complete", "partial"}, commit : Commits, artifacts : ArtifactMap,
     base : GenerationIds \cup {NoBase}, overlay : Overlays \cup {NoOverlay}]

Tombstone == [blob |-> NoBlob, parse |-> "tombstone"]

\* OverlayEntry of each path: a replacement, a tombstone or none.
Entries == [Paths -> Artifact \cup {NoArtifact, Tombstone}]

OverlayRow ==
    [state : {"building", "complete", "partial", "failed"}, base : GenerationIds,
     head : Commits, entries : Entries]

\* A DiffEntry; previous is the path itself unless it is a rename.
Change == [kind : {"deleted", "renamed", "changed"}, path : Paths, previous : Paths]

Idle == [pc |-> "idle"]

BuilderState ==
    {Idle}
    \cup [pc : {"begin", "list"}, request : Requests, todo : SUBSET Change, partial : BOOLEAN]
    \cup [pc : {"changes"}, request : Requests, todo : SUBSET Change, partial : BOOLEAN,
          listed : SUBSET Paths, entries : Entries]
    \cup [pc : {"complete"}, request : Requests, partial : BOOLEAN]
    \cup [pc : {"fail"}, request : Requests]

OverlayTypeOK ==
    /\ generation \in [GenerationIds -> GenerationRow \cup {AbsentGeneration}]
    /\ overlay \in [Overlays -> OverlayRow \cup {AbsentRow}]
    /\ builder \in [Builders -> BuilderState]

IsPublished(g) == generation[g].state \in {"complete", "partial"}

Completed(o) == overlay[o].state \in {"complete", "partial"}

\* materializeOverlayArtifacts.
Materialize(base, entries) ==
    [p \in Paths |-> CASE entries[p] = NoArtifact -> base[p]
                       [] entries[p] = Tombstone -> NoArtifact
                       [] OTHER -> entries[p]]

\* listArtifacts, along the ancestry of a derived generation.
ListArtifacts(generations, overlays) ==
    LET artifactsOf[g \in GenerationIds] ==
          IF generations[g].base = NoBase THEN generations[g].artifacts
          ELSE Materialize(artifactsOf[generations[g].base],
                           overlays[generations[g].overlay].entries)
    IN  artifactsOf

\* Any generation of the root commit that an index run can publish.
RootArtifacts(artifacts, state) ==
    /\ \A p \in Paths : artifacts[p] \in
         IF p \in TreeEntries(RootCommit)
         THEN {Classified(Tree[RootCommit][p]), FailedArtifact(Tree[RootCommit][p]), NoArtifact}
         ELSE {NoArtifact}
    /\ state = "complete" =>
         artifacts = CleanIndex(RootCommit)
           /\ \A p \in TreeEntries(RootCommit) : artifacts[p].parse = "parsed"

OverlayInit ==
    /\ \E artifacts \in ArtifactMap, state \in {"complete", "partial"} :
         /\ RootArtifacts(artifacts, state)
         /\ generation = [g \in GenerationIds |->
              IF g # Root THEN AbsentGeneration
              ELSE [state |-> state, commit |-> RootCommit, artifacts |-> artifacts,
                    base |-> NoBase, overlay |-> NoOverlay]]
    /\ overlay = [o \in Overlays |-> AbsentRow]
    /\ builder = [b \in Builders |-> Idle]

-----------------------------------------------------------------------------
(* CreatePullRequestOverlay.execute, one action per await that others can   *)
(* interleave with.                                                         *)

BuilderGoto(b, next) == builder' = [builder EXCEPT ![b] = next]

BuilderFails(b) == BuilderGoto(b, [pc |-> "fail", request |-> builder[b].request])

\* reader.compare: a diff of two trees in which some removed and added paths
\* are paired as renames.
DiffEntries(base, head, renames) ==
    LET removed == TreeEntries(base) \ TreeEntries(head)
        present == {p \in TreeEntries(head) : Tree[base][p] # Tree[head][p]}
    IN  {[kind |-> "deleted", path |-> p, previous |-> p] :
            p \in removed \ {r[1] : r \in renames}}
        \cup {[kind |-> "renamed", path |-> r[2], previous |-> r[1]] : r \in renames}
        \cup {[kind |-> "changed", path |-> p, previous |-> p] :
                p \in present \ {r[2] : r \in renames}}

Renames(base, head) ==
    {renames \in SUBSET ((TreeEntries(base) \ TreeEntries(head))
                           \X (TreeEntries(head) \ TreeEntries(base))) :
        \A r, s \in renames : r[1] = s[1] \/ r[2] = s[2] => r = s}

\* The base row, resolveCommit and compare; a published row never changes, so
\* reading it in the same step as the diff loses nothing.
StartOverlay(b, request, renames, listed, complete) ==
    LET base == generation[request.base].commit
        changes == DiffEntries(base, request.head, renames)
    IN  /\ builder[b].pc = "idle"
        /\ listed \subseteq changes /\ (complete => listed = changes)
        /\ BuilderGoto(b, [pc |-> "begin", request |-> request, todo |-> listed, partial |-> ~complete])
        /\ UNCHANGED <<generation, overlay>>

\* beginOverlay: a new row and lease, or the lease of the building row.
BeginOverlay(b) ==
    LET request == builder[b].request
        row == overlay[request.overlay]
    IN  /\ builder[b].pc = "begin"
        /\ IF row.state = "absent"
           THEN overlay' = [overlay EXCEPT ![request.overlay] =
                  [state |-> "building", base |-> request.base, head |-> request.head,
                   entries |-> NoArtifacts]]
           ELSE UNCHANGED overlay
        /\ IF row.state \in {"absent", "building"}
           THEN BuilderGoto(b, [builder[b] EXCEPT !.pc = "list"])
           ELSE BuilderGoto(b, Idle)
        /\ UNCHANGED generation

\* listTree of the head.
ListHead(b, listed, complete) ==
    LET entries == TreeEntries(builder[b].request.head)
    IN  /\ builder[b].pc = "list"
        /\ listed \subseteq entries /\ (complete => listed = entries)
        /\ BuilderGoto(b, [pc |-> "changes", request |-> builder[b].request,
                    todo |-> builder[b].todo, partial |-> builder[b].partial \/ ~complete,
                    listed |-> listed, entries |-> NoArtifacts])
        /\ UNCHANGED <<generation, overlay>>

\* The change at the front of the diff, which is in path order.
NextChange(b) ==
    CHOOSE change \in builder[b].todo : \A other \in builder[b].todo : change.path <= other.path

HasChange(b, kinds) ==
    builder[b].pc = "changes" /\ builder[b].todo # {} /\ NextChange(b).kind \in kinds

Deletes(b) ==
    /\ HasChange(b, {"deleted"})
    /\ builder' = [builder EXCEPT ![b].todo = @ \ {NextChange(b)},
                                  ![b].entries[NextChange(b).path] = Tombstone]
    /\ UNCHANGED <<generation, overlay>>

\* Mutant: the previous path of a rename keeps its artifact.
EntriesWithoutPrevious(b, entry) ==
    [builder[b].entries EXCEPT ![NextChange(b).path] = entry]

\* The entries a renamed or changed file adds.
EntriesWith(b, entry) ==
    LET change == NextChange(b)
    IN  [p \in Paths |-> IF p = change.path THEN entry
                         ELSE IF p = change.previous THEN Tombstone
                         ELSE builder[b].entries[p]]

\* The blob is read and classified, or it is unreadable, incomplete or
\* unparseable; anything but parsed source leaves the overlay partial.
Replaces(b, readable) ==
    LET blob == Tree[builder[b].request.head][NextChange(b).path]
        artifact == IF readable THEN Classified(blob) ELSE FailedArtifact(blob)
    IN  /\ HasChange(b, {"renamed", "changed"})
        /\ NextChange(b).path \in builder[b].listed
        /\ builder' = [builder EXCEPT
             ![b].todo = @ \ {NextChange(b)}, ![b].entries = EntriesWith(b, artifact),
             ![b].partial = @ \/ artifact.parse # "parsed"]
        /\ UNCHANGED <<generation, overlay>>

\* missing_blob: the changed path is not in the head tree that was listed.
MissesHead(b) ==
    /\ HasChange(b, {"renamed", "changed"})
    /\ NextChange(b).path \notin builder[b].listed
    /\ builder' = [builder EXCEPT
         ![b].todo = @ \ {NextChange(b)}, ![b].entries = EntriesWith(b, NoArtifact),
         ![b].partial = TRUE]
    /\ UNCHANGED <<generation, overlay>>

\* #activeOverlayLease.  The lease is shared by every builder of the row.
ActiveOverlayLease(request) ==
    /\ overlay[request.overlay].state = "building"
    /\ overlay[request.overlay].base = request.base

\* Mutant: the batch is written whatever the state of the row.
PutEntriesUnleased(b) ==
    LET request == builder[b].request
    IN  /\ builder[b].pc = "changes" /\ builder[b].todo = {}
        /\ overlay' = [overlay EXCEPT ![request.overlay].entries = builder[b].entries]
        /\ BuilderGoto(b, [pc |-> "complete", request |-> request, partial |-> builder[b].partial])
        /\ UNCHANGED generation

\* putOverlayEntries: one transaction; a path that is already there breaks
\* the primary key and fails the batch.
PutEntries(b) ==
    LET request == builder[b].request
        entries == builder[b].entries
        stored == overlay[request.overlay].entries
        collides == \E p \in Paths : entries[p] # NoArtifact /\ stored[p] # NoArtifact
    IN  /\ builder[b].pc = "changes" /\ builder[b].todo = {}
        /\ IF ActiveOverlayLease(request) /\ ~collides
           THEN /\ overlay' = [overlay EXCEPT ![request.overlay].entries =
                     [p \in Paths |-> IF entries[p] = NoArtifact THEN stored[p] ELSE entries[p]]]
                /\ BuilderGoto(b, [pc |-> "complete", request |-> request,
                            partial |-> builder[b].partial])
           ELSE BuilderFails(b) /\ UNCHANGED overlay
        /\ UNCHANGED generation

Settle(b, state) ==
    LET request == builder[b].request
    IN  /\ overlay' = IF ActiveOverlayLease(request)
                      THEN [overlay EXCEPT ![request.overlay].state = state] ELSE overlay
        /\ BuilderGoto(b, Idle)
        /\ UNCHANGED generation

CompleteOverlay(b) ==
    builder[b].pc = "complete" /\ Settle(b, IF builder[b].partial THEN "partial" ELSE "complete")

FailOverlay(b) == builder[b].pc = "fail" /\ Settle(b, "failed")

\* The head tree cannot be listed, the run was superseded, or a blob of
\* another entry was returned.
InterruptBuilder(b) ==
    /\ builder[b].pc \in {"list", "changes"}
    /\ BuilderFails(b)
    /\ UNCHANGED <<generation, overlay>>

CrashBuilder(b) ==
    /\ builder[b].pc # "idle"
    /\ BuilderGoto(b, Idle)
    /\ UNCHANGED <<generation, overlay>>

-----------------------------------------------------------------------------
(* deriveGeneration: one transaction. *)

\* An existing row is returned or refused and nothing changes.
DeriveGeneration(g, base, o) ==
    /\ generation[g].state = "absent" /\ g # base
    /\ IsPublished(base) /\ Completed(o)
    /\ overlay[o].base = base
    /\ generation' = [generation EXCEPT ![g] =
         [state |-> IF generation[base].state = "partial" \/ overlay[o].state = "partial"
                    THEN "partial" ELSE "complete",
          commit |-> overlay[o].head, artifacts |-> NoArtifacts, base |-> base, overlay |-> o]]
    /\ UNCHANGED <<overlay, builder>>

BuilderStep(b) ==
    \/ \E request \in Requests : IsPublished(request.base)
         /\ \E renames \in Renames(generation[request.base].commit, request.head) :
              \E listed \in SUBSET DiffEntries(generation[request.base].commit,
                                               request.head, renames),
                 complete \in BOOLEAN : StartOverlay(b, request, renames, listed, complete)
    \/ BeginOverlay(b)
    \/ \E listed \in SUBSET Paths, complete \in BOOLEAN : ListHead(b, listed, complete)
    \/ Deletes(b) \/ MissesHead(b)
    \/ \E readable \in BOOLEAN : Replaces(b, readable)
    \/ PutEntries(b) \/ CompleteOverlay(b) \/ FailOverlay(b)
    \/ InterruptBuilder(b) \/ CrashBuilder(b)

OverlayNext ==
    \/ \E b \in Builders : BuilderStep(b)
    \/ \E g, base \in GenerationIds, o \in Overlays : DeriveGeneration(g, base, o)

OverlaySpec == OverlayInit /\ [][OverlayNext]_derivation

-----------------------------------------------------------------------------
(* Safety. *)

\* "Logical artifact enumeration must be identical to a clean materialized
\* generation": a complete derived generation, however long its ancestry and
\* however many builders shared the leases of its overlays, lists exactly what
\* a clean index of its head commit would.
DerivedIsCleanIndex ==
    \A g \in GenerationIds : generation[g].state = "complete" =>
        ListArtifacts(generation, overlay)[g] = CleanIndex(generation[g].commit)

\* A derived generation is computed from its base and its overlay at every
\* read, and never lists anything else than the first time, although builders
\* of the overlay may still be running.
ViewsStay ==
    \A g \in GenerationIds : IsPublished(g) =>
        ListArtifacts(generation, overlay)'[g] = ListArtifacts(generation, overlay)[g]
=============================================================================
