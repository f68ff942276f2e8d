------------------------------- MODULE MCIndex -------------------------------
(***************************************************************************)
(* The repository index for TLC: indexers of generations, or builders of   *)
(* overlays and the generations derived from them.  A behaviour is of one  *)
(* subject; the other stays unused.                                        *)
(***************************************************************************)
EXTENDS RepositoryIndex, TLC

CONSTANT Subjects    \* what the run is about

VARIABLE subject

-----------------------------------------------------------------------------
(* Instances. *)

\* For the overlays: a file moved and edited, so a diff may pair the paths or not,
\* and then edited in place.  For the indexers: one file kept, one added.
Trees == << <<1, NoBlob>>, <<NoBlob, 3>>, <<NoBlob, 2>>, <<1, NoBlob>>, <<1, 3>> >>

\* Two generations, one per commit.
OnePerCommit == [g \in Generations |-> g + 3]

\* A pull request on the root, and one on top of the head derived from it.
Stacked == {[overlay |-> 1, base |-> 1, head |-> 2], [overlay |-> 2, base |-> 2, head |-> 3]}

Interchangeable == Permutations(Indexers) \cup Permutations(Builders)

IndexInit ==
    /\ subject \in Subjects
    /\ Init /\ OverlayInit
    /\ subject # "overlays" =>
        generation[1].state = "complete" /\ generation[1].artifacts = CleanIndex(1)

IndexNext ==
    /\ UNCHANGED subject
    /\ \/ subject = "indexers" /\ Next /\ UNCHANGED derivation
       \/ subject = "overlays" /\ OverlayNext /\ UNCHANGED vars

IndexSpec == IndexInit /\ [][IndexNext]_<<subject, vars, derivation>>
=============================================================================
