--------------------------- MODULE RepositoryIndex ---------------------------
(***************************************************************************)
(* The index of a repository: generations that indexers publish from       *)
(* commits, and generations that are derived from a published one and the  *)
(* overlay of a pull request.  The two share the trees and the kinds of    *)
(* artifacts; the root that overlays start from is a published generation. *)
(***************************************************************************)
EXTENDS GenerationIndex, OverlayDerivation

RepositoryInit == Init /\ OverlayInit

RepositoryNext ==
    \/ Next /\ UNCHANGED derivation
    \/ OverlayNext /\ UNCHANGED vars

RepositorySpec == RepositoryInit /\ [][RepositoryNext]_<<vars, derivation>>

-----------------------------------------------------------------------------
(* Properties. *)

\* Nothing that a published generation lists ever changes: neither the rows of an
\* indexed one, nor the view that listArtifacts computes of a derived one.
PublishedIsFrozen == [][RowsStay /\ ViewsStay]_<<vars, derivation>>
=============================================================================
