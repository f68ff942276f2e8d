---------------------------- MODULE SourceBudget ----------------------------
(***************************************************************************)
(* BudgetedRepositoryReader: hard ceilings for the metadata calls, blob    *)
(* reads and blob bytes of one bounded run.  Unlike ExecutionBudgetV2 it   *)
(* keeps bytes used and bytes reserved apart, and counts what an oversized *)
(* answer brought.                                                         *)
(***************************************************************************)
EXTENDS Integers, FiniteSetsExt

CONSTANTS
    Callers,               \* concurrent users of the reader
    MaximumMetadataCalls, MaximumBlobReads, MaximumBlobBytes,
    MaxBlob                \* largest maximumBytes asked for, and overrun

VARIABLES
    metadataCalls, blobReads, blobBytes,   \* #usage
    reservedBlobBytes,                     \* #reservedBlobBytes
    call,                                  \* what each caller awaits
    delivered                              \* bytes handed to callers

vars == <<metadataCalls, blobReads, blobBytes, reservedBlobBytes, call, delivered>>

NoCall == [op |-> "none", bound |-> 0]

TypeOK ==
    /\ {metadataCalls, blobReads, blobBytes, reservedBlobBytes, delivered} \subseteq Nat
    /\ call \in [Callers -> [op : {"none", "metadata", "blob"}, bound : Nat]]

Init ==
    /\ metadataCalls = 0 /\ blobReads = 0 /\ blobBytes = 0
    /\ reservedBlobBytes = 0 /\ delivered = 0
    /\ call = [c \in Callers |-> NoCall]

\* resolveRepository, resolveCommit, listTree, compare.
RequestMetadata(c) ==
    /\ call[c].op = "none"
    /\ metadataCalls < MaximumMetadataCalls
    /\ metadataCalls' = metadataCalls + 1
    /\ call' = [call EXCEPT ![c] = [op |-> "metadata", bound |-> 0]]
    /\ UNCHANGED <<blobReads, blobBytes, reservedBlobBytes, delivered>>

AnswerMetadata(c) ==
    /\ call[c].op = "metadata"
    /\ call' = [call EXCEPT ![c] = NoCall]
    /\ UNCHANGED <<metadataCalls, blobReads, blobBytes, reservedBlobBytes, delivered>>

RemainingBytes == MaximumBlobBytes - blobBytes - reservedBlobBytes

\* readBlob up to its await; a refusal changes nothing but a statistic.
ReadBlob(c, maximum) ==
    LET bound == Min({maximum, RemainingBytes})
    IN  /\ call[c].op = "none"
        /\ blobReads < MaximumBlobReads /\ RemainingBytes > 0
        /\ blobReads' = blobReads + 1
        /\ reservedBlobBytes' = reservedBlobBytes + bound
        /\ call' = [call EXCEPT ![c] = [op |-> "blob", bound |-> bound]]
        /\ UNCHANGED <<metadataCalls, blobBytes, delivered>>

\* The finally block.
Returns(c) ==
    /\ reservedBlobBytes' = reservedBlobBytes - call[c].bound
    /\ call' = [call EXCEPT ![c] = NoCall]
    /\ UNCHANGED <<metadataCalls, blobReads>>

\* An answer is counted whatever its size, and dropped when it is oversized.
AnswerBlob(c, bytes) ==
    /\ call[c].op = "blob"
    /\ blobBytes' = blobBytes + bytes
    /\ delivered' = IF bytes <= call[c].bound THEN delivered + bytes ELSE delivered
    /\ Returns(c)

BlobFails(c) ==
    /\ call[c].op = "blob"
    /\ Returns(c)
    /\ UNCHANGED <<blobBytes, delivered>>

Next ==
    \E c \in Callers :
        \/ RequestMetadata(c) \/ AnswerMetadata(c) \/ BlobFails(c)
        \/ \E bytes \in 0 .. MaxBlob : ReadBlob(c, bytes) \/ AnswerBlob(c, bytes)

Spec == Init /\ [][Next]_vars
=============================================================================
