--------------------------- MODULE BudgetedReader ---------------------------
(***************************************************************************)
(* ExecutionBudgetRepositoryReaderV2 and withStorageQueryBudgetV2: port    *)
(* calls of one run under an ExecutionBudgetV2.  A call reserves, awaits   *)
(* its delegate while other calls go on, and gives back what it did not    *)
(* use.                                                                    *)
(***************************************************************************)
EXTENDS ExecutionBudget, FiniteSetsExt

CONSTANTS
    Callers,     \* concurrent users of the reader
    MaxBlob      \* largest maximumBytes asked for

VARIABLES
    call,        \* what each caller awaits
    delivered,   \* bytes handed to callers
    forfeited    \* bytes kept reserved after an oversized answer

reader == <<call, delivered, forfeited>>

NoCall == [op |-> "none", bound |-> 0]

Calls == [op : {"none", "metadata", "tree", "blob"}, bound : Nat]

ReaderTypeOK ==
    /\ BudgetTypeOK
    /\ call \in [Callers -> Calls]
    /\ delivered \in Nat /\ forfeited \in Nat

CallsInit ==
    /\ call = [c \in Callers |-> NoCall]
    /\ delivered = 0 /\ forfeited = 0

Awaits(c, op, bound) == call' = [call EXCEPT ![c] = [op |-> op, bound |-> bound]]

Returns(c) == call' = [call EXCEPT ![c] = NoCall]

\* resolveRepository, resolveCommit; listTree and compare while the provider
\* is asked.
RequestMetadata(c, op) ==
    LET delta == Just("providerRequests", 1)
    IN  /\ call[c].op = "none"
        /\ \/ Reserve(delta) /\ Awaits(c, op, 0)
           \/ Refuse(delta) /\ UNCHANGED call
        /\ UNCHANGED <<delivered, forfeited>>

AnswerMetadata(c) ==
    /\ call[c].op = "metadata"
    /\ Returns(c)
    /\ UNCHANGED <<budget, delivered, forfeited>>

\* listTree and compare have their answer: its entries are reserved now, and
\* an answer that does not fit is dropped.  The other accounting reserves 0.
AnswerTree(c, entries) ==
    LET delta == Just("artifacts", entries)
    IN  /\ call[c].op = "tree"
        /\ Reserve(delta) \/ Refuse(delta)
        /\ Returns(c)
        /\ UNCHANGED <<delivered, forfeited>>

\* The provider fails.
TreeFails(c) ==
    /\ call[c].op = "tree"
    /\ Returns(c)
    /\ UNCHANGED <<budget, delivered, forfeited>>

\* Mutant: the bytes are not reserved before the provider is asked.
ReadBlobUnreserved(c, maximum) ==
    LET delta == Just("providerRequests", 1)
    IN  /\ call[c].op = "none"
        /\ \/ Reserve(delta)
              /\ Awaits(c, "blob", Min({maximum, Remaining("sourceBytes")}))
           \/ Refuse(delta) /\ UNCHANGED call
        /\ UNCHANGED <<delivered, forfeited>>

\* readBlob up to its await.
ReadBlob(c, maximum) ==
    LET remaining == Remaining("sourceBytes")
        bound == Min({maximum, remaining})
        delta == IF maximum > 0 /\ remaining = 0 THEN Just("sourceBytes", 1)
                 ELSE [Just("providerRequests", 1) EXCEPT !["sourceBytes"] = bound]
    IN  /\ call[c].op = "none"
        /\ \/ Reserve(delta) /\ Awaits(c, "blob", bound)
           \/ Refuse(delta) /\ UNCHANGED call
        /\ UNCHANGED <<delivered, forfeited>>

AnswerBlob(c, bytes) ==
    /\ call[c].op = "blob" /\ bytes <= call[c].bound
    /\ Release("sourceBytes", call[c].bound - bytes)
    /\ delivered' = delivered + bytes
    /\ Returns(c)
    /\ UNCHANGED forfeited

\* The provider fails or throws: the bytes are given back, the request is not.
BlobFails(c) ==
    /\ call[c].op = "blob"
    /\ Release("sourceBytes", call[c].bound)
    /\ Returns(c)
    /\ UNCHANGED <<delivered, forfeited>>

\* The provider answers with more than the bound: one byte more than remains
\* is asked for to mark the budget exhausted, the answer is dropped and the
\* reservation stays.
BlobOverruns(c) ==
    /\ call[c].op = "blob"
    /\ Exhaust(Just("sourceBytes", Remaining("sourceBytes") + 1))
    /\ forfeited' = forfeited + call[c].bound
    /\ Returns(c)
    /\ UNCHANGED delivered

\* A call through withStorageQueryBudgetV2; the cleanup methods bypass it.
QueryStorage(c) ==
    LET delta == Just("storageQueries", 1)
    IN  /\ call[c].op = "none"
        /\ Reserve(delta) \/ Refuse(delta)
        /\ UNCHANGED <<call, delivered, forfeited>>

CallerStep(c) ==
    \/ \E op \in {"metadata", "tree"} : RequestMetadata(c, op)
    \/ AnswerMetadata(c) \/ TreeFails(c)
    \/ \E entries \in 0 .. limits["artifacts"] + 1 : AnswerTree(c, entries)
    \/ \E maximum \in 0 .. MaxBlob : ReadBlob(c, maximum)
    \/ \E bytes \in 0 .. MaxBlob : AnswerBlob(c, bytes)
    \/ BlobFails(c) \/ BlobOverruns(c)
    \/ QueryStorage(c)

ReaderNext ==
    \/ \E c \in Callers : CallerStep(c)
    \/ DeadlinePasses /\ UNCHANGED reader

-----------------------------------------------------------------------------
(* Safety. *)

Bounds == [c \in Callers |-> call[c].bound]

\* The source bytes in use are exactly what was delivered, what is in flight
\* and what oversized answers forfeited: no byte is given back twice, so
\* release never throws and usage never under-reports what was read.
BytesAreAccounted ==
    usage["sourceBytes"] =
      delivered + forfeited + MapThenSumSet(LAMBDA c : Bounds[c], Callers)
=============================================================================
