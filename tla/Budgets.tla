------------------------------- MODULE Budgets -------------------------------
(***************************************************************************)
(* What runs under a budget: the index run of BudgetedIndex, the           *)
(* concurrent callers of ExecutionBudgetRepositoryReaderV2                 *)
(* (BudgetedReader) on an ExecutionBudgetV2 like the run's, or those of    *)
(* BudgetedRepositoryReader (SourceBudget).  A behaviour is of one subject *)
(* and the others stay unused.                                             *)
(***************************************************************************)
EXTENDS BudgetedIndex, BudgetedReader

CONSTANTS MaximumMetadataCalls, MaximumBlobReads, MaximumBlobBytes

\* The ceilings are validated to be nonnegative integers.
ASSUME CallersAssumption ==
    IsFiniteSet(Callers) /\ MaxBlob \in Nat /\ MaximumBlobBytes \in Nat

VARIABLES
    subject,       \* what runs in this behaviour
    metadataCalls, blobReads, blobBytes, reservedBlobBytes, sourceCall, sourceDelivered

Source == INSTANCE SourceBudget WITH call <- sourceCall, delivered <- sourceDelivered

source == <<metadataCalls, blobReads, blobBytes, reservedBlobBytes, sourceCall, sourceDelivered>>

all == <<vars, subject, reader, source>>

BudgetsInit ==
    /\ subject \in {"index", "reader", "source"}
    /\ Init /\ CallsInit /\ Source!Init

BudgetsNext ==
    /\ UNCHANGED subject
    /\ \/ subject = "index" /\ Next /\ UNCHANGED <<reader, source>>
       \/ subject = "reader" /\ ReaderNext /\ UNCHANGED <<run, source>>
       \/ subject = "source" /\ Source!Next /\ UNCHANGED <<vars, reader>>

\* Every awaited port call of the index run returns.
IndexProgress == subject = "index" /\ RunStep /\ UNCHANGED <<subject, reader, source>>

BudgetsSpec == BudgetsInit /\ [][BudgetsNext]_all /\ WF_all(IndexProgress)

-----------------------------------------------------------------------------
(* Properties. *)

\* Whatever the budget is, the index run ends: no exhausted dimension makes it
\* wait or go round in circles, and a run that failed leaves its generation building
\* only if all of it is stored and its completion was refused.
IndexRunEnds == subject = "index" ~> (pc = "done" /\ OnlyCompletionLeavesLease)

ReaderMeter == INSTANCE ByteMeter WITH
    byteLimit <- limits["sourceBytes"], bound <- [c \in Callers |-> call[c].bound]

SourceMeter == INSTANCE ByteMeter WITH
    byteLimit <- MaximumBlobBytes, delivered <- sourceDelivered,
    bound <- [c \in Callers |-> sourceCall[c].bound]

\* ExecutionBudgetRepositoryReaderV2 and BudgetedRepositoryReader implement the
\* byte meter: however their concurrent calls interleave, fail or overrun, what is
\* delivered and what is reserved never exceed the limit, and no byte is given
\* back twice.
ReadersImplementMeter ==
    /\ ReaderMeter!Spec /\ SourceMeter!Spec
    /\ [](subject = "reader" => BytesAreAccounted)
=============================================================================
