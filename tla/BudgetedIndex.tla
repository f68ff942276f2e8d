---------------------------- MODULE BudgetedIndex ----------------------------
(***************************************************************************)
(* IndexRepositoryGenerationV2.execute: one run of the index use case with *)
(* its reader, store and cache behind an ExecutionBudgetV2.  Every port    *)
(* call of the run is a step that the budget may refuse; what the use case *)
(* does with the refusal is its error path, except for failGeneration,     *)
(* which the budget never sees.  GenerationIndex has the concurrency of    *)
(* runs; here there is one run, every budget it may be given, and entries  *)
(* that parse when they can be read.                                       *)
(***************************************************************************)
EXTENDS ExecutionBudget, FiniteSetsExt

CONSTANTS
    Files,          \* number of tree entries, one provider byte each
    HasPrevious     \* the request names a previous generation

ASSUME RunAssumption == Files \in Nat /\ HasPrevious \in BOOLEAN

VARIABLES
    row,        \* state of the generation; "stored" is building with its artifacts
    pc,         \* next port call of the run
    todo,       \* entries left
    reusable,   \* previousByBlob was filled
    failedFiles,
    result      \* what execute resolves to

vars == <<budget, row, pc, todo, reusable, failedFiles, result>>

run == <<row, pc, todo, reusable, failedFiles, result>>

Steps == {"resolve", "select", "existing", "begin", "tree", "entries", "previous",
          "previousArtifacts", "cache", "read", "store", "put", "complete", "fail",
          "report", "done"}

TypeOK ==
    /\ BudgetTypeOK
    /\ row \in {"absent", "building", "stored", "complete", "partial", "failed"}
    /\ pc \in Steps /\ todo \in 0 .. Files /\ failedFiles \in 0 .. Files
    /\ reusable \in BOOLEAN
    /\ result \in {"none", "failure", "complete", "partial"}

\* The commit is new, or an earlier run published it.
Init ==
    /\ BudgetInit
    /\ row \in {"absent", "complete"}
    /\ pc = "resolve" /\ todo = Files /\ failedFiles = 0
    /\ reusable = FALSE /\ result = "none"

\* The port call of step `at' reserves delta and goes on at `next', or is
\* refused and the run goes on at `otherwise'.
Call(at, delta, next, otherwise) ==
    /\ pc = at
    /\ \/ Reserve(delta) /\ pc' = next
       \/ Refuse(delta) /\ pc' = otherwise

\* A refusal that ends the use case as it is.
FailsAtReport == result' = IF pc' = "report" THEN "failure" ELSE result

Query == Just("storageQueries", 1)

Request == Just("providerRequests", 1)

ResolveCommit ==
    /\ Call("resolve", Request, "select", "report")
    /\ FailsAtReport
    /\ UNCHANGED <<row, todo, failedFiles, reusable>>

SelectGeneration ==
    /\ Call("select", Query, IF row = "complete" THEN "existing" ELSE "begin", "report")
    /\ FailsAtReport
    /\ UNCHANGED <<row, todo, failedFiles, reusable>>

\* An existing generation is read back by three parallel queries; they reserve
\* one after the other in one step, and any refusal fails the run.
ReadExisting ==
    LET granted == IF late THEN 0 ELSE Min({3, Remaining("storageQueries")})
    IN  /\ pc = "existing" /\ pc' = "report"
        /\ usage' = [usage EXCEPT !["storageQueries"] = @ + granted]
        /\ exhausted' = IF granted = 3 THEN exhausted
                        ELSE exhausted \cup {IF late THEN "latencyMs" ELSE "storageQueries"}
        /\ result' = IF granted = 3 THEN "complete" ELSE "failure"
        /\ UNCHANGED <<limits, late, row, todo, failedFiles, reusable>>

BeginGeneration ==
    /\ Call("begin", Query, "tree", "report")
    /\ row' = IF pc' = "tree" THEN "building" ELSE row
    /\ FailsAtReport
    /\ UNCHANGED <<todo, failedFiles, reusable>>

\* listTree reserves the request, then the entries of the answer.
ListTree ==
    /\ Call("tree", Request, "entries", "fail")
    /\ UNCHANGED <<row, todo, failedFiles, result, reusable>>

FirstEntry == IF Files = 0 THEN "put" ELSE "cache"

CountEntries ==
    /\ Call("entries", Just("artifacts", Files),
            IF HasPrevious THEN "previous" ELSE FirstEntry, "fail")
    /\ UNCHANGED <<row, todo, failedFiles, result, reusable>>

\* getGeneration and listArtifacts of the previous generation: a refusal only
\* means that nothing is reused.
ReadPrevious ==
    /\ Call("previous", Query, "previousArtifacts", FirstEntry)
       \/ Call("previousArtifacts", Query, FirstEntry, FirstEntry)
    /\ reusable' = (pc = "previousArtifacts" /\ Fits(Query))
    /\ UNCHANGED <<row, todo, failedFiles, result>>

NextEntry == IF todo = 1 THEN "put" ELSE "cache"

\* The previous generation has the entry: no port call.
ReuseEntry ==
    /\ pc = "cache" /\ reusable
    /\ pc' = NextEntry /\ todo' = todo - 1
    /\ UNCHANGED <<budget, row, failedFiles, result, reusable>>

\* Mutant: a failing cache ends the run without fail().
ReadCacheUnclosed(hit) ==
    /\ Call("cache", Query, IF hit THEN NextEntry ELSE "read", "report")
    /\ todo' = IF hit /\ pc' # "report" THEN todo - 1 ELSE todo
    /\ FailsAtReport
    /\ UNCHANGED <<row, failedFiles, reusable>>

ReadCache(hit) ==
    /\ Call("cache", Query, IF hit THEN NextEntry ELSE "read", "fail")
    /\ todo' = IF hit /\ pc' # "fail" THEN todo - 1 ELSE todo
    /\ UNCHANGED <<row, failedFiles, result, reusable>>

\* readBlob's reservation for an entry of one byte.
Byte == IF Remaining("sourceBytes") = 0 THEN Just("sourceBytes", 1)
        ELSE [Request EXCEPT !["sourceBytes"] = 1]

\* An answer is complete, or of another blob, which fails the run.  A refused read
\* is an unreadable blob, which the run records as a failed file before it goes on.
ReadEntry ==
    /\ \E answered \in {"store", "fail"} : Call("read", Byte, answered, NextEntry)
    /\ IF pc' = NextEntry THEN todo' = todo - 1 /\ failedFiles' = failedFiles + 1
       ELSE UNCHANGED <<todo, failedFiles>>
    /\ UNCHANGED <<row, result, reusable>>

\* An incomplete answer is a failed file too; the byte is given back.
ReadIncomplete ==
    /\ pc = "read" /\ Fits(Byte) /\ Reserve(Request)
    /\ pc' = NextEntry /\ todo' = todo - 1 /\ failedFiles' = failedFiles + 1
    /\ UNCHANGED <<row, result, reusable>>

WriteCache ==
    /\ Call("store", Query, NextEntry, "fail")
    /\ todo' = IF pc' = "fail" THEN todo ELSE todo - 1
    /\ UNCHANGED <<row, failedFiles, result, reusable>>

PutArtifacts ==
    /\ Call("put", Query, "complete", "fail")
    /\ row' = IF pc' = "complete" THEN "stored" ELSE row
    /\ UNCHANGED <<todo, failedFiles, result, reusable>>

\* completeGeneration; a failure of it is returned and not cleaned up.
CompleteGeneration ==
    LET state == IF failedFiles > 0 THEN "partial" ELSE "complete"
    IN  /\ Call("complete", Query, "report", "report")
        /\ IF Fits(Query) THEN row' = state /\ result' = state
           ELSE result' = "failure" /\ UNCHANGED row
        /\ UNCHANGED <<todo, failedFiles, reusable>>

\* fail(): failGeneration is a cleanup method, which the budget never sees.
FailGeneration ==
    /\ pc = "fail" /\ pc' = "report"
    /\ row' = "failed" /\ result' = "failure"
    /\ UNCHANGED <<budget, todo, failedFiles, reusable>>

\* Mutant: the exhausted dimensions of the report are not consulted.
ReportLegacyState ==
    /\ pc = "report" /\ pc' = "done"
    /\ exhausted' = IF late THEN exhausted \cup {"latencyMs"} ELSE exhausted
    /\ UNCHANGED <<limits, usage, late, row, todo, failedFiles, result, reusable>>

\* budget.complete(), and the state of the V2 result.
Report ==
    /\ pc = "report" /\ pc' = "done"
    /\ exhausted' = IF late THEN exhausted \cup {"latencyMs"} ELSE exhausted
    /\ result' = IF result = "complete" /\ exhausted' # {} THEN "partial" ELSE result
    /\ UNCHANGED <<limits, usage, late, row, todo, failedFiles, reusable>>

RunStep ==
    \/ ResolveCommit \/ SelectGeneration \/ ReadExisting \/ BeginGeneration
    \/ ListTree \/ CountEntries \/ ReadPrevious \/ ReuseEntry
    \/ \E hit \in BOOLEAN : ReadCache(hit)
    \/ ReadEntry \/ ReadIncomplete \/ WriteCache \/ PutArtifacts \/ CompleteGeneration
    \/ FailGeneration \/ Report

Next == RunStep \/ (pc # "done" /\ DeadlinePasses /\ UNCHANGED run)

\* Every awaited port call returns.
Spec == Init /\ [][Next]_vars /\ WF_vars(RunStep)

-----------------------------------------------------------------------------
(* Properties. *)

\* A run that reports complete was refused nothing on the way, met no deadline
\* and published (or found) a complete generation, whatever the limits.
CompleteWasRefusedNothing ==
    pc = "done" /\ result = "complete" => exhausted = {} /\ failedFiles = 0 /\ row = "complete"

\* The stored generation is in state building, under its lease.
StillBuilding == row \in {"building", "stored"}

\* fail(), and the return of completeGeneration's failure without it: a run that
\* failed leaves its generation building only if every entry was indexed and every
\* artifact stored, and completion was what the budget refused.
OnlyCompletionLeavesLease == result = "failure" /\ StillBuilding => row = "stored" /\ todo = 0

\* What the documents say without that exception ("cleanup operations still close
\* failed leases").
\* Not kept: TLC refutes it (README, section 6).
FailedRunClosesLease == result = "failure" => ~StillBuilding
=============================================================================
