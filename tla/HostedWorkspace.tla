--------------------------- MODULE HostedWorkspace ---------------------------
(***************************************************************************)
(* The rows of one hosted workspace and the operations that cut across its *)
(* queues: the purge of a repository, and the logical backup and restore,  *)
(* while workers schedule webhooks and persist analyses.  A row is named   *)
(* by its analysis, which belongs to a repository and a pull request.      *)
(*                                                                         *)
(* WebhookScheduling and JobExecution model leases, attempts and           *)
(* supersession; here a claim may simply be lost or outlive its lease.     *)
(***************************************************************************)
EXTENDS Integers, FiniteSets, Sequences

CONSTANTS
    Analyses,
    PullRequestOf,   \* analysis -> the pull request it is of
    RepositoryOf,    \* pull request -> repository
    Ownerless,       \* pull requests whose pointer the handler gives no repositoryId
    HostedWorkers,
    NoPointer,       \* a pull request without a pointer
    Contents,        \* payload hashes; two executions of a job may differ in theirs
    NoContent,
    MaxReceipts      \* bound: deliveries accepted

HostedPulls == {PullRequestOf[a] : a \in Analyses}
HostedRepositories == {RepositoryOf[p] : p \in HostedPulls}
AnalysesOf(r) == {a \in Analyses : RepositoryOf[PullRequestOf[a]] = r}

ASSUME HostedAssumption ==
    /\ NoContent \notin Contents /\ NoPointer \notin Analyses
    /\ Ownerless \subseteq HostedPulls

VARIABLES
    inbox,       \* reverb_webhook_inbox: "none", "pending" or "processed"
    jobs,        \* reverb_hosted_jobs: "none", "available", "leased" or "settled"
    canonical,   \* reverb_canonical_records: analysis -> payload hash
    pointers,    \* reverb_canonical_pointers: the current analysis of a pull request
    outbox,      \* reverb_delivery_outbox
    hosted,      \* what each worker is doing
    backup,      \* the last backupWorkspace
    restore,     \* the restoreWorkspace under way
    receipts,
    quiet        \* history: analyses purged when nothing was about to put their rows

tables == <<inbox, jobs, canonical, pointers, outbox>>
workspace == <<tables, hosted, backup, restore, receipts, quiet>>

Waiting == [pc |-> "waiting"]
NoBackup == [pc |-> "none"]
NoRestore == [pc |-> "none"]

WorkspaceInit ==
    /\ inbox = [a \in Analyses |-> "none"]
    /\ jobs = [a \in Analyses |-> "none"]
    /\ canonical = [a \in Analyses |-> NoContent] /\ outbox = {}
    /\ pointers = [p \in HostedPulls |-> NoPointer]
    /\ hosted = [w \in HostedWorkers |-> Waiting]
    /\ backup = NoBackup /\ restore = NoRestore
    /\ receipts = 0 /\ quiet = {}

Becomes(w, pc) == hosted' = [hosted EXCEPT ![w].pc = pc]
Stops(w) == hosted' = [hosted EXCEPT ![w] = Waiting]

-----------------------------------------------------------------------------
(* Webhooks and jobs. *)

\* receive: a delivery that the inbox holds is a duplicate.
Receive(a) ==
    /\ inbox[a] = "none" /\ receipts < MaxReceipts
    /\ inbox' = [inbox EXCEPT ![a] = "pending"]
    /\ receipts' = receipts + 1
    /\ quiet' = quiet \ {a}
    /\ UNCHANGED <<jobs, canonical, pointers, outbox, hosted, backup, restore>>

\* claimWebhook and claimJob.
Claim(w, a) ==
    /\ hosted[w] = Waiting
    /\ \/ /\ inbox[a] = "pending"
          /\ hosted' = [hosted EXCEPT ![w] = [pc |-> "scheduling", analysis |-> a]]
          /\ UNCHANGED tables
       \/ /\ jobs[a] \in {"available", "leased"}
          /\ jobs' = [jobs EXCEPT ![a] = "leased"]
          /\ hosted' = [hosted EXCEPT ![w] = [pc |-> "analysing", analysis |-> a]]
          /\ UNCHANGED <<inbox, canonical, pointers, outbox>>
    /\ UNCHANGED <<backup, restore, receipts, quiet>>

\* enqueueJob, which keeps a job that is there, and supersedeJobs.
EnqueueJob(w) ==
    LET a == hosted[w].analysis
    IN  /\ hosted[w].pc = "scheduling"
        /\ jobs' = [b \in Analyses |->
               CASE b = a -> IF jobs[a] = "none" THEN "available" ELSE jobs[a]
                 [] b # a /\ PullRequestOf[b] = PullRequestOf[a]
                        /\ jobs[b] \in {"available", "leased"} -> "settled"
                 [] OTHER -> jobs[b]]
        /\ Becomes(w, "resolving")
        /\ UNCHANGED <<inbox, canonical, pointers, outbox, backup, restore, receipts, quiet>>

\* resolveWebhook updates no row if the purge took it.
ResolveWebhook(w) ==
    LET a == hosted[w].analysis
    IN  /\ hosted[w].pc = "resolving"
        /\ inbox' = [inbox EXCEPT ![a] = IF @ = "none" THEN @ ELSE "processed"]
        /\ Stops(w)
        /\ UNCHANGED <<jobs, canonical, pointers, outbox, backup, restore, receipts, quiet>>

\* A statement that throws ends in failJob, which is stale if the job is no longer
\* leased.
FailJob(w) ==
    LET a == hosted[w].analysis
    IN  /\ jobs' = [jobs EXCEPT ![a] = IF @ = "leased" THEN "available" ELSE @]
        /\ Stops(w)
        /\ UNCHANGED <<inbox, canonical, pointers, outbox>>

\* putCanonicalRecord, in a transaction of its own like the three that follow: a
\* record is immutable, and throws if it is put with another payload.
PutCanonicalRecord(w) ==
    LET a == hosted[w].analysis
    IN  /\ hosted[w].pc = "analysing"
        /\ \E content \in Contents :
               \/ /\ canonical[a] \in {NoContent, content}
                  /\ canonical' = [canonical EXCEPT ![a] = content]
                  /\ hosted' = [hosted EXCEPT ![w] =
                         [pc |-> "pointing", analysis |-> a, content |-> content]]
                  /\ UNCHANGED <<inbox, jobs, pointers, outbox>>
               \/ canonical[a] \notin {NoContent, content} /\ FailJob(w)
        /\ UNCHANGED <<backup, restore, receipts, quiet>>

\* putCanonicalPointer: the target is a foreign key.  An analysis that is not
\* current has no pointer.
PutCanonicalPointer(w) ==
    LET a == hosted[w].analysis
    IN  /\ hosted[w].pc = "pointing"
        /\ \/ /\ canonical[a] # NoContent
              /\ pointers' = [pointers EXCEPT ![PullRequestOf[a]] = a]
              /\ Becomes(w, "delivering")
              /\ UNCHANGED <<inbox, jobs, canonical, outbox>>
           \/ Becomes(w, "delivering") /\ UNCHANGED tables
           \/ canonical[a] = NoContent /\ FailJob(w)
        /\ UNCHANGED <<backup, restore, receipts, quiet>>

\* Mutant: canonical_record_hash references nothing.
Unreferenced(a, content) == TRUE

\* The foreign key of the outbox: the payload hash of a record.  A payload names
\* its analysis, so no two analyses have one hash.
Referenced(a, content) == canonical[a] = content

\* enqueueDelivery.
EnqueueDelivery(w) ==
    LET a == hosted[w].analysis
        present == Referenced(a, hosted[w].content)
    IN  /\ hosted[w].pc = "delivering"
        /\ \/ /\ present
              /\ outbox' = outbox \cup {a}
              /\ hosted' = [hosted EXCEPT ![w] = [pc |-> "completing", analysis |-> a]]
              /\ UNCHANGED <<inbox, jobs, canonical, pointers>>
           \/ ~present /\ FailJob(w)
        /\ UNCHANGED <<backup, restore, receipts, quiet>>

CompleteJob(w) ==
    LET a == hosted[w].analysis
    IN  /\ hosted[w].pc = "completing"
        /\ jobs' = [jobs EXCEPT ![a] = IF @ = "leased" THEN "settled" ELSE @]
        /\ Stops(w)
        /\ UNCHANGED <<inbox, canonical, pointers, outbox, backup, restore, receipts, quiet>>

CrashWorker(w) ==
    /\ hosted[w] # Waiting /\ Stops(w)
    /\ UNCHANGED <<tables, backup, restore, receipts, quiet>>

-----------------------------------------------------------------------------
(* Purge. *)

\* What is about to put rows of an analysis: a claim that has not stored its job or
\* its record yet, or a restore that has them.  A worker that has stored its record
\* is not: the statements it has left need the rows to be there.
UnderWay(a) ==
    \/ \E w \in HostedWorkers :
          hosted[w].pc \in {"scheduling", "analysing"} /\ hosted[w].analysis = a
    \/ restore.pc = "running" /\ a \in restore.analyses

\* purgeRepository in one transaction, which fails on the foreign key of a pointer
\* without repository_id that names a record of the repository.
PurgeRepository(r) ==
    /\ \A p \in Ownerless : pointers[p] \notin AnalysesOf(r)
    /\ outbox' = outbox \ AnalysesOf(r)
    /\ jobs' = [a \in Analyses |-> IF a \in AnalysesOf(r) THEN "none" ELSE jobs[a]]
    /\ pointers' = [p \in HostedPulls |->
           IF RepositoryOf[p] = r /\ p \notin Ownerless THEN NoPointer ELSE pointers[p]]
    /\ canonical' = [a \in Analyses |-> IF a \in AnalysesOf(r) THEN NoContent ELSE canonical[a]]
    /\ inbox' = [a \in Analyses |-> IF a \in AnalysesOf(r) THEN "none" ELSE inbox[a]]
    /\ quiet' = {a \in quiet \cup AnalysesOf(r) : ~UnderWay(a)}
    /\ restore' = IF restore.pc = "running" THEN [restore EXCEPT !.purged = TRUE] ELSE restore
    /\ backup' = IF backup = NoBackup THEN backup ELSE [backup EXCEPT !.purged = TRUE]
    /\ UNCHANGED <<hosted, receipts>>

-----------------------------------------------------------------------------
(* Backup and restore. *)

\* backupWorkspace reads the records and then the pointers, in two transactions.
BackupRecords ==
    /\ backup.pc # "records"
    /\ backup' = [pc |-> "records", records |-> canonical, before |-> pointers, purged |-> FALSE]
    /\ UNCHANGED <<tables, hosted, restore, receipts, quiet>>

\* The backup is torn if it holds a pointer written since it read the records.
BackupPointers ==
    /\ backup.pc = "records"
    /\ backup' = [pc |-> "done", records |-> backup.records, pointers |-> pointers,
                  purged |-> backup.purged,
                  torn |-> \E p \in HostedPulls : pointers[p] \notin {NoPointer, backup.before[p]}]
    /\ UNCHANGED <<tables, hosted, restore, receipts, quiet>>

\* restoreWorkspace, of a backup whose hash matches: a record at a time, then a
\* pointer at a time, each in a transaction of its own.
StartRestore ==
    /\ backup.pc = "done" /\ restore.pc # "running"
    /\ LET kept == {a \in Analyses : backup.records[a] # NoContent}
           pointed == {p \in HostedPulls : backup.pointers[p] # NoPointer}
           analyses == kept \cup {backup.pointers[p] : p \in pointed}
       IN  /\ restore' = [pc |-> "running", of |-> backup, records |-> kept, pointers |-> pointed,
                          analyses |-> analyses, purged |-> FALSE]
           /\ quiet' = quiet \ analyses
    /\ UNCHANGED <<tables, hosted, backup, receipts>>

\* putCanonicalRecord of a record of the backup; a conflict ends the restore.
RestoreRecord(a) ==
    /\ restore.pc = "running" /\ a \in restore.records
    /\ IF canonical[a] \in {NoContent, restore.of.records[a]}
       THEN /\ canonical' = [canonical EXCEPT ![a] = restore.of.records[a]]
            /\ restore' = [restore EXCEPT !.records = @ \ {a}]
       ELSE /\ restore' = [restore EXCEPT !.pc = "conflict"]
            /\ UNCHANGED canonical
    /\ UNCHANGED <<inbox, jobs, pointers, outbox, hosted, backup, receipts, quiet>>

\* Mutant: the pointers do not wait for the records.
PointersFollowUnordered == TRUE

PointersFollow == restore.records = {}

\* putCanonicalPointer of a pointer of the backup; a missing record ends the
\* restore, and what was restored stays.
RestorePointer(p) ==
    /\ restore.pc = "running" /\ PointersFollow /\ p \in restore.pointers
    /\ IF canonical[restore.of.pointers[p]] # NoContent
       THEN /\ pointers' = [pointers EXCEPT ![p] = restore.of.pointers[p]]
            /\ restore' = [restore EXCEPT !.pointers = @ \ {p}]
       ELSE /\ restore' = [restore EXCEPT !.pc = "missing"]
            /\ UNCHANGED pointers
    /\ UNCHANGED <<inbox, jobs, canonical, outbox, hosted, backup, receipts, quiet>>

EndRestore ==
    /\ \/ restore.pc \in {"conflict", "missing"}
       \/ restore.pc = "running" /\ restore.records = {} /\ restore.pointers = {}
    /\ restore' = NoRestore
    /\ UNCHANGED <<tables, hosted, backup, receipts, quiet>>

WorkspaceNext ==
    \/ \E a \in Analyses : Receive(a) \/ RestoreRecord(a)
    \/ \E w \in HostedWorkers :
           \/ \E a \in Analyses : Claim(w, a)
           \/ EnqueueJob(w) \/ ResolveWebhook(w)
           \/ PutCanonicalRecord(w) \/ PutCanonicalPointer(w) \/ EnqueueDelivery(w)
           \/ CompleteJob(w) \/ CrashWorker(w)
    \/ \E r \in HostedRepositories : PurgeRepository(r)
    \/ BackupRecords \/ BackupPointers \/ StartRestore \/ EndRestore
    \/ \E p \in HostedPulls : RestorePointer(p)

HostedSpec == WorkspaceInit /\ [][WorkspaceNext]_workspace

-----------------------------------------------------------------------------
(* Properties. *)

WorkspaceTypeOK ==
    /\ inbox \in [Analyses -> {"none", "pending", "processed"}]
    /\ jobs \in [Analyses -> {"none", "available", "leased", "settled"}]
    /\ canonical \in [Analyses -> Contents \cup {NoContent}]
    /\ pointers \in [HostedPulls -> Analyses \cup {NoPointer}]
    /\ outbox \subseteq Analyses
    /\ quiet \subseteq Analyses

\* purgeRepository: what was purged stays away, until its delivery is accepted
\* again or a backup with its rows is restored, unless a worker was about to put it.
\* So a worker that the purge finds between the statements of a job writes neither
\* pointer nor delivery, whatever crashes, retries and later pull requests of the
\* repository, and purges and restores of others, come between.
PurgeIsFinal ==
    \A a \in quiet :
        /\ inbox[a] = "none" /\ jobs[a] = "none" /\ canonical[a] = NoContent
        /\ a \notin outbox
        /\ \A p \in HostedPulls : pointers[p] # a

\* A purge also ends the work that was about to put rows: without a restore, an
\* analysis has rows only while the inbox has its delivery.
\* Not kept: a worker that had its claim before the purge puts them again (README,
\* section 6).
PurgeEndsWork ==
    restore = NoRestore =>
        \A a \in Analyses : inbox[a] = "none" => jobs[a] = "none" /\ canonical[a] = NoContent

\* restoreWorkspace: a restore misses a record only if the backup is torn or a
\* purge ran beside it, and meets another content of a record only if a purge ran
\* since the backup.
UntornBackupRestores ==
    /\ restore.pc = "missing" => restore.of.torn \/ restore.purged
    /\ restore.pc = "conflict" => restore.of.purged \/ restore.purged
=============================================================================
