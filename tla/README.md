# Reverb verification project

Reverb tells the author of a pull request which *other* repositories the change
may break. It indexes the repositories of a workspace at exact commits, extracts
contract definitions and references from them, keeps an evidence graph between
producers and consumers, and analyses a pull request against that graph. A local
command runs the use cases over SQLite; a hosted runtime drives the same use cases
from GitHub webhooks over PostgreSQL.

This directory holds TLA+ models of that code, TLC configurations that check them
on small instances, and TLAPS proofs of the properties that matter most for all
instances. `PROJECT.json` records, definition by definition, the source lines each
one models (`map`), the runs, one mutation per property that breaks it, what the
models found, the hazards of the code, and the theorems.

All source paths are relative to `src/`; `P/` abbreviates `src/packages/`.

1. [Inventory](#1-inventory)
2. [Modules and how they correspond to the code](#2-modules-and-how-they-correspond-to-the-code)
3. [Runs](#3-runs)
4. [Bounds, symmetry, fairness](#4-bounds-symmetry-fairness)
5. [Proofs](#5-proofs)
6. [Where the code and its documents disagree](#6-where-the-code-and-its-documents-disagree)
7. [What is not modelled](#7-what-is-not-modelled)
8. [Plan](#8-plan)

## 1. Inventory

### The parts and how they interact

```
 GitHub --webhook--> receive --> inbox table --claim--> processNextWebhook
                                                             | enqueueJob, supersedeJobs
                                                             v
                     records, pointers <-- processNextJob <-- job table
                                                | enqueueDelivery
                                                v
 GitHub <--check run-- GitHubCheckWriter <-- processNextDelivery <-- outbox table

 a job's handler runs:  index (generation leases, artifacts, cache)
                        overlay + derived generation of the pull request's head
                        contract extraction -> observation -> evidence edges
                        analysis -> persistAnalysis
 all of them under an execution budget
```

| Part | Source | State | Operations | What is hard |
|---|---|---|---|---|
| Webhook receipt and scheduling | `P/host-github/src/runtime.ts`, `P/storage-postgres/src/store.ts` 625-786 | inbox rows with leases and attempt counts | receive, claim, enqueue, supersede, resolve, fail | four separate transactions per delivery; two workers on one pull request; crash between two of them; a resolution after the lease was lost |
| Job execution | `P/host-github/src/runtime.ts` 199-290, 452-512, `store.ts` 200-228, 569-593, 752-945 | job rows, canonical records, pointers, delivery intents | enqueue, supersede, claim, handle, record, point, enqueue delivery, complete, fail | the results are written before the lease is looked at again; overlapping attempts give different hashes |
| Check delivery | `P/host-github/src/check-writer.ts`, `runtime.ts` 513-640, `store.ts` 923-1086 | outbox rows, GitHub's check run, the write switch | claim, re-authorise, compare heads, send batches, resolve, fail, disable pending | lost answers, moving heads, partial batches, a switch thrown while leases are held |
| Repository index | `P/application/src/index-generation.ts`, `P/storage-sqlite/src/store.ts` 930-1166 | generation rows, artifacts, selected generation, cache | begin, list, reuse, read, put, complete, fail, expire | one lease is handed to every indexer of a generation; reuse across commits |
| Overlays, derived generations | `P/application/src/create-overlay.ts`, `P/storage-sqlite/src/store.ts` 1168-1590 | overlay rows and entries, derived generation rows | diff, begin, replace, delete, complete, derive, materialise | moves, stacked heads, incomplete diffs |
| Budgets | `P/application/src/execution-budget-v2.ts`, `index-execution-v2.ts`, `source-budget.ts` | limits, usage, reservations in flight | reserve, release, read, query | concurrent reads that reserve, answer, fail and overrun |
| Evidence graph | `P/storage-sqlite/src/store.ts` 1882-2036, 2089-2355, `P/domain/src/graph.ts` | registry revisions, observations, edges with validity | put revision, put observation, observe edges | invalidation and revival interleaved with analyses pinned to older revisions |
| Analysis, version 1 | `P/application/src/analyze-pr.ts`, `P/storage-sqlite/src/store.ts` (`persistAnalysis`) | analysis in flight, stored results, current analysis | start, select, observe, join, persist | dozens of awaits between selecting a consumer and persisting a finding about it |
| Analysis, version 2 | `P/application/src/analyze-pr-v2.ts`, `analysis-scope.ts`, `analysis-coverage-v2.ts`, `P/storage-sqlite/src/store.ts` (`persistAnalysisV2`) | scopes, coverage, v2 results, reasoning runs | resolve scope, cover, join, persist, purge a run | a second transaction after the first; reruns under one ID; a purge of evidence a result refers to |
| Reasoning | `P/reasoning/src` | circuit breaker, budget of the call, citations | plan, consent, retrieve, ask, validate | one engine shared by suspended calls; consent read before it is used |
| Reviews, suppressions | `P/application/src/review.ts`, `P/domain/src/suppression.ts`, `P/storage-sqlite/src/store.ts` 2788-3040 | append-only reviews, rules, rule states | review, import, renew, revoke, match | the clock and the newest event are read several awaits before the append |
| Evaluation, promotion | `P/domain/src/corpus.ts`, `evaluation.ts`, `policy.ts`, `P/storage-sqlite/src/store.ts` 2930-3113 | corpora, reports, promotion records | label, freeze, evaluate, decide, show | versions that change between measuring, deciding and showing |
| Adapter snapshots and partitions | `P/adapter-sdk/src`, `P/domain/src/adapter-snapshot.ts`, `P/storage-sqlite/src/store.ts` 1598-1882 | partitions, snapshots, contract observations | extract, put, resolve, update, observe | incremental against clean; an upgrade or another host between two puts |
| TypeScript, configuration and database adapters | `P/adapter-typescript`, `P/adapter-config`, `P/adapter-database` | the state a partition encodes | extract, encode, update, diff, replay | moves, resolution changed by a file that appeared, statements the replay only half knows |
| Hosted workspace | `P/storage-postgres/src/store.ts` 180-437, 1088-1342 | records, pointers, audit, backups | back up, restore, purge | reads of a backup in two transactions; purge under running workers |
| GitHub access, reconciliation, registry synchronisation | `P/host-github/src` | installations, switches, durable copy of the provider's state | authorise, compare, apply, synchronise | webhooks that never arrive; actions applied late |
| Local registry | `P/host-local/src/workspace-config.ts`, `P/cli/src/cli.ts`, `P/domain/src/registry.ts` | workspace file, history files, revisions | init, add, remove, alias, sync | four steps, no lock between two commands |
| Transitive candidates | `P/domain/src/graph.ts` | none: an algorithm | walk | cycles, several paths to one repository, the depth limit |
| Schemas, adapter SDK, test kit, remaining adapters | `P/schema`, `P/testkit`, `P/adapter-*` | none of their own | - | - |

The three queue tables follow one discipline: a worker claims a row with one
`UPDATE ... FOR UPDATE SKIP LOCKED`, which raises its attempt number and writes
the worker's name and an expiry; later statements are guarded by the name alone.
The worker process can die anywhere between two statements, and a slow worker is
not told that its lease expired.

### What makes each part correct

* *Scheduling*: an accepted webhook ends processed or failed; processed means its
  job is durable; two pushes to a pull request leave at most one live job; only the
  latest claim decides a row.
* *Jobs*: an attempt runs once; the hash, the record, the intent and the pointer of
  a job agree; only the latest attempt decides; settled is final; every job settles.
* *Deliveries*: `delivered` means every batch reached GitHub; a head replaced before
  the claim is never written; every intent settles.
* *Reconciliation*: lost webhooks are made up for; once the provider is still, the
  durable state follows it.
* *Index*: a published generation holds exactly the artifacts of its commit's tree,
  and nothing published ever changes.
* *Overlays*: the view of a complete derived generation is what a clean index of its
  head would list, and no view changes once it exists.
* *Budgets*: no limit is passed and no byte returned twice, whatever the callers do
  concurrently; a complete run was refused nothing; a failed run closes its lease,
  unless completion is what was refused.
* *Graph and analysis*: one result is current; stored results only get superseded; a
  complete result reports every reference of what it selected; no selected
  repository is passed over in silence; every edge is backed by an observation;
  partial evidence erases nothing.
* *Version 2 and reasoning*: a complete result read everything it was asked about;
  no excerpt of a repository without consent reaches the provider; a purged run
  leaves the result that would have been stored without reasoning; an open breaker
  holds for every caller.
* *Adapters*: an updated snapshot is a clean one; a complete diff misses nothing; a
  complete observation is whole; a replayed schema is the server's, and what breaks
  a consumer of it is reported.
* *Reviews and promotion*: the review history forks only where dates run backwards;
  what is suppressed stands for a review, at the very versions unless the rule was
  imported; what is shown passed the gate as it runs, and was measured where its
  evidence is that of a stored report.
* *Registry*: a repository can always leave, and the others keep their aliases.
* *Hosted workspace*: what was purged stays away, unless a claim or a restore was
  about to put it; an untorn backup restores.

The hazards behind these properties, each at the line where it bites, are in
`PROJECT.json` under `hazards`.

## 2. Modules and how they correspond to the code

```
 LeasedRow <-- WebhookScheduling, OutboxDelivery <-- HostedQueues <-- MCQueues, HostedQueues_proofs
                                           Reconciliation <--/
           <-- JobExecution <-- MCJobExecution, JobExecution_proofs

 Artifacts <-- GenerationIndex, OverlayDerivation <-- RepositoryIndex <-- MCIndex, RepositoryIndex_proofs

 ExecutionBudget <-- BudgetedIndex, BudgetedReader <-- Budgets <-- MCBudgets, Budgets_proofs
                             SourceBudget <--(INSTANCE)--/
                             ByteMeter    <--(INSTANCE)-/   what both readers implement

 EvidenceGraph <-- AnalyzePullRequest <-- MCAnalyses, AnalyzePullRequest_proofs
 EvidenceV2 <-- ReasoningEngine <-- AnalysisV2 <-- MCAnalyses, AnalysisV2_proofs

 TypeScriptAdapter <-- AdapterSnapshots <-- MCAdapters
 AdapterOutput <-- AdapterSnapshots, ConfigurationAdapter <--/
 DatabaseAdapter <------------------------------------------/
 ConfigurationAdapter, DatabaseAdapter <-- Adapters_proofs

 Promotion, Reviews, LocalRegistry <-- MCWorkspace, Workspace_proofs
 TransitiveImpact, HostedWorkspace <--/
```

An arrow is `EXTENDS` unless marked. An action stands for the code between two
awaits that other actors can interleave with: one SQL transaction, one provider
request or one handler. Where a function makes several such calls, its place is the
`pc` field of the actor's record and what it read before is kept in that record, so
that stale reads are part of the model.

Components that do not interact share an MC module: its variable `subject` is chosen
at first and says which of them a behaviour is about, and the others stay unused.
`Budgets` does the same one level down, because its refinement is stated there.

### The hosted queues

**LeasedRow.** The row discipline: `Claimable` is the `WHERE` clause of the claims,
`ClaimedRow` their `SET` clause, `HeldBy` the guard of the acknowledgements,
`SettledRow` and `FailedRow` the two ways of giving a row back. Instants are the two
booleans that the SQL compares: whether `available_at` has come and whether the
lease expired.

**WebhookScheduling.** `inbox` and `jobs` are the tables, `scheduler[w]` is the
program counter of a worker inside `processNextWebhook`. `ReceiveWebhook`,
`ClaimWebhook`, `EnqueueJob`, `SupersedeJobs`, `ResolveWebhook` and `FailWebhook`
are one statement each; `CrashScheduler` and `WebhookLeaseExpires` may come between
any two. `SupersessionKey` is the hash of workspace, repository, pull request and
kind, kept as the tuple it is a hash of.

**JobExecution.** `executor[w]` is a worker inside `processNextJob`. `HandleJob`
returns any hash, since the result covers instants of the run, with or without a
pointer and a delivery; `PutRecord`, `PutPointer`, `EnqueueDelivery` and
`CompleteJob` follow in the code's order and each looks only at what its SQL looks
at. `FailJob` is every throw in between.

**OutboxDelivery.** `dispatcher[w]` is a worker inside `processNextDelivery`; the
steps of `GitHubCheckWriter.write` (switch, access, head, batches) are separate
because each awaits. GitHub is `sent`, the batches a check run has received. `mode`
is what the stored envelope asks for, invalid envelopes included. `staleClaim` in a
dispatcher's record is a history field: it is read by a property only.

**Reconciliation.** `provider` is what GitHub reports, `persisted` the durable copy.
`Reconcile` is `reconcileGitHubState`, which turns the difference into a set of
actions; `Apply` applies one of them, by then possibly out of date. The loop that
calls both belongs to a deployment and is external.

**HostedQueues** puts the webhook and the delivery loop side by side, as a hosted
process runs them; they share workers and no table.

### The repository index

**Artifacts.** Trees, blobs and artifacts shared by index and overlay. A file is a
path with a blob; whether its blob parses is a constant (`Parses`), because the
parser is a function of content; `CleanIndex(commit)` is the reference definition of
what a full index of a commit contains.

**GenerationIndex.** `indexer[x]` is a call of `IndexRepositoryGeneration.execute`.
Listing gives any subset of the tree flagged incomplete, or the tree; each entry is
reused from the previous generation by blob and path, from the cache, read, or
failed; `PutArtifacts` includes the primary-key collision, `CompleteGeneration` the
selection of the generation, `FailGeneration` and `ExpireLease` the row's other ends.

**OverlayDerivation.** `DiffEntries` is what the two hosts' comparison returns, with
and without rename detection; `builder[b]` is a call of `CreatePullRequestOverlay`;
`Materialize` and `ListArtifacts` are the recursive view over a chain of derived
generations, written as a recursive function over generation numbers.

**RepositoryIndex** has both in one specification, and the property that speaks of
both: nothing a published generation lists ever changes.

**ByteMeter**, **ExecutionBudget**, **BudgetedReader**, **SourceBudget**,
**BudgetedIndex**, **Budgets.** `ByteMeter` states what a bounded reader promises: what was
delivered plus what is in flight never passes the limit. `ExecutionBudget` is
`ExecutionBudgetV2` (all dimensions fit, or nothing is taken and the first exceeded
dimension is recorded). `BudgetedReader` and `SourceBudget` are the two readers of
the code, `ExecutionBudgetRepositoryReaderV2` and `BudgetedRepositoryReader`, under
concurrent callers; both are shown to implement `ByteMeter`. `BudgetedIndex` is the
index run once more, as the sequence of budgeted port calls it makes, each of which
may be the one refused. `Budgets` has the three as subjects and the two refinement
mappings.

### The analyses

**EvidenceGraph.** Registry revisions (who is selected, whom the alias names),
published generations, contract observations and evidence edges with their validity.
`PutRevision` and `PutContractObservation` invalidate in the same transaction;
`Observed` is the upsert of `observeEdges`.

**AnalyzePullRequest.** `run[a]` is one execution of `AnalyzePullRequest.execute`
over one changed contract, with the registry revision it pinned, the selection of
each repository (`SelectConsumer`, `ObserveConsumer`, `RefreshConsumer`,
`SelectProducerHead`), the references it read, the edges it joined, and the moment
it asked whether it was current. `PersistAnalysis` is the transaction that
supersedes the previous current result.

**EvidenceV2.** The pure halves of a version 2
analysis: the scope of a registry revision under grants and the answers of the
authorization port; one coverage record per repository and enabled family, or a
record that says why there is none; the join of changed contracts with references,
the findings of it and the plan of the excerpts that reasoning may read.

**ReasoningEngine.** `call[a]` is a call of `ReasoningEngineV1.analyze`, suspended in
a consent, retrieval or provider request; `failures` and `openUntil` are the circuit
breaker that all calls of the engine share. `streak` is a history variable: the failures in a row, in the order
they happened.

**AnalysisV2.** `execution[a]` is `AnalyzePullRequestV2.execute`: scope, version 1
analysis, coverage, reasoning, `persistAnalysisV2`, each a step that a crash may come
after; `PurgeReasoningRun` is `purgeReasoningRunV2`. `world[a]` is a history variable: the
inputs the stored result was made of.

### The adapters

**AdapterOutput.** What the SDK admits as an extraction or a diff, and what
`materializeContractObservation` makes of the extractions of several adapters.

**TypeScriptAdapter.** The semantic state of a package
(modules, exports, imports, entry points), the extraction it materialises, its
encoding in a partition, the update of a partition by a list of changes, and the diff
of two extractions. Source text is abstracted to the declarations a parser finds in
it; module resolution keeps its order of candidates.

**AdapterSnapshots.** Hosts extract, put a partition and put a snapshot, in three
steps with other hosts, crashes and adapter upgrades in between; the snapshot of a
derived generation is resolved through its base's.

**ConfigurationAdapter.** One partition per document, with replacement, tombstones
and what is withheld (secrets, computed accesses); `BuildSnapshot` starts a
chain and `UpdateSnapshot` adds to it. The events, HTTP and infrastructure adapters
keep their partitions the same way.

**DatabaseAdapter.** `Migrate(s)` applies a statement to the adapter's `replay` and
to a model of a PostgreSQL `server` (external); `Release` fixes the schema that a
pull request is compared with. `databaseCompatibility` is compared with what a
consumer of the server could read and insert before and can no longer.

### Around the analyses

**Reviews.** `Reviewers` are processes of the review commands over one store,
with the clock read first and the append last; suppression rules, their state events
and the matching of an analysis. `ImportReview` is a line of `review import` (and
what `AuthorizedReviewService.record` is handed): any event, with or without a rule of
`ForeignRules`, of which only the name is compared with the event.

**Promotion.** Labels, adjudication and the metrics of frozen corpora,
with rates compared by cross-multiplication; then the decisions of concurrent
processes, the upgrade of a running version and `planGitHubCheck`. `BeginDecision` reads
an evidence *file*: one written from a stored report (`ReportedEvidence`), with whatever
versions and defects its author gives it, or one that no report stands behind
(`ForeignEvidence`). Nothing compares it with a report, and `GateFailures`, which has all
nine conditions of the gate, looks at the file alone.

**LocalRegistry.** `validateRegistrySnapshot`, the resolution of an
alias and the reductions of a snapshot; then the commands that change a local
workspace, each in four steps that nothing makes atomic.

**TransitiveImpact.** `deriveBoundedTransitiveCandidates` one path of the queue at
a time, against the set of simple paths as the reference definition.

**HostedWorkspace.** The rows of one workspace while workers schedule and persist,
with `PurgeRepository`, and the backup (`BackupRecords`, `BackupPointers`) and restore
(`StartRestore` to `EndRestore`) in the transactions the code uses. `PurgeRepository` is
refused by the foreign key of a pointer that has no repository of its own (`Ownerless`:
the handler's `repositoryId` is optional) and names one of the records. `quiet`, a history
variable, has the analyses that were purged when nothing was about to put their rows: no
claim before its first write, and no restore that has them. A worker further on, between
the transactions of the job, does not keep its analysis from being quiet.

Formatting, hashes of payloads, cursors of paged reads and error texts are left out
everywhere: no property depends on them.

## 3. Runs

| Run | What it shows |
|---|---|
| `JobExecution` | Two workers, two rival analysis jobs, reruns that may hash differently: attempts run once, the four places a result is written to agree, only the latest attempt decides, settled is final. |
| `JobLiveness` | One analysis and one job without a supersession key: every job settles or is left at its last attempt by a worker that is gone. |
| `Queues` | Two workers over two pushes to one pull request; or two dispatchers at one two-batch check against a moving head; or a provider whose webhooks are lost. Rivals leave one live job, only the latest claim decides, a delivered check is whole, a stale claim writes nothing, and webhooks, intents and provider changes are dealt with once the interference stops. |
| `Index` | Two indexers of two commits; or two builders of a head on the root and a head on that head. What is published is the commit's tree, a complete view is the clean index of its head, neither ever changes. |
| `Budgets` | One index run under each of 1248 budgets and any deadline; or three concurrent callers of either reader. Both readers implement the byte meter, the run ends, is complete only if nothing was refused, and leaves its lease open only if completion was. |
| `Analyses` | Two version 1 analyses against generations, observations and registry revisions; or version 2 executions that crash, are rerun and purged; or two callers of one engine. |
| `Adapters` | TypeScript and configuration snapshots updated over three commits; or up to five migrations. Updated is clean, complete diffs and observations miss nothing, the replay is the server's schema. |
| `Workspace` | Two reviewers, imported rules and an analysis; two deciders with evidence files of stored reports or of none; a graph of up to six edges; two registry commands; purges of two repositories under two workers; a backup and restore. |
| `AcceptedWorkSurvives`, `StaleNeverOverwritesCurrent`, `DuplicateIsHarmless`, `IncompleteIsNeverClean` | Four sentences of the repository's documents that the code does not keep: see section 6. |

Every property of a passing run has a mutant: a definition that models code,
changed the way a plausible bug would change it, under which TLC refutes the
property. The mutated forms stand beside the definitions they replace, under a
comment that begins with "Mutant".

The type invariants (`TypeOK` and its kin) stay in the modules, as documentation of
the state and as the base of the proofs, where they are theorems. The runs check what
could be wrong instead.

## 4. Bounds, symmetry, fairness

**Bounds.** Every race in the queues is between two holders of one row, so two
workers suffice, and the proofs of section 5 remove the bound on workers and rows from
every safety property.
`MaximumAttempts` is 2: a lease lost once and reclaimed, then lost at the last
attempt. `MaximumWebhookAttempts` caps a counter that the code does not cap: attempts
past it are not told apart. `ChunkSize` with one annotation more is the smallest check
that can be cut in half. `MaxChanges` lets the provider change three times, so that
an action of one comparison is applied after the next two.

The trees of `Index` have two paths: one kept and one added, or one moved, edited and
edited again, which gives each reuse rule and each change kind at least once, and a
chain of two derived generations. The 1248 budgets are all limits from zero to just
above what the index run of a two-file tree can spend, so each port call is the one
refused in some behaviour.

In `Analyses` the consumer has two generations, because one cannot become stale; it
leaves the workspace in the second registry revision while the alias moves, because
each alone takes only one of the two invalidation branches. A version 2 execution is
started at most twice; its inputs (`SomeInputs`) include at least one that covers, one
that abstains, one that is denied and one that reasons. The engine's clock stops at
`MaxTime`, past one opening and one cooldown of the breaker.

In `Adapters` there are three generations, each derived from the one before, so that
an update is made of an update; the trees have a file that appears where a specifier
resolved to another, a re-export, a moved and an unparsable file. Migrations are
sequences of up to five statements over an empty schema or one with a table that no
migration made.

In `Workspace` a graph has up to six edges over four repositories, with cycles,
several paths to a repository and invalid edges; a registry starts with the service of
one repository or of both; a review behaviour is one of five bounds on clock, reviews and versions
(`MCBounds`), in two of which an import brings a rule: one whose owner may not make it
and that pins one of two facets, or one with the ID of a rule that `review add` makes.
A promotion behaviour labels three cases, then freezes one corpus (`MaxCorpora`), then
decides, each evidence file once (`PromotionBound`); two of the files have the metrics
that the gate asks without a report behind them, one of them with a defect.
There are two analyses of one pull request, and a third of a pull request of another
repository, whose pointer has no repository. A purge behaviour has two workers, purges of
both repositories, no backup and one content of a record; a restore behaviour has the
first repository only, one worker at a time and one backup, with the deliveries before it
and the purges after it, and ends with a restore that fails.

**Symmetry** is used for workers, indexers, builders, analyses, hashes, reviewers,
deciders and commands, which the specifications never compare except for equality, in
`JobExecution`, `Index`, `Analyses` and `Workspace`, none of which has a liveness property.

**Deadlock** is checked for the jobs, whose environment never stops. In the other runs
some subject may stop: once each generation, analysis, statement or command has been
used up there is nothing left to do, and their configurations say so.

**Fairness** is weak and on these actions: the expiry of a lease and the due time of
a retry (time passes), a worker's claim (the worker loops call `processNext...` again
and again), and a worker's own next statement or its failure (a statement returns or
throws). Nothing is assumed of crashes, overruns, the switches, supersession or what
GitHub answers. A queue cannot promise progress while workers keep dying or the switch
stays off, so the three liveness properties of the queues assume that this
interference eventually stops (`CalmStep`, and the switch); they say that whatever
happened before has left no row behind. `ReconciliationConverges` assumes that the
host keeps comparing and applying, which is what the operations guide asks of it, and
that the provider changes `MaxChanges` times at most. `IndexRunEnds` assumes only that
the run takes its own steps.

## 5. Proofs

Every theorem holds for every value of the constants that satisfies the named
assumptions. These say that sets have the right shape, that null values are not
members and that bounds are numbers; TLC evaluates them in every run.

**`JobExecution_proofs`** - for any set of workers and jobs, any number of attempts
and any result hashes: `TypeCorrect`, `AttemptsRunOnce`, `LatestAttemptDecides`,
`SettledJobsAreFinal`, `ResultsAgree`.

The acknowledgements compare the lease *owner*, never the attempt, so the properties
are not inductive. The strengthening has two parts. The lease invariant says that a
working executor's attempt is at most that of its row, that the row's owner, if it
is at work on the row, is at the row's attempt, and that two executors on a job
differ in their attempts: then a worker that was reclaimed is behind the row, and it
cannot be its owner because the owner is one worker in one call of `processNextJob`.
The result invariant says, for each program counter past `PutRecord`, that the
record exists with the hash the executor holds: records never change, so whatever it
writes later agrees with it. Assumptions: `WorkersAssumption`, `JobsAssumption`,
`KeysAssumption`, `HashesAssumption`, `MaximumAttemptsAssumption`.

**`HostedQueues_proofs`** - for any number of workers, webhooks, pull requests, effects,
batches and attempts: `InboxTypeCorrect`, `SupersessionLeavesOneJob`
(`OneLiveJobPerKey`), `LatestWebhookClaimDecides`, `OutboxTypeCorrect`,
`DeliveredChecksAreWhole` (`DeliveredIsWhole`), `StaleClaimsSendNothing`
(`StaleClaimNeverWrites`), `LatestClaimDecides` (`VerdictOfLatestClaim`).

`WebhookLease` and `OutboxLease` say what a claim is worth: the owner of a lease that
is still at work on the row runs its latest attempt. `OneLiveJobPerKey` needs the
history of two deliveries: `ScheduledInv` says that of two of one key whose supersession
has run, the later one saw the job of the other, so at most one job is left alive;
a delivery between `enqueueJob` and `supersedeJobs` is not counted by the property and
is followed by the invariant. `WrittenInv` follows a check: a dispatcher at batch *n*
has sent the batches before it, and batches are never unsent; a claim is stale only if
the head has moved, and a head never moves back. Assumptions: `WorkersAssumption`,
`DeliveriesAssumption`, `AttemptsAssumption`, `OutboxAssumption`.

**`RepositoryIndex_proofs`** - for any number of commits, paths, generations, indexers,
builders, and ancestries of any length: `IndexTypeCorrect`,
`PublishedGenerationsMatch` (`PublishedMatchesTree`), `DerivedGenerationsAreClean`
(`DerivedIsCleanIndex`), `PublishedStaysFrozen` (`PublishedIsFrozen`).

Indexers of one generation share its lease, so a row is written by any number of them.
`IndexInv` follows an artifact from the tree, the cache or an earlier generation into a
batch (`BatchesRead`) and a row (`RowsOfTree`), and says why nothing is added to a
generation that is about to be completed (`CompleteIsReady`): every path another batch
could bring collides. `OverlayInv` has the soundness of overlay rows and of the entries
a builder holds against the commit of its base, what a derived generation stands on (`Ancestry`:
its base is published and its overlay completed for that base and head, both complete
if it is), and `ListingSound`: the recursive
view of `listArtifacts` is defined for every generation and is the clean index of every
complete one. The view is a recursion over ancestors of unbounded depth; what it
computes is shown for a new generation from its base, whose view the step leaves alone.
The root is assumed to be a published generation, which `PublishedGenerationsMatch`
establishes. Assumptions: `TreeAssumption`, `GenerationsAssumption`,
`OverlayAssumption`, which includes that an overlay ID stands for one request (IDs are
made by `createSystemId`; `beginOverlay` does not compare the identity of a row it
finds).

**`Budgets_proofs`** - for any limits, deadline, number of files and finite set of
callers: `RunTypeCorrect`, `CompleteRunsWereRefusedNothing`
(`CompleteWasRefusedNothing`), `OnlyCompletionStaysBuilding`
(`OnlyCompletionLeavesLease`), and `ReadersMeterTheirBytes` (`ReadersImplementMeter`): both readers implement `ByteMeter`,
initial states and every step.

`RunInv` ties the row, the counts and the result of the run to the port call it is at:
up to its report, a run whose result is complete has a complete generation and no
failed file, a run that failed has no generation without its artifacts under lease, one
with them has no entry left (`CountsOK`), and the report itself looks at what was exhausted. For the readers,
`ReaderInv` says that
only a read has a bound, and that the bytes in use are what was delivered, forfeited and
is in flight; hence a release never returns more than is in use and a reservation that
fits leaves the meter within its limit. `SourceInv` does the same for the reader that
keeps reserved and used bytes apart, whose used bytes may pass the limit by an oversized
answer while those delivered do not. Both need how a sum over all callers changes with
one of them: `MapThenSumSet` is a recursion over subsets of callers, and what it computes
is shown with smallest counterexamples (`SumExists`, `TotalChanges`). Assumptions:
`LimitsAssumption`, `RunAssumption`, `CallersAssumption`.

**`AnalyzePullRequest_proofs`** - for any number of repositories, references,
generations, registry changes and overlapping analyses: `CurrentAnalysisIsUnique`,
`StoredResultsOnlySupersede`, `SelectedRepositoriesAreHeard`, `StoredEdgesAreBacked`,
`KnownPositivesSurvive` (`PartialNeverErases`), `CompleteResultsReportAll`
(`CompleteReportsEveryReference`).

`CurrentAnalysisIsUnique` needs that an analysis in flight has not stored a result
(`FreshInv`), so `PersistAnalysis` always inserts. The others concern a stored
result or edge built from reads that were made many steps before, so their invariants
(`EvidenceInv`, `ReportInv`) state of each analysis in flight what its reads still justify:
the revision it pinned exists, it selected only members of that revision
and gave each a state, no member is left unselected once it writes edges, every
edge it joined is backed already, and unless it diagnosed a problem, every
reference of an observation it read has its edge. Observations are only ever added and revisions
never change, hence later steps of others preserve this.
Assumptions: `EvidenceAssumption`, `AnalysesAssumption`.

**`AnalysisV2_proofs`** - for any registry, evidence, inputs, number of executions and
callers of the engine: `V2TypeCorrect`, `CompleteResultsAreWhole` (`CompleteIsWhole`),
`ProviderSeesConsentedEvidence` (`ConsentedEvidenceOnly`), `PurgedResultsAreUnreasoned`
(`PurgedIsUnreasoned`), `OpenBreakersHold` (`OpenBreakerHolds`).

`V2Inv` says of each execution that the scope, the coverage and the findings it holds
are those of its own inputs (`Executions`), of each call of the engine that it belongs to
an execution waiting for it and is about that execution's scope (`Calls`), and of each
stored result that it is what its execution computes from the run it shows (`Stored`).
`Breaker` ties the counter of the engine to the history of failures: a streak as long as
the threshold has opened the breaker until the cooldown after its last failure, also when
the failures are of calls that were let through before it opened. Assumptions:
`ProducerAssumption`, `InputsAssumption`, `EngineAssumption`.

**`Workspace_proofs`**, of the five modules that `MCWorkspace` composes.

*Reviews, promotion, registry* - for any number of reviewers, findings, versions,
deciders and cases: `HistoriesForkBackdated` (`ForkIsBackdated`), `SuppressionsComeFromReviews`
(`SuppressedWasReviewed`), `ShownFindingsAreMeasured` (`ShownIsMeasured`); for any
number of commands, repositories, services and aliases: `RepositoriesCanAlwaysLeave`
(`ReducedScopeIsSound`).

A review is checked against the newest event, but its time was read before; the fork
property is inductive once IDs are unique and no event supersedes itself, and rests on
the existence of a newest event of a set bounded by the clock. A suppression is followed
from the analysis that a rule pins, through the draft and the store, to the analysis that
read it; of a rule that imports may bring, the invariant keeps that an event names it.
For promotions, `Gated` says that every stored promotion, and every one about to be
stored, passed the gate with the metrics of its own file and at the versions the file
names, and `Frozen` that a report is of the corpus of its revision; then, for a file with
the metrics of a stored report, what the gate asks of a metric is unfolded to the labels
of cases. For the registry, `RegistryInv` says
that `workspace.yaml`, and every snapshot a command holds however long ago it loaded the
file, is valid and has one entry per service ID. The last is not asked by the validation,
which compares an entry with the one of its ID before it only: among three entries of
one ID, the removal of the second may make the snapshot invalid, and the instant of an
alias may lie in the entry that goes. `addService` refuses a second entry; a file edited
by hand may have one, which `LocalRegistryAssumption` excludes, and then neither half of
the property is promised. What the filter of services keeps is shown by smallest
counterexample (`ServicesInKeeps`). Assumptions: `ReviewsAssumption`,
`DraftsAssumption`, `PromotionAssumption`, `LocalRegistryAssumption`.

*Transitive candidates* - for any finite graphs, origin and requested depth:
`WalkFindsAll` (`TransitiveIsExact`). `WalkInv` says that the queue and the candidates
are simple paths of valid edges, and `NothingIsMissed` that a simple path without a
candidate of its key starts with a path that is still in the queue: then an empty queue
has missed nothing, and no induction over paths is needed, because taking a path from
the queue puts a longer start of the missing one back or reports it. That the edges of a
repository can be put in the order of their IDs (`OrderById`) counts, for each edge, the
edges up to it. Assumption: `TransitiveAssumption`, a finite set of edges with IDs of
their own.

*The hosted workspace* - for any number of repositories, pull requests, analyses,
workers, purges, backups and restores: `PurgedStaysAway` (`PurgeIsFinal`) and
`RestoreFindsRecords` (`UntornBackupRestores`).

`PurgeIsFinal` is not inductive, because a claim that has not written yet, or a restore
that has the rows, would bring them back. `QuietInv` adds that neither is there for a
quiet analysis: no claim can be made on a webhook or job that is gone, and a worker whose
record was purged under it fails at the foreign keys of the pointer and the delivery, a
payload hash being that of its own analysis only. `OwnInv` says that every pointer, live or backed up, names an analysis of its
own pull request, so that a restore writes only rows of the analyses it announced. For
restores, `BackupInv` and `RestoreInv` say that live pointers have their records, that a
backup's records are the stored ones until a purge runs, and that what a restore has
dealt with is stored; all but a purge only add records. Assumption: `HostedAssumption`.

**`Adapters_proofs`**, of two of the three adapters.

*Configuration* - for any files, trees and number of commits, any of the renames and
copies Git may report, and any choice of changed files that cannot be read:
`UpdatesAreExact` (`ConfigUpdatesAreExact`). `PathChangesAreExact` says that whatever
Git calls a change, the paths an update is given and those it removes are together the
paths that differ; hence an update given every changed file turns the documents of one
tree into those of the next (`UpdateIsClean`). `ChainInv` carries that along the chain:
unread files only accumulate, so a snapshot without one has a predecessor without one.
Coverage and diff are then about one or two clean extractions: a file that could not be
parsed or is withheld makes the extraction incomplete, and an incomplete one decides nothing.
Assumption: `ConfigurationAssumption`, finitely many files, none of them with an empty path,
and trees of those files only.

*Database* - for any statements, types and older schemas: `ReplayIsTheServer`
(`ReplayIsServer`) and `BrokenIsNamed` (`BrokenIsReported`). The replay knows neither
the tables that were there at first nor which conditional statements were skipped, so
that it is the server's schema cannot be shown of a statement alone. `Agrees` compares
the two schemas on the tables that migrations made, and `StatementAgrees` shows, statement
by statement, that one which the server executes as written and the replay takes without
a limitation keeps them so. `DBInv` adds the shapes of both, that limitations are never
taken back between the base of the pull request and its head, that the older tables are
as they were (a statement on one is a limitation), and that every column is of a type
that exists (the server drops no enum in use). For
the diff, each broken column is followed by what became of it: gone or new
(`GoneIsReported`, `NewIsReported`), of another type, of the same type with another
nullability (`ChangedIsReported`), or of an enum with other values
(`ChangedEnumIsReported`). The last case is why the property names the enum: a table and
its enum may be dropped and made again with fewer values, and then no change of the
column itself is listed, only that of its type. Assumption: `DatabaseAssumption`, which
asks of the external server only that a type of a higher rank or length holds every value
of a lower one.

**Induction.** The library's induction theorems take an operator as a parameter, which
the installed provers cannot instantiate. Where a proof needs one (extrema of sets of
numbers, sums, finite cardinalities) it takes the smallest element of the *set* of
counterexamples, which exists because `<` is well-founded on `Nat` (`WFMin`), and refutes
it.

**Only model-checked**:

* Liveness, since fairness and `ENABLED` are out of the prover's reach:
  `AcceptedIsResolved`, `DeliveriesSettleOrStrand`, `JobsSettleOrStrand`,
  `ReconciliationConverges`, `IndexRunEnds`.
* `TypeScriptUpdatesAreExact` and `CompleteObservationIsWhole`. Module resolution and
  re-exports of the TypeScript adapter are recursive operators over a package, as
  the functions they model are, and the prover has no backend in a module that reaches
  one; `AdapterSnapshots` builds on them.
* The properties that section 6 refutes.

## 6. Where the code and its documents disagree

Each of these is a run that TLC refutes with a behaviour of the code.

* **Accepted work can be lost** (`AcceptedWorkSurvives`). `hosted-reference.md:24`:
  "a crash between receipt and job scheduling does not lose accepted work". A worker
  that dies after `enqueueJob` leaves its delivery to be reclaimed; meanwhile the
  next push enqueues its job and supersedes the first one; the reclaimed delivery
  then finds its own (superseded) job by `ON CONFLICT DO NOTHING` and supersedes the
  newer job. Both deliveries end processed, and no job is left.
* **A stale analysis can become current** (`StaleNeverOverwritesCurrent`).
  `architecture.md:501`: completed stale analyses "never overwrite current output".
  `putCanonicalPointer` is an unconditional upsert.
* **Duplicate indexing is not idempotent** (`DuplicateIsHarmless`).
  `phases/001-repository-index/spec.md:49`: "leases make duplicate work idempotent".
  The second indexer of a building generation gets the lease too, collides on the
  primary key and fails the generation under the first one.
* **A partial consumer can be called clean** (`IncompleteIsNeverClean`).
  `self-host.md:42`: incompleteness never "becomes a clean negative". A consumer
  whose contract observation is partial is selected as current and does not make the
  result partial.

Nine more have no run of their own. Each is stated as a definition of the module
named, which no configuration lists; TLC refutes it when it is added to the
configuration of that module's run.

* **A complete configuration snapshot may miss a file** (`CompleteSnapshotIsClean` in
  `ConfigurationAdapter`). `docs/adr/0006-index-first-pr-overlays.md:45,130`. An
  update that cannot read a changed document drops its partition and is partial; the
  next update starts from what is left and is complete (`P/adapter-config/src/adapter.ts`
  738-814; the events, HTTP, infrastructure and database adapters share the pattern).
* **A widened column may be made NOT NULL unnoticed** (`CompatibleBreaksNothing` in
  `DatabaseAdapter`). `research/contract-taxonomy.md:290-291` lists it as breaking;
  `P/adapter-database/src/adapter.ts` 1219-1249 decides by the type alone once it is
  wider.
* **Reasoning can take the analysis with it** (`ReasoningIsIsolated` in `AnalysisV2`).
  `P/application/src/analyze-pr-v2.ts:268` and `phase-004-reasoning.md:22-23` promise
  isolation. A run that ends complete after its latency was exhausted makes
  `finalizeAnalysisResultV2` throw, outside the `try` around reasoning.
* **A reported revision may not be stored** (`AcknowledgedIsStored` in
  `LocalRegistry`). `phases/001-repository-index/spec.md:35`: "every mutation creates
  an immutable revision". Two commands at one sequence derive different snapshots;
  `putRevision` (`P/storage-sqlite/src/store.ts` 1882-1888) ignores the second, and its
  command reports it.
* **Unlabelled cases count as audited** (`PromotedWasAudited` in `Promotion`).
  `features/cross-repo-impact/spec.md:384`: "at least 100 sampled no-finding PRs
  audited". The gate (`P/domain/src/policy.ts:200`) counts the sampled ones.
* **A promotion needs no stored report** (`PromotedIsReported` in `Promotion`).
  `features/cross-repo-impact/spec.md:211`: promotion "requires the current version's
  recorded evaluation". `promotion decide` (`P/cli/src/cli.ts:1104`) reads metrics, corpus
  revision and report hash from a file, and neither `decidePromotion` nor
  `appendPromotion` looks up a report or a corpus.
* **An imported suppression is taken as it is** (`SuppressionIsAuthorized` in `Reviews`).
  `features/cross-repo-impact/spec.md:359,361` (AC-8.4, AC-8.6): every change of what was
  reviewed invalidates a suppression, and its scope decides who may own it. `review import`
  (`P/cli/src/cli.ts` 938-959) and `AuthorizedReviewService.record` pass a bundled rule to
  `RecordReview`, which compares its ID and workspace with the event's
  (`P/application/src/review.ts` 58-77).
* **A failed run may keep its lease** (`FailedRunClosesLease` in `BudgetedIndex`).
  `features/next-generation-impact/architecture.md:156-157`: cleanup writes remain
  available "so a failed lease cannot remain selectable"; `docs/api/public-packages.md:81`:
  "cleanup operations still close failed leases". A refused `completeGeneration` is
  returned without `fail()` (`P/application/src/index-generation.ts:508`), and the
  generation keeps building until its lease expires.
* **A purge does not end work under way** (`PurgeEndsWork` in `HostedWorkspace`).
  `docs/operations/hosted-reference.md:66-75` wants "source reads and writes" stopped before
  the rows are deleted. Nothing holds `purgeRepository` to that: it does not look for
  claims, and a worker that claimed its webhook or job before it writes the rows again.

Met while modelling, and recorded under `hazards` with a note: `claimWebhook` has no
bound on attempts; the upsert of `observeEdges` makes an invalidated edge valid again
when an analysis pinned to an older revision writes it; an artifact that failed in the
previous generation is reused without being counted as failed; `beginOverlay` does not compare the
identity of an existing row; the selected generation is the last completed one, not
that of the newest commit. And three without a hazard of their own:
`putContractObservation` invalidates edges whichever of two observations is newer;
`reconcileGitHubState` plans a pull request of a repository that is visible but not
selected, which scope resolution refuses later; `enableAdvisory` (`P/host-github/src/controls.ts`
30-46) does not ask for a stored promotion.

## 7. What is not modelled

* The recognition of syntax in all adapters (source text, SQL, YAML, environment
  files), and their decoding of stored payloads: the models take what a parser finds.
* HTTP, OpenAPI, protobuf, events and infrastructure adapters: beyond their syntax,
  they update partitions as the configuration adapter does, which stands for them.
* Numerics without state: Clopper-Pearson and bootstrap intervals, agreement
  coefficients, `simulateFrozenPolicy`, `assertCaseValidity`, `auditSuppressions`.
* `putDisclosureProjection`, `revokeDisclosureRevision`, `appendAudit`, `countRows` of
  the PostgreSQL store: rows that no modelled operation reads, without a caller in the
  repository. `scoped-reads.ts` is used by tests only. The partition ports have no
  caller in a host (ADR 0006): `AdapterSnapshots` models the hosts as that document
  describes them.
* The rows of version 2 in PostgreSQL (scopes, results, reasoning runs), which
  `purgeRepository` leaves, beside the workspace's other rows: `AnalysisV2` has them on
  their own. Changes without a definition in the producer's base generation, which
  version 1's join skips; webhook pointers that the receiver does not admit; files that
  the command line skips by their class.
* Schemas and test kit: declarative data, and fakes of the ports. Command line: only
  the commands that change the registry, record reviews or decide promotions; the rest
  is argument parsing and output around the use cases.
* Provider HTTP, git invocations, the sandbox's operating-system processes: I/O whose
  outcomes appear as nondeterministic answers.
* Wall-clock values: leases and retries are "not yet" or "passed"; the edges' windows,
  the breaker and the reviews use a logical clock.

## 8. Plan

Done, in the order of importance: the queues (`LeasedRow`, `JobExecution`,
`WebhookScheduling`, `OutboxDelivery`, `Reconciliation`); what an analysis reads
(`Artifacts`, `GenerationIndex`, `OverlayDerivation`, the budgets); the analyses
(`EvidenceGraph`, `AnalyzePullRequest`, the version 2 modules, `ReasoningEngine`); the
adapters; reviews, promotion, registry, transitive candidates and the hosted workspace;
and the proofs of section 5, for every part but the snapshots of the TypeScript adapter.

Left:

1. **Further proofs**: `CompleteObservationIsWhole`, once the sharing of
   partitions in `AdapterSnapshots` is separated from the recursive TypeScript
   extraction that it extends.
2. **Remaining adapters**: the scopes of the infrastructure adapter and the topics of the
   events adapter, which are resolved from options and not from syntax alone.

Runs are kept few: a run whose question a theorem has settled for all instances makes
room for the next.
