SPECIFICATION WorkspaceSpec
CONSTANTS
  Subjects = {"reviews", "promotion", "walk", "local", "purge", "restore"}
  Reviewers = {v1, v2}
  Findings = {"f1", "f2"}
  Attributes <- MCAttributes
  Scopes = {"contract_consumer"}
  Roles = {"reviewer", "repository_owner"}
  Facets = {"code", "policy"}
  Bounds <- MCBounds
  Lifetime <- MCLifetime
  ForeignRules <- MCForeignRules
  Drafts <- MCDrafts
  NoFindingWeight = 2
  Panels <- MCPanels
  Requests <- MCRequests
  Strata = {"s"}
  Versions = {"v1", "v2"}
  Deciders = {d1, d2}
  Gate <- MCGate
  Defects <- MCDefects
  ForeignEvidence <- MCForeignEvidence
  MaxCorpora = 1
  MaxDecisions = 2
  MaxClock = 1
  k2 = k2
  Origin = "o"
  Links <- MCLinks
  Depths = {0, 2, 3}
  Commands = {c1, c2}
  RepositoryIds = {"r1", "r2"}
  MemberAliases = {"m", "n"}
  ServiceIds = {"s1", "s2"}
  AliasValues = {"A", "a", "b"}
  Normalized <- MCNormalized
  Workspaces = {"ws1", "ws2"}
  NoSnapshot = NoSnapshot
  InitialConfigs <- MCInitialConfigs
  Forever = 9
  Analyses = {1, 2, 3}
  PullRequestOf <- MCPullRequestOf
  RepositoryOf <- MCRepositoryOf
  Ownerless = {"q"}
  HostedWorkers = {w1, w2}
  NoPointer = NoPointer
  Contents = {k1, k2}
  NoContent = NoContent
  MaxReceipts = 2
SYMMETRY Interchangeable
INVARIANTS
  ForkIsBackdated SuppressedWasReviewed ShownIsMeasured ReducedScopeIsSound TransitiveIsExact
  PurgeIsFinal UntornBackupRestores
CHECK_DEADLOCK FALSE
