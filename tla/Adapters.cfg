SPECIFICATION AdaptersSpec
CONSTANTS
    Role <- MCRole
    Rank <- MCRank
    Within <- MCWithin
    DirnameLength <- MCDirnameLength
    ModuleName <- MCModuleName
    Candidates <- MCCandidates
    Relative = {"a", "top"}
    DefaultEntry = "top"
    MaximumItems = 4
    NoContent = NoContent
    NoFailure = NoFailure
    NoPath = NoPath
    NoKey = NoKey
    Snapshotted = {1, 2, 3}
    NoGeneration = NoGeneration
    Trees <- MCTrees
    Revisions = {r1}
    Context <- MCContext
    PackageRoot = "."
    OtherExtractions <- MCOtherExtractions
    Hosts = {h1, h2}
    SnapshotHosts = {h1}
    NoSnapshot = NoSnapshot
    MaxVersion = 2
    Files = {"a.ts", "b.ts", "env", "manifest"}
    SensitivePaths = {"env"}
    ProbablePaths = {"a.ts", "b.ts", "manifest"}
    ExplicitPaths = {"manifest"}
    SecretKeys = {"API_KEY"}
    ConfigTrees <- MCConfigTrees
    ConfigContext <- MCConfigContext
    NoDocument = NoDocument
    MaxSnapshots = 3
    Statements <- MCStatements
    LegacySchemas <- MCLegacySchemas
    NumericRank <- MCNumericRank
    TextLength <- MCTextLength
    Accepts <- MCAccepts
    NoValue = NoValue
    MaxStatements = 5
INVARIANTS
    TypeScriptUpdatesAreExact ConfigUpdatesAreExact CompleteObservationIsWhole
    ReplayIsServer BrokenIsReported
CHECK_DEADLOCK FALSE
