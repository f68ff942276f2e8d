SPECIFICATION AnalysesSpec
CONSTANTS
    Subjects = {"v1", "v2", "engine"}
    p = p  c = c  exact = exact  target = target  a1 = a1  k1 = k1  noKey = noKey
    Repositories = {p, c}
    References = {exact, target}
    Kind <- KindOf
    MaxGenerations <- TwoForTheConsumer
    Extractions <- SomeExtractions
    Configurations <- OneChange
    Producer = p
    Changes = {"complete", "partial_removal"}
    RepositoryOrder <- Order
    Analyses = {x1, x2}
    NoAnalysis = NoAnalysis
    ScopeRepositories = {p, c}
    ScopeProducer = p
    Subject = "me"
    Legacy = legacy
    Keys = {k1, k2}
    NoKey = noKey
    Callers = {a1, a2}
    Maximums = {2, 3}
    Threshold = 2
    Cooldown = 1
    MaxTime = 3
    Inputs <- SomeInputs
    SourceAnswers <- SomeAnswers
    MaxAttempts = 2
INVARIANTS
    OneCurrentAnalysis NoRepositoryIsSilent CompleteReportsEveryReference EdgesAreBacked
    CompleteIsWhole ConsentedEvidenceOnly PurgedIsUnreasoned
PROPERTIES ResultsOnlySupersede PartialNeverErases OpenBreakerHolds
SYMMETRY Interchangeable
CHECK_DEADLOCK FALSE
