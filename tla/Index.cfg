SPECIFICATION IndexSpec
CONSTANTS
    Subjects = {"indexers", "overlays"}
    Indexers = {x1, x2}
    Generations = {1, 2}
    NoGeneration = NoGeneration
    CommitOf <- OnePerCommit
    Builders = {b1, b2}
    Overlays = {1, 2}
    NoOverlay = NoOverlay
    GenerationIds = {1, 2, 3}
    NoBase = NoBase
    Root = 1
    RootCommit = 1
    Requests <- Stacked
    Commits = {1, 2, 3, 4, 5}
    Paths = {1, 2}
    Blobs = {1, 2, 3}
    NoBlob = NoBlob
    Tree <- Trees
    Parses = {1, 2, 3}
SYMMETRY Interchangeable
INVARIANTS PublishedMatchesTree DerivedIsCleanIndex
PROPERTY PublishedIsFrozen
CHECK_DEADLOCK FALSE
