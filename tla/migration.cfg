SPECIFICATION MigrationSpec
CONSTANTS
    Pairs <- SomePairs
    Layouts <- SomeLayouts
    RootLists <- SomeRoots
    Modes = {"plain", "force", "dry"}
    MaxRuns = 2
    MaxFaults = 2
INVARIANTS
    HomeKept
    SuccessIsTrue
    RollbackRestores
