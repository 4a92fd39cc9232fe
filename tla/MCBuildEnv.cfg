SPECIFICATION Spec

CONSTANTS
    Files <- MCFiles
    ImageBuilder = "imagebuilder"
    MaxVersions = 2
    MaxJobs = 2
    Stock <- MCStock
    StockPatches <- MCStockPatches
    Archive <- MCArchive
    Volumes <- MCVolumes
    CustomPackages <- MCPackages
    MaxCalls = 3
    MaxKills = 1

INVARIANTS
    TypeOK
    FetchedWhole
    MarkerMeansWhole
    SuccessMeansPatched
    FailsOnlyOnOddRelease
    HashesChecked

CHECK_DEADLOCK FALSE
