SPECIFICATION FairSpec
CONSTANTS
    b1 = b1
    b2 = b2
    i1 = i1
    i2 = i2
    prod = prod
    cons = cons
    Build <- MCBuild
    Image <- MCImage
    NoBuild = NoBuild
    NoImage = NoImage
    Producer = prod
    Importer <- MCImporter
    MaxPublish = 1
    MaxCrashes = 2
    NamedCost = 2
    DieAt <- MCAnswered
    ImportRaces = FALSE
INVARIANT InCustody
PROPERTY RetainedKept
PROPERTY EventuallyReclaimed
CHECK_DEADLOCK FALSE
