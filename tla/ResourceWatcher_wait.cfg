SPECIFICATION FairWatcherSpec
CONSTANTS
    Boot = boot
    File = {boot, conf}
    Base = {boot}
    LevelOf <- MCLevelOf
    Depth = 2
    MaxFileChanges = 8
INVARIANT NothingMissed
PROPERTY EventuallyRead
CHECK_DEADLOCK FALSE
