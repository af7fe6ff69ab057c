SPECIFICATION DisplayFairSpec
CONSTANTS
    NOutputs = 1
    NVersions = 2
PROPERTY ShutdownShowsWallpaper
CHECK_DEADLOCK FALSE
