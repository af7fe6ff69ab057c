SPECIFICATION FairSpec
CONSTANTS
    Sessions = {s1, s2}
    Images = {a, b}
    None = None
    MaxRestarts = 1
    Window = 2
    FileLength = 2
    MaxUnread = 2
    MaxFrames = 3
INVARIANTS
    UploadedIsLatest
    
PROPERTIES
    FallbackComes
    OldDecodersExit
CHECK_DEADLOCK FALSE
