SPECIFICATION Spec
CONSTANTS
    Starts = {"initrd"}
    Requests = {}
    None = None
    MaxTyped = 0
INVARIANT RealShutdownNeverExits
CHECK_DEADLOCK FALSE
