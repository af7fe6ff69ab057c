SPECIFICATION Spec
CONSTANTS
    Conns = {c1, c2, c3}
    None = None
    PamTalks = {"ConvPrompt", "ConvDisplay"}
    Faults = {"source", "sigterm"}
    MaxUnread = 1
    Uids = {"root", "relay", "other"}
    FirstFrames = {"RequestRootFd", "SpawnGreeter", "Cancel"}
    MaxInFlight = 1
    MaxPending = 2
    MaxPerWindow = 1
    Window = 2
    IdleExit = 2
SYMMETRY Symmetry
INVARIANTS
    AdmissionBounded
CHECK_DEADLOCK FALSE
