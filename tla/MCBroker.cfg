SPECIFICATION Spec
CONSTANTS
    Conns = {c1, c2}
    None = None
    PamTalks = {"ConvPrompt", "ConvDisplay"}
    Faults = {"crash", "fork", "source", "sigterm"}
    MaxUnread = 2
    Uids = {"root", "relay"}
    FirstFrames = {"BeginAuth", "SpawnGreeter"}
    MaxInFlight = 1
    MaxPending = 2
    MaxPerWindow = 1
    Window = 1
    IdleExit = 1
SYMMETRY Symmetry
INVARIANTS
    ActiveOwnsSlot
    SingleWorker
    AnswersMatchPrompts
    NoSessionWithoutAuth
    IdleIffQuiet
    ChurnBound
PROPERTIES
    ImplementsService
CHECK_DEADLOCK FALSE
