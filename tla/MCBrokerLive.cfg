SPECIFICATION FairSpec
CONSTANTS
    Conns = {c1}
    None = None
    PamTalks = {"ConvPrompt", "ConvDisplay"}
    Faults = {"crash", "fork", "source", "sigterm"}
    MaxUnread = 1
    Uids = {"relay", "root"}
    FirstFrames = {"BeginAuth", "RequestRootFd"}
    MaxInFlight = 1
    MaxPending = 2
    MaxPerWindow = 1
    Window = 1
    IdleExit = 2
PROPERTIES
    
    
    OrphanWorkerExits
    ConnectionsServed
    QuietBrokerExits
CHECK_DEADLOCK FALSE
