SPECIFICATION FairSpec
CONSTANTS
    Starts = {"initrd", "rootfs"}
    Requests = {q1, q2}
    None = None
    MaxTyped = 1
INVARIANTS
    ExitsOnlyWhenStopped
    TypedForThisRequest
PROPERTIES
    StopExits
    PivotCompletes
    RequestsServed
    AgentExits
CHECK_DEADLOCK FALSE
