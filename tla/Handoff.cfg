SPECIFICATION FairSpec
CONSTANTS
    Users = {u1}
    None = None
    MaxGreetdConnections = 1
    MaxLogins = 2
    MaxGreeters = 2
    MaxTops = 1
INVARIANTS
    NoGreeterBehindSession
    
PROPERTIES
    DisarmedBySession
    GreeterReturns
    ConnectionsReleased
CHECK_DEADLOCK FALSE
