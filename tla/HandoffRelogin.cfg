SPECIFICATION FairSpec
CONSTANTS
    Users = {u1}
    None = None
    MaxGreetdConnections = 1
    MaxLogins = 2
    MaxGreeters = 2
    MaxTops = 1
PROPERTIES
    NextLoginSwaps
CHECK_DEADLOCK FALSE
