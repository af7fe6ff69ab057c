SPECIFICATION Spec
CONSTANTS
    Manners = {TRUE}
    Requests = {"CreateSession", "PostAuthMessageResponse", "StartSession"}
    PamTalks = {"ConvPrompt", "ConvDisplay"}
    Faults = {}
    MaxRequests = 4
    MaxTalks = 2
INVARIANT GrantSurvives
CHECK_DEADLOCK FALSE
