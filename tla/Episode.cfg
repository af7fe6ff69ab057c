SPECIFICATION FairSpec
CONSTANTS
    Manners = {TRUE, FALSE}
    Requests = {"CreateSession", "PostAuthMessageResponse", "StartSession", "CancelSession"}
    PamTalks = {"ConvPrompt", "ConvDisplay"}
    Faults = {"command"}
    MaxRequests = 4
    MaxTalks = 2
INVARIANTS
    TypeOK
    MirrorAgrees
    ExpectedFramesOnly
    AnswersReachTheirPrompt
    OneReplyEach
    SuccessIsGranted
PROPERTIES
    ReplyEventually
    EpisodeEnds
CHECK_DEADLOCK FALSE
