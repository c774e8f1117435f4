\* One request of a client, beside another client, changed once by its application.
SPECIFICATION FairSpec
CONSTANTS
    c1 = c1
    c2 = c2
    none = none
    Clients = {c1, c2}
    Main = c1
    None = none
    Names = {"Vary", "Range", "Accept"}
    Values = {"a"}
    Tokens <- MCTokens
    Requests <- MCRequests
    Urls = {"u", "w"}
    Methods = {"GET", "HEAD"}
    MaxEdits = 1
    MaxClosures = 2
    Codes = {"OPERATION_TIMEDOUT"}
    Statuses = {"200"}
    Lines <- MCLines
CHECK_DEADLOCK FALSE
INVARIANTS
    TypeOK
    KeysAgree
    BodyOutlivesTransfer
    SyncReturnsAnswer
    InitialisedWhileUsed
PROPERTIES
    AnswerFrozen
    SyncReturns
