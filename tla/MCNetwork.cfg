CONSTANTS
    Streams = {s1}
    QueueCap = 2
    ChanCap = 1
    MaxUp = 4
    MaxDown = 3
    Accepted = Accepted
    Refused = Refused
    Closed = Closed
    Requests = {r1, r2}
    MaxRedirects = 2
    EventCap = 1
    MaxBody = 3
    Started = Started
    BadGateway = BadGateway
    ErrorText = ErrorText
    Completed = Completed
    Addresses = {remote, own, lan}
    OurNetwork = {own}
    LocalRange = {lan}
    LocalAllowed = {r2}
SPECIFICATION NetworkSpec
INVARIANTS
    TypesOK
    UpstreamInOrder
    CloseAfterData
    RedirectsCompose
    OnlyAllowedContacted
PROPERTIES
    HonoursContract
    HonoursResponse
    RequestsEnd
    TargetEndTearsDown
CHECK_DEADLOCK FALSE
