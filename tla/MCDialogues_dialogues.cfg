SPECIFICATION Spec
CONSTANTS
    MaxCalls = 3
    MaxReplyLines = 2
    MaxLines = 3
    Requests <- BrowserSends
    Responses <- OriginSends
    Pings = {p1, p2, p3}
    LastPing = p3
    Searches = {p2}
    Threads = {t1}
    SeqCount = 2
    MaxNow = 2
    MaxFound = 1
    None = None
INVARIANTS
    InStep
    PasswordKept
    NothingLost
    HandlerKept
    OwnReply
PROPERTIES
    MethodReturns
    PingsAnswered
    ProxyEnds
    Answered
CHECK_DEADLOCK FALSE
