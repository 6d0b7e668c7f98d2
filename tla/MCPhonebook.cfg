\* Two requests of every kind over well-formed tracker replies (each row an
\* array of strings), dispatched in any order, with sends that may fail and
\* handles finalized at any time.
CONSTANTS
    Requests = {r1, r2}
    Ids = {a, me}
    Me = me
    Books <- MCBooks
    PullNames <- MCPullNames
    NewFolders <- MCNewFolders
    Offsets = {0, 1}
    MaxCounts = {0, 1}
    MaxRows = 3
    SendCanFail = TRUE
    MalformedReplies = FALSE
    ErrorReply = ErrorReply
    NotArray = NotArray
    NotString = NotString
    NoId = NoId
    Null = Null
    NoResult = NoResult
    ErrResult = ErrResult
    NoPath = NoPath
SPECIFICATION Spec
INVARIANT TypeOK
INVARIANT AnsweredOnce
INVARIANT DeliveredAsQueried
INVARIANT SetFolderMatchesSpec
PROPERTY ImplementsService
