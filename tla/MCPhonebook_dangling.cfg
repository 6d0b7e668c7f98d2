\* Tracker replies that may hold an element that is not an array, or a row
\* with a value that is not a string (string_array_from_iter returns NULL),
\* for requests of every kind.
CONSTANTS
    Requests = {r1, r2}
    Ids = {a, me}
    Me = me
    Books <- MCBooks
    PullNames <- MCPullNames
    NewFolders <- MCNewFolders
    Offsets = {0, 1}
    MaxCounts = {0, 1}
    MaxRows = 3
    SendCanFail = TRUE
    MalformedReplies = TRUE
    ErrorReply = ErrorReply
    NotArray = NotArray
    NotString = NotString
    NoId = NoId
    Null = Null
    NoResult = NoResult
    ErrResult = ErrResult
    NoPath = NoPath
SPECIFICATION Spec
SYMMETRY Symmetry
INVARIANT NoDanglingContacts
