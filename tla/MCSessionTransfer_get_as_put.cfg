\* Two GetMessage calls: when the first get ends, the second is started as a put.
CONSTANTS
    Transfers = {t1, t2}
    Calls = {c1, c2}
    MaxSize = 1
    Driver = "map"
    SequentialClient = TRUE
    OwnerMayLeave = FALSE
    AgentRequestCanFail = FALSE
    NoTransfer = NoTransfer
    NoCall = NoCall
SPECIFICATION Spec
INVARIANT StartedOnceAsRequested
\* Once every call is answered the session waits for new calls.
CHECK_DEADLOCK FALSE
