\* A caller waiting for each reply gets a second reply (stale session->callback).
CONSTANTS
    Transfers = {t1, t2}
    Calls = {c1, c2}
    MaxSize = 1
    Driver = "map"
    SequentialClient = TRUE
    OwnerMayLeave = FALSE
    AgentRequestCanFail = FALSE
    NoTransfer = NoTransfer
    NoCall = NoCall
SPECIFICATION Spec
INVARIANT CallRepliedOnce
\* Once every call is answered the session waits for new calls.
CHECK_DEADLOCK FALSE
