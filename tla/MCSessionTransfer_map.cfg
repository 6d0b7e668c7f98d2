\* The MAP client with a D-Bus caller that waits for each reply.
CONSTANTS
    Transfers = {t1, t2}
    Calls = {c1, c2, c3}
    MaxSize = 1
    Driver = "map"
    SequentialClient = TRUE
    OwnerMayLeave = FALSE
    AgentRequestCanFail = TRUE
    NoTransfer = NoTransfer
    NoCall = NoCall
SPECIFICATION Spec
INVARIANT PutsSerialized
PROPERTY EveryCallAnswered
\* Once every call is answered the session waits for new calls.
CHECK_DEADLOCK FALSE
