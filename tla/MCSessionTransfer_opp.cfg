\* A session used by a front-end that queues files with obc_session_send,
\* with an agent that may be assigned and released and an owner that may
\* disconnect.
CONSTANTS
    Transfers = {t1, t2, t3}
    Calls = {}
    MaxSize = 2
    Driver = "opp"
    SequentialClient = FALSE
    OwnerMayLeave = TRUE
    AgentRequestCanFail = FALSE
    NoTransfer = NoTransfer
    NoCall = NoCall
SPECIFICATION Spec
INVARIANT TypeOK
INVARIANT StartedOnceAsRequested
INVARIANT PutsSerialized
PROPERTY QueueDrains
\* Once every transfer has been used the session waits for new calls.
CHECK_DEADLOCK FALSE
