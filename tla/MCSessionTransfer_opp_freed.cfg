\* The owner disconnects while a send waits for its idle source or agent reply.
CONSTANTS
    Transfers = {t1, t2, t3}
    Calls = {}
    MaxSize = 2
    Driver = "opp"
    SequentialClient = FALSE
    OwnerMayLeave = TRUE
    AgentRequestCanFail = FALSE
    NoTransfer = NoTransfer
    NoCall = NoCall
SPECIFICATION Spec
INVARIANT NoFreedTransferUse
CHECK_DEADLOCK FALSE
