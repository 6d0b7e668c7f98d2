\* Expected violation: a reused session reports success before (or without) a successful OBEX CONNECT.
CONSTANTS
    Requests = {r1, r2}
    SessionIds = {s1, s2}
    Owners = {o1, o2}
    NoSession = NoSession
    NoOwner = NoOwner
    ServiceChannel = 9
    SendCanFail = FALSE

SPECIFICATION Spec

INVARIANT SuccessImpliesHandshake

CHECK_DEADLOCK FALSE
