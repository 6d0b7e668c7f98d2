\* Expected violation: a failed adapter lookup or admission never reaches the connect callback.
CONSTANTS
    Requests = {r1, r2}
    SessionIds = {s1, s2}
    Owners = {o1, o2}
    NoSession = NoSession
    NoOwner = NoOwner
    ServiceChannel = 9
    SendCanFail = FALSE

SPECIFICATION Spec

PROPERTY EveryRequestAnswered

CHECK_DEADLOCK FALSE
