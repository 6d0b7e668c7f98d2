\* Bring-up, refcount and registry safety, and progress of started connects.
CONSTANTS
    Requests = {r1, r2}
    SessionIds = {s1, s2}
    Owners = {o1, o2}
    NoSession = NoSession
    NoOwner = NoOwner
    ServiceChannel = 9
    SendCanFail = FALSE

SPECIFICATION Spec

INVARIANT TypeOK
 
INVARIANT RefcountMatchesHolders
INVARIANT AnsweredAtMostOnce
INVARIANT SingleTransportBringUp
INVARIANT HeldSessionMatchesRequest

PROPERTY StartedConnectAnswered
PROPERTY ImplementsSessionAbstract

\* The daemon idles once every request is finished and released.
CHECK_DEADLOCK FALSE
