-------------------------- MODULE SessionAbstract --------------------------
(***************************************************************************)
(* What obc_session_create promises its callers, stated without D-Bus,     *)
(* SDP, RFCOMM or OBEX.  A request opens a fresh or an existing session    *)
(* and is pending until it is settled: answered with success or an error,  *)
(* or dropped without an answer (the code's "failed" path does that; that  *)
(* every request should be answered is SessionLifecycle's                  *)
(* EveryRequestAnswered, which fails).  The caller holds the session from  *)
(* the call on and releases it after an answer; a session it registered    *)
(* is also held by its exported MAP interface until shutdown unexports it. *)
(* A session is freed exactly when the last of these holders lets go, in   *)
(* the same step, and a freed session is never handed out again.           *)
(***************************************************************************)
CONSTANTS Requests, SessionIds, NoSession

VARIABLES
    status,    \* status[s]: "free" (never allocated), "alive" or "freed"
    request,   \* request[r]: phase, session, answer and whether the caller holds
    exported   \* sessions whose MAP interface holds a reference

vars == <<status, request, exported>>

Init ==
    /\ status = [s \in SessionIds |-> "free"]
    /\ request = [r \in Requests |->
                    [phase |-> "idle", sess |-> NoSession, answer |-> "none",
                     holds |-> FALSE]]
    /\ exported = {}

\* Who keeps session s alive, given the requests rq and exported set ex.
Held(s, rq, ex) ==
    \/ s \in ex
    \/ \E r \in Requests : rq[r].sess = s /\ (rq[r].holds \/ rq[r].phase = "pending")

(* Every step ends by freeing the live sessions nobody holds any more, and *)
(* no other session.                                                       *)
Settle(st) ==
    status' = [s \in SessionIds |->
                 IF st[s] = "alive" /\ ~Held(s, request', exported')
                 THEN "freed" ELSE st[s]]

\* A new request opens a session that is not freed; the caller holds it.
Open(r) ==
    /\ request[r].phase = "idle"
    /\ \E s \in SessionIds :
         /\ status[s] # "freed"
         /\ request' = [request EXCEPT ![r] =
                          [phase |-> "pending", sess |-> s, answer |-> "none",
                           holds |-> TRUE]]
         /\ Settle([status EXCEPT ![s] = "alive"])
    /\ UNCHANGED exported

\* A pending request is settled once: answered "ok" or "error", or dropped.
Settled(r) ==
    /\ request[r].phase = "pending"
    /\ \E a \in {"none", "ok", "error"} :
         request' = [request EXCEPT ![r].phase = "done", ![r].answer = a]
    /\ Settle(status)
    /\ UNCHANGED exported

\* The caller gives its session back after its callback has run.
Release(r) ==
    /\ request[r].holds
    /\ request[r].phase = "done"
    /\ request[r].answer # "none"
    /\ request' = [request EXCEPT ![r].holds = FALSE]
    /\ Settle(status)
    /\ UNCHANGED exported

\* A caller told "connected" exports its session.
Export(r) ==
    /\ request[r].holds
    /\ request[r].answer = "ok"
    /\ exported' = exported \cup {request[r].sess}
    /\ UNCHANGED <<status, request>>

\* Shutdown unexports some sessions (those of an owner that went away).
Unexport ==
    /\ \E gone \in SUBSET exported :
         /\ gone # {}
         /\ exported' = exported \ gone
    /\ Settle(status)
    /\ UNCHANGED request

Next ==
    \/ \E r \in Requests : Open(r) \/ Settled(r) \/ Release(r) \/ Export(r)
    \/ Unexport

Spec == Init /\ [][Next]_vars
=============================================================================
