-------------------------- MODULE SessionLifecycle --------------------------
(***************************************************************************)
(* Session bring-up, reference counting and the session registry of the   *)
(* OBEX client (src/client/session.c).                                     *)
(*                                                                         *)
(* A request is one call of obc_session_create; its struct callback_data  *)
(* travels through manager_reply, adapter_reply, session_connect,         *)
(* service_callback, search_callback, rfcomm_callback and connect_cb (or  *)
(* connection_complete for a reused session), holding one reference on    *)
(* the session until it is freed.  Every reply or I/O completion is an    *)
(* action of its own, so TLC interleaves the steps of concurrent requests *)
(* with each other, with the caller's releases and with the owner's       *)
(* disconnection, exactly as the GLib main loop may dispatch them.        *)
(*                                                                         *)
(* One destination, service and source are modelled: what tells sessions  *)
(* apart for session_find is the owner and the channel.                   *)
(***************************************************************************)
EXTENDS Naturals, FiniteSets, Sequences, SequencesExt

CONSTANTS
    Requests,       \* calls of obc_session_create (one callback_data each)
    SessionIds,     \* struct obc_session objects that may be allocated
    Owners,         \* D-Bus names of the callers that own sessions
    NoSession,      \* NULL session pointer
    NoOwner,        \* session->owner == NULL
    ServiceChannel, \* the RFCOMM channel the remote's SDP record announces
    SendCanFail     \* whether send_method_call may fail (out of memory)

ASSUME /\ NoSession \notin SessionIds
       /\ NoOwner \notin Owners
       /\ ServiceChannel \in 1..30
       /\ SendCanFail \in BOOLEAN

\* uint8_t channel: 0 means "not known, discover it with SDP".
Channels == {0, ServiceChannel}

VARIABLES
    sess,      \* sess[s]: the fields of struct obc_session s
    sessions,  \* the global GSList *sessions, head first
    req,       \* req[r]: the request's callback_data and what its caller sees
    gone       \* owners whose bus name has disconnected

vars == <<sess, sessions, req, gone>>

(***************************************************************************)
(* Where a request's callback_data is waiting.                             *)
(*   find_adapter, request_session: a D-Bus call is in session->pending_calls *)
(*   sdp_connect: service_callback watch on the SDP socket                 *)
(*   sdp_search:  process_callback watch, search_callback pending          *)
(*   rfcomm:      rfcomm_callback pending on session->io                   *)
(*   obex_connect: connect_cb pending on session->obex                      *)
(*   complete_idle: connection_complete queued with g_idle_add             *)
(*   finished: callback_data freed; lost: its watch was removed and it      *)
(*   will never run again (nor release its reference).                     *)
(***************************************************************************)
Stages == {"idle", "find_adapter", "request_session", "sdp_connect",
           "sdp_search", "rfcomm", "obex_connect", "complete_idle",
           "finished", "lost"}

\* Stages whose callback will still be dispatched with callback->session.
Armed == {"sdp_connect", "sdp_search", "rfcomm", "obex_connect",
          "complete_idle"}

\* Stages in which the callback_data still holds its session reference.
Holding == Armed \cup {"find_adapter", "request_session", "lost"}

NewSession == [status |-> "free", refcount |-> 0, channel |-> 0,
               owner |-> NoOwner, obex |-> FALSE, io |-> "none",
               ioShut |-> FALSE, adapter |-> FALSE, grants |-> 0,
               handshake |-> "none", path |-> FALSE, map |-> FALSE]

NewRequest == [stage |-> "idle", sess |-> NoSession, owner |-> NoOwner,
               chan |-> 0, answers |-> 0, result |-> "none", holds |-> FALSE]

\* Outcomes of send_method_call / dbus_connection_send_with_reply.
SendOutcomes == IF SendCanFail THEN BOOLEAN ELSE {TRUE}

Init ==
    /\ sess = [s \in SessionIds |-> NewSession]
    /\ sessions = <<>>
    /\ req = [r \in Requests |-> NewRequest]
    /\ gone = {}

-----------------------------------------------------------------------------
(***************************************************************************)
(* session_free on session s whose other fields are o: its pending D-Bus   *)
(* calls are cancelled (their replies are never dispatched: see the        *)
(* "alive" guards below), the agent, watch, obex and io are released, and  *)
(* the session leaves the registry.                                        *)
(***************************************************************************)
SessionFree(s, o) ==
    /\ sess' = [sess EXCEPT ![s] = [o EXCEPT !.status = "freed"]]
    /\ sessions' = RemoveFirst(sessions, s)

(* obc_session_unref applied to session s whose other fields have just     *)
(* become o: the count drops and, when it reaches zero, a fire-and-forget  *)
(* ReleaseSession is sent and session_free runs.                           *)
Unref(s, o) ==
    LET dec == [o EXCEPT !.refcount = @ - 1]
    IN  IF dec.refcount = 0 THEN SessionFree(s, dec)
        ELSE /\ sess' = [sess EXCEPT ![s] = dec]
             /\ UNCHANGED sessions

\* A request's callback_data is freed after (or without) calling func.
Finish(r, answer) ==
    req' = [req EXCEPT ![r].stage = "finished",
                       ![r].answers = IF answer = "none" THEN @ ELSE @ + 1,
                       ![r].result = IF answer = "none" THEN @ ELSE answer]

SetStage(r, st) == req' = [req EXCEPT ![r].stage = st]

Alive(s) == sess[s].status = "alive"

\* Mutant: session_find without its g_strcmp0 of the owner.
MatchesAnyOwner(s, o, ch) == ch = 0 \/ sess[s].channel = ch

\* session_find: first registry entry matching owner and (if given) channel.
Matches(s, o, ch) ==
    /\ ch = 0 \/ sess[s].channel = ch
    /\ sess[s].owner = o

SessionFindAny(o, ch) ==
    IF \E s \in SessionIds : Alive(s) /\ Matches(s, o, ch)
    THEN CHOOSE s \in SessionIds : Alive(s) /\ Matches(s, o, ch)
    ELSE NoSession

SessionFind(o, ch) ==
    LET i == SelectInSeq(sessions, LAMBDA s : Matches(s, o, ch))
    IN  IF i = 0 THEN NoSession ELSE sessions[i]

-----------------------------------------------------------------------------
(***************************************************************************)
(* obc_session_create.  A matching registered session is referenced again; *)
(* otherwise a fresh one is allocated with refcount 1.  Either way the     *)
(* callback_data takes a reference and FindAdapter/DefaultAdapter is sent. *)
(* If that send fails the function unrefs once and returns NULL.  On      *)
(* success the owner's disconnect watch is (re)installed.                 *)
(***************************************************************************)
CreateWith(r, s, o, ch, base) ==
    \E sent \in SendOutcomes :
        LET o1 == [sess[s] EXCEPT !.status = "alive",
                                  !.channel = IF base = 0 THEN ch ELSE @,
                                  !.refcount = base + 2,
                                  !.owner = IF sent THEN o ELSE @]
        IN  /\ IF sent THEN /\ sess' = [sess EXCEPT ![s] = o1]
                            /\ UNCHANGED sessions
                       ELSE Unref(s, o1)
            /\ req' = [req EXCEPT ![r] =
                         [@ EXCEPT !.stage = IF sent THEN "find_adapter"
                                                     ELSE "finished",
                                   !.sess = s, !.owner = o, !.chan = ch,
                                   !.holds = sent]]

CreateReuse(r, s, o, ch) == CreateWith(r, s, o, ch, sess[s].refcount)

Create(r) ==
    /\ req[r].stage = "idle"
    /\ \E o \in Owners \ gone, ch \in Channels :
         LET found == SessionFind(o, ch)
         IN  IF found # NoSession
             THEN CreateReuse(r, found, o, ch)
             ELSE /\ \E s \in SessionIds : sess[s].status = "free"
                  /\ CreateWith(r, CHOOSE s \in SessionIds :
                                     sess[s].status = "free", o, ch, 0)
    /\ UNCHANGED gone

(***************************************************************************)
(* manager_reply: an error reply, or a reply without an object path, goes  *)
(* to "failed", which unrefs and frees the callback_data WITHOUT calling   *)
(* callback->func.                                                         *)
(***************************************************************************)
ManagerReplyErrorNoUnref(r) ==
    /\ req[r].stage = "find_adapter"
    /\ Alive(req[r].sess)
    /\ Finish(r, "none")
    /\ UNCHANGED <<sess, sessions, gone>>

ManagerReplyError(r) ==
    /\ req[r].stage = "find_adapter"
    /\ Alive(req[r].sess)
    /\ Unref(req[r].sess, sess[req[r].sess])
    /\ Finish(r, "none")
    /\ UNCHANGED gone

(***************************************************************************)
(* manager_reply with an adapter path: session->adapter is recorded (it is *)
(* where unref later sends ReleaseSession) and RequestSession is sent.     *)
(***************************************************************************)
ManagerReplyAdapter(r) ==
    LET s == req[r].sess
        o == [sess[s] EXCEPT !.adapter = TRUE]
    IN
    /\ req[r].stage = "find_adapter"
    /\ Alive(s)
    /\ \E sent \in SendOutcomes :
         IF sent THEN /\ sess' = [sess EXCEPT ![s] = o]
                      /\ SetStage(r, "request_session")
                      /\ UNCHANGED sessions
                 ELSE /\ Unref(s, o)
                      /\ Finish(r, "none")
    /\ UNCHANGED gone

\* adapter_reply with an error: "failed", again without callback->func.
AdapterReplyError(r) ==
    LET s == req[r].sess IN
    /\ req[r].stage = "request_session"
    /\ Alive(s)
    /\ Unref(s, sess[s])
    /\ Finish(r, "none")
    /\ UNCHANGED gone

(***************************************************************************)
(* adapter_reply granting the session, then session_connect: a connected  *)
(* session completes from an idle callback; a known channel is connected  *)
(* at once with rfcomm_connect; otherwise service_connect opens SDP.      *)
(* bt_io_connect and sdp_connect may fail synchronously, which goes to    *)
(* "failed" (no callback->func).                                          *)
(***************************************************************************)
AdapterReplyGranted(r) ==
    LET s == req[r].sess
        o == [sess[s] EXCEPT !.grants = @ + 1]
    IN
    /\ req[r].stage = "request_session"
    /\ Alive(s)
    /\ CASE o.obex ->
              /\ sess' = [sess EXCEPT ![s] = o]
              /\ SetStage(r, "complete_idle")
              /\ UNCHANGED sessions
         [] o.channel > 0 ->
              \E ok \in BOOLEAN :
                IF ok THEN /\ sess' = [sess EXCEPT ![s] =
                                 [o EXCEPT !.io = "rfcomm", !.ioShut = FALSE]]
                           /\ SetStage(r, "rfcomm")
                           /\ UNCHANGED sessions
                      ELSE /\ Unref(s, [o EXCEPT !.io = "none"])
                           /\ Finish(r, "none")
         [] OTHER ->
              \E ok \in BOOLEAN :
                IF ok THEN /\ sess' = [sess EXCEPT ![s] =
                                 [o EXCEPT !.io = "sdp", !.ioShut = FALSE]]
                           /\ SetStage(r, "sdp_connect")
                           /\ UNCHANGED sessions
                      ELSE /\ Unref(s, o)
                           /\ Finish(r, "none")
    /\ UNCHANGED gone

(***************************************************************************)
(* service_callback on the SDP socket.  ERR/NVAL, or a failure to set the  *)
(* notify function, convert the UUID or submit the search, shuts the      *)
(* socket down and reports "Unable to find service record".  A socket      *)
(* shut down by obc_session_shutdown can only fail here.                   *)
(***************************************************************************)
ServiceCallbackFailed(r) ==
    LET s == req[r].sess IN
    /\ req[r].stage = "sdp_connect"
    /\ Alive(s)
    /\ Unref(s, [sess[s] EXCEPT !.io = "none", !.ioShut = FALSE])
    /\ Finish(r, "error")
    /\ UNCHANGED gone

\* service_callback submitting the search and arming process_callback.
ServiceSearchStarted(r) ==
    /\ req[r].stage = "sdp_connect"
    /\ Alive(req[r].sess)
    /\ ~sess[req[r].sess].ioShut
    /\ SetStage(r, "sdp_search")
    /\ UNCHANGED <<sess, sessions, gone>>

(***************************************************************************)
(* process_callback returning FALSE (HUP/ERR/NVAL on the SDP socket, or   *)
(* sdp_process < 0): the watch is removed and search_callback never runs, *)
(* so neither callback->func nor the unref of callback->session happens.  *)
(***************************************************************************)
ProcessCallbackLost(r) ==
    /\ req[r].stage = "sdp_search"
    /\ Alive(req[r].sess)
    /\ SetStage(r, "lost")
    /\ UNCHANGED <<sess, sessions, gone>>

(***************************************************************************)
(* search_callback.  When a record with an RFCOMM channel was found the   *)
(* channel is cached in the session and rfcomm_connect replaces the SDP   *)
(* io; otherwise (no record, or bt_io_connect failing) "failed" reports   *)
(* the error to callback->func and unrefs.                                 *)
(***************************************************************************)
SearchCallback(r) ==
    LET s == req[r].sess IN
    /\ req[r].stage = "sdp_search"
    /\ Alive(s)
    /\ ~sess[s].ioShut
    /\ \E found \in BOOLEAN, connected \in BOOLEAN :
         IF found /\ connected
         THEN /\ sess' = [sess EXCEPT ![s].channel = ServiceChannel,
                                     ![s].io = "rfcomm"]
              /\ SetStage(r, "rfcomm")
              /\ UNCHANGED sessions
         ELSE /\ Unref(s, [sess[s] EXCEPT
                            !.channel = IF found THEN ServiceChannel ELSE @,
                            !.io = "none"])
              /\ Finish(r, "error")
    /\ UNCHANGED gone

(***************************************************************************)
(* rfcomm_callback with an error: "done" calls callback->func with the     *)
(* error and unrefs.  session->io keeps the failed channel until           *)
(* session_free shuts it down.                                              *)
(***************************************************************************)
RfcommFailedDoubleUnref(r) ==
    LET s == req[r].sess IN
    /\ req[r].stage = "rfcomm"
    /\ Alive(s)
    /\ Unref(s, [sess[s] EXCEPT !.refcount = @ - 1])
    /\ Finish(r, "error")
    /\ UNCHANGED gone

RfcommFailedSilent(r) ==
    LET s == req[r].sess IN
    /\ req[r].stage = "rfcomm"
    /\ Alive(s)
    /\ Unref(s, sess[s])
    /\ Finish(r, "none")
    /\ UNCHANGED gone

RfcommFailed(r) ==
    LET s == req[r].sess IN
    /\ req[r].stage = "rfcomm"
    /\ Alive(s)
    /\ Unref(s, sess[s])
    /\ Finish(r, "error")
    /\ UNCHANGED gone

(***************************************************************************)
(* rfcomm_callback on a connected channel: the io is wrapped in a GObex,  *)
(* session->io is dropped, OBEX CONNECT is sent and the session is        *)
(* prepended to the registry -- before the handshake has completed.       *)
(***************************************************************************)
RfcommConnectedFallThrough(r) ==
    LET s == req[r].sess IN
    /\ req[r].stage = "rfcomm"
    /\ Alive(s)
    /\ ~sess[s].ioShut
    /\ sess' = [sess EXCEPT ![s].obex = TRUE, ![s].io = "none"]
    /\ sessions' = Cons(s, sessions)
    /\ req' = [req EXCEPT ![r].stage = "obex_connect",
                           ![r].answers = @ + 1, ![r].result = "ok"]
    /\ UNCHANGED gone

RfcommConnected(r) ==
    LET s == req[r].sess IN
    /\ req[r].stage = "rfcomm"
    /\ Alive(s)
    /\ ~sess[s].ioShut
    /\ sess' = [sess EXCEPT ![s].obex = TRUE, ![s].io = "none"]
    /\ sessions' = Cons(s, sessions)
    /\ SetStage(r, "obex_connect")
    /\ UNCHANGED gone

(***************************************************************************)
(* connect_cb: the OBEX CONNECT response (or a transport error) is passed  *)
(* to callback->func, then the reference is dropped.  On failure neither   *)
(* session->obex nor the registry entry is undone.                         *)
(***************************************************************************)
ConnectCb(r) ==
    LET s == req[r].sess IN
    /\ req[r].stage = "obex_connect"
    /\ Alive(s)
    /\ \E ok \in BOOLEAN :
         LET res == IF ok THEN "ok" ELSE "error"
         IN  /\ Unref(s, [sess[s] EXCEPT !.handshake = res])
             /\ Finish(r, res)
    /\ UNCHANGED gone

\* connection_complete: the idle callback reports success and unrefs.
ConnectionComplete(r) ==
    LET s == req[r].sess IN
    /\ req[r].stage = "complete_idle"
    /\ Alive(s)
    /\ Unref(s, sess[s])
    /\ Finish(r, "ok")
    /\ UNCHANGED gone

(***************************************************************************)
(* The caller (the client manager, outside src/) drops the reference       *)
(* obc_session_create returned, once its callback has run.                  *)
(***************************************************************************)
Release(r) ==
    /\ req[r].holds
    /\ req[r].answers > 0
    /\ Unref(req[r].sess, sess[req[r].sess])
    /\ req' = [req EXCEPT ![r].holds = FALSE]
    /\ UNCHANGED gone

(* map_probe: map_data takes a reference (obc_session_ref) and the MAP
   interface is registered with map_free as its destroy function. *)
MapProbe(o) == [o EXCEPT !.map = TRUE, !.refcount = @ + 1]

(***************************************************************************)
(* The caller (the client manager) exports its connected session with     *)
(* obc_session_register: session->path is set, the session interface is   *)
(* registered and the driver's probe runs.  A session with a path returns *)
(* it unchanged; the failure paths (interface or probe failing, map_free  *)
(* undoing the probe's reference) leave the session as it was.            *)
(***************************************************************************)
ObcSessionRegister(r) ==
    LET s == req[r].sess IN
    /\ req[r].holds
    /\ req[r].result = "ok"
    /\ ~sess[s].path
    /\ sess' = [sess EXCEPT ![s] = [MapProbe(@) EXCEPT !.path = TRUE]]
    /\ UNCHANGED <<sessions, req, gone>>

\* Mutant: map_free forgetting obc_session_unref.
MapFreeNoUnref(o) == [o EXCEPT !.map = FALSE]

\* map_free, the MAP interface's destroy function: obc_session_unref.
MapFree(o) == [o EXCEPT !.map = FALSE, !.refcount = @ - 1]

\* map_remove: unregistering the MAP interface runs map_free.
MapRemove(o) == IF o.map THEN MapFree(o) ELSE o

(* session_unregistered: driver->remove, then session->path is cleared and
   the session interface unregistered. *)
SessionUnregistered(o) == [MapRemove(o) EXCEPT !.path = FALSE]

(***************************************************************************)
(* obc_session_shutdown on a live session o: obc_session_ref; with a path, *)
(* session_unregistered, whose map_free drops map_data's reference and     *)
(* which then unregisters the session interface through session->conn;    *)
(* shutdown() on the fd of session->io makes its pending watch or connect  *)
(* fail; the final obc_session_unref frees the session when map_data held  *)
(* the last reference.                                                     *)
(***************************************************************************)
ShutdownSession(o) ==
    LET held  == [o EXCEPT !.refcount = @ + 1]
        un    == IF o.path THEN SessionUnregistered(held) ELSE held
        final == un.refcount - 1
    IN  [un EXCEPT !.ioShut = IF o.io # "none" THEN TRUE ELSE @,
                   !.refcount = final,
                   !.status = IF final = 0 THEN "freed" ELSE @]

(***************************************************************************)
(* The owner's bus name vanishes: the watch of every session it owns runs *)
(* owner_disconnected, which calls obc_session_shutdown; a session freed   *)
(* by it leaves the registry (session_free).                               *)
(***************************************************************************)
OwnerDisconnected(o) ==
    LET after == [s \in SessionIds |->
                    IF Alive(s) /\ sess[s].owner = o
                    THEN ShutdownSession(sess[s]) ELSE sess[s]]
    IN  /\ o \notin gone
        /\ gone' = gone \cup {o}
        /\ sess' = after
        /\ sessions' = SelectSeq(sessions, LAMBDA s : after[s].status = "alive")
        /\ UNCHANGED req

-----------------------------------------------------------------------------
Next ==
    \/ \E r \in Requests :
          \/ Create(r)
          \/ ManagerReplyError(r)
          \/ ManagerReplyAdapter(r)
          \/ AdapterReplyError(r)
          \/ AdapterReplyGranted(r)
          \/ ServiceCallbackFailed(r)
          \/ ServiceSearchStarted(r)
          \/ ProcessCallbackLost(r)
          \/ SearchCallback(r)
          \/ RfcommFailed(r)
          \/ RfcommConnected(r)
          \/ ConnectCb(r)
          \/ ConnectionComplete(r)
          \/ Release(r)
          \/ ObcSessionRegister(r)
    \/ \E o \in Owners : OwnerDisconnected(o)

(***************************************************************************)
(* Every D-Bus call gets a reply (libdbus times out with an error reply), *)
(* every socket watch and bt_io connect completes (the kernel times out a  *)
(* connect), and an idle callback runs on the next main-loop iteration:   *)
(* each such dispatch is weakly fair.  The caller's release and the owner's *)
(* disconnection are not: a caller may keep its session forever.           *)
(***************************************************************************)
Fairness ==
    \A r \in Requests :
        /\ WF_vars(ManagerReplyError(r) \/ ManagerReplyAdapter(r))
        /\ WF_vars(AdapterReplyError(r) \/ AdapterReplyGranted(r))
        /\ WF_vars(ServiceCallbackFailed(r) \/ ServiceSearchStarted(r))
        /\ WF_vars(ProcessCallbackLost(r) \/ SearchCallback(r))
        /\ WF_vars(RfcommFailed(r) \/ RfcommConnected(r))
        /\ WF_vars(ConnectCb(r))
        /\ WF_vars(ConnectionComplete(r))

Spec == Init /\ [][Next]_vars /\ Fairness

-----------------------------------------------------------------------------
(***************************************************************************)
(* The refinement mapping to SessionAbstract: a request is idle before     *)
(* obc_session_create, done once its callback_data is freed and pending in  *)
(* every stage between (a "lost" request stays pending for ever); its      *)
(* answer is what callback->func was given; a session is exported while    *)
(* map_data holds its reference.                                           *)
(***************************************************************************)
Phase(r) ==
    CASE req[r].stage = "idle"     -> "idle"
      [] req[r].stage = "finished" -> "done"
      [] OTHER                     -> "pending"

Abs == INSTANCE SessionAbstract
         WITH status   <- [s \in SessionIds |-> sess[s].status],
              request  <- [r \in Requests |->
                             [phase |-> Phase(r), sess |-> req[r].sess,
                              answer |-> req[r].result, holds |-> req[r].holds]],
              exported <- {s \in SessionIds : sess[s].map}

-----------------------------------------------------------------------------
(***************************************************************************)
(* Properties                                                              *)
(***************************************************************************)

TypeOK ==
    /\ sess \in [SessionIds ->
                  [status : {"free", "alive", "freed"}, refcount : Nat,
                   channel : Channels, owner : Owners \cup {NoOwner},
                   obex : BOOLEAN, io : {"none", "sdp", "rfcomm"},
                   ioShut : BOOLEAN, adapter : BOOLEAN, grants : Nat,
                   handshake : {"none", "ok", "error"}, path : BOOLEAN,
                   map : BOOLEAN]]
    /\ sessions \in Seq(SessionIds)
    /\ req \in [Requests ->
                 [stage : Stages, sess : SessionIds \cup {NoSession},
                  owner : Owners \cup {NoOwner}, chan : Channels,
                  answers : Nat, result : {"none", "ok", "error"},
                  holds : BOOLEAN]]
    /\ gone \subseteq Owners

Holders(s) ==
    {r \in Requests : req[r].sess = s /\ req[r].holds}
      \cup {<<r, "cb">> : r \in {q \in Requests : req[q].sess = s
                                                 /\ req[q].stage \in Holding}}

RefcountMatchesHolders ==
    \A s \in SessionIds :
        /\ Alive(s) => sess[s].refcount = Cardinality(Holders(s))
                                         + (IF sess[s].map THEN 1 ELSE 0)
        /\ sess[s].status = "freed" => sess[s].refcount = 0

(***************************************************************************)
(* callback->func is called at most once for each obc_session_create: no  *)
(* path through the bring-up callbacks reports twice.                     *)
(***************************************************************************)
AnsweredAtMostOnce == \A r \in Requests : req[r].answers <= 1

(***************************************************************************)
(* rfcomm_callback and search_callback read session->io rather than their  *)
(* own channel, so at most one request may be bringing up the transport of *)
(* a session at a time.  This holds only because session_find returns     *)
(* sessions that already have an OBEX handle, which go to the idle path.  *)
(***************************************************************************)
SingleTransportBringUp ==
    \A s \in SessionIds :
        Cardinality({r \in Requests :
                       req[r].sess = s
                       /\ req[r].stage \in {"sdp_connect", "sdp_search",
                                            "rfcomm"}}) <= 1

(***************************************************************************)
(* Once the transport connect, the OBEX CONNECT or an idle completion is  *)
(* under way, the caller's callback is eventually called.                  *)
(***************************************************************************)
StartedConnectAnswered ==
    \A r \in Requests :
        req[r].stage \in {"rfcomm", "obex_connect", "complete_idle"}
            ~> req[r].answers > 0

(***************************************************************************)
(* Spec 4.1: every error during bring-up (adapter manager, admission,     *)
(* discovery, transport, OBEX) is reported once through the connect       *)
(* callback: every accepted request is eventually answered.               *)
(***************************************************************************)
EveryRequestAnswered ==
    \A r \in Requests :
        req[r].stage \notin {"idle", "finished"} ~> req[r].answers > 0

(***************************************************************************)
(* Spec 4.1: a reused session reports completion only once the session    *)
(* has reached READY (OBEX CONNECT succeeded); a caller told "connected"   *)
(* can rely on the handshake having succeeded.                             *)
(***************************************************************************)
SuccessImpliesHandshake ==
    \A r \in Requests :
        req[r].result = "ok" => sess[req[r].sess].handshake = "ok"

(***************************************************************************)
(* Spec 8: two requests with the same (source, destination, service,       *)
(* channel, owner) made before the first completes bring-up share one     *)
(* session: two callers holding such requests hold the same session.       *)
(***************************************************************************)
SameTupleSharesSession ==
    \A r1, r2 \in Requests :
        /\ req[r1].holds /\ req[r2].holds
        /\ req[r1].owner = req[r2].owner /\ req[r1].chan = req[r2].chan
        => req[r1].sess = req[r2].sess

(***************************************************************************)
(* Spec 3/4.2: the adapter admission obtained for a session is released  *)
(* on teardown.  obc_session_unref sends one ReleaseSession, and only    *)
(* when session->adapter is known, so a freed session must have been       *)
(* granted RequestSession at most that often.                              *)
(***************************************************************************)
AdmissionReleased ==
    \A s \in SessionIds :
        sess[s].status = "freed" =>
            sess[s].grants <= IF sess[s].adapter THEN 1 ELSE 0

(***************************************************************************)
(* Spec 8: requests differing in owner never reuse each other's session,   *)
(* and a fixed channel is honoured.  Every session a caller holds belongs  *)
(* to the caller's owner and, when the caller asked for a channel, is on   *)
(* it, whether obc_session_create allocated it or session_find returned it *)
(* from the registry, which may list several sessions.                     *)
(***************************************************************************)
HeldSessionMatchesRequest ==
    \A r \in Requests :
        req[r].holds =>
            /\ sess[req[r].sess].owner = req[r].owner
            /\ req[r].chan # 0 => sess[req[r].sess].channel = req[r].chan

(***************************************************************************)
(* SessionLifecycle implements SessionAbstract: every request goes idle,   *)
(* pending, done, and is answered only as it is settled; a caller releases  *)
(* only after its answer and exports only a session it was told is        *)
(* connected; and every step of the bring-up callbacks, the caller's       *)
(* release and owner_disconnected frees exactly the sessions whose last    *)
(* holder (caller, callback_data or map_data) it drops, never a reused or  *)
(* a still-held one.                                                       *)
(***************************************************************************)
ImplementsSessionAbstract == Abs!Spec

=============================================================================
