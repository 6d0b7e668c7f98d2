-------------------------- MODULE SessionTransfer --------------------------
(***************************************************************************)
(* The transfer side of one connected OBEX client session                 *)
(* (src/client/session.c: session_request and its two continuations,     *)
(* session_terminate_transfer, the progress/complete/error notifications, *)
(* obc_session_get/put/send, the agent methods and the pending list) and  *)
(* the front-end that drives it: the MAP client of src/client/map.c, or a *)
(* front-end that queues files with obc_session_send.                     *)
(*                                                                         *)
(* Everything runs on the GLib main loop: an action is one handler run to *)
(* completion, including every function it calls.  session->callback is   *)
(* called from inside session_terminate_transfer, so the MAP callbacks    *)
(* are part of the action that terminates a transfer.                     *)
(*                                                                         *)
(* The transfer object (transfer.c) and the agent (agent.c) are outside   *)
(* src/; they are modelled by their contract in the specification: a      *)
(* registered transfer is appended to session->pending and removed when   *)
(* unregistered; a started transfer reports progress up to its size, or  *)
(* an error; an agent request is answered with a name or an error.        *)
(***************************************************************************)
EXTENDS Naturals, Sequences, SequencesExt

CONSTANTS
    Transfers,          \* struct obc_transfer objects the session may register
    Calls,              \* D-Bus method calls made on the MAP interface
    MaxSize,            \* largest object size, in bytes
    Driver,             \* "map" or "opp": the front-end using the session
    SequentialClient,   \* the D-Bus client waits for each reply before calling again
    OwnerMayLeave,      \* the session owner may disconnect (obc_session_shutdown)
    AgentRequestCanFail,\* obc_agent_request may fail to send Agent.Request
    NoTransfer,
    NoCall

VARIABLES
    tr,         \* tr[t]: transfer object t as the session sees it
    pending,    \* session->pending, head first
    callback,   \* session->callback->func, or "none"
    agent,      \* session->agent # NULL
    idles,      \* session_request_proceed sources queued with g_idle_add (FIFO)
    agentReqs,  \* struct pending_data of Agent.Request calls awaiting a reply
    msg,        \* map->msg
    held,       \* calls whose DBusMessage map.c holds a reference to
    calls,      \* calls[c]: method, replies sent, transfer path and buffers returned
    setpaths,   \* outstanding g_obex_setpath requests (simple_cb to come)
    freedUse,   \* a deferred callback has used a transfer after its unregistration
    down        \* obc_session_shutdown has run

vars == <<tr, pending, callback, agent, idles, agentReqs, msg, held, calls,
          setpaths, freedUse, down>>

Directions == {"get", "put"}

\* session_prepare_get / session_prepare_put, the continuation a
\* struct pending_data carries.
Requests == [cb : Directions, t : Transfers]

FreeTransfer == [st |-> "free", dir |-> "get", call |-> NoCall, started |-> <<>>,
                 xfer |-> 0, size |-> 0, eng |-> "idle"]

NoReply == [m |-> "none", replies |-> 0, path |-> NoTransfer]

Init ==
    /\ tr = [t \in Transfers |-> FreeTransfer]
    /\ pending = <<>>
    /\ callback = "none"
    /\ agent = FALSE
    /\ idles = <<>>
    /\ agentReqs = {}
    /\ msg = NoCall
    /\ held = {}
    /\ calls = [c \in Calls |-> NoReply]
    /\ setpaths = 0
    /\ freedUse = FALSE
    /\ down = FALSE

Registered(t) == tr[t].st = "registered"

Without(s, t) == SelectSeq(s, LAMBDA x : x # t)

\* Outcomes of obc_agent_request (agent.c): sent, or an error returned.
AgentOutcomes == IF AgentRequestCanFail THEN BOOLEAN ELSE {TRUE}

\* session_request returns obc_agent_request's error.
RequestFails(ok) == agent /\ ~ok

(* obc_transfer_register: the new transfer is appended to session->pending
   by obc_session_add_transfer. *)
Registering(t, d, c) ==
    [FreeTransfer EXCEPT !.st = "registered", !.dir = d, !.call = c]

(* session_request: with an agent the transfer's path is sent in
   Agent.Request and the continuation runs on the reply; if that send
   fails the pending_data is freed and the error returned (RequestFails).
   Without an agent the continuation is deferred with g_idle_add. *)
SessionRequest(iv, av, cb, t, ok) ==
    IF agent
    THEN /\ agentReqs' = IF ok THEN av \cup {[cb |-> cb, t |-> t]} ELSE av
         /\ idles' = iv
    ELSE /\ idles' = Append(iv, [cb |-> cb, t |-> t])
         /\ agentReqs' = av

\* A reply to the MAP call c, followed by dbus_message_unref(map->msg).
Reply(c) ==
    /\ calls' = [calls EXCEPT ![c].replies = @ + 1]
    /\ held' = held \ {c}

(* buffer_cb: answers map->msg with the buffer of the transfer at the head
   of session->pending (obc_session_get_transfer), then unregisters that
   transfer. *)
BufferCb(trv, iv, av, err) ==
    LET h == IF pending = <<>> THEN NoTransfer ELSE Head(pending)
    IN  /\ Reply(msg)
        /\ tr' = IF h = NoTransfer THEN trv ELSE [trv EXCEPT ![h].st = "gone"]
        /\ pending' = Without(pending, h)
        /\ idles' = iv
        /\ agentReqs' = av

\* empty_cb: answers map->msg with an error or an empty return.
EmptyCb(trv, iv, av) ==
    /\ Reply(msg)
    /\ tr' = trv
    /\ UNCHANGED pending
    /\ idles' = iv
    /\ agentReqs' = av

\* Mutant: the next pending transfer is taken before the terminated one is
\* unregistered.
SessionTerminateEarlyAdvance(trv, iv, av, t, err) ==
    CASE callback = "buffer_cb" -> BufferCb(trv, iv, av, err)
      [] callback = "empty_cb"  -> EmptyCb(trv, iv, av)
      [] OTHER ->
           LET rest == Without(pending, t)
           IN  /\ tr' = [trv EXCEPT ![t].st = "gone"]
               /\ pending' = rest
               /\ IF rest = <<>>
                  THEN idles' = iv /\ agentReqs' = av
                  ELSE \E ok \in AgentOutcomes :
                           SessionRequest(iv, av, "put", Head(pending), ok)
               /\ UNCHANGED <<calls, held>>

\* Mutant: the queue is not advanced after the transfer is unregistered.
SessionTerminateNoAdvance(trv, iv, av, t, err) ==
    CASE callback = "buffer_cb" -> BufferCb(trv, iv, av, err)
      [] callback = "empty_cb"  -> EmptyCb(trv, iv, av)
      [] OTHER ->
           /\ tr' = [trv EXCEPT ![t].st = "gone"]
           /\ pending' = Without(pending, t)
           /\ idles' = iv /\ agentReqs' = av
           /\ UNCHANGED <<calls, held>>

(* session_terminate_transfer: if a session callback is installed it is
   called and nothing else happens; otherwise the transfer is unregistered
   and the new head of session->pending is requested as a put, the result
   of session_request ignored. *)
SessionTerminate(trv, iv, av, t, err) ==
    CASE callback = "buffer_cb" -> BufferCb(trv, iv, av, err)
      [] callback = "empty_cb"  -> EmptyCb(trv, iv, av)
      [] OTHER ->
           LET rest == Without(pending, t)
           IN  /\ tr' = [trv EXCEPT ![t].st = "gone"]
               /\ pending' = rest
               /\ IF rest = <<>>
                  THEN idles' = iv /\ agentReqs' = av
                  ELSE \E ok \in AgentOutcomes :
                           SessionRequest(iv, av, "put", Head(rest), ok)
               /\ UNCHANGED <<calls, held>>

(* session_prepare_get / session_prepare_put: obc_transfer_get or
   obc_transfer_put starts the transfer with transfer_progress as its
   callback; when it fails, session_notify_error terminates it. *)
SessionPrepare(trv, iv, av, cb, t) ==
    \/ /\ \E n \in 0..MaxSize :
             tr' = [trv EXCEPT ![t].started = Append(@, cb), ![t].eng = "running",
                               ![t].xfer = 0, ![t].size = n]
       /\ idles' = iv
       /\ agentReqs' = av
       /\ UNCHANGED <<pending, calls, held>>
    \/ SessionTerminate(trv, iv, av, t, TRUE)

-----------------------------------------------------------------------------
(* Deferred continuations and transfer callbacks. *)

(* session_request_proceed: the idle source runs the continuation on the
   transfer it was given, whether or not that transfer is still
   registered. *)
RequestProceed ==
    /\ idles # <<>>
    /\ LET p == Head(idles)
       IN  /\ freedUse' = (freedUse \/ ~Registered(p.t))
           /\ SessionPrepare(tr, Tail(idles), agentReqs, p.cb, p.t)
    /\ UNCHANGED <<callback, agent, msg, setpaths, down>>

(* session_request_reply: an error reply terminates the transfer with
   -ECANCELED; otherwise the suggested name is applied and the
   continuation runs. *)
RequestReply(p, ok) ==
    /\ p \in agentReqs
    /\ freedUse' = (freedUse \/ ~Registered(p.t))
    /\ IF ok
       THEN SessionPrepare(tr, idles, agentReqs \ {p}, p.cb, p.t)
       ELSE SessionTerminate(tr, idles, agentReqs \ {p}, p.t, TRUE)
    /\ UNCHANGED <<callback, agent, msg, setpaths, down>>

\* Mutant: the progress count may run one past the size.
TransferProgressPastSize(t, n) ==
    /\ Registered(t)
    /\ tr[t].eng = "running"
    /\ \/ n \in (tr[t].xfer + 1)..(tr[t].size + 1)
       \/ n = 0 /\ tr[t].size = 0
    /\ LET done == n = tr[t].size
           trv  == [tr EXCEPT ![t].xfer = n,
                              ![t].eng = IF done THEN "done" ELSE "running"]
       IN  IF done
           THEN SessionTerminate(trv, idles, agentReqs, t, FALSE)
           ELSE /\ tr' = trv
                /\ UNCHANGED <<pending, idles, agentReqs, calls, held>>
    /\ UNCHANGED <<callback, agent, msg, setpaths, freedUse, down>>

(* transfer_progress without an error: session_notify_progress, and when
   the count reaches the size, session_notify_complete. *)
TransferProgress(t, n) ==
    /\ Registered(t)
    /\ tr[t].eng = "running"
    /\ \/ n \in (tr[t].xfer + 1)..tr[t].size
       \/ n = 0 /\ tr[t].size = 0
    /\ LET done == n = tr[t].size
           trv  == [tr EXCEPT ![t].xfer = n,
                              ![t].eng = IF done THEN "done" ELSE "running"]
       IN  IF done
           THEN SessionTerminate(trv, idles, agentReqs, t, FALSE)
           ELSE /\ tr' = trv
                /\ UNCHANGED <<pending, idles, agentReqs, calls, held>>
    /\ UNCHANGED <<callback, agent, msg, setpaths, freedUse, down>>

\* transfer_progress with an error: session_notify_error.
TransferError(t) ==
    /\ Registered(t)
    /\ tr[t].eng = "running"
    /\ SessionTerminate([tr EXCEPT ![t].eng = "done"], idles, agentReqs, t, TRUE)
    /\ UNCHANGED <<callback, agent, msg, setpaths, freedUse, down>>

-----------------------------------------------------------------------------
(* The session's own D-Bus methods for the agent. *)

(* assign_agent / obc_session_set_agent: -EALREADY while an agent is set. *)
AssignAgent ==
    /\ ~agent
    /\ agent' = TRUE
    /\ UNCHANGED <<tr, pending, callback, idles, agentReqs, msg, held, calls,
                   setpaths, freedUse, down>>

(* release_agent from the agent's own name and path: obc_agent_free, whose
   destroy function agent_destroy clears session->agent.  A request
   already sent is still answered. *)
ReleaseAgent ==
    /\ agent
    /\ agent' = FALSE
    /\ UNCHANGED <<tr, pending, callback, idles, agentReqs, msg, held, calls,
                   setpaths, freedUse, down>>

-----------------------------------------------------------------------------
(* A front-end queueing files (obc_session_send). *)

\* Mutant: every sent transfer is requested at once, queued or not.
SessionSendNoHeadCheck(t) ==
    /\ Driver = "opp"
    /\ ~down
    /\ tr[t].st = "free"
    /\ \/ /\ tr' = [tr EXCEPT ![t] = [Registering(t, "put", NoCall)
                                           EXCEPT !.st = "gone"]]
          /\ UNCHANGED <<pending, idles, agentReqs>>
       \/ /\ tr' = [tr EXCEPT ![t] = Registering(t, "put", NoCall)]
          /\ pending' = Append(pending, t)
          /\ SessionRequest(idles, agentReqs, "put", t, TRUE)
    /\ UNCHANGED <<callback, agent, msg, held, calls, setpaths, freedUse, down>>

(* obc_session_send: the transfer is registered; if obc_transfer_set_file
   fails it is unregistered again; it is requested only when it is the head
   of session->pending, and otherwise waits for session_terminate_transfer
   to reach it.  A failed session_request unregisters it too. *)
SessionSend(t) ==
    /\ Driver = "opp"
    /\ ~down
    /\ tr[t].st = "free"
    /\ LET pv == Append(pending, t)
       IN  \/ /\ tr' = [tr EXCEPT ![t] = [Registering(t, "put", NoCall)
                                              EXCEPT !.st = "gone"]]
              /\ UNCHANGED <<pending, idles, agentReqs>>
           \/ /\ tr' = [tr EXCEPT ![t] = Registering(t, "put", NoCall)]
              /\ pending' = pv
              /\ t # Head(pv)
              /\ UNCHANGED <<idles, agentReqs>>
           \/ /\ t = Head(pv)
              /\ \E ok \in AgentOutcomes :
                    IF RequestFails(ok)
                    THEN /\ tr' = [tr EXCEPT ![t] = [Registering(t, "put", NoCall)
                                                        EXCEPT !.st = "gone"]]
                         /\ UNCHANGED <<pending, idles, agentReqs>>
                    ELSE /\ tr' = [tr EXCEPT ![t] = Registering(t, "put", NoCall)]
                         /\ pending' = pv
                         /\ SessionRequest(idles, agentReqs, "put", t, ok)
    /\ UNCHANGED <<callback, agent, msg, held, calls, setpaths, freedUse, down>>

-----------------------------------------------------------------------------
(* The MAP front-end (src/client/map.c).  Each method handler stores the  *)
(* message in the single slot map->msg and replies from a callback.        *)

\* A new D-Bus call c; a sequential client waits for every earlier reply.
CanCall(c) ==
    /\ Driver = "map"
    /\ ~down
    /\ calls[c].m = "none"
    /\ SequentialClient =>
          \A d \in Calls : calls[d].m # "none" => calls[d].replies > 0

(* Awaiting(c): map->msg is set to c and a reference is taken. *)
Awaiting(c, m) ==
    /\ msg' = c
    /\ held' = held \cup {c}
    /\ calls' = [calls EXCEPT ![c].m = m]

(* obc_session_get: the transfer is registered (and appended to
   session->pending), func, when given, replaces session->callback, and the
   transfer is requested as a get.  When session_request fails its error is
   returned and the transfer is left registered. *)
ObcSessionGet(c, t, func, ok) ==
    /\ tr[t].st = "free"
    /\ tr' = [tr EXCEPT ![t] = Registering(t, "get", c)]
    /\ pending' = Append(pending, t)
    /\ callback' = IF func = "none" THEN callback ELSE func
    /\ SessionRequest(idles, agentReqs, "get", t, ok)

(* obc_session_put once its -EISCONN check has passed (session->pending is
   empty): func replaces session->callback, the transfer is registered and
   requested as a put; a failed session_request again leaves it
   registered. *)
ObcSessionPut(c, t, func, ok) ==
    /\ tr[t].st = "free"
    /\ callback' = func
    /\ tr' = [tr EXCEPT ![t] = Registering(t, "put", c)]
    /\ pending' = Append(pending, t)
    /\ SessionRequest(idles, agentReqs, "put", t, ok)

(* The handler's error return when obc_session_get or obc_session_put
   fails: a Failed error is the reply, map->msg is left alone. *)
Failed(c) ==
    /\ calls' = [calls EXCEPT ![c] = [@ EXCEPT !.m = "failed", !.replies = 1]]
    /\ UNCHANGED <<msg, held>>

\* The reply of a handler whose session call returned with outcome ok.
Started(c, m, ok) == IF RequestFails(ok) THEN Failed(c) ELSE Awaiting(c, m)

(* map_get_folder_listing / map_get_message_listing: a get with buffer_cb. *)
MapGetListing(c, t) ==
    /\ CanCall(c)
    /\ \E ok \in AgentOutcomes :
          /\ ObcSessionGet(c, t, "buffer_cb", ok)
          /\ Started(c, "listing", ok)
    /\ UNCHANGED <<agent, setpaths, freedUse, down>>

(* map_get_message: a get with no callback, so session->callback keeps
   whatever an earlier call installed; the reply carries the path of
   obc_session_get_transfer, the head of session->pending. *)
MapGetMessage(c, t) ==
    /\ CanCall(c)
    /\ \E ok \in AgentOutcomes :
          /\ ObcSessionGet(c, t, "none", ok)
          /\ IF RequestFails(ok)
             THEN Failed(c)
             ELSE /\ calls' = [calls EXCEPT ![c] = [@ EXCEPT !.m = "message",
                                       !.replies = 1, !.path = Head(pending')]]
                  /\ UNCHANGED <<msg, held>>
    /\ UNCHANGED <<agent, setpaths, freedUse, down>>

\* Mutant: the -EISCONN failure returns without a reply.
MapPutBusySilent(c) ==
    /\ CanCall(c)
    /\ IF pending # <<>>
       THEN /\ calls' = [calls EXCEPT ![c].m = "put"]
            /\ UNCHANGED <<tr, pending, callback, idles, agentReqs, msg, held>>
       ELSE \E t \in Transfers, ok \in AgentOutcomes :
               /\ ObcSessionPut(c, t, "empty_cb", ok)
               /\ Started(c, "put", ok)
    /\ UNCHANGED <<agent, setpaths, freedUse, down>>

\* Mutant: obc_session_put without its -EISCONN check.
MapPutNoBusyCheck(c) ==
    /\ CanCall(c)
    /\ \E t \in Transfers, ok \in AgentOutcomes :
          /\ ObcSessionPut(c, t, "empty_cb", ok)
          /\ Started(c, "put", ok)
    /\ UNCHANGED <<agent, setpaths, freedUse, down>>

(* map_update_inbox / map_push_message: obc_session_put with empty_cb; its
   -EISCONN while session->pending is not empty is returned as an error. *)
MapPut(c) ==
    /\ CanCall(c)
    /\ IF pending # <<>>
       THEN /\ calls' = [calls EXCEPT ![c] = [@ EXCEPT !.m = "put", !.replies = 1]]
            /\ UNCHANGED <<tr, pending, callback, idles, agentReqs, msg, held>>
       ELSE \E t \in Transfers, ok \in AgentOutcomes :
               /\ ObcSessionPut(c, t, "empty_cb", ok)
               /\ Started(c, "put", ok)
    /\ UNCHANGED <<agent, setpaths, freedUse, down>>

(* map_setpath: g_obex_setpath with simple_cb as its completion. *)
MapSetFolder(c) ==
    /\ CanCall(c)
    /\ setpaths' = setpaths + 1
    /\ Awaiting(c, "setfolder")
    /\ UNCHANGED <<tr, pending, callback, agent, idles, agentReqs, freedUse, down>>

(* simple_cb: the SETPATH response answers map->msg. *)
SimpleCb ==
    /\ setpaths > 0
    /\ setpaths' = setpaths - 1
    /\ Reply(msg)
    /\ UNCHANGED <<tr, pending, callback, agent, idles, agentReqs, msg, freedUse, down>>

(* The early returns of the handlers on malformed arguments: an
   InvalidArguments error is returned at once. *)
MapBadArgs(c) ==
    /\ CanCall(c)
    /\ calls' = [calls EXCEPT ![c] = [@ EXCEPT !.m = "badargs", !.replies = 1]]
    /\ UNCHANGED <<tr, pending, callback, agent, idles, agentReqs, msg, held,
                   setpaths, freedUse, down>>

(* obc_session_shutdown, run by owner_disconnected: every transfer in
   session->pending is unregistered and the session's D-Bus interfaces are
   removed (map_remove takes the MAP interface with them), so no further
   calls arrive.  Idle sources and agent requests already queued stay. *)
Shutdown ==
    /\ OwnerMayLeave
    /\ ~down
    /\ down' = TRUE
    /\ tr' = [t \in Transfers |->
                IF t \in Range(pending) THEN [tr[t] EXCEPT !.st = "gone"] ELSE tr[t]]
    /\ pending' = <<>>
    /\ UNCHANGED <<callback, agent, idles, agentReqs, msg, held, calls, setpaths,
                   freedUse>>

-----------------------------------------------------------------------------
TransferStep(t) ==
    \/ \E n \in 0..MaxSize : TransferProgress(t, n)
    \/ TransferError(t)

AgentStep(p) == \E ok \in BOOLEAN : RequestReply(p, ok)

Next ==
    \/ RequestProceed
    \/ \E p \in Requests : AgentStep(p)
    \/ \E t \in Transfers : TransferStep(t) \/ SessionSend(t)
    \/ AssignAgent
    \/ ReleaseAgent
    \/ \E c \in Calls :
          \/ \E t \in Transfers : MapGetListing(c, t) \/ MapGetMessage(c, t)
          \/ MapPut(c)
          \/ MapSetFolder(c)
          \/ MapBadArgs(c)
    \/ SimpleCb
    \/ Shutdown

(* Idle sources run on a later iteration of the main loop; the agent's
   reply arrives (D-Bus answers a silent peer with a timeout error); a
   started transfer's OBEX exchange ends in progress to completion or an
   error; the SETPATH response arrives.  The front-end's calls and the
   agent's assignment and release are not assumed to happen. *)
Fairness ==
    /\ WF_vars(RequestProceed)
    /\ \A p \in Requests : WF_vars(AgentStep(p))
    /\ \A t \in Transfers : WF_vars(TransferStep(t))
    /\ WF_vars(SimpleCb)

Spec == Init /\ [][Next]_vars /\ Fairness

-----------------------------------------------------------------------------
(* Properties *)

\* A transfer record; the bytes transferred never exceed its size.
TransferType ==
    {r \in [st : {"free", "registered", "gone"}, dir : Directions,
            call : Calls \cup {NoCall}, started : Seq(Directions),
            xfer : 0..MaxSize, size : 0..MaxSize,
            eng : {"idle", "running", "done"}] : r.xfer <= r.size}

TypeOK ==
    /\ tr \in [Transfers -> TransferType]
    /\ pending \in Seq(Transfers)
    /\ callback \in {"none", "buffer_cb", "empty_cb"}
    /\ agent \in BOOLEAN
    /\ idles \in Seq(Requests)
    /\ agentReqs \subseteq Requests
    /\ msg \in Calls \cup {NoCall}
    /\ held \subseteq Calls
    /\ calls \in [Calls -> [m : {"none", "listing", "message", "put",
                                  "setfolder", "badargs", "failed"},
                            replies : Nat, path : Transfers \cup {NoTransfer}]]
    /\ setpaths \in Nat
    /\ freedUse \in BOOLEAN
    /\ down \in BOOLEAN

Active(t) == Registered(t) /\ tr[t].eng = "running"

(* Each transfer is started (obc_transfer_get or obc_transfer_put) at most
   once, and in the direction it was registered for: advancing the queue in
   session_terminate_transfer must never restart a transfer or start a get
   as a put. *)
StartedOnceAsRequested ==
    \A t \in Transfers :
        /\ Len(tr[t].started) <= 1
        /\ \A i \in DOMAIN tr[t].started : tr[t].started[i] = tr[t].dir

(* Puts are serialized: a put whose OBEX exchange is running is the head
   of session->pending, so no two run at once and none overtakes an
   earlier queued one (obc_session_send, session_terminate_transfer). *)
PutsSerialized ==
    \A t \in Transfers :
        Active(t) /\ Last(tr[t].started) = "put" => t = Head(pending)

(* No idle source or agent reply runs its continuation on a transfer that
   has already been unregistered (session_request_proceed and
   session_request_reply hold a plain pointer to the transfer). *)
NoFreedTransferUse == ~freedUse

(* Every registered transfer is eventually unregistered, so the queue of
   session->pending drains and the next put can start. *)
QueueDrains ==
    \A t \in Transfers : Registered(t) ~> tr[t].st = "gone"

(* Every MAP method call eventually gets a reply. *)
EveryCallAnswered ==
    \A c \in Calls : calls[c].m # "none" ~> calls[c].replies > 0

(* Every MAP method call gets at most one reply: a callback answers the
   call that installed it, never again one already answered through the
   shared map->msg. *)
CallRepliedOnce ==
    \A c \in Calls : calls[c].replies <= 1

(* GetMessage returns the object path of the transfer it created. *)
GetMessagePathOwn ==
    \A c \in Calls : calls[c].m = "message" => tr[calls[c].path].call = c

=============================================================================
