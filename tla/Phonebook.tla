----------------------------- MODULE Phonebook -----------------------------
(***************************************************************************)
(* The tracker phonebook back end, src/plugins/phonebook-tracker.c.        *)
(*                                                                         *)
(* The PBAP server calls phonebook_set_folder, phonebook_pull,             *)
(* phonebook_get_entry and phonebook_create_cache; each of the last three  *)
(* sends one SparqlQuery with query_tracker and returns the pending call   *)
(* as the request handle, which the caller ends with                       *)
(* phonebook_req_finalize.  The reply is dispatched later by the GLib main *)
(* loop to query_reply, which hands every row of the reply to the          *)
(* request's row callback (pull_contacts, pull_contacts_size or            *)
(* add_to_cache) and then calls it once more with a NULL row.  Replies of  *)
(* different requests are dispatched one at a time, in any order, and a    *)
(* whole reply is processed in one dispatch: one action here.              *)
(*                                                                         *)
(* A row is abstracted to the contact id it carries (column                *)
(* CONTACTS_ID_COL) and whether all its data columns are empty; a count    *)
(* row to the count.  A folder path is a string of tokens (below).  Error  *)
(* numbers are the Linux values.                                           *)
(***************************************************************************)
EXTENDS Integers, Sequences, SequencesExt

CONSTANTS
    Requests,          \* request handles the caller can hold at once
    Ids,               \* contact ids a reply can carry
    Me,                \* TRACKER_DEFAULT_CONTACT_ME, an element of Ids
    Books,             \* the phonebook folders under /telecom
    PullNames,         \* names passed to phonebook_pull; Books are known
    NewFolders,        \* new_folder arguments of phonebook_set_folder
    Offsets,           \* liststartoffset values
    MaxCounts,         \* maxlistcount values
    MaxRows,           \* most rows in one reply
    SendCanFail,       \* dbus_connection_send_with_reply may fail
    MalformedReplies,  \* replies may hold elements of the wrong D-Bus type
    ErrorReply,        \* an error reply, or a reply that is not an array
    NotArray,          \* a reply element that is not an array
    NotString,         \* a row element holding a value that is not a string
    NoId, Null, NoResult, ErrResult, NoPath

ASSUME Me \in Ids /\ NoId \notin Ids

EPERM == 1
ENOENT == 2
EBADR == 53

VARIABLES
    folder,   \* the folder the caller keeps from phonebook_set_folder
    err,      \* the value last stored in *err by a call
    tempId,   \* the static temp_id of pull_contacts
    q         \* per request handle: the request and its phonebook_data

vars == <<folder, err, tempId, q>>

-----------------------------------------------------------------------------
(* A path string is the sequence of its tokens: a separator "/" or the     *)
(* name of a level ("/telecom/pb" is <<"/", "telecom", "/", "pb">>).  Str  *)
(* writes a sequence of levels as an absolute path, Levels reads the       *)
(* levels of a path back.                                                  *)
Str(levels) ==
    IF levels = <<>> THEN <<"/">>
    ELSE FoldLeft(LAMBDA acc, l : acc \o <<"/", l>>, <<>>, levels)

Levels(path) == SelectSeq(path, LAMBDA t : t # "/")

(* folder_is_valid, the fixed whitelist of path strings.                   *)
FolderIsValid(path) ==
    path \in {Str(<<>>), Str(<<"telecom">>)} \cup {Str(<<"telecom", b>>) : b \in Books}

(* g_build_filename(a, b, NULL) for a name b that neither starts nor ends  *)
(* with a separator: joined with one "/", a trailing one of a reused.      *)
BuildFilename(a, b) == IF Last(a) = "/" THEN a \o b ELSE a \o <<"/">> \o b

(* g_path_get_basename: the last name of the path, "/" if it has none.     *)
Basename(path) ==
    LET i == SelectLastInSeq(path, LAMBDA t : t # "/")
    IN  IF i = 0 THEN "/" ELSE path[i]

\* Mutant: len = tmp2 - current_folder, keeping the separator.
UpLevelKeepSlash(cur) ==
    LET len == SelectLastInSeq(cur, LAMBDA t : t = Basename(cur)) - 1
    IN  IF len = 0 THEN <<"/">> ELSE SubSeq(cur, 1, len)

(* The base phonebook_set_folder goes up to: g_strrstr finds the last      *)
(* occurrence of the basename (token tmp2), and len = tmp2 -               *)
(* (current_folder + 1) tokens of the current folder are kept, "/" when    *)
(* none are.                                                               *)
UpLevel(cur) ==
    LET len == SelectLastInSeq(cur, LAMBDA t : t = Basename(cur)) - 2
    IN  IF len = 0 THEN <<"/">> ELSE SubSeq(cur, 1, len)

(* The path phonebook_set_folder builds from current_folder cur,           *)
(* new_folder new (<<>> being NULL or "") and flags, NoPath if none.       *)
SetFolderPath(cur, new, flags) ==
    LET root  == cur = <<"/">>
        child == new # <<>>
    IN  CASE flags = 2 /\ ~child -> <<"/">>
          [] flags = 2           -> BuildFilename(cur, new)
          [] flags = 3 /\ root   -> <<"/">>
          [] flags = 3 /\ ~child -> UpLevel(cur)
          [] flags = 3           -> BuildFilename(UpLevel(cur), new)
          [] OTHER               -> NoPath

\* Mutant: *err set to the positive errno.
SetFolderResultPositiveErr(cur, new, flags) ==
    LET path == SetFolderPath(cur, new, flags)
        ret  == CASE path = NoPath        -> EBADR
                  [] ~FolderIsValid(path) -> ENOENT
                  [] OTHER                -> 0
    IN  <<IF ret # 0 THEN NoPath ELSE path, ret>>

(* phonebook_set_folder from "done:": the path returned (NoPath for NULL)  *)
(* and the value stored in *err.                                           *)
SetFolderResult(cur, new, flags) ==
    LET path == SetFolderPath(cur, new, flags)
        ret  == CASE path = NoPath        -> -EBADR
                  [] ~FolderIsValid(path) -> -ENOENT
                  [] OTHER                -> 0
    IN  <<IF ret < 0 THEN NoPath ELSE path, ret>>

-----------------------------------------------------------------------------
(* The rows a tracker reply to a request of each kind can carry.  The      *)
(* contacts queries ORDER BY the contact, so the rows of one contact are   *)
(* adjacent; a count query returns at most one row.                        *)
IdRows == [id : Ids, blank : BOOLEAN]
CountRows == [count : 0..MaxRows]
Malformed == IF MalformedReplies THEN {NotArray, NotString} ELSE {}

Grouped(s) ==
    \A i, j, k \in 1..Len(s) :
        (i < j /\ j < k /\ s[i] \in IdRows /\ s[k] \in IdRows
            /\ s[i].id = s[k].id) => s[j] \in IdRows /\ s[j].id = s[i].id

Replies(kind) ==
    {ErrorReply} \cup
    IF kind = "size"
    THEN {s \in BoundedSeq(CountRows \cup Malformed, MaxRows) :
              Len(SelectSeq(s, LAMBDA e : e \in CountRows)) <= 1}
    ELSE {s \in BoundedSeq(IdRows \cup Malformed, MaxRows) : Grouped(s)}

NumFields(kind) == CASE kind = "size"  -> 1
                     [] kind = "cache" -> 7
                     [] OTHER          -> 26

Answer(d, res) == [d EXCEPT !.answers = @ + 1, !.result = res]

(* Walking data->contacts (find_contact, gen_vcards, g_slist_append,       *)
(* g_slist_free) reads freed list cells once the list has been freed.      *)
Walk(d) == [d EXCEPT !.uaf = @ \/ d.dangling]

(* The fail label of pull_contacts: g_slist_free(data->contacts) without   *)
(* clearing the pointer, and temp_id reset.  Returns <<data, temp_id>>.    *)
PullFail(d) == <<[Walk(d) EXCEPT !.dangling = d.contacts # <<>>], NoId>>

\* Mutant: the caller's callback guarded by num_fields != 0.
PullDoneNoCallback(d, nf) ==
    PullFail(IF nf # 0 THEN Answer(Walk(d), d.contacts) ELSE Walk(d))

(* The done label: gen_vcards frees every contact; the caller's callback   *)
(* only on the last call (num_fields = 0).                                 *)
PullDone(d, nf) ==
    PullFail(IF nf = 0 THEN Answer(Walk(d), d.contacts) ELSE Walk(d))

(* A row for pull_contacts: known contacts only gain numbers; the paging   *)
(* window counts a contact when its id differs from temp_id.               *)
PullRow(d, t, row) ==
    LET w    == Walk(d)
        idx  == IF t # row.id THEN d.index + 1 ELSE d.index
        Add(x) == [x EXCEPT !.contacts = Append(@, row.id)]
    IN  CASE Contains(d.contacts, row.id)      -> <<w, t>>
          [] d.kind = "entry"                  -> <<Add(w), t>>
          [] row.blank /\ row.id # Me          -> <<w, t>>
          [] (idx <= d.off \/ idx > d.off + d.max) /\ d.max > 0
                                               -> <<[w EXCEPT !.index = idx], row.id>>
          [] OTHER -> <<Add([w EXCEPT !.index = idx]), row.id>>

\* Mutant: temp_id survives the end of the reply.
PullContactsKeepTempId(d, t, row, nf) ==
    CASE nf < 0     -> <<PullFail(Answer(d, ErrResult))[1], t>>
      [] row = Null -> <<PullDone(d, nf)[1], t>>
      [] OTHER      -> PullRow(d, t, row)

(* pull_contacts(reply, num_fields, data), with temp_id t.                 *)
PullContacts(d, t, row, nf) ==
    CASE nf < 0     -> PullFail(Answer(d, ErrResult))
      [] row = Null -> PullDone(d, nf)
      [] OTHER      -> PullRow(d, t, row)

\* Mutant: no return after reporting the error.
PullContactsSizeNoReturn(d, row, nf) ==
    LET e == IF nf < 0 THEN Answer(d, ErrResult) ELSE d
    IN  IF row # Null THEN [e EXCEPT !.index = row.count] ELSE Answer(e, <<e.index>>)

(* pull_contacts_size: the count row sets data->index.                     *)
PullContactsSize(d, row, nf) ==
    CASE nf < 0      -> Answer(d, ErrResult)
      [] row # Null  -> [d EXCEPT !.index = row.count]
      [] OTHER       -> Answer(d, <<d.index>>)

(* add_to_cache: entry_cb per non-empty row, ready_cb at the end.          *)
AddToCache(d, row, nf) ==
    CASE row = Null \/ nf < 0 -> IF nf <= 0 THEN Answer(d, d.result) ELSE d
      [] row.blank /\ row.id # Me -> d
      [] OTHER -> [d EXCEPT !.result = Append(@, row.id)]

(* pending->callback(row, num_fields, pending->user_data).                 *)
RowCallback(d, t, row, nf) ==
    CASE d.kind \in {"pull", "entry"} -> PullContacts(d, t, row, nf)
      [] d.kind = "size"              -> <<PullContactsSize(d, row, nf), t>>
      [] OTHER                        -> <<AddToCache(d, row, nf), t>>

(* The loop of query_reply over the elements of an array reply: an        *)
(* element that is not an array ends it with err = 0, one whose            *)
(* string_array_from_iter fails is handed over as a NULL row.              *)
RECURSIVE Deliver(_, _, _)
Deliver(d, t, es) ==
    IF es = <<>> \/ Head(es) = NotArray
    THEN RowCallback(d, t, Null, 0)
    ELSE LET s == RowCallback(d, t, IF Head(es) = NotString THEN Null
                                                              ELSE Head(es),
                              NumFields(d.kind))
         IN  Deliver(s[1], s[2], Tail(es))

(* query_reply: an error reply, or one that is not an array, gives the     *)
(* single last callback with err = -1.                                     *)
QueryReplyResult(d, t, reply) ==
    IF reply = ErrorReply THEN RowCallback(d, t, Null, -1) ELSE Deliver(d, t, reply)

-----------------------------------------------------------------------------
(* What a request should hand to its caller, by definitions independent of *)
(* the row callbacks: the distinct listed contacts in reply order, cut to  *)
(* the window liststartoffset+1 .. liststartoffset+maxlistcount.  A cache  *)
(* has no error report: ready_cb after no entries.                         *)
Listed(rows) == [i \in 1..Len(rows) |-> rows[i].id]
Distinct(s) == FoldLeft(LAMBDA acc, x : IF Contains(acc, x) THEN acc
                                                            ELSE Append(acc, x),
                        <<>>, s)
Window(s, off, max) ==
    LET n == IF Len(s) - off < max THEN Len(s) - off ELSE max
    IN  [i \in 1..(IF n < 0 THEN 0 ELSE n) |-> s[off + i]]
Shown(reply) == SelectSeq(reply, LAMBDA row : ~row.blank \/ row.id = Me)

Expected(d, reply) ==
    CASE reply = ErrorReply /\ d.kind = "cache" -> <<>>
      [] reply = ErrorReply                      -> ErrResult
      [] \E i \in 1..Len(reply) : reply[i] \in Malformed -> NoResult
      [] d.kind = "pull"  -> Window(Distinct(Listed(Shown(reply))), d.off, d.max)
      [] d.kind = "entry" -> Distinct(Listed(reply))
      [] d.kind = "cache" -> Listed(Shown(reply))
      [] OTHER            -> <<IF reply = <<>> THEN 0 ELSE reply[1].count>>

-----------------------------------------------------------------------------
Fresh == [st |-> "idle", kind |-> "none", off |-> 0, max |-> 0, index |-> 0,
          contacts |-> <<>>, dangling |-> FALSE, uaf |-> FALSE,
          answers |-> 0, result |-> NoResult, expected |-> NoResult]

Init ==
    /\ folder = <<"/">>
    /\ err = 0
    /\ tempId = NoId
    /\ q = [r \in Requests |-> Fresh]

(* query_tracker: the request is pending on success; when the send fails   *)
(* user_data is freed and *err = -EPERM.                                   *)
QueryTracker(r, d) ==
    \/ /\ SendCanFail
       /\ err' = -EPERM
       /\ UNCHANGED q
    \/ /\ q' = [q EXCEPT ![r] = [d EXCEPT !.st = "pending"]]
       /\ err' = 0

(* phonebook_set_folder; the caller keeps the returned path.  Flags 0      *)
(* stands for every value other than 0x02 and 0x03.                        *)
PhonebookSetFolder ==
    \E new \in NewFolders, flags \in {0, 2, 3} :
        LET res == SetFolderResult(folder, new, flags)
        IN  /\ folder' = IF res[2] = 0 THEN res[1] ELSE folder
            /\ err' = res[2]
            /\ UNCHANGED <<tempId, q>>

(* phonebook_pull: a count query when maxlistcount is 0.                   *)
PhonebookPull(r) ==
    /\ q[r].st = "idle"
    /\ \E name \in PullNames, off \in Offsets, max \in MaxCounts :
          IF name \in Books
          THEN QueryTracker(r, [Fresh EXCEPT !.kind = IF max = 0 THEN "size"
                                                                 ELSE "pull",
                                             !.off = off, !.max = max])
          ELSE err' = -ENOENT /\ UNCHANGED q
    /\ UNCHANGED <<folder, tempId>>

(* phonebook_get_entry: vcardentry set, the paging checks skipped.         *)
PhonebookGetEntry(r) ==
    /\ q[r].st = "idle"
    /\ QueryTracker(r, [Fresh EXCEPT !.kind = "entry"])
    /\ UNCHANGED <<folder, tempId>>

(* phonebook_create_cache for the caller's folder: folder2query.           *)
PhonebookCreateCache(r) ==
    /\ q[r].st = "idle"
    /\ IF folder \in {Str(<<"telecom", b>>) : b \in Books}
       THEN QueryTracker(r, [Fresh EXCEPT !.kind = "cache", !.result = <<>>])
       ELSE err' = -ENOENT /\ UNCHANGED q
    /\ UNCHANGED <<folder, tempId>>

(* The main loop dispatches the reply (or the D-Bus timeout error) of a    *)
(* pending request to query_reply.                                         *)
QueryReply(r) ==
    /\ q[r].st = "pending"
    /\ \E reply \in Replies(q[r].kind) :
          LET s == QueryReplyResult(q[r], tempId, reply)
          IN  /\ q' = [q EXCEPT ![r] = [s[1] EXCEPT !.st = "done",
                                         !.expected = Expected(q[r], reply)]]
              /\ tempId' = s[2]
    /\ UNCHANGED <<folder, err>>

(* phonebook_req_finalize: cancel if not completed, unref; query_free_data *)
(* frees the phonebook_data.  The handle can then be used again.           *)
PhonebookReqFinalize(r) ==
    /\ q[r].st \in {"pending", "done"}
    /\ q' = [q EXCEPT ![r] = Fresh]
    /\ UNCHANGED <<folder, err, tempId>>

Next ==
    \/ PhonebookSetFolder
    \/ \E r \in Requests :
          \/ PhonebookPull(r)
          \/ PhonebookGetEntry(r)
          \/ PhonebookCreateCache(r)
          \/ QueryReply(r)
          \/ PhonebookReqFinalize(r)

(* D-Bus answers every call sent with the default timeout, with the reply  *)
(* or a timeout error, so a pending reply is eventually dispatched.        *)
Spec == Init /\ [][Next]_vars /\ \A r \in Requests : WF_vars(QueryReply(r))

-----------------------------------------------------------------------------
(* A contacts list, a count (kept as <<count>>), or none yet.              *)
ResultSet ==
    {NoResult, ErrResult} \cup BoundedSeq(Ids, MaxRows) \cup {<<c>> : c \in 0..MaxRows}

(* The refinement mapping to PhonebookService: a handle is answered once   *)
(* its caller's callback has run, with what it was handed.                 *)
ServiceReq ==
    [r \in Requests |->
        CASE q[r].answers > 0  -> [st |-> "answered", result |-> q[r].result]
          [] q[r].st = "idle"  -> [st |-> "idle", result |-> NoResult]
          [] OTHER             -> [st |-> "pending", result |-> NoResult]]

Service == INSTANCE PhonebookService
               WITH folder <- Levels(folder), req <- ServiceReq,
                    NewFolders <- {Levels(n) : n \in NewFolders},
                    Answers <- ResultSet

(* Every variable keeps its type; *err is 0 or a negative errno.           *)
TypeOK ==
    /\ FolderIsValid(folder)
    /\ err \in {0, -EPERM, -ENOENT, -EBADR}
    /\ tempId \in Ids \cup {NoId}
    /\ \A r \in Requests :
          /\ q[r].st \in {"idle", "pending", "done"}
          /\ q[r].kind \in {"none", "pull", "size", "entry", "cache"}
          /\ q[r].index \in 0..MaxRows
          /\ q[r].contacts \in BoundedSeq(Ids, MaxRows)
          /\ q[r].answers \in 0..2
          /\ q[r].result \in ResultSet /\ q[r].expected \in ResultSet

(* Every completed request has reached its caller exactly once: the        *)
(* phonebook_cb of pull_contacts / pull_contacts_size, or ready_cb of      *)
(* add_to_cache, whatever the reply.                                       *)
AnsweredOnce ==
    \A r \in Requests : q[r].st = "done" => q[r].answers = 1

(* What pull_contacts, pull_contacts_size and add_to_cache hand to the     *)
(* caller is what the query returned: the contacts of the paging window,   *)
(* each once, in reply order, whatever request ran before (temp_id is      *)
(* static and shared by all of them).                                      *)
DeliveredAsQueried ==
    \A r \in Requests :
        q[r].st = "done" /\ q[r].expected # NoResult
            => q[r].result = q[r].expected

(* Phonebook implements PhonebookService: phonebook_set_folder moves the   *)
(* caller's folder only between phonebook folders, and every request whose *)
(* send succeeded reaches its caller                                       *)
(* once, eventually, unless phonebook_req_finalize cancels it first.       *)
ImplementsService == Service!Spec

(* phonebook_set_folder, from the path string the caller holds, for every *)
(* name and SetPath flags, returns the string of the folder                *)
(* PhonebookService's SetPath leads to over levels, or NULL with -ENOENT   *)
(* when that is not a phonebook folder: the spec's round trip ("/" +       *)
(* telecom gives "/telecom", "/telecom/pb" up gives "/telecom") through    *)
(* the basename, g_strrstr and length arithmetic of the up-level branch    *)
(* and the separators g_build_filename puts in.                            *)
SetFolderMatchesSpec ==
    \A new \in NewFolders, up \in BOOLEAN :
        LET t == Service!Target(Levels(folder), Levels(new), up)
        IN  SetFolderResult(folder, new, IF up THEN 3 ELSE 2)
                = IF t \in Service!PhonebookFolders THEN <<Str(t), 0>>
                                                    ELSE <<NoPath, -ENOENT>>

(* pull_contacts never reads data->contacts after it has freed the list.   *)
NoDanglingContacts ==
    \A r \in Requests : ~q[r].uaf
=============================================================================
