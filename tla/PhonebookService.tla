-------------------------- MODULE PhonebookService --------------------------
(***************************************************************************)
(* What the phonebook back end promises the PBAP server, stated without    *)
(* the tracker: the current folder moves as a SetPath should (into a       *)
(* child, up to the parent, nowhere when the result is not a phonebook     *)
(* folder), and a request handle, once a query is sent, is answered once   *)
(* and then released by the caller.  The result is any the query could     *)
(* produce (Answers); which one is the subject of Phonebook's              *)
(* DeliveredAsQueried.                                                     *)
(***************************************************************************)
EXTENDS Integers, Sequences

CONSTANTS Requests, Books, NewFolders, Answers, NoResult

VARIABLES folder, req

vars == <<folder, req>>

PhonebookFolders ==
    {<<>>, <<"telecom">>} \cup {<<"telecom", b>> : b \in Books}

Parent(p) == [i \in 1..(Len(p) - 1) |-> p[i]]

(* The folder a SetPath leads to: flags 0x02 enters new (an empty name     *)
(* meaning the root), 0x03 goes up first; the root has no parent, and      *)
(* going up from it leaves the caller at the root.                         *)
Target(cur, new, up) ==
    CASE ~up /\ new = <<>> -> <<>>
      [] ~up               -> cur \o new
      [] cur = <<>>        -> <<>>
      [] OTHER             -> Parent(cur) \o new

Init ==
    /\ folder = <<>>
    /\ req = [r \in Requests |-> [st |-> "idle", result |-> NoResult]]

SetPath ==
    \E new \in NewFolders, up \in BOOLEAN :
        LET t == Target(folder, new, up)
        IN  /\ folder' = IF t \in PhonebookFolders THEN t ELSE folder
            /\ UNCHANGED req

Send(r) ==
    /\ req[r].st = "idle"
    /\ req' = [req EXCEPT ![r] = [st |-> "pending", result |-> NoResult]]
    /\ UNCHANGED folder

Answer(r) ==
    /\ req[r].st = "pending"
    /\ \E res \in Answers :
          req' = [req EXCEPT ![r] = [st |-> "answered", result |-> res]]
    /\ UNCHANGED folder

Release(r) ==
    /\ req[r].st # "idle"
    /\ req' = [req EXCEPT ![r] = [st |-> "idle", result |-> NoResult]]
    /\ UNCHANGED folder

Next == SetPath \/ \E r \in Requests : Send(r) \/ Answer(r) \/ Release(r)

(* A request the caller keeps is answered.                                 *)
Spec == Init /\ [][Next]_vars /\ \A r \in Requests : WF_vars(Answer(r))
=============================================================================
