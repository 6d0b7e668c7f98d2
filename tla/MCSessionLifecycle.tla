------------------------- MODULE MCSessionLifecycle -------------------------
(***************************************************************************)
(* Model-checking instance of SessionLifecycle: three obc_session_create   *)
(* calls from two owners, enough session objects for each to get its own,  *)
(* so that reuse, concurrent bring-up, release and disconnection all mix.  *)
(***************************************************************************)
EXTENDS SessionLifecycle, TLC

\* Requests and owners are interchangeable; session objects are not (they
\* are allocated with CHOOSE).
Symmetry == Permutations(Requests) \cup Permutations(Owners)

=============================================================================
