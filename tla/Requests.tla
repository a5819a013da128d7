------------------------------ MODULE Requests ------------------------------
(***************************************************************************)
(* What the handlers of an NGO's workspace share: the threads that run     *)
(* them, the table ngo_profiles, and the way a session writes a row.       *)
(*                                                                         *)
(* A handler loads its rows, works on them and commits; other threads may  *)
(* commit in between, so that loading and committing are two steps.  A     *)
(* request that is refused (404, 409, 422) writes nothing and is no step.  *)
(***************************************************************************)
EXTENDS Lists

CONSTANTS
    Worker,    \* threads that run requests
    Ngo,       \* values of ngo_id
    MaxCalls   \* bound of the number of requests

VARIABLES
    thread,    \* the request of each thread
    calls,     \* how many requests were begun
    profile    \* ngo_profiles

Idle == [pc |-> "idle"]

Begin(w, request) ==
    /\ thread[w] = Idle /\ calls < MaxCalls
    /\ calls' = calls + 1
    /\ thread' = [thread EXCEPT ![w] = request]

Continue(w, request) == thread' = [thread EXCEPT ![w] = request] /\ UNCHANGED calls

End(w) == Continue(w, Idle)

(* get_db: expire_on_commit and autoflush as api/db/session.py sets them.  *)
(* The UPDATE of a commit names the columns whose value differs from the   *)
(* one loaded, and no other.                                               *)
Written(now, loaded, new) ==
    [c \in DOMAIN now |-> IF new[c] = loaded[c] THEN now[c] ELSE new[c]]

=============================================================================
