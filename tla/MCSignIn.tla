------------------------------ MODULE MCSignIn ------------------------------
(***************************************************************************)
(* A small instance of SignIn: two processes, the first with two threads.  *)
(***************************************************************************)
EXTENDS SignIn, TLC

CONSTANTS p1, p2, w1, w2, w3, a1, a2

ThreadsOf == [w \in Worker |-> IF w = w3 THEN p2 ELSE p1]

(* Google answers with either account, or with an account that it has not  *)
(* verified.                                                               *)
Answer(a, verified) ==
    [idToken |-> TRUE, signed |-> TRUE, google |-> TRUE, emailVerified |-> verified, sub |-> a]
Replies == {Answer(a, v) : a \in Account, v \in BOOLEAN}

Alike == Permutations({a1, a2}) \cup Permutations({w1, w2})

=============================================================================
