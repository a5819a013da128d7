-------------------------- MODULE MCSubscriptions --------------------------
(***************************************************************************)
(* Small instances of Subscriptions: one email address, one or two         *)
(* threads, which are interchangeable.                                     *)
(***************************************************************************)
EXTENDS Subscriptions, TLC

CONSTANTS w1, w2

Threads == Permutations(Worker)

=============================================================================
