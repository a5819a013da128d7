------------------------------- MODULE Lists --------------------------------
(***************************************************************************)
(* What the modules of several components say about lists: the entries     *)
(* that a loop or a comprehension keeps, in the order they had.            *)
(***************************************************************************)
EXTENDS Naturals, Sequences, FiniteSets

CONSTANT None

(* The members of a finite set of places, the least first. *)
InOrder(S) ==
    CHOOSE order \in [1..Cardinality(S) -> S] :
        \A i, j \in 1..Cardinality(S) : i < j => order[i] < order[j]

(* The entries of a list at some of its places, in its order. *)
EntriesAt(s, S) == LET order == InOrder(S) IN [k \in DOMAIN order |-> s[order[k]]]

=============================================================================
