----------------------------- MODULE MCStartup ------------------------------
(***************************************************************************)
(* Two workers on a database that is new or of an earlier version: one     *)
(* table it had, with a column to backfill and one with a default, and one *)
(* table it did not have.                                                  *)
(***************************************************************************)
EXTENDS Startup

Added(table, column, default) == [table |-> table, column |-> column, default |-> default]
Additions ==
    <<Added("saved", "source", TRUE), Added("saved", "ref", FALSE), Added("new", "user", FALSE)>>
E(production, cors, key) ==
    [production |-> production, cors |-> cors, key |-> key, scheduler |-> TRUE]
Deployments == {E(TRUE, TRUE, TRUE), E(TRUE, TRUE, FALSE)}
Refs == {Added("saved", "ref", FALSE)}

=============================================================================
