----------------------------- MODULE MCFetcher ------------------------------
(***************************************************************************)
(* A small web: two sites whose pages redirect to each other, one page     *)
(* that robots.txt forbids, and one address that is not safe.              *)
(***************************************************************************)
EXTENDS Fetcher

CONSTANTS a1, a2, b1, x1, siteA, siteB

Hosts == [u \in Url |-> IF u \in {a1, a2} THEN siteA ELSE siteB]

R(kinds, locations) == [kinds |-> kinds, locations |-> locations]
Replies == [u \in Url |-> CASE u = a1 -> R({"page", "error"}, {a2, b1})
                             [] u = b1 -> R({"error", "page"}, {a1, x1})
                             [] OTHER  -> R({"page"}, {})]

=============================================================================
