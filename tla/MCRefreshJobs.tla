--------------------------- MODULE MCRefreshJobs ---------------------------
(***************************************************************************)
(* A small instance of RefreshJobs: two sources with one grant each, one   *)
(* subscriber who stays and one who comes and goes; every grant but one    *)
(* matches everybody.                                                      *)
(***************************************************************************)
EXTENDS RefreshJobs, TLC

CONSTANTS s1, s2, g1, g2, stays, wavers, j1, j2, w1, w2

HomeOf == (g1 :> s1) @@ (g2 :> s2)
Focus == {<<stays, g1>>, <<stays, g2>>, <<wavers, g1>>}

=============================================================================
