---------------------------- MODULE MCWorkspace -----------------------------
(***************************************************************************)
(* A small instance of Workspace: one NGO, two threads, three requests, in *)
(* one process or in two.                                                  *)
(***************************************************************************)
EXTENDS Workspace

CONSTANTS site, w1, w2, p1, p2

Together == [w \in {w1, w2} |-> p1]
Apart == [w \in {w1, w2} |-> IF w = w1 THEN p1 ELSE p2]
Hosts == {[home |-> Together, env_key |-> FALSE], [home |-> Apart, env_key |-> FALSE],
          [home |-> Apart, env_key |-> TRUE]}
TwoProcesses == {[home |-> Apart, env_key |-> FALSE]}

W(text, spelling) == [text |-> text, spelling |-> spelling]
SpeltLower(word) == word.text

(* What the user types, and what the website says: the same entry spelt    *)
(* otherwise, and another one.                                             *)
Bodies ==
    {[website_url |-> site, focus_areas |-> <<W("health", 1)>>, locations |-> <<>>,
      beneficiaries |-> <<>>],
     [website_url |-> site, focus_areas |-> <<W("water", 1)>>, locations |-> <<W("delhi", 1)>>,
      beneficiaries |-> <<>>]}
Found ==
    [u \in {site} |->
        [focus_areas |-> <<W("health", 2), W("youth", 1)>>, locations |-> <<W("delhi", 1)>>,
         beneficiaries |-> <<>>]]

Saves == {[source |-> "historical", opp |-> 1, ref |-> None],
          [source |-> "imported", opp |-> None, ref |-> 2]}
Opinions == {[source |-> "imported", ref |-> 2, type |-> "hidden"]}

=============================================================================
