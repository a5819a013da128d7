------------------------------ MODULE MCQueries -----------------------------
(* The values of the constants of Queries for TLC. *)
EXTENDS Queries

CONSTANTS water, rivers, women, schools, nonprofit, individuals, pune, past, funders, soon, month, wrong

MCWords == [w \in {water, rivers, women, schools, nonprofit, individuals, pune} |-> {w}]
MCConcepts == [w \in DOMAIN MCWords |-> IF w \in {water, rivers} THEN {"environment"} ELSE {}]
MCKeywords == [trust |-> {nonprofit}]
MCWindow == [w \in {soon, month} |-> 30]

(* Nothing is left of "in the next 30 days", and "month" of "this month". *)
MCLeftover == [w \in DOMAIN MCWords \cup {past, funders, soon, month} |->
                  IF w = soon THEN <<>> ELSE <<w>>]

(* A phrase counts the more, the fewer grants of the pool hold it. *)
MCSimilarity(terms, g, pool) ==
    LET Rarity(p) == 1 + Cardinality({h \in pool : p \notin h.text})
        Weight(S) == FoldSet(LAMBDA p, sum : sum + Rarity(p), 0, S)
    IN  IF terms \cap g.text = {} THEN 0
        ELSE (100 * Weight(terms \cap g.text)) \div Weight(terms \cup g.text)

Row(id, status, text, eligibility, country, deadline, collected) ==
    [id |-> id, sample |-> FALSE, status |-> status, extraction |-> "complete", text |-> text,
     eligibility |-> eligibility, country |-> country, deadline |-> deadline,
     collected |-> collected]

MCRows == {Row(1, "open", {water, women, schools}, {nonprofit}, "India", 20, 1),
           Row(2, "unknown", {rivers, schools, pune}, {}, "unknown", None, 2),
           Row(3, "open", {schools}, {individuals}, "United States", 25, 2)}
MCSeed == {[Row(4, "open", {water, women}, {nonprofit}, "India", 20, 0) EXCEPT !.sample = TRUE]}

MCProfile == [focus_areas |-> <<water>>, beneficiaries |-> <<women>>, locations |-> {pune},
              registration_type |-> "trust"]
MCQueriesAsked == {<<soon>>, <<water, women>>, <<schools, soon>>, <<past, water>>, <<funders, past>>, <<month>>, <<>>}
MCAnswers == {None, [scope |-> "current", within |-> None, terms |-> <<women>>],
              [scope |-> "all", within |-> 30, terms |-> <<>>],
              [scope |-> "current", within |-> None, terms |-> wrong],
              [scope |-> "historical", within |-> wrong, terms |-> <<>>],
              [scope |-> "current", within |-> wrong, terms |-> <<>>]}
MCShares == [relevance : {0, 7, 33, 50, 81, 100}, overlap : {0, 28, 55, 91},
             geography : {4, 5, 6, 10}, deadline : {0, 5, 8, 10}, multiplier : {2, 17, 20}]

=============================================================================
