----------------------------- MODULE Matching -------------------------------
(***************************************************************************)
(* src/ranking: the score of a live grant for the profile of an NGO, from  *)
(* concepts.py, eligibility_rules.py and live_match.py.                    *)
(*                                                                         *)
(* A text is the set of the phrases it holds.  Shares are counted in per   *)
(* cent, weights in hundredths of a point, and nothing is rounded that     *)
(* the code does not round, except the overlap (to a per cent).            *)
(***************************************************************************)
EXTENDS Integers, Lists, SequencesExt

CONSTANTS
    Words,             \* of each phrase, its words
    Concepts,          \* of each phrase, the concepts it is a synonym of
    GENERIC_TERMS,     \* words, also phrases of one word
    HARD_EXCLUSION, NONPROFIT, \* phrases of an eligibility text
    NGO_TYPE_KEYWORDS, \* of each registration type, phrases
    Similarity(_, _, _) \* TF-IDF cosine, in per cent: of terms to a grant among a pool

-----------------------------------------------------------------------------
(* concepts.py *)
TermWeight(term) == IF term \in GENERIC_TERMS THEN 25 ELSE 100

(* term_match: how strongly a term of the profile matches a text. *)
TermMatch(term, text) ==
    CASE term \in text -> 100
      [] term \notin text /\ \E p \in text : Concepts[term] \cap Concepts[p] # {} -> 85
      [] /\ term \notin text /\ \A p \in text : Concepts[term] \cap Concepts[p] = {}
         /\ \E p \in text : (Words[term] \ GENERIC_TERMS) \cap Words[p] # {} -> 50
      [] OTHER -> 0

OVERLAP_MATCH_CAP == 55

(* _concept_overlap: what remains shrinks by each matching term in turn. *)
ConceptOverlap(terms, text) ==
    LET remaining[n \in 0 .. Len(terms)] ==
            IF n = 0 THEN 100
            ELSE (remaining[n - 1] * (1000000 - OVERLAP_MATCH_CAP * TermWeight(terms[n])
                                          * TermMatch(terms[n], text)) + 500000) \div 1000000
    IN  100 - remaining[Len(terms)]

(* eligibility_rules.py; the multiplier in twentieths. *)
CheckEligibility(type, text) ==
    CASE text = {} -> "unknown"
      [] text \cap HARD_EXCLUSION # {} /\ NONPROFIT \notin text -> "incompatible"
      [] text # {} /\ (text \cap HARD_EXCLUSION = {} \/ NONPROFIT \in text) ->
             IF type # None /\ text \cap NGO_TYPE_KEYWORDS[type] # {} THEN "compatible"
             ELSE "unknown"

EligibilityScore(result) == [compatible |-> 20, unknown |-> 17, incompatible |-> 2][result]

-----------------------------------------------------------------------------
(* _geography_score and _deadline_score, in tenths; deadline in days. *)
GeographyScore(locations, grant) ==
    CASE locations \cap grant.text # {} -> 10
      [] locations \cap grant.text = {} /\ grant.country = "India" -> 6
      [] locations \cap grant.text = {} /\ grant.country = "unknown" -> 5
      [] OTHER -> 4

DeadlineScore(days) ==
    CASE days = None -> 5
      [] days # None -> CASE days < 0 -> 0 [] days \in 0 .. 7 -> 5 [] days \in 8 .. 45 -> 10
                          [] days \in 46 .. 120 -> 8 [] OTHER -> 6

Anchors ==
    <<<<0, 0>>, <<5, 8>>, <<10, 16>>, <<15, 24>>, <<20, 33>>, <<25, 38>>, <<30, 48>>, <<35, 58>>,
      <<40, 68>>, <<45, 76>>, <<50, 83>>, <<55, 87>>, <<60, 90>>, <<65, 93>>, <<70, 97>>,
      <<80, 99>>, <<90, 100>>, <<100, 100>>>>

(* _apply_leniency_curve: raw in 1/2000 of a point, the result in 1/20000. *)
LeniencyCurve(raw) ==
    LET k == CHOOSE i \in 1 .. Len(Anchors) - 1 : /\ 2000 * Anchors[i][1] <= raw
                                                  /\ raw <= 2000 * Anchors[i + 1][1]
        run == Anchors[k + 1][1] - Anchors[k][1]
        rise == Anchors[k + 1][2] - Anchors[k][2]
    IN  20000 * Anchors[k][2] + ((raw - 2000 * Anchors[k][1]) * rise * 10) \div run

(* Python's round: to the nearest, a tie to the even one. *)
Round(n, d) ==
    LET q == n \div d IN
    IF 2 * (n % d) > d \/ (2 * (n % d) = d /\ q % 2 = 1) THEN q + 1 ELSE q

(* round(c * curved / raw / 1000), in numbers of 32 bits. *)
Scaled(c, curved, raw) ==
    LET rest == c * (curved % raw)
        whole == c * (curved \div raw) + rest \div raw
    IN  IF whole % 1000 = 500 /\ rest % raw > 0 THEN whole \div 1000 + 1 ELSE Round(whole, 1000)

Tiers == <<<<95, "exceptional">>, <<85, "very_strong">>, <<75, "strong">>, <<65, "good">>,
           <<50, "moderate">>, <<30, "low">>, <<0, "minimal">>>>

TierOf(score) ==
    Tiers[CHOOSE i \in DOMAIN Tiers : /\ Tiers[i][1] <= score
                                      /\ \A j \in 1 .. i - 1 : Tiers[j][1] > score][2]

(* Mutant: the points of the parts are those before the curve. *)
PointsUncurved(c, raw) == IF raw = 0 THEN 0 ELSE Round(c, 100)

PointsOf(c, raw) == IF raw = 0 THEN 0 ELSE Scaled(c, LeniencyCurve(raw), raw)

(* build_match_score, of the four shares and the multiplier. *)
BuildMatchScore(relevance, overlap, geography, deadline, multiplier) ==
    LET parts == <<40 * relevance, 35 * overlap, 150 * geography, 100 * deadline>>
        raw == (parts[1] + parts[2] + parts[3] + parts[4]) * multiplier
        curved == LeniencyCurve(raw)
        penalty == Round((20 - multiplier) * curved, multiplier * 20000)
        score == Round(curved, 20000)
    IN  [score_100 |-> score, tier |-> TierOf(score), raw |-> raw,
         points |-> [i \in 1 .. 4 |-> PointsOf(parts[i], raw)], penalty |-> penalty]

-----------------------------------------------------------------------------
RECOMMENDABLE_STATUSES == {"open", "forecasted", "unknown"}
Recommendable(g) == ~g.sample /\ g.status \in RECOMMENDABLE_STATUSES

Terms(profile) == profile.focus_areas \o profile.beneficiaries
Relevance(terms, g, pool) == Similarity(ToSet(terms), g, pool)

MatchOf(g, profile, pool) ==
    BuildMatchScore(Relevance(Terms(profile), g, pool),
                    ConceptOverlap(Terms(profile), g.text),
                    GeographyScore(profile.locations, g), DeadlineScore(g.deadline),
                    EligibilityScore(CheckEligibility(profile.registration_type, g.eligibility)))

(* rank_live_grants: those with some relevance at all. *)
Ranked(pool, profile) ==
    IF Terms(profile) = <<>> THEN {}
    ELSE {g \in pool : \/ Relevance(Terms(profile), g, pool) > 0
                       \/ ConceptOverlap(Terms(profile), g.text) > 0}

(* build_canonical_match_scores: of every candidate, whatever is hidden. *)
Canonical(table, profile) ==
    LET pool == {g \in table : Recommendable(g)}
    IN  [g \in Ranked(pool, profile) |-> MatchOf(g, profile, pool)]

(* Rows sorted, best first.  A sort keeps equal ones in the order in which *)
(* the database lists them, which may be any.                              *)
BestFirst(rows, value) ==
    {sorted \in SetToSeqs(rows) :
        \A i, j \in DOMAIN sorted : i < j => value[sorted[i]] >= value[sorted[j]]}

FirstOf(s, n) == SubSeq(s, 1, IF Len(s) < n THEN Len(s) ELSE n)

=============================================================================
