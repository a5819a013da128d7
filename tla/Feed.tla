-------------------------------- MODULE Feed --------------------------------
(***************************************************************************)
(* What the API shows of the imported grants: the live feed and a grant's  *)
(* page (api/routers/grant_sources.py), the recommendations and Ask AI     *)
(* (api/routers/opportunities.py, src/ranking/ai_search.py,                *)
(* src/ai/query_understanding.py, src/ai/grounded_explain.py), and the     *)
(* assistant (api/routers/assistant.py, src/ai/assistant.py).  Nothing is  *)
(* written but a row of the search history, which nothing reads.           *)
(*                                                                         *)
(* A table is a set of rows.  Where a reply lists rows that its sort does  *)
(* not tell apart, they stand in any order, which may be another one in    *)
(* the next reply: an operator gives the set of the replies there can be.  *)
(***************************************************************************)
EXTENDS Matching

CONSTANTS
    HISTORICAL, RESEARCH,  \* markers of a search scope, phrases
    Window,                \* of each phrase that sets a deadline window, its days
    Leftover,              \* of each phrase, the terms that are left of it as keywords
    WrongType              \* in an answer: a null for a list, a text for a number

-----------------------------------------------------------------------------
CLOSED_LIKE == {"closed", "expired"}

(* _imported_status_label and _imported_source_label *)
StatusLabel(g) ==
    IF g.status \in CLOSED_LIKE THEN "Currently closed"
    ELSE [open |-> "Open", forecasted |-> "Forecasted", unknown |-> "Status unknown"][g.status]

SourceLabel(g) ==
    CASE g.sample -> "Sample data"
      [] ~g.sample /\ g.extraction # "complete" -> "Source information incomplete"
      [] OTHER -> "Discovered opportunity"

Summary(g) == [id |-> g.id, status_label |-> StatusLabel(g), source_label |-> SourceLabel(g)]

(* The filters of GET /opportunities/live: an explicit status wins over    *)
(* active_only.                                                            *)
Listed(g, filter) ==
    /\ ~g.sample
    /\ filter.country # None => g.country = filter.country
    /\ IF filter.status # None THEN g.status = filter.status
       ELSE filter.active_only => g.status \notin CLOSED_LIKE

Rows(table, filter) == {g \in table : Listed(g, filter)}

(* The default sort: all rows that one sync made have one date. *)
NewestFirst(rows) == BestFirst(rows, [g \in rows |-> g.collected])

From(rows, offset) == SubSeq(rows, offset + 1, Len(rows))

Unhidden(rows, hidden) == EntriesAt(rows, {i \in DOMAIN rows : rows[i].id \notin hidden})

(* Mutant: the offset counts the rows that are shown. *)
PageOfShown(rows, hidden, limit, offset) ==
    FirstOf(From(IF hidden = None THEN rows ELSE Unhidden(rows, hidden), offset), limit)

(* For an NGO twice the rows are fetched, the hidden ones dropped, and the *)
(* rest cut; the offset counts hidden rows too.                            *)
Page(rows, hidden, limit, offset) ==
    IF hidden = None THEN FirstOf(From(rows, offset), limit)
    ELSE FirstOf(Unhidden(FirstOf(From(rows, offset), 2 * limit), hidden), limit)

-----------------------------------------------------------------------------
(* GET /opportunities/recommended: the canonical scores, hidden ones left  *)
(* out afterwards.                                                         *)
Recommended(table, profile, hidden, limit) ==
    LET canonical == Canonical(table, profile)
        shown == {g \in DOMAIN canonical : g.id \notin hidden}
    IN  {FirstOf(list, limit) : list \in BestFirst(shown, [g \in shown |-> canonical[g].score_100])}

(* Mutant: the page of a grant scores it among itself alone. *)
DetailScoreAlone(table, profile, g) ==
    IF g \in Ranked({g}, profile) /\ Recommendable(g) THEN MatchOf(g, profile, {g}).score_100
    ELSE None

(* GET /opportunities/live/{id}: the score of a grant's page, if any. *)
DetailScore(table, profile, g) ==
    LET canonical == Canonical(table, profile)
    IN  IF g \in DOMAIN canonical THEN canonical[g].score_100 ELSE None

(* The five titles that the assistant is given of an NGO's context.        *)
AssistantTitles(table, profile) ==
    LET canonical == Canonical(table, profile)
        score == [g \in DOMAIN canonical |-> canonical[g].score_100]
    IN  {FirstOf(list, 5) : list \in BestFirst(DOMAIN canonical, score)}

(* The other contexts of POST /assistant/ask: a sample row is not found,   *)
(* and an answer is the AI's only when there are facts and it gave a text. *)
AssistantAnswer(g, aiText) ==
    IF g.sample THEN [status |-> 404, method |-> None]
    ELSE [status |-> 200, method |-> IF aiText # None THEN "ai" ELSE "rule_based"]

-----------------------------------------------------------------------------
(* query_understanding.py.  A query is a sequence of phrases.  Some mark a *)
(* scope or a window; the words of any that are no stopwords are keywords. *)
(* An answer of the AI is None or the fields it sent; a scope that is not  *)
(* known is replaced by the rules', a list that is none raises.            *)
ScopeByRules(words) ==
    CASE ToSet(words) \cap HISTORICAL # {} -> "historical"
      [] ToSet(words) \cap HISTORICAL = {} /\ ToSet(words) \cap RESEARCH # {} -> "research"
      [] OTHER -> "current"

WindowByRules(words) ==
    LET found == EntriesAt(words, {i \in DOMAIN words : words[i] \in DOMAIN Window})
    IN  IF found = <<>> THEN None ELSE Window[Head(found)]

Keywords(words) == FlattenSeq([i \in DOMAIN words |-> Leftover[words[i]]])

SearchIntent(words, answer) ==
    CASE answer = None ->
             [method |-> "rule_based", scope |-> ScopeByRules(words), within |-> WindowByRules(words),
              terms |-> Keywords(words)]
      [] answer # None /\ answer.terms = WrongType ->
             [method |-> "raises", scope |-> None, within |-> None, terms |-> <<>>]
      [] OTHER ->
             [method |-> "ai", within |-> answer.within, terms |-> answer.terms,
              scope |-> IF answer.scope \in {"current", "historical", "research"} THEN answer.scope
                        ELSE ScopeByRules(words)]

(* ai_search.py, _search_live: a window filters; without any keyword what  *)
(* it leaves is listed, the soonest deadline first, at the relevance 1.0    *)
(* that stands for none known.                                              *)
InWindow(g, within) == within # None => g.deadline # None /\ g.deadline \in 0 .. within

StatusBucket(g) ==
    CASE g.extraction # "complete" \/ g.status = "unknown" -> "needs_verification"
      [] g.extraction = "complete" /\ g.status = "forecasted" -> "upcoming"
      [] g.extraction = "complete" /\ g.status = "open" -> "open"

SearchLive(table, intent, limit) ==
    LET pool == {g \in table : Recommendable(g) /\ InWindow(g, intent.within)}
        known == intent.terms # <<>>
        score == [g \in pool |-> IF known THEN Relevance(intent.terms, g, pool) ELSE 100]
        order == [g \in pool |-> IF known THEN score[g] ELSE 0 - g.deadline]
        Result(g) == [grant |-> g, score |-> score[g], relevance_known |-> known,
                      bucket |-> StatusBucket(g)]
    IN  IF ~known /\ intent.within = None THEN {<<>>}
        ELSE {LET found == FirstOf(list, 2 * limit) IN [i \in DOMAIN found |-> Result(found[i])] :
                  list \in BestFirst(pool, order)}

(* search: with no web search provider, the live results that are relevant. *)
SearchGrants(table, intent, limit) ==
    {FirstOf(EntriesAt(found, {i \in DOMAIN found : found[i].score > 0}), limit) :
        found \in SearchLive(table, intent, limit)}

(* Mutant: the sentinel of a search without keywords counts as relevance. *)
MatchTierOfSentinel(r) ==
    IF r.grant.eligibility = {} THEN "minimal"
    ELSE IF r.score >= 50 THEN "strong" ELSE IF r.score >= 15 THEN "moderate" ELSE "low"

(* compute_match_tier, in the tier names of _LEGACY_TIER_ID_MAP. *)
MatchTier(r) ==
    CASE r.grant.eligibility = {} -> "minimal"
      [] r.grant.eligibility # {} /\ ~r.relevance_known -> "moderate"
      [] r.grant.eligibility # {} /\ r.relevance_known ->
             IF r.score >= 50 THEN "strong" ELSE IF r.score >= 15 THEN "moderate" ELSE "low"

(* POST /opportunities/ai-search: a historical scope is answered without a *)
(* search, which raises on a window that is no number; a result that has   *)
(* no canonical score shows its similarity, if one is known.               *)
AskRaises(intent) ==
    intent.method = "raises" \/ (intent.scope # "historical" /\ intent.within = WrongType)

AskItem(table, profile, r) ==
    LET canonical == IF profile = None THEN <<>> ELSE Canonical(table, profile)
        scored == profile # None /\ r.grant \in DOMAIN canonical
    IN  [result |-> r,
         tier |-> IF scored THEN canonical[r.grant].tier ELSE MatchTier(r),
         score_100 |-> CASE scored -> canonical[r.grant].score_100
                         [] ~scored /\ r.relevance_known -> r.score
                         [] OTHER -> None]

AskResults(table, intent, profile, limit) ==
    IF AskRaises(intent) \/ intent.scope = "historical" THEN {<<>>}
    ELSE {[i \in DOMAIN found |-> AskItem(table, profile, found[i])] :
              found \in SearchGrants(table, intent, limit)}

=============================================================================
