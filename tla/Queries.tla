------------------------------- MODULE Queries ------------------------------
(***************************************************************************)
(* An NGO that looks at the imported grants while they are synchronised    *)
(* and while it hides some of them: it walks through the pages of the live *)
(* feed, it meets one grant on several pages that each show its score, it  *)
(* asks in words.  Module Feed says what each request answers; here        *)
(* requests follow one another and the table changes between them.         *)
(***************************************************************************)
EXTENDS Feed

CONSTANTS
    ROWS,       \* the grants a sync may bring, in their first state
    STATUSES,   \* statuses that a sync may set
    Seed,       \* the table at the start
    PROFILE,    \* the profile of the NGO
    QUERIES,    \* what it asks: sequences of phrases
    ANSWERS,    \* what its AI makes of them: None or the fields sent
    LIMITS,     \* page sizes
    SHARES      \* inputs of a score: [relevance, overlap, geography, deadline, multiplier]

(* A row of imported_grants: what the read endpoints look at.              *)
ImportedGrant ==
    [id : Nat, sample : BOOLEAN, status : {"forecasted", "open", "closed", "expired", "unknown"},
     extraction : {"complete", "partial", "failed"}, text : SUBSET DOMAIN Words,
     eligibility : SUBSET DOMAIN Words, country : STRING, deadline : Int \cup {None},
     collected : Nat]

Grants ==
    LET brought == ROWS \cup Seed
    IN  brought \cup {[g EXCEPT !.status = s] : g \in brought, s \in STATUSES}

Unique(rows) == \A g, h \in rows : g.id = h.id => g = h
Ids(rows) == {g.id : g \in rows}

Percent == 0 .. 100

Intents == {SearchIntent(words, answer) : words \in QUERIES, answer \in ANSWERS \cup {None}}

(* A key is given once; a cosine lies between 0 and 1, and so do the       *)
(* shares that a score is made of; the parts of a score that come from a   *)
(* table take the values of that table.                                    *)
ASSUME QueriesAssumption ==
    /\ Grants \subseteq ImportedGrant
    /\ IsFiniteSet(ROWS) /\ IsFiniteSet(Seed) /\ Unique(Seed)
    /\ LIMITS \subseteq Nat \ {0}
    /\ None \notin Nat \cup {"current", "historical", "research"}
    /\ WrongType \notin Nat \cup {None} /\ PROFILE # None
    /\ \A words \in QUERIES : words \in Seq(ToSet(words))
    /\ \A phrase \in DOMAIN Window : Window[phrase] \in Nat
    /\ \A answer \in ANSWERS \ {None} : answer.within \in Nat \cup {None, WrongType}
    /\ Terms(PROFILE) \in Seq(ToSet(Terms(PROFILE)))
    /\ \A terms \in {Terms(PROFILE)} \cup {intent.terms : intent \in Intents}, pool \in SUBSET Grants :
           \A g \in pool : Relevance(terms, g, pool) \in Percent
    /\ SHARES \subseteq [relevance : Percent, overlap : Percent, geography : {4, 5, 6, 10},
                         deadline : {0, 5, 6, 8, 10}, multiplier : {2, 17, 20}]

VARIABLES table, hidden, view

queryVars == <<table, hidden, view>>

Idle == [kind |-> "idle"]
QueriesInit == table = Seed /\ hidden = {} /\ view = Idle

Everything == [country |-> None, status |-> None, active_only |-> TRUE]
Live(t) == Rows(t, Everything)

-----------------------------------------------------------------------------
(* A sync commits (module GrantSync): it brings rows, which have one date, *)
(* or changes one.  A sync that began earlier may commit later.  `from'    *)
(* remembers of a walk what the feed held at its start, `cut' the dates    *)
(* between whose rows a page ended.  A walk under which a row left the     *)
(* feed is given up, scores that were told of another table are forgotten. *)
AfterSync(t) ==
    /\ table' = t
    /\ UNCHANGED hidden
    /\ view' = CASE view.kind = "walk" /\ Ids(Live(table)) \subseteq Ids(Live(t)) -> view
                 [] view.kind = "scores" -> [view EXCEPT !.told = {}]
                 [] OTHER -> Idle

Import == \E new \in SUBSET ROWS :
    /\ new # {} /\ Unique(new) /\ Ids(new) \cap Ids(table) = {}
    /\ \A g, h \in new : g.collected = h.collected
    /\ AfterSync(table \cup new)

Change == \E g \in table, s \in STATUSES :
    /\ ~g.sample /\ g.status # s
    /\ AfterSync((table \ {g}) \cup {[g EXCEPT !.status = s]})

(* POST /feedback with feedback_type "hidden" (module Bookmarks). *)
Hide == \E g \in table :
    /\ ~g.sample /\ g.id \notin hidden
    /\ hidden' = hidden \cup {g.id}
    /\ view' = IF view.kind \in {"walk", "scores"} THEN view ELSE Idle
    /\ UNCHANGED table

(* A reader asks for page after page of one size, until a page is empty: a *)
(* reply tells no total.                                                   *)
StartWalk == \E limit \in LIMITS, asNgo \in BOOLEAN :
    /\ view = Idle
    /\ view' = [kind |-> "walk", limit |-> limit, asNgo |-> asNgo, offset |-> 0, seen |-> {},
                from |-> Ids(Live(table)), cut |-> {}, ended |-> FALSE]
    /\ UNCHANGED <<table, hidden>>

CutAt(rows, n) ==
    {rows[i].collected : i \in {k \in DOMAIN rows : /\ k = n /\ n + 1 \in DOMAIN rows
                                                   /\ rows[n + 1].collected = rows[n].collected}}

NextPage == \E rows \in NewestFirst(Live(table)) :
    /\ view.kind = "walk" /\ ~view.ended
    /\ LET page == Page(rows, IF view.asNgo THEN hidden ELSE None, view.limit, view.offset)
       IN  \/ page = <<>> /\ view' = [view EXCEPT !.ended = TRUE]
           \/ /\ page # <<>>
              /\ view' = [view EXCEPT !.offset = @ + view.limit,
                                      !.seen = @ \cup Ids(ToSet(page)),
                                      !.cut = @ \cup CutAt(rows, view.offset + view.limit)]
    /\ UNCHANGED <<table, hidden>>

(* The pages that show the score of one grant, or that it has none. *)
StartScores == \E g \in table :
    /\ view = Idle
    /\ view' = [kind |-> "scores", id |-> g.id, told |-> {}]
    /\ UNCHANGED <<table, hidden>>

Tell(page, g, score) ==
    /\ view.kind = "scores" /\ view.id = g.id
    /\ view' = [view EXCEPT !.told = @ \cup {[page |-> page, score |-> score]}]
    /\ UNCHANGED <<table, hidden>>

ShowRecommended == \E limit \in LIMITS : \E list \in Recommended(table, PROFILE, hidden, limit) :
    \E g \in ToSet(list) : Tell("recommended", g, Canonical(table, PROFILE)[g].score_100)

ShowDetail == \E g \in table : ~g.sample /\ Tell("detail", g, DetailScore(table, PROFILE, g))

ShowAskScores == \E intent \in Intents, limit \in LIMITS :
    \E items \in AskResults(table, intent, PROFILE, limit) :
        \E item \in ToSet(items) : Tell("ask", item.result.grant, item.score_100)

Ask == \E intent \in Intents, profile \in {None, PROFILE}, limit \in LIMITS :
    \E items \in AskResults(table, intent, profile, limit) :
        /\ view = Idle
        /\ view' = [kind |-> "asked", scope |-> intent.scope, profile |-> profile, items |-> items,
                    outcome |-> IF AskRaises(intent) THEN "raises" ELSE "answers"]
        /\ UNCHANGED <<table, hidden>>

(* One score is built.  It depends on its shares alone, so it is enough to *)
(* build it over the first table.                                          *)
Grade == \E s \in SHARES :
    /\ view = Idle /\ table = Seed /\ hidden = {}
    /\ view' = [kind |-> "graded", shares |-> s,
                match |-> BuildMatchScore(s.relevance, s.overlap, s.geography, s.deadline, s.multiplier)]
    /\ UNCHANGED <<table, hidden>>

Leave == view # Idle /\ view' = Idle /\ UNCHANGED <<table, hidden>>

QueriesNext ==
        \/ Import \/ Change \/ Hide \/ StartWalk \/ NextPage \/ StartScores
        \/ ShowRecommended \/ ShowDetail \/ ShowAskScores \/ Ask \/ Grade \/ Leave

QueriesSpec == QueriesInit /\ [][QueriesNext]_queryVars

-----------------------------------------------------------------------------
KINDS == {"idle", "walk", "scores", "asked", "graded"}
STRONG_TIERS == {"strong", "very_strong", "exceptional"}

(* A row of the table is one of the grants that were brought, once. *)
QueriesTypeOK ==
    /\ view.kind \in KINDS
    /\ table \subseteq Grants /\ IsFiniteSet(table) /\ Unique(table)
    /\ hidden \subseteq Ids(table)

(* A reader who asks for one page after another (list_live_opportunities,  *)
(* limit and offset) until one is empty has seen every grant that the feed *)
(* held when it began and that the NGO has not hidden by now, whatever it  *)
(* hid and whatever came while it read, unless a row left the feed, a page *)
(* ended between rows of the grant's date, or hidden rows can fill the     *)
(* 2 * limit rows that a page is made of.                                  *)
WalkMissesNothing ==
    /\ QueriesTypeOK
    /\ /\ view.kind = "walk" /\ view.ended
       /\ view.asNgo => Cardinality(hidden) < 2 * view.limit
       => \A g \in Live(table) :
              g.id \in view.from /\ g.collected \notin view.cut =>
                  g.id \in view.seen \/ (view.asNgo /\ g.id \in hidden)

(* "Use GET /opportunities/live to browse the full, unranked               *)
(* live-discovery feed" (api/routers/opportunities.py:132): who asks for   *)
(* all pages of it, with no NGO, sees all of it when nothing leaves it.    *)
(* Rows of one sync, listed in another order for the next page, refute it. *)
FullFeedBrowsed ==
    view.kind = "walk" /\ view.ended /\ ~view.asNgo => view.from \subseteq view.seen

(* build_canonical_match_scores is "THE single source of truth": until the *)
(* next sync the recommendations, a grant's page and Ask AI tell one score *)
(* for one grant, whatever the NGO hides between them.  Only of a grant    *)
(* whose page tells none may Ask AI tell some, its similarity to what was  *)
(* asked.  None is told of a sample, closed or expired grant.              *)
SurfacesAgree ==
    view.kind = "scores" =>
        /\ \A p, q \in view.told : p.score # q.score =>
               /\ "ask" \in {p.page, q.page}
               /\ \A r \in view.told : r.page # "ask" => r.score = None
        /\ \A p \in view.told : p.score # None =>
               \E g \in table : g.id = view.id /\ Recommendable(g)

(* "a grant absent from this dict has no genuine match for this profile,   *)
(* and callers must treat that as 'no score' (None), never fabricate one"  *)
(* (src/ranking/live_match.py:451): of a grant whose page tells no score   *)
(* no score is told.  What Ask AI shows of a grant that is like the        *)
(* question and not like the profile refutes it.                           *)
AbsentMeansNoScore ==
    view.kind = "scores" =>
        \A p, q \in view.told : p.page = "detail" /\ p.score = None => q.score = None

(* Ask AI is for current funding only, and a strong tier is earned: by the *)
(* canonical score of a grant that has one, and otherwise by a real        *)
(* similarity to a grant whose eligibility is known (compute_match_tier),  *)
(* never by the sentinel that a search without keywords ranks by; that is  *)
(* never told as a score either.                                           *)
AskEarnsItsTier ==
    view.kind = "asked" =>
        /\ view.scope = "historical" => view.items = <<>> /\ view.outcome = "answers"
        /\ \A i \in DOMAIN view.items :
               LET item == view.items[i]
                   r == item.result
                   canonical == view.profile # None /\ r.grant \in DOMAIN Canonical(table, PROFILE)
               IN
               /\ Recommendable(r.grant)
               /\ item.tier \in STRONG_TIERS =>
                      IF canonical THEN item.score_100 >= 75
                      ELSE r.relevance_known /\ r.score >= 50 /\ r.grant.eligibility # {}
               /\ item.score_100 # None => canonical \/ r.relevance_known

(* "Never raises; a provider error/unparseable response falls through to   *)
(* the rule-based path rather than failing the search"                     *)
(* (src/ai/query_understanding.py:178).  An answer with a null for a list, *)
(* or a text for the days of a deadline, refutes it.                       *)
AskNeverRaises == view.kind = "asked" => view.outcome = "answers"

(* build_match_score: the points shown add up to the score but for the     *)
(* rounding of each part; a better similarity never lowers a score; and,   *)
(* all else equal, a grant whose eligibility excludes the NGO does not     *)
(* outscore one that admits it, however similar its text.                  *)
ScoreFair ==
    view.kind = "graded" =>
        LET s == view.shares
            m == view.match
            Score(r, k) == BuildMatchScore(r, s.overlap, s.geography, s.deadline, k).score_100
            gap == m.points[1] + m.points[2] + m.points[3] + m.points[4] - m.penalty - m.score_100
        IN  /\ gap \in -2 .. 2
            /\ s.relevance < 100 => m.score_100 <= Score(s.relevance + 1, s.multiplier)
            /\ Score(100, 2) <= Score(0, 20)
            /\ s.multiplier = 2 => m.tier = "minimal"

=============================================================================
