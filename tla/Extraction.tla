---------------------------- MODULE Extraction ------------------------------
(***************************************************************************)
(* src/ai/research.py: what is read from the text of a page, by the rules  *)
(* or by an AI provider.  A text is a sequence of words.  A marker, a      *)
(* keyword or the name of a place is found wherever a word contains it     *)
(* ("goa" in "goals"); a date is a word of its own.                        *)
(***************************************************************************)
EXTENDS Lists, SequencesExt

CONSTANTS
    Url, IndianHost,      \* addresses; those whose host ends as an Indian one does
    Inside(_),            \* the terms of the lists below that a word contains
    GRANT_SIGNAL,         \* _GRANT_SIGNAL_MARKERS, a set of words
    ELIGIBILITY, DEADLINE, FUNDER, \* the other markers, in the order they are tried
    BOUNDARY,             \* _FUNDER_BOUNDARY_WORDS and numbers
    LOCATION_KEYWORDS,    \* a set
    FOCUS_AREAS,          \* FOCUS_AREA_KEYWORDS, in their order
    DatePattern,          \* of each word that is a date, the place of its pattern
    IsoOf,                \* what _normalize_date_to_iso makes of it, or None
    Before, After,        \* the window of _find_near_marker, in words
    FUNDER_MAX_WORDS, HITS_MAX,
    NotText               \* what an answer may hold in place of what was asked for

Dates == DOMAIN DatePattern

IsSeq(s) == s \in Seq(ToSet(s))

(* The lists of markers, and a window that holds the marker itself.        *)
ASSUME ExtractionAssumption ==
    /\ IsSeq(ELIGIBILITY) /\ IsSeq(DEADLINE) /\ IsSeq(FUNDER)
    /\ \A d \in Dates : DatePattern[d] \in Nat
    /\ Before \in Nat /\ After \in Nat \ {0} /\ FUNDER_MAX_WORDS \in Nat

Holds(text, term) == \E i \in DOMAIN text : term \in Inside(text[i])

(* _keyword_hits: in the order of the vocabulary. *)
KeywordHits(text, vocabulary, limit) ==
    LET hits == SelectSeq(vocabulary, LAMBDA term : Holds(text, term))
    IN  SubSeq(hits, 1, IF Len(hits) < limit THEN Len(hits) ELSE limit)

FirstAt(text, term) == Min({i \in DOMAIN text : term \in Inside(text[i])})

(* The places in the list of the markers that the text holds. *)
FoundIn(text, markers) == {k \in DOMAIN markers : Holds(text, markers[k])}

(* _find_near_marker: the words around the first place of the first marker *)
(* of the list that the text holds.                                        *)
NearMarker(text, markers) ==
    LET found == FoundIn(text, markers)
        i == FirstAt(text, markers[Min(found)])
    IN  IF found = {} THEN <<>>
        ELSE SubSeq(text, IF i > Before THEN i - Before ELSE 1,
                    IF i + After - 1 < Len(text) THEN i + After - 1 ELSE Len(text))

(* _extract_funder: the words after the one that holds a marker (and ends  *)
(* with it), up to a boundary; the next marker is tried when there are     *)
(* none.                                                                   *)
NameAfter(text, i) ==
    LET rest == SubSeq(text, i + 1, Len(text))
        ends == {k \in DOMAIN rest : rest[k] \in BOUNDARY} \cup {Len(rest) + 1, FUNDER_MAX_WORDS + 1}
    IN  SubSeq(rest, 1, Min(ends) - 1)

ExtractFunder(text) ==
    LET named == {k \in FoundIn(text, FUNDER) : NameAfter(text, FirstAt(text, FUNDER[k])) # <<>>}
    IN  IF named = {} THEN None ELSE NameAfter(text, FirstAt(text, FUNDER[Min(named)]))

(* Of the patterns in turn, the first match, when it can be normalised. *)
DeadlineIn(scope) ==
    LET firsts == {i \in DOMAIN scope : /\ scope[i] \in Dates
                                        /\ \A j \in 1 .. i - 1 : scope[j] \in Dates =>
                                               DatePattern[scope[j]] # DatePattern[scope[i]]}
        read == {i \in firsts : IsoOf[scope[i]] # None}
    IN  IF read = {} THEN None
        ELSE IsoOf[scope[CHOOSE i \in read :
                       \A j \in read : DatePattern[scope[i]] <= DatePattern[scope[j]]]]

(* _detect_country *)
CountryOf(words, url) ==
    IF url \in IndianHost \/ \E place \in LOCATION_KEYWORDS : Holds(words, place)
    THEN "India" ELSE "unknown"

(* Mutant: a page that names a deadline, or who is eligible, is no grant. *)
HasGrantSignalOnly(text) == \E marker \in GRANT_SIGNAL : Holds(text, marker)

(* A page is rejected when nothing on it speaks of a grant. *)
HasGrantSignal(text) ==
    \E marker \in GRANT_SIGNAL \cup ToSet(ELIGIBILITY) \cup ToSet(DEADLINE) : Holds(text, marker)

Rejected(method) == [status |-> "rejected", method |-> method]

-----------------------------------------------------------------------------
(* Mutant: the country is read from the whole page, the site's own address *)
(* and advertisements included.                                            *)
CountryScopeWhole(text, title) == title \o text

(* What is about this opportunity, of all that a page of the site holds. *)
CountryScope(text, title) == title \o NearMarker(text, ELIGIBILITY) \o NearMarker(text, DEADLINE)

(* extract_opportunity_fields_rule_based *)
RuleBased(text, title, url) ==
    LET near == NearMarker(text, DEADLINE)
        eligibility == NearMarker(text, ELIGIBILITY)
        deadline == DeadlineIn(IF near # <<>> THEN near ELSE text)
    IN  IF ~HasGrantSignal(text) THEN Rejected("rule_based")
        ELSE [status |-> IF deadline # None \/ eligibility # <<>> THEN "complete" ELSE "partial",
              method |-> "rule_based", title |-> title,
              funder |-> ExtractFunder(text), eligibility |-> eligibility,
              category |-> KeywordHits(text, FOCUS_AREAS, 1), deadline |-> deadline,
              country |-> CountryOf(CountryScope(text, title), url)]

(* The answer of a provider, as AIProvider.complete and _parse_json_block  *)
(* leave it: the call failed, there is no provider, no JSON object or an   *)
(* empty one ("nothing"), {"not_an_opportunity": true} ("refusal"), or     *)
(* fields.  The join, or the loop over a list, raises on a field that is   *)
(* of another type: an object for a text, a null for a list.               *)
Malformed(answer) ==
    answer.kind = "fields" /\ NotText \in {answer.title, answer.eligibility, answer.description}

ByAI(answer, title, url) ==
    IF Malformed(answer) THEN [status |-> "raises", method |-> "ai"]
    ELSE [status |-> "complete", method |-> "ai",
          title |-> IF answer.title # <<>> THEN answer.title ELSE title,
          funder |-> answer.funder, eligibility |-> answer.eligibility,
          category |-> <<>>, deadline |-> answer.deadline,
          country |-> CountryOf(answer.title \o answer.eligibility \o answer.description, url)]

(* extract_opportunity_fields *)
Extract(text, title, url, answer) ==
    CASE answer.kind = "fields"  -> ByAI(answer, title, url)
      [] answer.kind = "refusal" -> Rejected("ai")
      [] answer.kind = "nothing" -> RuleBased(text, title, url)

(* analyze_website_text, its focus areas only: locations and beneficiaries *)
(* are found the same way.  An answer of fields stands for one that lists  *)
(* the areas; refusal is a key the prompt does not ask for.                *)
AnalyzeText(text, answer) ==
    CASE answer.kind = "nothing" ->
             [method |-> "rule_based", areas |-> KeywordHits(text, FOCUS_AREAS, HITS_MAX)]
      [] Malformed(answer) -> [method |-> "raises", areas |-> <<>>]
      [] OTHER -> [method |-> "ai", areas |-> <<>>]

=============================================================================
