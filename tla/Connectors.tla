---------------------------- MODULE Connectors ------------------------------
(***************************************************************************)
(* src/connectors and src/discovery: one call of fetch_records, or of      *)
(* analyze_ngo_website, as it fetches page after page.  Every fetch may    *)
(* fail, and may be redirected; what a page says and what an AI provider   *)
(* answers is chosen at each step.                                         *)
(***************************************************************************)
EXTENDS Extraction

CONSTANTS
    Source,          \* what GrantSource rows (or profiles) may configure
    Web,             \* of each address, the replies that fetch_url may return
    Answer,          \* what AIProvider.complete may return
    HostOf,          \* netloc
    Relevant,        \* the addresses that link_contains or _looks_relevant accepts
    MAX_PAGES,       \* max_detail_pages, MAX_ADDITIONAL_PAGES
    Hits,            \* what search2 of grants.gov may return
    Fixture          \* the records of sample_source.json

(* A reply is a page or none, and lists are lists.  A page is broken when  *)
(* it cannot be read: a PDF that opens and whose pages then raise, a link  *)
(* that urljoin refuses.                                                   *)
ASSUME ConnectorsAssumption ==
    /\ \A u \in Url : \A r \in Web[u] :
           r # None => /\ IsSeq(r.text) /\ IsSeq(r.title) /\ IsSeq(r.links)
                       /\ r.broken \in BOOLEAN
    /\ \A s \in Source : IsSeq(s.seeds)
    /\ \A a \in Answer : a.kind \in {"fields", "refusal", "nothing"}
    /\ \A h \in Hits : IsSeq(h)
    /\ Fixture = None \/ IsSeq(Fixture)
    /\ MAX_PAGES \in Nat

VARIABLES source, pc, todo, records, read, analysis

vars == <<source, pc, todo, records, read, analysis>>

(* read, a history: the pages that were fetched, with the link followed    *)
(* and the answer of the provider.  A record holds the index of its page.  *)
Init ==
    /\ source \in Source
    /\ pc = "start" /\ todo = <<>> /\ records = <<>> /\ read = <<>> /\ analysis = None

Listing == {"listing_page_discovery", "pdf_listing_discovery"}
Paged == Listing \cup {"web_discovery"}

(* A provider is passed on when the row names an NGO that has one. *)
AnswerTo == IF source.ai THEN Answer ELSE {a \in Answer : a.kind = "nothing"}

(* fetch_url refuses a type that was not asked for: None. *)
ReplyTo(url, types) == {r \in Web[url] : r = None \/ r.type \in types}

End(outcome) == pc' = outcome /\ UNCHANGED <<source, todo>>

(* What was read so far is lost with the call. *)
Raise == End("raised") /\ records' = <<>>

(* extract_page: the links of a page to its own site, each once; here      *)
(* their places on the page.                                               *)
Links(reply) ==
    {i \in DOMAIN reply.links : /\ HostOf[reply.links[i]] = HostOf[reply.url]
                                /\ \A j \in 1 .. i - 1 : reply.links[j] # reply.links[i]}

DetailLinks(reply) ==
    LET order == InOrder({i \in Links(reply) : reply.links[i] \in Relevant})
    IN  [k \in {n \in DOMAIN order : n <= MAX_PAGES} |-> reply.links[order[k]]]

-----------------------------------------------------------------------------
NotConfigured ==
    /\ pc = "start"
    /\ \/ source.kind \in Listing /\ source.entry = None
       \/ source.kind = "web_discovery" /\ source.seeds = <<>>
       \/ source.kind = "sample_fixture" /\ Fixture = None
    /\ End("not configured") /\ UNCHANGED <<records, read, analysis>>

(* The page that a listing, or a website, starts from. *)
FetchEntry(reply) ==
    /\ pc = "start" /\ source.kind \in Listing \cup {"website"} /\ source.entry # None
    /\ reply \in ReplyTo(source.entry, {"html"})
    /\ \/ reply = None /\ End("unavailable") /\ UNCHANGED <<records, read>>
       \/ reply # None /\ reply.broken /\ Raise /\ UNCHANGED read
       \/ /\ reply # None /\ ~reply.broken
          /\ pc' = "pages" /\ todo' = DetailLinks(reply)
          /\ read' = IF source.kind = "website"
                     THEN <<[link |-> source.entry, reply |-> reply, answer |-> None]>> ELSE read
          /\ UNCHANGED <<source, records>>
    /\ UNCHANGED analysis

BeginSeeds ==
    /\ pc = "start" /\ source.kind = "web_discovery" /\ source.seeds # <<>>
    /\ pc' = "pages" /\ todo' = source.seeds
    /\ UNCHANGED <<source, records, read, analysis>>

(* extraction_method is "ai_inferred" for "ai"; external_id stands for a   *)
(* hash of the address that the page came from in the end.                 *)
RecordOf(reply, found) ==
    [external_id |-> reply.url, method |-> IF found.method = "ai" THEN "ai_inferred" ELSE found.method,
     title |-> IF found.title # <<>> THEN found.title ELSE <<reply.url>>,
     funder |-> found.funder, deadline |-> found.deadline, country |-> found.country,
     status |-> "unknown", extraction |-> found.status, page |-> Len(read) + 1]

(* Mutant: a page that cannot be fetched ends the run. *)
SkipByReturn == End("done")

(* The loop goes on with the next link when this one gave no page. *)
Skip == todo' = Tail(todo) /\ UNCHANGED <<source, pc>>

(* One round of the loop over detail_urls or seed_urls. *)
FetchPage(reply, answer) ==
    LET found == Extract(reply.text, reply.title, reply.url, answer)
        got == reply # None /\ (reply.broken \/ reply.text # <<>>)
        raises == reply.broken \/ found.status = "raises"
    IN  /\ pc = "pages" /\ todo # <<>> /\ source.kind \in Paged
        /\ reply \in ReplyTo(Head(todo), IF source.kind = "pdf_listing_discovery"
                                         THEN {"html", "pdf"} ELSE {"html"})
        /\ \/ ~got /\ Skip /\ UNCHANGED <<records, read>>
           \/ /\ got
              /\ read' = Append(read, [link |-> Head(todo), reply |-> reply, answer |-> answer])
              /\ \/ raises /\ Raise
                 \/ /\ ~raises
                    /\ records' = IF found.status = "rejected" THEN records
                                  ELSE Append(records, RecordOf(reply, found))
                    /\ todo' = Tail(todo) /\ UNCHANGED <<source, pc>>
        /\ UNCHANGED analysis

FetchSubPage(reply) ==
    /\ pc = "pages" /\ todo # <<>> /\ source.kind = "website"
    /\ reply \in ReplyTo(Head(todo), {"html"})
    /\ \/ reply = None /\ Skip /\ UNCHANGED <<records, read>>
       \/ /\ reply # None
          /\ read' = Append(read, [link |-> Head(todo), reply |-> reply, answer |-> None])
          /\ \/ reply.broken /\ Raise
             \/ ~reply.broken /\ todo' = Tail(todo) /\ UNCHANGED <<source, pc, records>>
    /\ UNCHANGED analysis

(* The texts of the pages are analysed together. *)
Analyze(answer) ==
    /\ pc = "pages" /\ todo = <<>> /\ source.kind = "website"
    /\ LET found == AnalyzeText(FlattenSeq([i \in DOMAIN read |-> read[i].reply.text]), answer)
       IN  \/ found.method = "raises" /\ Raise /\ UNCHANGED analysis
           \/ /\ found.method # "raises" /\ analysis' = found
              /\ End("done") /\ UNCHANGED records
    /\ UNCHANGED read

Return ==
    /\ pc = "pages" /\ todo = <<>> /\ source.kind \in Paged
    /\ End("done") /\ UNCHANGED <<records, read, analysis>>

-----------------------------------------------------------------------------
(* GrantsGovAPIConnector: a search, then the details of each hit.  The     *)
(* search may fail, or answer with something that is no JSON: it raises.   *)
Search(hits) ==
    /\ pc = "start" /\ source.kind = "grants_gov_api"
    /\ \/ hits = None /\ End("raised")
       \/ hits # None /\ pc' = "hits" /\ todo' = hits /\ UNCHANGED source
    /\ UNCHANGED <<records, read, analysis>>

STATUS_MAP(status) ==
    CASE status = "posted" -> "open" [] status = "archived" -> "expired"
      [] status \in {"forecasted", "closed"} -> status [] OTHER -> "unknown"

Detail == {None, "synopsis", NotText}

(* _fetch_detail catches what goes wrong in it: detail is then None.  Data *)
(* that are no object raise in the caller.                                 *)
FetchHit(detail) ==
    LET hit == Head(todo) IN
    /\ pc = "hits" /\ todo # <<>>
    /\ detail \in IF hit.id # None /\ source.details THEN Detail ELSE {None}
    /\ \/ detail = NotText /\ Raise
       \/ /\ detail # NotText
          /\ todo' = Tail(todo) /\ UNCHANGED <<source, pc>>
          /\ records' =
                 IF hit.id = None THEN records
                 ELSE Append(records,
                          [external_id |-> hit.id, method |-> "direct", title |-> hit.title,
                           funder |-> None, deadline |-> hit.close,
                           country |-> "United States", status |-> STATUS_MAP(hit.status),
                           extraction |-> IF detail # None THEN "complete" ELSE "partial",
                           page |-> 0])
    /\ UNCHANGED <<read, analysis>>

HitsDone == pc = "hits" /\ todo = <<>> /\ End("done") /\ UNCHANGED <<records, read, analysis>>

ReadFixture ==
    /\ pc = "start" /\ source.kind = "sample_fixture" /\ Fixture # None
    /\ records' = [i \in DOMAIN Fixture |->
           [external_id |-> Fixture[i].id, method |-> "direct", title |-> Fixture[i].title,
            funder |-> None, deadline |-> Fixture[i].close, country |-> "unknown",
            status |-> "unknown", extraction |-> "complete", page |-> 0]]
    /\ End("done") /\ UNCHANGED <<read, analysis>>

Next ==
    \/ NotConfigured \/ BeginSeeds \/ Return \/ HitsDone \/ ReadFixture
    \/ \E reply \in UNION {Web[u] : u \in Url} :
           \/ FetchEntry(reply) \/ FetchSubPage(reply)
           \/ \E answer \in AnswerTo : FetchPage(reply, answer)
    \/ \E answer \in AnswerTo : Analyze(answer)
    \/ \E hits \in Hits \cup {None} : Search(hits)
    \/ \E detail \in Detail : FetchHit(detail)

Spec == Init /\ [][Next]_vars /\ WF_vars(Next)

Ended == pc \in {"done", "raised", "unavailable", "not configured"}

-----------------------------------------------------------------------------
TypeOK ==
    /\ pc \in {"start", "pages", "hits", "done", "raised", "unavailable", "not configured"}
    /\ Len(todo) <= MAX_PAGES \/ source.kind \notin Listing
    /\ \A i \in DOMAIN records :
           /\ records[i].method \in {"direct", "ai_inferred", "rule_based"}
           /\ records[i].extraction \in {"complete", "partial"}
           /\ records[i].country \in {"India", "United States", "unknown"}
           /\ records[i].status \in {"forecasted", "open", "closed", "expired", "unknown"}

PageOf(record) == read[record.page]
ByRules(record) == record.method = "rule_based"

(* A word of the page that stands near one that holds a marker. *)
Near(text, i, markers) ==
    \E j \in DOMAIN text : /\ Inside(text[j]) \cap ToSet(markers) # {}
                           /\ i + Before >= j /\ i < j + After

(* A word in which the name of a place is found. *)
OfPlace(word) == Inside(word) \cap LOCATION_KEYWORDS # {}

(* What the rules put into a record stands on its page, where it speaks of *)
(* the opportunity: a deadline near a deadline marker if the page has one; *)
(* a country in a word that contains the name of a place, in the title or  *)
(* near a marker (or it is that of the host), and never only in what the   *)
(* site says of itself; the words of a funder after a marker.  The country *)
(* of a record by AI stands in its answer or is that of the host.          *)
FieldsHaveEvidence ==
    \A k \in DOMAIN records : LET r == records[k]
                                  text == PageOf(r).reply.text
                                  answer == PageOf(r).answer
                              IN
        /\ ByRules(r) /\ r.deadline # None =>
               \E i \in DOMAIN text : /\ text[i] \in Dates /\ IsoOf[text[i]] = r.deadline
                                      /\ \/ Near(text, i, DEADLINE)
                                         \/ \A m \in ToSet(DEADLINE) : ~Holds(text, m)
        /\ ByRules(r) /\ r.country = "India" =>
               \/ r.external_id \in IndianHost
               \/ \E word \in ToSet(PageOf(r).reply.title) : OfPlace(word)
               \/ \E i \in DOMAIN text : OfPlace(text[i]) /\ Near(text, i, ELIGIBILITY \o DEADLINE)
        /\ ByRules(r) /\ r.funder # None =>
               \E i, j \in DOMAIN text : /\ Inside(text[i]) \cap ToSet(FUNDER) # {} /\ i < j
                                         /\ r.funder = SubSeq(text, i + 1, j)
                                         /\ ToSet(r.funder) \cap BOUNDARY = {}
        /\ r.method = "ai_inferred" /\ r.country = "India" =>
               \/ r.external_id \in IndianHost
               \/ \E word \in ToSet(answer.title \o answer.eligibility \o answer.description) :
                      OfPlace(word)

(* "Never fabricates a country -- India only when the page text names      *)
(* India or an Indian state/city" (src/ai/research.py:256): a place is     *)
(* named by a word of its own.  A page whose deadline stands beside        *)
(* "goals" refutes it.                                                     *)
CountryIsNamed ==
    \A k \in DOMAIN records : LET r == records[k] IN
        ByRules(r) /\ r.country = "India" =>
            \/ r.external_id \in IndianHost
            \/ ToSet(PageOf(r).reply.title \o PageOf(r).reply.text) \cap LOCATION_KEYWORDS # {}

(* What ends a run early, of a page that was fetched. *)
Breaks(p) == p.reply.broken \/ Malformed(p.answer)

(* Whether a page that was read should become a record. *)
Accepted(p) ==
    \/ p.answer.kind = "fields"
    \/ p.answer.kind = "nothing" /\
           \E m \in GRANT_SIGNAL \cup ToSet(ELIGIBILITY) \cup ToSet(DEADLINE) : Holds(p.reply.text, m)

(* A listing gives the same external_id twice only for two links, of which *)
(* one at least was redirected.                                            *)
RepeatsAreRedirects ==
    source.kind \in Listing =>
        \A i, j \in DOMAIN records :
            i # j /\ records[i].external_id = records[j].external_id =>
                PageOf(records[i]).link # PageOf(records[j]).link

(* A page that cannot be fetched, is empty or is rejected takes no other   *)
(* page with it: each page that speaks of a grant is one record, in order, *)
(* marked with the way it was read.  A page that is broken, or an answer   *)
(* of the wrong types, and nothing else, takes them all (or the listing    *)
(* itself is broken, and no page was read).                                *)
PagesIndependent ==
    /\ TypeOK
    /\ RepeatsAreRedirects
    /\ source.kind \in Paged =>
        /\ pc = "raised" => records = <<>>
        /\ pc = "raised" /\ read # <<>> <=> \E j \in DOMAIN read : Breaks(read[j])
        /\ pc # "raised" =>
               {records[k].page : k \in DOMAIN records} = {j \in DOMAIN read : Accepted(read[j])}
        /\ \A k, l \in DOMAIN records : k < l => records[k].page < records[l].page
        /\ \A k \in DOMAIN records :
               ByRules(records[k]) <=> PageOf(records[k]).answer.kind = "nothing"

(* "Never raises -- a corrupt/encrypted/unreadable PDF returns ''"         *)
(* (src/discovery/pdf_extract.py:33): no PDF ends a run.  A PDF that opens *)
(* and whose pages cannot be read refutes it.                              *)
PdfNeverRaises == \A j \in DOMAIN read : read[j].reply.type = "pdf" => ~(pc = "raised" /\ Breaks(read[j]))

(* "ALWAYS fall back to a deterministic, keyword/regex-based method if the *)
(* provider [...] returns output that cannot be parsed" (src/ai/           *)
(* research.py:3): no answer ends a run.  One whose title, eligibility or  *)
(* description is an object refutes it.                                    *)
AlwaysFallsBack == \A j \in DOMAIN read : ~(pc = "raised" /\ source.kind \in Paged /\ Malformed(read[j].answer))

(* A run that is done has asked for each address it was given, fetched or  *)
(* not, and a website is analysed from all pages it got: what stands on    *)
(* any of them is found, up to the limit and in the order of the           *)
(* vocabulary, and nothing else.                                           *)
EveryLinkFollowed ==
    /\ [][pc = "start" \/ todo' = todo \/ (todo # <<>> /\ todo' = Tail(todo))]_vars
    /\ [](pc = "done" => todo = <<>>)
    /\ [](analysis # None /\ analysis.method = "rule_based" =>
              \A k \in DOMAIN FOCUS_AREAS :
                  IF Contains(analysis.areas, FOCUS_AREAS[k])
                  THEN \E j \in DOMAIN read : Holds(read[j].reply.text, FOCUS_AREAS[k])
                  ELSE \/ \A j \in DOMAIN read : ~Holds(read[j].reply.text, FOCUS_AREAS[k])
                       \/ /\ Len(analysis.areas) = HITS_MAX
                          /\ ToSet(analysis.areas) \subseteq {FOCUS_AREAS[i] : i \in 1 .. k - 1})
    /\ <>Ended

=============================================================================
