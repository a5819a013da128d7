---------------------------- MODULE MCConnectors ----------------------------
(***************************************************************************)
(* A listing with two details, one of them redirected to the other, on a   *)
(* site whose own address names India; a second site in an Indian domain.  *)
(***************************************************************************)
EXTENDS Connectors

CONSTANTS list, page1, page2, page3, notText

Eligibility == <<"eligib">>
Deadlines == <<"deadline", "apply by">>
Funders == <<"funder:", "funded by">>
Areas == <<"health", "water", "youth">>

(* The terms inside a word: "goals" contains the name of a state. *)
WordInside(word) == IF word = "goals" THEN {"goa"} ELSE {word}

Hosts == [u \in Url |-> IF u = page3 THEN "in" ELSE "org"]

Patterns == ("2026-10-13" :> 1) @@ ("10/13/2026" :> 2) @@ ("13 Oct , 2026" :> 5)
Isos == ("2026-10-13" :> <<2026, 10, 13>>) @@ ("10/13/2026" :> <<2026, 10, 13>>)
        @@ ("13 Oct , 2026" :> None)

P(url, type, title, text, links) ==
    [url |-> url, type |-> type, title |-> title, text |-> text, links |-> links,
     broken |-> FALSE]
Broken(page) == [page EXCEPT !.text = <<>>, !.broken = TRUE]

Grant(url) ==
    P(url, "html", <<>>,
      <<"India", "nav", "grant", "funded by", "Acme", "deadline", "10/13/2026", "eligib", "health">>, <<>>)
News(url) == P(url, "html", <<"India">>, <<"health", "2026-10-13">>, <<>>)
Plain(url) ==
    P(url, "html", <<>>, <<"India", "nav", "water", "funder:", "the", "funded by", "Acme", "grant",
                           "13 Oct , 2026", "2026-10-13">>, <<>>)
Pdf(url) == P(url, "pdf", <<"India">>, <<"eligib">>, <<>>)
Goals(url) == P(url, "html", <<>>, <<"youth", "goals", "deadline", "2026-10-13">>, <<>>)
Blank(url) == P(url, "html", <<>>, <<>>, <<>>)
Index ==
    P(list, "html", <<>>, <<"water">>, <<page1, page1, page3, list, page2, page2>>)

Internet ==
    [u \in Url |-> CASE u = list -> {None, Index, Broken(Index)}
                     [] u = page1 -> {None, Grant(page1), Grant(page2), Blank(u), Plain(page1)}
                     [] u = page2 -> {None, Grant(page2), News(u), Goals(u), Pdf(u), Broken(Pdf(u)),
                                       Broken(News(u))}
                     [] u = page3 -> {None, Plain(page3), News(u), Broken(News(u))}]

A(kind, title, eligibility) ==
    [kind |-> kind, title |-> title, eligibility |-> eligibility, description |-> <<>>,
     funder |-> None, deadline |-> None]
Answers ==
    {A("nothing", <<>>, <<>>), A("refusal", <<>>, <<>>), A("fields", <<"grant">>, <<>>),
     A("fields", <<>>, <<"India">>), A("fields", <<>>, notText)}

S(kind, entry, seeds, ai) ==
    [kind |-> kind, entry |-> entry, seeds |-> seeds, ai |-> ai, details |-> ai]
Sources ==
    {S(k, list, <<>>, ai) : k \in Listing \cup {"website", "grants_gov_api"}, ai \in BOOLEAN}
    \cup {S(k, None, <<>>, FALSE) : k \in Listing \cup {"web_discovery", "sample_fixture"}}
    \cup {S("web_discovery", None, <<page3, page1, page3>>, ai) : ai \in BOOLEAN}

H(id, status) == [id |-> id, title |-> <<"grant">>, status |-> status, close |-> None]
SearchHits == {<<>>, <<H(None, "posted")>>, <<H(1, "posted"), H(2, "archived")>>,
               <<H(3, "draft")>>}
Sample == <<H(1, "posted"), H(2, "posted")>>

=============================================================================
