---------------------------- MODULE NgoProfiles -----------------------------
(***************************************************************************)
(* api/routers/ngo_profile.py, api/routers/website_analysis.py and         *)
(* src/discovery/website_analyzer.py: the profile of an NGO, the proposals *)
(* read from its website and their application to the profile.             *)
(***************************************************************************)
EXTENDS AIConfig

CONSTANTS
    Payload,    \* bodies of POST and PUT /ngo-profile
    Site,       \* what may be found at a website: see Finding
    Lower(_)    \* str.lower

Field == {"focus_areas", "locations", "beneficiaries"}

VARIABLE analyses   \* website_analyses, in the order of creation

NgoProfilesInit == analyses = <<>>

CreateNgoProfile(w, n, p) ==
    /\ profile[n] = None
    /\ Begin(w, [pc |-> "create", ngo |-> n, new |-> p])
    /\ UNCHANGED <<profile, aiVars, analyses>>

CreateCommit(w) ==
    /\ thread[w].pc = "create"
    /\ profile' = [profile EXCEPT ![thread[w].ngo] = IF @ = None THEN thread[w].new ELSE @]
    /\ End(w)
    /\ UNCHANGED <<aiVars, analyses>>

(* PUT replaces every field by the payload's. *)
UpdateNgoProfile(w, n, p) ==
    /\ profile[n] # None
    /\ Begin(w, [pc |-> "update", ngo |-> n, loaded |-> profile[n], new |-> p])
    /\ UNCHANGED <<profile, aiVars, analyses>>

UpdateCommit(w) ==
    /\ thread[w].pc = "update"
    /\ profile' = [profile EXCEPT ![thread[w].ngo] = Written(@, thread[w].loaded, thread[w].new)]
    /\ End(w)
    /\ UNCHANGED <<aiVars, analyses>>

-----------------------------------------------------------------------------
(* analyze_website                                                         *)

(* analyze_ngo_website: nothing if the homepage cannot be fetched; pages   *)
(* below it that fail are skipped.  The lists come from the text of what   *)
(* was fetched.                                                            *)
Finding(site, pages, ai) ==
    IF "home" \notin pages
    THEN [lists |-> [f \in Field |-> <<>>], method |-> "rule_based", error |-> TRUE]
    ELSE [lists |-> site, method |-> IF ai THEN "ai" ELSE "rule_based", error |-> FALSE]

(* Without a configuration that is enabled there is no provider.           *)
AnalyzeWebsite(w, n) ==
    /\ profile[n] # None /\ profile[n].website_url # None
    /\ Begin(w, [op |-> "analyze", ngo |-> n, url |-> profile[n].website_url, loaded |-> config[n],
                 pc |-> IF config[n] # None /\ config[n].is_enabled THEN "crypt" ELSE "analyze",
                 provider |-> FALSE])
    /\ UNCHANGED <<profile, aiVars, analyses>>

(* get_provider_for_ngo: nor if the key cannot be decrypted. *)
GetProvider(w) ==
    /\ thread[w].pc = "use" /\ thread[w].op = "analyze"
    /\ Continue(w, [thread[w] EXCEPT !.pc = "analyze", !.provider = Opens(Home(w), thread[w].loaded.api_key)])
    /\ UNCHANGED <<profile, aiVars, analyses>>

(* The fetches take their time; the proposal is stored even if they fail,  *)
(* dismissed at once.  answered: the provider, if any, gave an answer that *)
(* could be used.                                                          *)
AnalyzeCommit(w, pages, answered) ==
    /\ thread[w].pc = "analyze"
    /\ LET found == Finding(Site[thread[w].url], pages, thread[w].provider /\ answered)
       IN analyses' = Append(analyses,
             [ngo |-> thread[w].ngo, detected |-> found.lists, method |-> found.method,
              status |-> IF found.error THEN "dismissed" ELSE "pending_review"])
    /\ End(w)
    /\ UNCHANGED <<profile, aiVars>>

-----------------------------------------------------------------------------
(* apply_website_analysis                                                  *)

(* The positions of the entries to append: those spelt like none that is   *)
(* there and like none before them.                                        *)
Fresh(existing, new) ==
    {i \in DOMAIN new : /\ \A j \in DOMAIN existing : Lower(existing[j]) # Lower(new[i])
                        /\ \A j \in 1..(i - 1) : Lower(new[j]) # Lower(new[i])}

Merge(existing, new) ==
    LET order == InOrder(Fresh(existing, new))
    IN existing \o [k \in DOMAIN order |-> new[order[k]]]

(* Any analysis of the NGO may be applied, whatever its status. *)
ApplyWebsiteAnalysis(w, a, fields) ==
    LET n == analyses[a].ngo
    IN /\ Begin(w, [pc |-> "apply", ngo |-> n, analysis |-> a, loaded |-> profile[n],
                    new |-> [c \in DOMAIN profile[n] |->
                                IF c \in fields
                                THEN Merge(profile[n][c], analyses[a].detected[c])
                                ELSE profile[n][c]]])
       /\ UNCHANGED <<profile, aiVars, analyses>>

(* Mutant: the whole row is written back. *)
ApplyCommitRow(w) ==
    /\ thread[w].pc = "apply"
    /\ profile' = [profile EXCEPT ![thread[w].ngo] = thread[w].new]
    /\ analyses' = [analyses EXCEPT ![thread[w].analysis].status = "applied"]
    /\ End(w)
    /\ UNCHANGED aiVars

ApplyCommit(w) ==
    /\ thread[w].pc = "apply"
    /\ profile' = [profile EXCEPT ![thread[w].ngo] = Written(@, thread[w].loaded, thread[w].new)]
    /\ analyses' = [analyses EXCEPT ![thread[w].analysis].status = "applied"]
    /\ End(w)
    /\ UNCHANGED aiVars

-----------------------------------------------------------------------------
NgoProfilesNext ==
    \E w \in Worker :
        \/ \E n \in Ngo, p \in Payload : CreateNgoProfile(w, n, p) \/ UpdateNgoProfile(w, n, p)
        \/ CreateCommit(w) \/ UpdateCommit(w)
        \/ \E n \in Ngo : AnalyzeWebsite(w, n)
        \/ GetProvider(w)
        \/ \E pages \in {{}, {"home"}}, answered \in BOOLEAN : AnalyzeCommit(w, pages, answered)
        \/ \E a \in DOMAIN analyses, fields \in SUBSET Field : ApplyWebsiteAnalysis(w, a, fields)
        \/ ApplyCommit(w)

-----------------------------------------------------------------------------
Entries(list) == {list[i] : i \in DOMAIN list}

(* An entry leaves a list only by an update, or by an application that had *)
(* loaded the list before the entry was in it and writes that very list.   *)
(* The second is an exception that website_analysis.py:72-76 does not      *)
(* make: see ManualEntriesKept.                                            *)
EntriesKept ==
    [][\A n \in Ngo, f \in Field : (profile[n] # None /\ profile'[n] # profile[n]) =>
          \A e \in Entries(profile[n][f]) \ Entries(profile'[n][f]) :
             \E w \in Worker :
                /\ thread[w].pc \in {"update", "apply"} /\ thread[w].ngo = n
                /\ thread'[w] = Idle
                /\ \/ thread[w].pc = "update"
                   \/ e \notin Entries(thread[w].loaded[f]) /\ thread[w].new[f] # thread[w].loaded[f]
      ]_<<profile, thread>>

(* "A user's own manual entries are never discarded" (website_analysis.py: *)
(* 72-76): whatever the profile holds when an application commits is still *)
(* in it afterwards.  An update between its load and its commit refutes    *)
(* it: the application writes the list it loaded, and what it adds.        *)
ManualEntriesKept ==
    \A w \in Worker : thread[w].pc = "apply" =>
        LET now == profile[thread[w].ngo]
            committed == Written(now, thread[w].loaded, thread[w].new)
        IN  \A f \in Field : Entries(now[f]) \subseteq Entries(committed[f])

(* Applying a proposal adds no second spelling to the list it loaded: the  *)
(* user has typed any two spellings that a profile has.                    *)
NoSecondSpelling ==
    [][\A n \in Ngo, f \in Field : (profile[n] # None /\ profile'[n][f] # profile[n][f]) =>
          \/ \E w \in Worker : thread[w].pc = "update" /\ thread[w].ngo = n /\ thread'[w] = Idle
          \/ \A i, j \in DOMAIN profile'[n][f] :
                (i < j /\ Lower(profile'[n][f][i]) = Lower(profile'[n][f][j])) =>
                \E w \in Worker : /\ thread[w].pc = "apply" /\ thread[w].ngo = n
                                  /\ j <= Len(thread[w].loaded[f])
      ]_<<profile, thread>>

=============================================================================
