----------------------------- MODULE Workspace ------------------------------
(***************************************************************************)
(* The requests of an NGO's workspace together: profile and website        *)
(* analyses, AI provider, saved and hidden opportunities.  The threads of  *)
(* one or several processes serve them all; a restart of a process ends    *)
(* what its threads run.                                                   *)
(***************************************************************************)
EXTENDS NgoProfiles, Bookmarks

vars == <<thread, calls, profile, aiVars, analyses, bookmarkVars>>

(* Earlier requests may have created the profile. *)
Init ==
    /\ thread = [w \in Worker |-> Idle]
    /\ calls = 0
    /\ profile \in [Ngo -> Payload \cup {None}]
    /\ AIConfigInit /\ NgoProfilesInit /\ BookmarksInit

Next ==
    \/ AIConfigNext /\ UNCHANGED <<analyses, bookmarkVars>>
    \/ NgoProfilesNext /\ UNCHANGED bookmarkVars
    \/ BookmarksNext /\ UNCHANGED <<aiVars, analyses>>

Spec == Init /\ [][Next]_vars

-----------------------------------------------------------------------------
Word == UNION {Entries(p[f]) : p \in Payload, f \in Field}
        \cup UNION {Entries(Site[u][f]) : u \in DOMAIN Site, f \in Field}

NGOProfile == [website_url : DOMAIN Site \cup {None}, focus_areas : Seq(Word),
               locations : Seq(Word), beneficiaries : Seq(Word)]

Key == [maker : Process \cup {"environment"}, number : Nat]

Ciphertext == [under : Key, text : ApiKey, nonce : Worker \X Nat]

AIProviderConfig ==
    [api_key : Ciphertext, is_enabled : BOOLEAN,
     last_test_status : {"untested", "ok", "failed"},
     last_test_message : {None, "connected", "refused", "undecryptable"}, last_tested_at : BOOLEAN]

WebsiteAnalysis == [ngo : Ngo, detected : [Field -> Seq(Word)], method : {"ai", "rule_based"},
                    status : {"pending_review", "applied", "dismissed"}]

SavedOpportunity == [ngo : Ngo, source : {"historical", "imported"}, ref : Imported \cup Corpus,
                     status : Status, notes : Note \cup {None}]

OpportunityFeedback == [ngo : Ngo, source : {"historical", "imported"}, ref : Imported \cup Corpus,
                        type : {"hidden", "reported_incorrect"}]

(* What a request may carry (api/models/schemas.py), and None, are told    *)
(* apart by their types; a new row of saved_opportunities is "saved".      *)
ASSUME WorkspaceAssumption ==
    /\ Deployments \subseteq [home : [Worker -> Process], env_key : BOOLEAN]
    /\ "environment" \notin Process
    /\ Payload \subseteq NGOProfile
    /\ \A u \in DOMAIN Site : Site[u] \in [Field -> Seq(Word)]
    /\ SavePayload \subseteq [source : {"historical", "imported"}, opp : Corpus \cup {None},
                             ref : Imported \cup Corpus \cup {None}]
    /\ FeedbackPayload \subseteq [source : {"historical", "imported"}, ref : Imported \cup Corpus,
                                 type : {"hidden", "reported_incorrect"}]
    /\ "saved" \in Status
    /\ None \notin Key \cup NGOProfile \cup AIProviderConfig
    /\ None \notin SavedOpportunity \cup OpportunityFeedback

(* Every table holds rows of its type, whoever wrote them last. *)
TypeOK ==
    /\ profile \in [Ngo -> NGOProfile \cup {None}]
    /\ config \in [Ngo -> AIProviderConfig \cup {None}]
    /\ fernet \in [Process -> Key \cup {None}]
    /\ analyses \in Seq(WebsiteAnalysis)
    /\ saved \in Seq(SavedOpportunity \cup {None})
    /\ feedback \in Seq(OpportunityFeedback \cup {None})
    /\ removed \subseteq DOMAIN saved

(* The tables stay sound under any overlap of requests: rows of their      *)
(* type, nothing saved or hidden twice, nothing back that was removed.     *)
RowsSound == TypeOK /\ OneRowPerTarget /\ RemovedStaysRemoved

(* Applying a proposal (website_analysis.py, apply) adds nothing that is   *)
(* there in another spelling, and discards nothing that it had loaded.     *)
MergeSound == EntriesKept /\ NoSecondSpelling

=============================================================================
