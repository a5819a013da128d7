----------------------------- MODULE Bookmarks ------------------------------
(***************************************************************************)
(* api/routers/saved.py and api/routers/feedback.py: the opportunities an  *)
(* NGO has saved, hidden or reported.  Both tables have a unique target,   *)
(* which the handlers look up before they insert.                          *)
(***************************************************************************)
EXTENDS Requests

CONSTANTS
    SavePayload,      \* bodies of POST /saved: [source, opp, ref]
    Imported,         \* ids of the rows of imported_grants
    Corpus,           \* opportunity ids of the historical corpus
    Status,           \* values of status; "saved" is the default
    Note,             \* values of notes
    FeedbackPayload   \* bodies of POST /feedback: [source, ref, type]

VARIABLES
    saved,     \* saved_opportunities: a row for each saved_id so far, or None
    feedback,  \* opportunity_feedback: likewise
    removed    \* history: the ids of saved whose removal was answered

bookmarkVars == <<saved, feedback, removed>>

BookmarksInit == saved = <<>> /\ feedback = <<>> /\ removed = {}

Rows(table) == {i \in DOMAIN table : table[i] # None}

-----------------------------------------------------------------------------
(* Saved opportunities                                                     *)

(* The reference of a historical opportunity defaults to its number.       *)
Ref(p) == IF p.source = "historical" /\ p.ref = None THEN p.opp ELSE p.ref

Acceptable(p) == IF p.source = "imported" THEN p.ref \in Imported ELSE p.opp \in Corpus

NewSaved(n, p) == [ngo |-> n, source |-> p.source, ref |-> Ref(p), status |-> "saved", notes |-> None]

SameTarget(r, s) == r.ngo = s.ngo /\ r.source = s.source /\ r.ref = s.ref

SaveOpportunity(w, n, p) ==
    /\ profile[n] # None /\ Acceptable(p)
    /\ \A i \in Rows(saved) : ~SameTarget(saved[i], NewSaved(n, p))
    /\ Begin(w, [pc |-> "save", row |-> NewSaved(n, p)])
    /\ UNCHANGED bookmarkVars

(* Mutant: no unique constraint. *)
SaveCommitAnyway(w) ==
    /\ thread[w].pc = "save"
    /\ saved' = Append(saved, thread[w].row)
    /\ End(w)
    /\ UNCHANGED <<feedback, removed>>

(* The unique constraint refuses what was saved meanwhile (IntegrityError). *)
SaveCommit(w) ==
    /\ thread[w].pc = "save"
    /\ saved' = IF \E i \in Rows(saved) : SameTarget(saved[i], thread[w].row) THEN saved
                ELSE Append(saved, thread[w].row)
    /\ End(w)
    /\ UNCHANGED <<feedback, removed>>

UpdateSavedOpportunity(w, i, status, notes) ==
    /\ i \in Rows(saved)
    /\ Begin(w, [pc |-> "edit", id |-> i, loaded |-> saved[i], status |-> status,
                 new |-> [saved[i] EXCEPT !.status = IF status = None THEN @ ELSE status,
                                          !.notes = IF notes = None THEN @ ELSE notes]])
    /\ UNCHANGED bookmarkVars

(* Mutant: every column is written. *)
UpdateSavedCommitRow(w) ==
    /\ thread[w].pc = "edit"
    /\ saved' = IF saved[thread[w].id] = None THEN saved
                ELSE [saved EXCEPT ![thread[w].id] = thread[w].new]
    /\ End(w)
    /\ UNCHANGED <<feedback, removed>>

(* An UPDATE that finds no row raises StaleDataError. *)
UpdateSavedCommit(w) ==
    /\ thread[w].pc = "edit"
    /\ saved' = IF saved[thread[w].id] = None THEN saved
                ELSE [saved EXCEPT ![thread[w].id] = Written(@, thread[w].loaded, thread[w].new)]
    /\ End(w)
    /\ UNCHANGED <<feedback, removed>>

RemoveSavedOpportunity(w, i) ==
    /\ i \in Rows(saved)
    /\ Begin(w, [pc |-> "remove", id |-> i])
    /\ UNCHANGED bookmarkVars

(* A DELETE that finds no row is only warned about: both are answered 204. *)
RemoveSavedCommit(w) ==
    /\ thread[w].pc = "remove"
    /\ saved' = [saved EXCEPT ![thread[w].id] = None]
    /\ removed' = removed \cup {thread[w].id}
    /\ End(w)
    /\ UNCHANGED feedback

-----------------------------------------------------------------------------
(* Hidden and reported opportunities                                       *)

NewFeedback(n, p) == [ngo |-> n, source |-> p.source, ref |-> p.ref, type |-> p.type]

(* Hiding twice is a no-op: the handler returns the row it finds. *)
SubmitFeedback(w, n, p) ==
    /\ profile[n] # None
    /\ \A i \in Rows(feedback) : feedback[i] # NewFeedback(n, p)
    /\ Begin(w, [pc |-> "hide", row |-> NewFeedback(n, p)])
    /\ UNCHANGED bookmarkVars

FeedbackCommit(w) ==
    /\ thread[w].pc = "hide"
    /\ feedback' = IF \E i \in Rows(feedback) : feedback[i] = thread[w].row THEN feedback
                   ELSE Append(feedback, thread[w].row)
    /\ End(w)
    /\ UNCHANGED <<saved, removed>>

RemoveFeedback(w, i) ==
    /\ i \in Rows(feedback)
    /\ Begin(w, [pc |-> "unhide", id |-> i])
    /\ UNCHANGED bookmarkVars

RemoveFeedbackCommit(w) ==
    /\ thread[w].pc = "unhide"
    /\ feedback' = [feedback EXCEPT ![thread[w].id] = None]
    /\ End(w)
    /\ UNCHANGED <<saved, removed>>

-----------------------------------------------------------------------------
BookmarksNext ==
    /\ \E w \in Worker :
          \/ \E n \in Ngo, p \in SavePayload : SaveOpportunity(w, n, p)
          \/ \E n \in Ngo, p \in FeedbackPayload : SubmitFeedback(w, n, p)
          \/ \E i \in DOMAIN saved :
                \/ \E s \in Status \cup {None}, t \in Note \cup {None} :
                      UpdateSavedOpportunity(w, i, s, t)
                \/ RemoveSavedOpportunity(w, i)
          \/ \E i \in DOMAIN feedback : RemoveFeedback(w, i)
          \/ SaveCommit(w) \/ UpdateSavedCommit(w) \/ RemoveSavedCommit(w)
          \/ FeedbackCommit(w) \/ RemoveFeedbackCommit(w)
    /\ UNCHANGED profile

-----------------------------------------------------------------------------
(* What a request was answered stays true: what was removed never comes    *)
(* back, however late the commit of a request that had loaded it.          *)
RemovedStaysRemoved == removed \cap Rows(saved) = {}

(* One thing is saved once and hidden once, although every overlapping     *)
(* request looks for the row before it inserts its own: removing the row   *)
(* is enough to have the thing back.                                       *)
OneRowPerTarget ==
    /\ \A i, j \in Rows(saved) : SameTarget(saved[i], saved[j]) => i = j
    /\ \A i, j \in Rows(feedback) : feedback[i] = feedback[j] => i = j

(* The stage of an application moves only as a request asks: an overlapping *)
(* request that edits the notes leaves it alone.                           *)
StageMovesOnRequest ==
    [][\A i \in DOMAIN saved : (saved[i] # None /\ saved'[i] # None) =>
          \/ saved'[i].status = saved[i].status
          \/ \E w \in Worker : /\ thread[w].pc = "edit" /\ thread[w].id = i
                               /\ thread[w].status = saved'[i].status]_<<saved, thread>>

=============================================================================
