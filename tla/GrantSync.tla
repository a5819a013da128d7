----------------------------- MODULE GrantSync -----------------------------
(***************************************************************************)
(* src/ingestion/sync_grants.py: any number of threads run sync_source at  *)
(* the same time, each with a database session of its own, over the tables *)
(* imported_grants, opportunity_changes and grant_sources.                 *)
(*                                                                         *)
(* A session is created with autoflush=False (api/db/session.py:30), so    *)
(* what a sync adds or changes is invisible, to itself as well, until its  *)
(* one commit.  At the commit the ORM writes only the columns whose value  *)
(* differs from the one it loaded, and two inserts of one                  *)
(* (source_id, external_id) raise IntegrityError.                          *)
(***************************************************************************)
EXTENDS Naturals, Sequences, FiniteSets

CONSTANTS
    Source,        \* rows of grant_sources
    BadConnector,  \* the sources whose connector_type the registry lacks
    Ext,           \* values of external_id
    Text,          \* non-empty text values
    Unknown,       \* the text "unknown", the default of RawGrantRecord.country
    Empty,         \* None or ""
    NoDate,        \* a deadline of None
    Absent,        \* no such row
    Worker,        \* threads that may run sync_source
    Feed,          \* the lists of records a connector may return
    MaxNow,        \* bound of the clock
    MaxSyncs       \* bound of the number of calls of sync_source

Key == Source \X Ext

(* Three attributes stand for the seven of _TRACKED_FIELDS: title for      *)
(* those the dedup hash reads (title, funder), description for the other   *)
(* nullable ones, country for the one that is never empty.                 *)
TextAttr == {"title", "description", "country"}
TextValue == Text \cup {Empty}

(* A deadline as text: "date" is YYYY-MM-DD, "datetime" what isoformat     *)
(* prints, "bad" what fromisoformat refuses.                               *)
DeadlineText == [form : {"date", "datetime", "bad"}, day : Nat] \cup {NoDate}
Deadline == Nat \cup {NoDate}
GrantStatus == {"forecasted", "open", "closed", "expired", "unknown"}
Hash == [title : TextValue, deadline : DeadlineText]

Record == [ext : Ext, text : [TextAttr -> TextValue],
           deadline : DeadlineText, status : GrantStatus]

Row == [text : [TextAttr -> TextValue], deadline : Deadline,
        status : GrantStatus, hash : Hash, verified : Nat, updated : Nat]

(* A row of opportunity_changes.  Its change_id is abstracted to the sync  *)
(* that wrote it; a move is <<change_type, old_value, new_value>>.         *)
TextMove == {"title_changed", "description_changed", "country_changed"}
                \X TextValue \X Text
DeadlineMove == {"deadline_changed"} \X Deadline \X Nat
StatusMove == {"reopened", "closed", "status_changed"} \X GrantStatus \X GrantStatus
Change == [sync : Nat, key : Key, move : TextMove \cup DeadlineMove \cup StatusMove]

(* The tracked fields, as the live feed sees them. *)
Fields == TextAttr \cup {"deadline", "status"}
FieldDomain == TextValue \cup Deadline \cup GrantStatus

SourceStatus == {"not_configured", "active", "error"}

ASSUME GrantSyncAssumption ==
    /\ BadConnector \subseteq Source
    /\ Unknown \in Text
    /\ Empty \notin Text \cup Nat \cup GrantStatus
    /\ NoDate \notin Text \cup Nat \cup GrantStatus
    /\ NoDate \notin [form : {"date", "datetime", "bad"}, day : Nat]
    /\ Absent \notin Row \cup Nat \cup [Fields -> FieldDomain]
    /\ Feed \subseteq Seq(Record)
    /\ MaxNow \in Nat
    /\ MaxSyncs \in Nat

VARIABLES
    grants,   \* the committed rows of imported_grants, by (source_id, external_id)
    changes,  \* the committed rows of opportunity_changes
    source,   \* GrantSource.status and GrantSource.last_synced_at
    clock,    \* datetime.utcnow()
    sync,     \* the session and the local variables of each worker
    syncs     \* how many syncs have started

vars == <<grants, changes, source, clock, sync, syncs>>

-----------------------------------------------------------------------------
(* The pure functions of the module.                                       *)

ParseDeadline(d) == IF d = NoDate \/ d.form = "bad" THEN NoDate ELSE d.day

IsoFormat(day) == IF day = NoDate THEN NoDate ELSE [form |-> "datetime", day |-> day]

ComputeDedupHash(title, d) == [title |-> title, deadline |-> d]

ResolveStatus(status, deadline, now) ==
    IF status # "unknown" THEN status
    ELSE IF deadline # NoDate /\ deadline < now THEN "expired" ELSE "unknown"

ClosedLike == {"closed", "expired"}

StatusChangeType(old, new) ==
    CASE old \in ClosedLike /\ new \notin ClosedLike -> "reopened"
      [] old \notin ClosedLike /\ new \in ClosedLike -> "closed"
      [] OTHER -> "status_changed"

TextChangeType(a) ==
    CASE a = "title" -> "title_changed"
      [] a = "description" -> "description_changed"
      [] a = "country" -> "country_changed"

-----------------------------------------------------------------------------
(* _apply_changes: which attributes of a row a record moves, the rows of   *)
(* opportunity_changes that log it, and the row it leaves behind.          *)

Moved(row, rec) == {a \in TextAttr : rec.text[a] # Empty /\ rec.text[a] # row.text[a]}

DeadlineMoves(row, rec) ==
    /\ ParseDeadline(rec.deadline) # NoDate
    /\ ParseDeadline(rec.deadline) # row.deadline

NewStatus(rec, now) == ResolveStatus(rec.status, ParseDeadline(rec.deadline), now)

(* Mutant: a new deadline does not count as a change. *)
ChangedButDeadline(row, rec, now) == Moved(row, rec) # {} \/ NewStatus(rec, now) # row.status

Changed(row, rec, now) ==
    \/ Moved(row, rec) # {}
    \/ DeadlineMoves(row, rec)
    \/ NewStatus(rec, now) # row.status

(* Mutant: the deadline moves without a row of the log. *)
MovesButDeadline(row, rec, now) ==
    {<<TextChangeType(a), row.text[a], rec.text[a]>> : a \in Moved(row, rec)}
    \cup {<<StatusChangeType(row.status, st), row.status, st>> :
              st \in {NewStatus(rec, now)} \ {row.status}}

Moves(row, rec, now) ==
    {<<TextChangeType(a), row.text[a], rec.text[a]>> : a \in Moved(row, rec)}
    \cup {<<"deadline_changed", row.deadline, d>> :
              d \in {ParseDeadline(rec.deadline)} \ {NoDate, row.deadline}}
    \cup {<<StatusChangeType(row.status, st), row.status, st>> :
              st \in {NewStatus(rec, now)} \ {row.status}}

ApplyChanges(row, rec, now) ==
    LET text == [a \in TextAttr |->
                    IF a \in Moved(row, rec) THEN rec.text[a] ELSE row.text[a]]
        deadline == IF DeadlineMoves(row, rec) THEN ParseDeadline(rec.deadline)
                    ELSE row.deadline
    IN [text |-> text, deadline |-> deadline, status |-> NewStatus(rec, now),
        hash |-> IF Changed(row, rec, now)
                 THEN ComputeDedupHash(text["title"], IsoFormat(deadline)) ELSE row.hash,
        verified |-> now,
        updated |-> IF Changed(row, rec, now) THEN now ELSE row.updated]

(* Mutants: no deadline is stored as an empty text; last_verified_at is    *)
(* left unset.                                                             *)
ImportedGrantUnparsed(rec, now) ==
    [text |-> rec.text,
     deadline |-> IF rec.deadline = NoDate THEN Empty ELSE ParseDeadline(rec.deadline),
     status |-> NewStatus(rec, now),
     hash |-> ComputeDedupHash(rec.text["title"], rec.deadline),
     verified |-> now, updated |-> now]

ImportedGrantUnverified(rec, now) ==
    [text |-> rec.text, deadline |-> ParseDeadline(rec.deadline), status |-> NewStatus(rec, now),
     hash |-> ComputeDedupHash(rec.text["title"], rec.deadline),
     verified |-> 0, updated |-> now]

ImportedGrant(rec, now) ==
    [text |-> rec.text, deadline |-> ParseDeadline(rec.deadline),
     status |-> NewStatus(rec, now),
     hash |-> ComputeDedupHash(rec.text["title"], rec.deadline),
     verified |-> now, updated |-> now]

-----------------------------------------------------------------------------
(* A worker between two calls, and a session that has loaded nothing yet.  *)

Idle == [pc |-> "idle", id |-> 0, src |-> Absent, statusLoaded |-> Absent, feed |-> <<>>, now |-> 0,
         loaded |-> [e \in Ext |-> Absent], local |-> [e \in Ext |-> Absent],
         added |-> <<>>, log |-> {}, outcome |-> "none"]

Init ==
    /\ grants = [k \in Key |-> Absent]
    /\ changes = {}
    /\ source = [s \in Source |-> [status |-> "not_configured", synced |-> Absent]]
    /\ clock = 0
    /\ sync = [w \in Worker |-> Idle]
    /\ syncs = 0

(* The call is over: the session is closed, only its result is left. *)
Return(w, outcome) == sync' = [sync EXCEPT ![w] = [Idle EXCEPT !.outcome = outcome]]

(* Writing source.status: the UPDATE is issued only if the value differs   *)
(* from the one this session loaded.                                       *)
WrittenStatus(s, loaded, status) == IF status = loaded THEN source[s].status ELSE status

(* get_connector raises ValueError for a type the registry does not know.  *)
UnknownConnector(w, s) ==
    /\ sync[w].pc = "idle" /\ syncs < MaxSyncs
    /\ s \in BadConnector
    /\ syncs' = syncs + 1
    /\ Return(w, "raised")
    /\ UNCHANGED <<grants, changes, source, clock>>

(* connector.is_configured() is False: nothing is fetched. *)
NotConfigured(w, s) ==
    /\ sync[w].pc = "idle" /\ syncs < MaxSyncs
    /\ s \notin BadConnector
    /\ syncs' = syncs + 1
    /\ source' = [source EXCEPT ![s].status = "not_configured"]
    /\ Return(w, "not_configured")
    /\ UNCHANGED <<grants, changes, clock>>

(* Mutant: the source is shown as active as soon as its sync starts. *)
StartFetchActive(w, s) ==
    /\ sync[w].pc = "idle" /\ syncs < MaxSyncs
    /\ s \notin BadConnector
    /\ syncs' = syncs + 1
    /\ source' = [source EXCEPT ![s].status = "active"]
    /\ sync' = [sync EXCEPT ![w] = [Idle EXCEPT !.pc = "fetch", !.id = syncs', !.src = s,
                                                !.statusLoaded = "active"]]
    /\ UNCHANGED <<grants, changes, clock>>

StartFetch(w, s) ==
    /\ sync[w].pc = "idle" /\ syncs < MaxSyncs
    /\ s \notin BadConnector
    /\ syncs' = syncs + 1
    /\ sync' = [sync EXCEPT ![w] = [Idle EXCEPT !.pc = "fetch", !.id = syncs', !.src = s,
                                                !.statusLoaded = source[s].status]]
    /\ UNCHANGED <<grants, changes, source, clock>>

(* fetch_records raised: ConnectorNotConfiguredError or anything else. *)
FetchFails(w, status) ==
    /\ sync[w].pc = "fetch"
    /\ status \in {"not_configured", "error"}
    /\ LET s == sync[w].src
       IN source' = [source EXCEPT ![s].status =
                        WrittenStatus(s, sync[w].statusLoaded, status)]
    /\ Return(w, status)
    /\ UNCHANGED <<grants, changes, clock, syncs>>

FetchReturns(w, feed) ==
    /\ sync[w].pc = "fetch"
    /\ sync' = [sync EXCEPT ![w].pc = "loop", ![w].feed = feed, ![w].now = clock]
    /\ UNCHANGED <<grants, changes, source, clock, syncs>>

(* The row a query for (source_id, external_id) returns: the object this   *)
(* session already holds, else the committed row.                          *)
Found(w, e) == IF sync[w].local[e] # Absent THEN sync[w].local[e]
               ELSE grants[<<sync[w].src, e>>]

(* Mutant: only the rows whose status is open are looked up. *)
HashTakenByOpen(hash) ==
    \E k \in Key : grants[k] # Absent /\ grants[k].hash = hash /\ grants[k].status = "open"

(* A committed row with this hash, of whatever source. *)
HashTaken(hash) == \E k \in Key : grants[k] # Absent /\ grants[k].hash = hash

(* One iteration of the loop over the fetched records, `already` found. *)
Reverify(w) ==
    /\ sync[w].pc = "loop" /\ sync[w].feed # <<>>
    /\ LET rec == Head(sync[w].feed)
           key == <<sync[w].src, rec.ext>>
           row == Found(w, rec.ext)
           now == sync[w].now
       IN /\ row # Absent
          /\ sync' = [sync EXCEPT
                ![w].feed = Tail(@),
                ![w].loaded[rec.ext] = IF sync[w].local[rec.ext] = Absent THEN row ELSE @,
                ![w].local[rec.ext] = ApplyChanges(row, rec, now),
                ![w].log = @ \cup {[sync |-> sync[w].id, key |-> key, move |-> m] :
                                     m \in Moves(row, rec, now)}]
    /\ UNCHANGED <<grants, changes, source, clock, syncs>>

(* One iteration for a record not imported yet: dropped if its hash is     *)
(* taken, else added to the session.                                       *)
Import(w) ==
    /\ sync[w].pc = "loop" /\ sync[w].feed # <<>>
    /\ LET rec == Head(sync[w].feed)
           row == ImportedGrant(rec, sync[w].now)
       IN /\ Found(w, rec.ext) = Absent
          /\ sync' = [sync EXCEPT
                ![w].feed = Tail(@),
                ![w].added = IF HashTaken(row.hash) THEN @
                             ELSE Append(@, [ext |-> rec.ext, row |-> row])]
    /\ UNCHANGED <<grants, changes, source, clock, syncs>>

-----------------------------------------------------------------------------
(* The commit at the end of sync_source.                                   *)

AddedExts(w) == {sync[w].added[i].ext : i \in DOMAIN sync[w].added}

(* UNIQUE(source_id, external_id) refuses the flush. *)
Clash(w) ==
    \/ \E i, j \in DOMAIN sync[w].added : i # j /\ sync[w].added[i].ext = sync[w].added[j].ext
    \/ \E e \in AddedExts(w) : grants[<<sync[w].src, e>>] # Absent

(* Mutant: every column is written back. *)
ColumnAlways(current, loaded, local) == local

(* Only what the session changed is written over the current value. *)
Column(current, loaded, local) == IF local = loaded THEN current ELSE local

Flushed(current, loaded, local) ==
    [text |-> [a \in TextAttr |-> Column(current.text[a], loaded.text[a], local.text[a])],
     deadline |-> Column(current.deadline, loaded.deadline, local.deadline),
     status   |-> Column(current.status, loaded.status, local.status),
     hash     |-> Column(current.hash, loaded.hash, local.hash),
     verified |-> Column(current.verified, loaded.verified, local.verified),
     updated  |-> Column(current.updated, loaded.updated, local.updated)]

AddedRow(w, e) == LET i == CHOOSE i \in DOMAIN sync[w].added : sync[w].added[i].ext = e
                  IN sync[w].added[i].row

Commit(w) ==
    /\ sync[w].pc = "loop" /\ sync[w].feed = <<>>
    /\ ~Clash(w)
    /\ LET s == sync[w].src
           loaded == sync[w].loaded
           local == sync[w].local
       IN /\ grants' = [k \in Key |->
                CASE k[1] # s -> grants[k]
                  [] k[1] = s /\ k[2] \in AddedExts(w) -> AddedRow(w, k[2])
                  [] k[1] = s /\ k[2] \notin AddedExts(w) /\ local[k[2]] # Absent ->
                        Flushed(grants[k], loaded[k[2]], local[k[2]])
                  [] OTHER -> grants[k]]
          /\ source' = [source EXCEPT ![s] =
                [status |-> WrittenStatus(s, sync[w].statusLoaded, "active"),
                 synced |-> sync[w].now]]
    /\ changes' = changes \cup sync[w].log
    /\ Return(w, "active")
    /\ UNCHANGED <<clock, syncs>>

(* The flush is refused: IntegrityError leaves sync_source. *)
CommitRefused(w) ==
    /\ sync[w].pc = "loop" /\ sync[w].feed = <<>>
    /\ Clash(w)
    /\ Return(w, "raised")
    /\ UNCHANGED <<grants, changes, source, clock, syncs>>

(* The database or the process fails under the sync: its session is lost.  *)
SessionLost(w) ==
    /\ sync[w].pc # "idle"
    /\ Return(w, "raised")
    /\ UNCHANGED <<grants, changes, source, clock, syncs>>

Tick ==
    /\ clock < MaxNow
    /\ clock' = clock + 1
    /\ UNCHANGED <<grants, changes, source, sync, syncs>>

Next ==
    \/ \E w \in Worker, s \in Source :
          UnknownConnector(w, s) \/ NotConfigured(w, s) \/ StartFetch(w, s)
    \/ \E w \in Worker, status \in SourceStatus : FetchFails(w, status)
    \/ \E w \in Worker, feed \in Feed : FetchReturns(w, feed)
    \/ \E w \in Worker : Reverify(w) \/ Import(w)
    \/ \E w \in Worker : Commit(w) \/ CommitRefused(w) \/ SessionLost(w)
    \/ Tick

Spec == Init /\ [][Next]_vars

-----------------------------------------------------------------------------
Addition == [ext : Ext, row : Row]

Session ==
    [pc : {"idle", "fetch", "loop"}, id : Nat, src : Source \cup {Absent},
     statusLoaded : SourceStatus \cup {Absent}, feed : Seq(Record), now : Nat,
     loaded : [Ext -> Row \cup {Absent}], local : [Ext -> Row \cup {Absent}],
     added : Seq(Addition), log : SUBSET Change,
     outcome : {"none", "not_configured", "error", "active", "raised"}]

TypeOK ==
    /\ grants \in [Key -> Row \cup {Absent}]
    /\ changes \subseteq Change
    /\ source \in [Source -> [status : SourceStatus, synced : Nat \cup {Absent}]]
    /\ clock \in Nat
    /\ sync \in [Worker -> Session]
    /\ syncs \in Nat

-----------------------------------------------------------------------------
(* The refinement: the live feed sees the tracked fields of the committed  *)
(* rows, and opportunity_changes is the log.                               *)

FieldValue(row, f) == CASE f \in TextAttr -> row.text[f]
                        [] f = "deadline" -> row.deadline
                        [] f = "status" -> row.status

LoggedField(m) == CASE m[1] = "title_changed" -> "title"
                    [] m[1] = "description_changed" -> "description"
                    [] m[1] = "country_changed" -> "country"
                    [] m[1] = "deadline_changed" -> "deadline"
                    [] OTHER -> "status"

Catalogue == [k \in Key |-> IF grants[k] = Absent THEN Absent
                            ELSE [f \in Fields |-> FieldValue(grants[k], f)]]

Log == {<<c, c.key, LoggedField(c.move), c.move[3]>> : c \in changes}

Ledger == INSTANCE OpportunityLedger WITH
    Opportunity <- Key, Blank <- {Empty, NoDate}, catalogue <- Catalogue, log <- Log

(* However many syncs run at once, an imported grant is never dropped, an  *)
(* already known text or deadline is never replaced by an empty one, and   *)
(* every field that a commit moves is logged by that commit with the value *)
(* it moved to (docstring of sync_grants.py, lines 14-22).                 *)
LedgerKept == Ledger!Spec

(* A source shown as active has been synced at least once (docstring of    *)
(* GrantSource): the status and the date are columns of one row written by *)
(* several sessions, each writing only what it sees change.                *)
ActiveMeansSynced ==
    \A s \in Source : source[s].status = "active" => source[s].synced # Absent

-----------------------------------------------------------------------------
(* What a session holds while it runs: the reason why the above is true.   *)

Running(w) == sync[w].pc # "idle"

(* A running sync has read its source; an idle worker holds no row. *)
SourceRead ==
    \A w \in Worker :
        /\ Running(w) => /\ sync[w].src \in Source
                         /\ sync[w].statusLoaded \in SourceStatus
                         /\ sync[w].statusLoaded = "active"
                                => source[sync[w].src].synced # Absent
        /\ ~Running(w) => /\ sync[w].log = {}
                          /\ \A e \in Ext : sync[w].local[e] = Absent

(* The number of a running sync is its own, and no committed row of the    *)
(* change log carries it.                                                  *)
NumberOwn ==
    /\ \A w \in Worker : Running(w) => sync[w].id <= syncs
    /\ \A v, w \in Worker : Running(v) /\ Running(w) /\ v # w => sync[v].id # sync[w].id
    /\ \A c \in changes : c.sync <= syncs
    /\ \A w \in Worker, c \in changes : Running(w) => c.sync # sync[w].id
    /\ \A w \in Worker : \A c \in sync[w].log : c.sync = sync[w].id

(* A row a session changes was loaded from the database, and is there.     *)
LoadedFirst ==
    \A w \in Worker, e \in Ext : sync[w].local[e] # Absent =>
        /\ sync[w].loaded[e] # Absent
        /\ grants[<<sync[w].src, e>>] # Absent

(* A tracked field that the session holds with another value than the one  *)
(* it loaded holds information, and the session has that value in its log. *)
DirtyLogged ==
    \A w \in Worker, e \in Ext, f \in Fields :
        /\ sync[w].local[e] # Absent
        /\ FieldValue(sync[w].local[e], f) # FieldValue(sync[w].loaded[e], f)
        => /\ FieldValue(sync[w].local[e], f) \notin {Empty, NoDate}
           /\ \E c \in sync[w].log : /\ c.key = <<sync[w].src, e>>
                                     /\ LoggedField(c.move) = f
                                     /\ c.move[3] = FieldValue(sync[w].local[e], f)

(* A row is moved in memory and its log row is added to the session in two *)
(* places of _apply_changes, and both wait for one commit: between them    *)
(* the session never holds a moved field without its log row, a row it did *)
(* not load, or the number of another sync.                                *)
SessionsSound == SourceRead /\ NumberOwn /\ LoadedFirst /\ DirtyLogged

-----------------------------------------------------------------------------
(* What holds as long as syncs do not overlap.                             *)

(* The dedup hash of a row still names the row: its title and its deadline *)
(* are those the hash was computed from.                                   *)
HashNamesRow ==
    \A k \in Key : grants[k] # Absent =>
        /\ grants[k].hash.title = grants[k].text["title"]
        /\ \/ ParseDeadline(grants[k].hash.deadline) = grants[k].deadline
           \/ /\ grants[k].hash.deadline # NoDate
              /\ grants[k].hash.deadline.form = "datetime"
              /\ grants[k].hash.deadline.day = grants[k].deadline

(* A grant is not imported while another source's row carries its hash:    *)
(* the check of the loop still holds at the commit.                        *)
NoSecondCopy ==
    [][\A k \in Key : grants[k] = Absent /\ grants'[k] # Absent =>
          ~ \E j \in Key : /\ j[1] # k[1]
                           /\ grants[j] # Absent
                           /\ grants[j].hash = grants'[k].hash]_vars

(* A row is never stamped as changed later than it was last seen, and      *)
(* neither stamp runs ahead of the clock.                                  *)
StampsOrdered ==
    \A k \in Key : grants[k] # Absent =>
        grants[k].updated <= grants[k].verified /\ grants[k].verified <= clock

-----------------------------------------------------------------------------
(* A statement of the repository that the code does not keep.              *)

(* "catches the same underlying grant being listed by TWO DIFFERENT        *)
(* sources" (sync_grants.py:7-9): a grant is not imported while another    *)
(* source's row has its title and its deadline.                            *)
CrossSourceDuplicateCaught ==
    [][\A k \in Key : grants[k] = Absent /\ grants'[k] # Absent =>
          ~ \E j \in Key : /\ j[1] # k[1]
                           /\ grants[j] # Absent
                           /\ grants[j].text["title"] = grants'[k].text["title"]
                           /\ grants[j].deadline = grants'[k].deadline
                           /\ grants[j].deadline # NoDate]_vars

=============================================================================
