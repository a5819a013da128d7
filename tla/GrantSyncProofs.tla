-------------------------- MODULE GrantSyncProofs --------------------------
(***************************************************************************)
(* Theorems about GrantSync, for any set of sources, workers, records and  *)
(* feeds, and any bounds.                                                  *)
(***************************************************************************)
EXTENDS GrantSync, TLAPS

(* What the parser and the formatter of deadlines return. *)
LEMMA DeadlineTypes ==
    /\ \A d \in DeadlineText : ParseDeadline(d) \in Deadline
    /\ \A d \in Deadline : IsoFormat(d) \in DeadlineText
BY GrantSyncAssumption DEF ParseDeadline, IsoFormat, Deadline, DeadlineText

(* A record gives a status of the vocabulary. *)
LEMMA StatusType ==
    ASSUME NEW rec \in Record, NEW now \in Nat
    PROVE  NewStatus(rec, now) \in GrantStatus
BY DEF NewStatus, ResolveStatus, Record, GrantStatus

(* The row _apply_changes leaves behind is a row. *)
LEMMA ApplyChangesType ==
    ASSUME NEW row \in Row, NEW rec \in Record, NEW now \in Nat
    PROVE  ApplyChanges(row, rec, now) \in Row
<1> DEFINE text == [a \in TextAttr |->
                       IF a \in Moved(row, rec) THEN rec.text[a] ELSE row.text[a]]
           deadline == IF DeadlineMoves(row, rec) THEN ParseDeadline(rec.deadline)
                       ELSE row.deadline
           hash == IF Changed(row, rec, now)
                   THEN ComputeDedupHash(text["title"], IsoFormat(deadline)) ELSE row.hash
<1>1. /\ rec.text \in [TextAttr -> TextValue] /\ row.text \in [TextAttr -> TextValue]
      /\ row.deadline \in Deadline /\ rec.deadline \in DeadlineText
      /\ row.hash \in Hash /\ row.updated \in Nat
  BY DEF Row, Record
<1>2. text \in [TextAttr -> TextValue]
  BY <1>1
<1>3. deadline \in Deadline
  BY <1>1, DeadlineTypes
<1>4. hash \in Hash
  <2>1. IsoFormat(deadline) \in DeadlineText
    BY <1>3, DeadlineTypes
  <2>2. text["title"] \in TextValue
    BY <1>2 DEF TextAttr
  <2> HIDE DEF text, deadline
  <2> QED BY <1>1, <2>1, <2>2 DEF ComputeDedupHash, Hash
<1>5. NewStatus(rec, now) \in GrantStatus
  BY StatusType
<1> HIDE DEF text, deadline, hash
<1>6. (IF Changed(row, rec, now) THEN now ELSE row.updated) \in Nat
  BY <1>1
<1>7. [text |-> text, deadline |-> deadline, status |-> NewStatus(rec, now), hash |-> hash,
       verified |-> now, updated |-> IF Changed(row, rec, now) THEN now ELSE row.updated] \in Row
  BY <1>2, <1>3, <1>4, <1>5, <1>6 DEF Row
<1> QED BY <1>7 DEF ApplyChanges, text, deadline, hash

(* The row a new record becomes is a row. *)
LEMMA ImportedGrantType ==
    ASSUME NEW rec \in Record, NEW now \in Nat
    PROVE  ImportedGrant(rec, now) \in Row
<1>1. rec.text \in [TextAttr -> TextValue] /\ rec.deadline \in DeadlineText
  BY DEF Record
<1>2. ParseDeadline(rec.deadline) \in Deadline /\ NewStatus(rec, now) \in GrantStatus
  BY <1>1, DeadlineTypes, StatusType
<1>3. ComputeDedupHash(rec.text["title"], rec.deadline) \in Hash
  BY <1>1 DEF ComputeDedupHash, Hash, TextAttr
<1> QED BY <1>1, <1>2, <1>3 DEF ImportedGrant, Row

(* A move of the log names the value it moves to, and it is not blank. *)
LEMMA MovesType ==
    ASSUME NEW row \in Row, NEW rec \in Record, NEW now \in Nat
    PROVE  Moves(row, rec, now) \subseteq TextMove \cup DeadlineMove \cup StatusMove
<1>1. /\ rec.text \in [TextAttr -> TextValue] /\ row.text \in [TextAttr -> TextValue]
      /\ row.deadline \in Deadline /\ rec.deadline \in DeadlineText
      /\ row.status \in GrantStatus
  BY DEF Row, Record
<1>2. \A a \in Moved(row, rec) :
         <<TextChangeType(a), row.text[a], rec.text[a]>> \in TextMove
  BY <1>1 DEF Moved, TextChangeType, TextMove, TextAttr, TextValue
<1>3. \A d \in {ParseDeadline(rec.deadline)} \ {NoDate, row.deadline} :
         <<"deadline_changed", row.deadline, d>> \in DeadlineMove
  BY <1>1, DeadlineTypes DEF DeadlineMove, Deadline
<1>4. \A st \in {NewStatus(rec, now)} \ {row.status} :
         <<StatusChangeType(row.status, st), row.status, st>> \in StatusMove
  BY <1>1, StatusType DEF StatusMove, StatusChangeType
<1> QED BY <1>2, <1>3, <1>4 DEF Moves

(* Writing only the changed columns of a row gives a row. *)
LEMMA FlushedType ==
    ASSUME NEW current \in Row, NEW loaded \in Row, NEW local \in Row
    PROVE  Flushed(current, loaded, local) \in Row
BY DEF Flushed, Column, Row

-----------------------------------------------------------------------------
(* Types.  What a commit writes over a row is a row only because the       *)
(* session loaded that row: LoadedFirst goes with TypeOK.                  *)

Outcome == {"none", "not_configured", "error", "active", "raised"}

(* The worker of a call that has returned is idle. *)
LEMMA ReturnType ==
    ASSUME TypeOK, NEW w \in Worker, NEW outcome \in Outcome, Return(w, outcome)
    PROVE  sync' \in [Worker -> Session]
<1>1. Idle \in Session
  BY DEF Idle, Session
<1>2. [Idle EXCEPT !.outcome = outcome] \in Session
  BY <1>1 DEF Session, Outcome
<1> QED BY <1>2 DEF TypeOK, Return

(* The initial state. *)
LEMMA InitType == Init => TypeOK
<1> SUFFICES ASSUME Init PROVE TypeOK
  OBVIOUS
<1>1. Idle \in Session
  BY DEF Idle, Session
<1>2. source \in [Source -> [status : SourceStatus, synced : Nat \cup {Absent}]]
  BY DEF Init, SourceStatus
<1> QED BY <1>1, <1>2 DEF Init, TypeOK

(* A write of the status column leaves a status. *)
LEMMA WrittenStatusType ==
    ASSUME TypeOK, NEW s \in Source, NEW loaded, NEW status \in SourceStatus
    PROVE  WrittenStatus(s, loaded, status) \in SourceStatus
BY DEF WrittenStatus, TypeOK

(* The row a running sync finds for a record is a row or nothing. *)
LEMMA FoundType ==
    ASSUME TypeOK, SourceRead, NEW w \in Worker, Running(w), NEW e \in Ext
    PROVE  Found(w, e) \in Row \cup {Absent}
<1>1. sync[w].local[e] \in Row \cup {Absent} /\ sync[w].src \in Source
  BY DEF TypeOK, Session, SourceRead
<1>2. grants[<<sync[w].src, e>>] \in Row \cup {Absent}
  BY <1>1 DEF TypeOK, Key
<1> QED BY <1>1, <1>2 DEF Found

(* One iteration over a record of a row already imported. *)
LEMMA ReverifyType ==
    ASSUME TypeOK, SourceRead, NEW w \in Worker, Reverify(w)
    PROVE  sync' \in [Worker -> Session]
<1> DEFINE rec == Head(sync[w].feed)
           key == <<sync[w].src, rec.ext>>
           row == Found(w, rec.ext)
           now == sync[w].now
<1>1. /\ sync[w] \in Session /\ sync[w].src \in Source /\ Running(w)
      /\ sync[w].feed # <<>> /\ row # Absent
  BY DEF TypeOK, Reverify, SourceRead, Running
<1>2. rec \in Record /\ rec.ext \in Ext /\ now \in Nat /\ Tail(sync[w].feed) \in Seq(Record)
  <2>1. sync[w].feed \in Seq(Record) /\ now \in Nat
    BY <1>1 DEF Session
  <2>2. rec \in Record /\ Tail(sync[w].feed) \in Seq(Record)
    BY <1>1, <2>1
  <2> QED BY <2>1, <2>2 DEF Record
<1>3. row \in Row
  BY <1>1, <1>2, FoundType
<1>4. ApplyChanges(row, rec, now) \in Row
  BY <1>2, <1>3, ApplyChangesType
<1>5. {[sync |-> sync[w].id, key |-> key, move |-> m] : m \in Moves(row, rec, now)} \subseteq Change
  BY <1>1, <1>2, <1>3, MovesType DEF Change, Key, Session
<1> DEFINE loaded == [sync[w].loaded EXCEPT ![rec.ext] = IF sync[w].local[rec.ext] = Absent
                                                        THEN row ELSE @]
           local == [sync[w].local EXCEPT ![rec.ext] = ApplyChanges(row, rec, now)]
           log == sync[w].log \cup {[sync |-> sync[w].id, key |-> key, move |-> m] :
                                     m \in Moves(row, rec, now)}
<1>6. /\ loaded \in [Ext -> Row \cup {Absent}] /\ local \in [Ext -> Row \cup {Absent}]
      /\ log \subseteq Change
  BY <1>1, <1>2, <1>3, <1>4, <1>5 DEF Session
<1>7. sync' = [sync EXCEPT ![w].feed = Tail(@), ![w].loaded = loaded, ![w].local = local,
                           ![w].log = log]
  BY SMTT(30) DEF Reverify, TypeOK
<1> HIDE DEF rec, key, row, now, loaded, local, log
<1>8. [sync[w] EXCEPT !.feed = Tail(@), !.loaded = loaded, !.local = local, !.log = log]
         \in Session
  BY <1>1, <1>2, <1>6 DEF Session
<1> QED BY <1>7, <1>8 DEF TypeOK

(* One iteration over a record of a row not imported yet. *)
LEMMA ImportType ==
    ASSUME TypeOK, SourceRead, NEW w \in Worker, Import(w)
    PROVE  sync' \in [Worker -> Session]
<1> DEFINE rec == Head(sync[w].feed)
           row == ImportedGrant(rec, sync[w].now)
<1>1. sync[w] \in Session /\ sync[w].feed # <<>>
  BY DEF TypeOK, Import
<1>2. /\ rec \in Record /\ rec.ext \in Ext /\ sync[w].now \in Nat
      /\ Tail(sync[w].feed) \in Seq(Record)
  <2>1. sync[w].feed \in Seq(Record) /\ sync[w].now \in Nat
    BY <1>1 DEF Session
  <2>2. rec \in Record /\ Tail(sync[w].feed) \in Seq(Record)
    BY <1>1, <2>1
  <2> QED BY <2>1, <2>2 DEF Record
<1>3. row \in Row
  BY <1>2, ImportedGrantType
<1> DEFINE added == IF HashTaken(row.hash) THEN sync[w].added
                    ELSE Append(sync[w].added, [ext |-> rec.ext, row |-> row])
<1>4. added \in Seq(Addition)
  <2>1. sync[w].added \in Seq(Addition)
    BY <1>1 DEF Session
  <2>2. [ext |-> rec.ext, row |-> row] \in Addition
    BY <1>2, <1>3 DEF Addition
  <2> HIDE DEF rec, row
  <2> QED BY <2>1, <2>2
<1>5. sync' = [sync EXCEPT ![w].feed = Tail(@), ![w].added = added]
  BY DEF Import, TypeOK
<1> HIDE DEF rec, row, added
<1>6. [sync[w] EXCEPT !.feed = Tail(@), !.added = added] \in Session
  BY <1>1, <1>2, <1>4 DEF Session
<1> QED BY <1>5, <1>6 DEF TypeOK

(* What a commit writes is rows. *)
LEMMA CommitType ==
    ASSUME TypeOK, SourceRead, LoadedFirst, NEW w \in Worker, Commit(w)
    PROVE  TypeOK'
<1> DEFINE s == sync[w].src
           loaded == sync[w].loaded
           local == sync[w].local
<1>1. sync[w] \in Session /\ s \in Source /\ Running(w)
  BY DEF TypeOK, Commit, SourceRead, Running
<1>2. \A e \in AddedExts(w) : AddedRow(w, e) \in Row
  <2>1. sync[w].added \in Seq(Addition)
    BY <1>1 DEF Session
  <2>2. \A i \in DOMAIN sync[w].added : sync[w].added[i] \in Addition
    BY <2>1
  <2> TAKE e \in AddedExts(w)
  <2>3. \E i \in DOMAIN sync[w].added : sync[w].added[i].ext = e
    BY DEF AddedExts
  <2> QED BY <2>2, <2>3 DEF AddedRow, Addition
<1>3. \A e \in Ext : local[e] # Absent =>
         /\ grants[<<s, e>>] \in Row /\ loaded[e] \in Row /\ local[e] \in Row
  BY <1>1 DEF TypeOK, Session, LoadedFirst, Key
<1>4. \A k \in Key : grants'[k] \in Row \cup {Absent}
  <2> TAKE k \in Key
  <2>1. k[2] \in Ext /\ k = <<k[1], k[2]>> /\ grants[k] \in Row \cup {Absent}
    BY DEF Key, TypeOK
  <2>2. CASE k[1] # s
    BY <2>1, <2>2 DEF Commit
  <2>3. CASE k[1] = s /\ k[2] \in AddedExts(w)
    BY <2>3, <1>2 DEF Commit
  <2>4. CASE k[1] = s /\ k[2] \notin AddedExts(w) /\ local[k[2]] # Absent
    <3>1. grants'[k] = Flushed(grants[k], loaded[k[2]], local[k[2]])
      BY <2>4 DEF Commit
    <3> QED BY <3>1, <2>1, <2>4, <1>3, FlushedType
  <2>5. CASE k[1] = s /\ k[2] \notin AddedExts(w) /\ local[k[2]] = Absent
    BY <2>5, <2>1 DEF Commit
  <2> QED BY <2>2, <2>3, <2>4, <2>5
<1>5. grants' \in [Key -> Row \cup {Absent}]
  BY <1>4 DEF Commit
<1>6. changes' \subseteq Change
  BY <1>1 DEF Commit, TypeOK, Session
<1>7. source' \in [Source -> [status : SourceStatus, synced : Nat \cup {Absent}]]
  <2>1. WrittenStatus(s, sync[w].statusLoaded, "active") \in SourceStatus
    BY <1>1, WrittenStatusType DEF SourceStatus
  <2>2. sync[w].now \in Nat
    BY <1>1 DEF Session
  <2> QED BY <1>1, <2>1, <2>2 DEF Commit, TypeOK
<1>8. sync' \in [Worker -> Session]
  BY ReturnType DEF Commit, Outcome
<1> QED BY <1>5, <1>6, <1>7, <1>8 DEF Commit, TypeOK

(* Every step of the system keeps the types. *)
LEMMA TypeStep ==
    ASSUME TypeOK, SourceRead, LoadedFirst, [Next]_vars
    PROVE  TypeOK'
<1>1. ASSUME NEW w \in Worker, NEW s \in Source, UnknownConnector(w, s) PROVE TypeOK'
  BY <1>1, ReturnType DEF UnknownConnector, TypeOK, Outcome
<1>2. ASSUME NEW w \in Worker, NEW s \in Source, NotConfigured(w, s) PROVE TypeOK'
  <2>1. sync' \in [Worker -> Session]
    BY <1>2, ReturnType DEF NotConfigured, Outcome
  <2>2. source' \in [Source -> [status : SourceStatus, synced : Nat \cup {Absent}]]
    BY <1>2 DEF NotConfigured, TypeOK, SourceStatus
  <2> QED BY <1>2, <2>1, <2>2 DEF NotConfigured, TypeOK
<1>3. ASSUME NEW w \in Worker, NEW s \in Source, StartFetch(w, s) PROVE TypeOK'
  <2>1. Idle \in Session /\ source[s].status \in SourceStatus /\ syncs' \in Nat
    BY <1>3 DEF Idle, Session, StartFetch, TypeOK
  <2>2. [Idle EXCEPT !.pc = "fetch", !.id = syncs', !.src = s,
                     !.statusLoaded = source[s].status] \in Session
    BY <2>1 DEF Session
  <2> QED BY <1>3, <2>1, <2>2 DEF StartFetch, TypeOK
<1>4. ASSUME NEW w \in Worker, NEW status \in SourceStatus, FetchFails(w, status) PROVE TypeOK'
  <2>1. sync' \in [Worker -> Session]
    BY <1>4, ReturnType DEF FetchFails, Outcome
  <2>2. sync[w].src \in Source
    BY <1>4 DEF FetchFails, SourceRead, Running
  <2>3. WrittenStatus(sync[w].src, sync[w].statusLoaded, status) \in SourceStatus
    BY <2>2, WrittenStatusType
  <2>4. source' \in [Source -> [status : SourceStatus, synced : Nat \cup {Absent}]]
    BY <1>4, <2>2, <2>3 DEF FetchFails, TypeOK
  <2> QED BY <1>4, <2>1, <2>4 DEF FetchFails, TypeOK
<1>5. ASSUME NEW w \in Worker, NEW feed \in Feed, FetchReturns(w, feed) PROVE TypeOK'
  <2>1. feed \in Seq(Record) /\ clock \in Nat /\ sync[w] \in Session
    BY GrantSyncAssumption DEF TypeOK
  <2>2. [sync[w] EXCEPT !.pc = "loop", !.feed = feed, !.now = clock] \in Session
    BY <2>1 DEF Session
  <2> QED BY <1>5, <2>2 DEF FetchReturns, TypeOK
<1>6. ASSUME NEW w \in Worker, Reverify(w) PROVE TypeOK'
  BY <1>6, ReverifyType DEF Reverify, TypeOK
<1>7. ASSUME NEW w \in Worker, Import(w) PROVE TypeOK'
  BY <1>7, ImportType DEF Import, TypeOK
<1>8. ASSUME NEW w \in Worker, Commit(w) PROVE TypeOK'
  BY <1>8, CommitType
<1>9. ASSUME NEW w \in Worker, CommitRefused(w) \/ SessionLost(w) PROVE TypeOK'
  BY <1>9, ReturnType DEF CommitRefused, SessionLost, TypeOK, Outcome
<1>10. CASE Tick
  BY <1>10 DEF Tick, TypeOK
<1>11. CASE UNCHANGED vars
  BY <1>11 DEF vars, TypeOK
<1> QED BY <1>1, <1>2, <1>3, <1>4, <1>5, <1>6, <1>7, <1>8, <1>9, <1>10, <1>11 DEF Next

-----------------------------------------------------------------------------
(* The shapes of a step, as the invariant sees them: a call that returns   *)
(* without a commit, one that begins, one that advances and changes no     *)
(* row, an iteration that does (Reverify), a commit, and the rest.         *)

Others(w) == \A v \in Worker \ {w} : sync'[v] = sync[v]

SyncedKept == \A s \in Source : source'[s].synced = source[s].synced

Ended(w) ==
    /\ Others(w)
    /\ sync'[w].pc = "idle" /\ sync'[w].log = {}
    /\ \A e \in Ext : sync'[w].local[e] = Absent
    /\ grants' = grants /\ changes' = changes /\ syncs' >= syncs
    /\ SyncedKept
    /\ \A s \in Source : source'[s].status = "active" => source[s].status = "active"

Begun(w) ==
    /\ Others(w)
    /\ \E s \in Source : sync'[w].src = s /\ sync'[w].statusLoaded = source[s].status
    /\ sync'[w].id = syncs + 1 /\ syncs' = syncs + 1
    /\ sync'[w].log = {} /\ \A e \in Ext : sync'[w].local[e] = Absent
    /\ sync'[w].pc # "idle"
    /\ UNCHANGED <<grants, changes, source>>

Advanced(w) ==
    /\ Others(w)
    /\ sync[w].pc # "idle" /\ sync'[w].pc # "idle"
    /\ sync'[w].id = sync[w].id /\ sync'[w].src = sync[w].src
    /\ sync'[w].statusLoaded = sync[w].statusLoaded
    /\ sync'[w].local = sync[w].local /\ sync'[w].loaded = sync[w].loaded
    /\ sync'[w].log = sync[w].log
    /\ UNCHANGED <<grants, changes, source, syncs>>

Quiet == UNCHANGED <<grants, changes, source, sync, syncs>>

(* A call that is over holds nothing. *)
LEMMA ReturnEmpties ==
    ASSUME TypeOK, NEW w \in Worker, NEW outcome, Return(w, outcome)
    PROVE  /\ Others(w)
           /\ sync'[w].pc = "idle" /\ sync'[w].log = {}
           /\ \A e \in Ext : sync'[w].local[e] = Absent
BY DEF Return, Others, Idle, TypeOK

(* Every step has one of the shapes. *)
LEMMA StepShapes ==
    ASSUME TypeOK, SourceRead, [Next]_vars
    PROVE  \/ \E w \in Worker : Ended(w) \/ Begun(w) \/ Advanced(w) \/ Reverify(w) \/ Commit(w)
           \/ Quiet
<1>1. ASSUME NEW w \in Worker, NEW s \in Source, UnknownConnector(w, s) PROVE Ended(w)
  BY <1>1, ReturnEmpties DEF UnknownConnector, Ended, TypeOK, SyncedKept
<1>2. ASSUME NEW w \in Worker, NEW s \in Source, NotConfigured(w, s) PROVE Ended(w)
  <2>1. SyncedKept /\ \A t \in Source : source'[t].status = "active" => source[t].status = "active"
    BY <1>2 DEF NotConfigured, TypeOK, SyncedKept
  <2> QED BY <1>2, <2>1, ReturnEmpties DEF NotConfigured, Ended, TypeOK
<1>3. ASSUME NEW w \in Worker, NEW s \in Source, StartFetch(w, s) PROVE Begun(w)
  BY <1>3 DEF StartFetch, Begun, Others, Idle, TypeOK
<1>4. ASSUME NEW w \in Worker, NEW status \in SourceStatus, FetchFails(w, status) PROVE Ended(w)
  <2>1. sync[w].src \in Source
    BY <1>4 DEF FetchFails, SourceRead, Running
  <2>2. SyncedKept /\ \A t \in Source : source'[t].status = "active" => source[t].status = "active"
    BY <1>4, <2>1 DEF FetchFails, TypeOK, SyncedKept, WrittenStatus
  <2> QED BY <1>4, <2>2, ReturnEmpties DEF FetchFails, Ended, TypeOK
<1>5. ASSUME NEW w \in Worker, NEW feed \in Feed, FetchReturns(w, feed) PROVE Advanced(w)
  BY <1>5 DEF FetchReturns, Advanced, Others, TypeOK, Session
<1>6. ASSUME NEW w \in Worker, Import(w) PROVE Advanced(w)
  BY <1>6 DEF Import, Advanced, Others, TypeOK, Session
<1>7. ASSUME NEW w \in Worker, CommitRefused(w) \/ SessionLost(w) PROVE Ended(w)
  BY <1>7, ReturnEmpties DEF CommitRefused, SessionLost, Ended, TypeOK, SyncedKept
<1>8. Tick => Quiet
  BY DEF Tick, Quiet
<1>9. UNCHANGED vars => Quiet
  BY DEF vars, Quiet
<1> QED BY <1>1, <1>2, <1>3, <1>4, <1>5, <1>6, <1>7, <1>8, <1>9 DEF Next

-----------------------------------------------------------------------------
(* What an iteration and a commit do, attribute by attribute.              *)

ReverifiedRow(w) == Found(w, Head(sync[w].feed).ext)

(* An iteration over a record of an imported grant. *)
LEMMA ReverifyEffect ==
    ASSUME TypeOK, SourceRead, NEW w \in Worker, Reverify(w)
    PROVE  LET rec == Head(sync[w].feed)
               row == ReverifiedRow(w)
           IN /\ Others(w)
              /\ sync[w].pc # "idle" /\ sync'[w].pc # "idle"
              /\ sync'[w].id = sync[w].id /\ sync'[w].src = sync[w].src
              /\ sync'[w].statusLoaded = sync[w].statusLoaded
              /\ \A e \in Ext \ {rec.ext} : /\ sync'[w].local[e] = sync[w].local[e]
                                            /\ sync'[w].loaded[e] = sync[w].loaded[e]
              /\ sync'[w].local[rec.ext] = ApplyChanges(row, rec, sync[w].now)
              /\ sync'[w].loaded[rec.ext] = IF sync[w].local[rec.ext] = Absent THEN row
                                            ELSE sync[w].loaded[rec.ext]
              /\ sync'[w].log = sync[w].log \cup
                    {[sync |-> sync[w].id, key |-> <<sync[w].src, rec.ext>>, move |-> m] :
                        m \in Moves(row, rec, sync[w].now)}
              /\ UNCHANGED <<grants, changes, source, syncs>>
              /\ rec \in Record /\ rec.ext \in Ext /\ row \in Row /\ sync[w].now \in Nat
<1>1. /\ sync[w] \in Session /\ sync[w].src \in Source /\ Running(w)
      /\ sync[w].feed # <<>> /\ ReverifiedRow(w) # Absent
  BY DEF TypeOK, Reverify, SourceRead, Running, ReverifiedRow
<1>2. Head(sync[w].feed) \in Record /\ Head(sync[w].feed).ext \in Ext /\ sync[w].now \in Nat
  <2>1. sync[w].feed \in Seq(Record) /\ sync[w].now \in Nat
    BY <1>1 DEF Session
  <2>2. Head(sync[w].feed) \in Record
    BY <1>1, <2>1
  <2> QED BY <2>1, <2>2 DEF Record
<1>3. ReverifiedRow(w) \in Row
  BY <1>1, <1>2, FoundType DEF ReverifiedRow
<1> QED BY <1>1, <1>2, <1>3, ZenonT(60) DEF Reverify, ReverifiedRow, Others, TypeOK, Session, Running

(* A commit. *)
LEMMA CommitEffect ==
    ASSUME TypeOK, SourceRead, NEW w \in Worker, Commit(w)
    PROVE  /\ Others(w)
           /\ sync'[w].pc = "idle" /\ sync'[w].log = {}
           /\ \A e \in Ext : sync'[w].local[e] = Absent
           /\ sync[w].pc # "idle" /\ sync[w].src \in Source
           /\ changes' = changes \cup sync[w].log /\ syncs' = syncs
           /\ \A t \in Source \ {sync[w].src} : source'[t] = source[t]
           /\ source'[sync[w].src].synced \in Nat
<1>1. sync[w].src \in Source /\ sync[w].now \in Nat /\ sync[w].pc # "idle"
  BY DEF Commit, SourceRead, Running, TypeOK, Session
<1>2. source'[sync[w].src].synced \in Nat /\ \A t \in Source \ {sync[w].src} : source'[t] = source[t]
  BY <1>1 DEF Commit, TypeOK
<1> QED BY <1>1, <1>2, ReturnEmpties DEF Commit

(* A committed row is never removed, by any step. *)
LEMMA RowsStay ==
    ASSUME TypeOK, SourceRead, LoadedFirst, [Next]_vars, NEW k \in Key, grants[k] # Absent
    PROVE  grants'[k] # Absent
<1>1. ASSUME NEW w \in Worker, Commit(w) PROVE grants'[k] # Absent
  <2>1. k[2] \in Ext /\ k = <<k[1], k[2]>> /\ sync[w] \in Session
    BY DEF Key, TypeOK
  <2>2. CASE k[1] = sync[w].src /\ k[2] \in AddedExts(w)
    BY <1>1, <2>1, <2>2 DEF Commit, Clash
  <2>3. CASE k[1] = sync[w].src /\ k[2] \notin AddedExts(w) /\ sync[w].local[k[2]] # Absent
    <3>1. /\ grants[k] \in Row /\ sync[w].loaded[k[2]] \in Row /\ sync[w].local[k[2]] \in Row
      BY <2>1, <2>3 DEF TypeOK, Session, LoadedFirst
    <3>2. grants'[k] = Flushed(grants[k], sync[w].loaded[k[2]], sync[w].local[k[2]])
      BY <1>1, <2>3 DEF Commit
    <3> QED BY <3>1, <3>2, FlushedType, GrantSyncAssumption
  <2>4. CASE ~(k[1] = sync[w].src /\ (k[2] \in AddedExts(w) \/ sync[w].local[k[2]] # Absent))
    BY <1>1, <2>4 DEF Commit
  <2> QED BY <2>2, <2>3, <2>4
<1>2. (\E w \in Worker : Commit(w)) \/ grants' = grants
  BY StepShapes DEF Ended, Begun, Advanced, Reverify, Quiet
<1> QED BY <1>1, <1>2

-----------------------------------------------------------------------------
(* The inductive invariant, one conjunct at a time.                        *)

IInv == TypeOK /\ SessionsSound /\ ActiveMeansSynced

(* A source keeps its last_synced_at, and is active only with one. *)
LEMMA SyncedStays ==
    ASSUME TypeOK, SourceRead, [Next]_vars, NEW s \in Source, source[s].synced # Absent
    PROVE  source'[s].synced # Absent
<1>1. ASSUME NEW w \in Worker, Commit(w) PROVE source'[s].synced # Absent
  BY <1>1, CommitEffect, GrantSyncAssumption
<1>2. (\E w \in Worker : Commit(w)) \/ source'[s].synced = source[s].synced
  BY StepShapes DEF Ended, Begun, Advanced, Reverify, Quiet, SyncedKept
<1> QED BY <1>1, <1>2

(* ActiveMeansSynced. *)
LEMMA ActiveStep ==
    ASSUME IInv, [Next]_vars
    PROVE  ActiveMeansSynced'
<1> USE DEF IInv, SessionsSound
<1> SUFFICES ASSUME NEW s \in Source, source'[s].status = "active"
             PROVE  source'[s].synced # Absent
  BY DEF ActiveMeansSynced
<1>1. ASSUME NEW w \in Worker, Commit(w) PROVE source'[s].synced # Absent
  <2>1. CASE s = sync[w].src
    BY <1>1, <2>1, CommitEffect, GrantSyncAssumption
  <2>2. CASE s # sync[w].src
    BY <1>1, <2>2, CommitEffect DEF ActiveMeansSynced
  <2> QED BY <2>1, <2>2
<1>2. (\E w \in Worker : Commit(w)) \/ source[s].status = "active"
  BY StepShapes DEF Ended, Begun, Advanced, Reverify, Quiet
<1>3. source[s].status = "active" => source'[s].synced # Absent
  BY SyncedStays DEF ActiveMeansSynced
<1> QED BY <1>1, <1>2, <1>3

(* SourceRead. *)
LEMMA SourceReadStep ==
    ASSUME IInv, [Next]_vars
    PROVE  SourceRead'
<1> USE DEF IInv, SessionsSound
<1> SUFFICES ASSUME NEW v \in Worker
             PROVE  /\ Running(v)' => /\ sync'[v].src \in Source
                                      /\ sync'[v].statusLoaded \in SourceStatus
                                      /\ sync'[v].statusLoaded = "active"
                                            => source'[sync'[v].src].synced # Absent
                    /\ ~Running(v)' => /\ sync'[v].log = {}
                                       /\ \A e \in Ext : sync'[v].local[e] = Absent
  BY DEF SourceRead
<1>1. CASE sync'[v] = sync[v]
  BY <1>1, SyncedStays DEF SourceRead, Running
<1>2. ASSUME NEW w \in Worker, Ended(w) \/ Commit(w), sync'[v] # sync[v]
      PROVE  ~Running(v)' /\ sync'[v].log = {} /\ \A e \in Ext : sync'[v].local[e] = Absent
  BY <1>2, CommitEffect DEF Ended, Others, Running
<1>3. ASSUME NEW w \in Worker, Begun(w), sync'[v] # sync[v]
      PROVE  /\ Running(v)' /\ sync'[v].src \in Source /\ sync'[v].statusLoaded \in SourceStatus
             /\ sync'[v].statusLoaded = "active" => source'[sync'[v].src].synced # Absent
  BY <1>3 DEF Begun, Others, Running, ActiveMeansSynced, TypeOK
<1>4. ASSUME NEW w \in Worker, Advanced(w) \/ Reverify(w), sync'[v] # sync[v]
      PROVE  /\ Running(v) /\ Running(v)' /\ sync'[v].src = sync[v].src
             /\ sync'[v].statusLoaded = sync[v].statusLoaded /\ source' = source
  BY <1>4, ReverifyEffect DEF Advanced, Others, Running
<1>5. Quiet => sync'[v] = sync[v]
  BY DEF Quiet
<1> QED BY <1>1, <1>2, <1>3, <1>4, <1>5, StepShapes DEF SourceRead

(* NumberOwn. *)
LEMMA NumberOwnStep ==
    ASSUME IInv, [Next]_vars
    PROVE  NumberOwn'
<1> USE DEF IInv, SessionsSound
<1>1. syncs \in Nat /\ \A v \in Worker : sync[v] \in Session /\ sync[v].id \in Nat
  BY DEF TypeOK, Session
<1>2. \A c \in changes : c.sync \in Nat
  BY DEF TypeOK, Change
<1>3. ASSUME NEW w \in Worker, Ended(w) PROVE NumberOwn'
  <2>1. syncs' \in Nat /\ syncs' >= syncs
    BY <1>3, TypeStep DEF Ended, TypeOK
  <2> QED BY <1>1, <1>2, <1>3, <2>1 DEF Ended, Others, NumberOwn, Running
<1>4. ASSUME NEW w \in Worker, Begun(w) PROVE NumberOwn'
  BY <1>1, <1>2, <1>4 DEF Begun, Others, NumberOwn, Running
<1>5. ASSUME NEW w \in Worker, Advanced(w) PROVE NumberOwn'
  BY <1>1, <1>2, <1>5 DEF Advanced, Others, NumberOwn, Running
<1>6. ASSUME NEW w \in Worker, Reverify(w) PROVE NumberOwn'
  <2>1. \A c \in sync'[w].log : c.sync = sync[w].id
    BY <1>6, ReverifyEffect DEF NumberOwn
  <2> QED BY <1>1, <1>2, <1>6, <2>1, ReverifyEffect DEF Others, NumberOwn, Running
<1>7. ASSUME NEW w \in Worker, Commit(w) PROVE NumberOwn'
  BY <1>1, <1>2, <1>7, CommitEffect DEF Others, NumberOwn, Running
<1>8. Quiet => NumberOwn'
  BY DEF Quiet, NumberOwn, Running
<1> QED BY <1>3, <1>4, <1>5, <1>6, <1>7, <1>8, StepShapes

(* LoadedFirst. *)
LEMMA LoadedFirstStep ==
    ASSUME IInv, [Next]_vars
    PROVE  LoadedFirst'
<1> USE DEF IInv, SessionsSound
<1> SUFFICES ASSUME NEW v \in Worker, NEW e \in Ext, sync'[v].local[e] # Absent
             PROVE  /\ sync'[v].loaded[e] # Absent
                    /\ grants'[<<sync'[v].src, e>>] # Absent
  BY DEF LoadedFirst
<1> DEFINE Kept == /\ sync'[v].src = sync[v].src /\ sync[v].src \in Source
                   /\ sync'[v].loaded[e] # Absent
                   /\ grants[<<sync[v].src, e>>] # Absent
<1>1. ASSUME sync'[v] = sync[v] PROVE Kept
  BY <1>1 DEF LoadedFirst, SourceRead, Running
<1>2. ASSUME NEW w \in Worker, Ended(w) \/ Begun(w) \/ Commit(w), sync'[v] # sync[v] PROVE FALSE
  BY <1>2, CommitEffect DEF Ended, Begun, Others
<1>3. ASSUME NEW w \in Worker, Advanced(w), sync'[v] # sync[v] PROVE Kept
  BY <1>3 DEF Advanced, Others, LoadedFirst, SourceRead, Running
<1>4. ASSUME NEW w \in Worker, Reverify(w), sync'[v] # sync[v] PROVE Kept
  <2>1. v = w /\ sync[v].src \in Source
    BY <1>4, ReverifyEffect DEF Others, SourceRead, Running
  <2>2. CASE e # Head(sync[w].feed).ext
    BY <1>4, <2>1, <2>2, ReverifyEffect DEF LoadedFirst
  <2>3. CASE e = Head(sync[w].feed).ext
    <3>1. ReverifiedRow(w) # Absent
      BY <1>4 DEF Reverify, ReverifiedRow
    <3>2. CASE sync[w].local[e] = Absent
      BY <1>4, <2>1, <2>3, <3>1, <3>2, ReverifyEffect DEF ReverifiedRow, Found
    <3>3. CASE sync[w].local[e] # Absent
      BY <1>4, <2>1, <2>3, <3>3, ReverifyEffect, SMTT(30) DEF LoadedFirst
    <3> QED BY <3>2, <3>3
  <2> QED BY <2>2, <2>3
<1>5. Kept
  BY <1>1, <1>2, <1>3, <1>4, StepShapes DEF Quiet
<1>6. \A s \in Source : grants[<<s, e>>] # Absent => grants'[<<s, e>>] # Absent
  BY RowsStay DEF Key
<1> QED BY <1>5, <1>6

(* A field that _apply_changes moves holds information afterwards, and is  *)
(* logged with the value it has moved to.                                  *)
LEMMA MovedFieldLogged ==
    ASSUME NEW row \in Row, NEW rec \in Record, NEW now \in Nat, NEW f \in Fields,
           FieldValue(ApplyChanges(row, rec, now), f) # FieldValue(row, f)
    PROVE  /\ FieldValue(ApplyChanges(row, rec, now), f) \notin {Empty, NoDate}
           /\ \E m \in Moves(row, rec, now) :
                 LoggedField(m) = f /\ m[3] = FieldValue(ApplyChanges(row, rec, now), f)
<1> DEFINE after == ApplyChanges(row, rec, now)
<1>1. /\ rec.text \in [TextAttr -> TextValue] /\ rec.deadline \in DeadlineText
      /\ row.text \in [TextAttr -> TextValue]
  BY DEF Record, Row
<1>2. CASE f \in TextAttr
  <2>1. after.text[f] = (IF f \in Moved(row, rec) THEN rec.text[f] ELSE row.text[f])
    BY <1>2 DEF ApplyChanges
  <2>2. FieldValue(after, f) = after.text[f] /\ FieldValue(row, f) = row.text[f]
    BY <1>2 DEF FieldValue, TextAttr
  <2>3. f \in Moved(row, rec) /\ FieldValue(after, f) = rec.text[f]
    BY <2>1, <2>2
  <2>4. rec.text[f] \in Text
    BY <1>1, <1>2, <2>3 DEF Moved, TextValue
  <2> DEFINE m == <<TextChangeType(f), row.text[f], rec.text[f]>>
  <2>5. m \in Moves(row, rec, now)
    BY <2>3 DEF Moves
  <2>6. LoggedField(m) = f /\ m[3] = rec.text[f]
    BY <1>2 DEF LoggedField, TextChangeType, TextAttr
  <2> QED BY <2>3, <2>4, <2>5, <2>6, GrantSyncAssumption
<1>3. CASE f = "deadline"
  <2> DEFINE d == ParseDeadline(rec.deadline)
  <2>1. FieldValue(after, f) = after.deadline /\ FieldValue(row, f) = row.deadline
    BY <1>3 DEF FieldValue, TextAttr
  <2>2. after.deadline = (IF DeadlineMoves(row, rec) THEN d ELSE row.deadline)
    BY DEF ApplyChanges
  <2>3. FieldValue(after, f) = d /\ d # NoDate /\ d # row.deadline
    BY <2>1, <2>2 DEF DeadlineMoves
  <2>4. d \in Nat
    BY <1>1, <2>3, DeadlineTypes DEF Deadline
  <2> DEFINE m == <<"deadline_changed", row.deadline, d>>
  <2>5. m \in Moves(row, rec, now)
    BY <2>3 DEF Moves
  <2>6. LoggedField(m) = f /\ m[3] = d
    BY <1>3 DEF LoggedField
  <2> QED BY <2>3, <2>4, <2>5, <2>6, GrantSyncAssumption
<1>4. CASE f = "status"
  <2> DEFINE st == NewStatus(rec, now)
  <2>1. FieldValue(after, f) = st /\ FieldValue(row, f) = row.status
    BY <1>4 DEF FieldValue, TextAttr, ApplyChanges
  <2>2. st # row.status /\ st \in GrantStatus
    BY <2>1, StatusType
  <2> DEFINE m == <<StatusChangeType(row.status, st), row.status, st>>
  <2>3. m \in Moves(row, rec, now)
    BY <2>2 DEF Moves
  <2>4. LoggedField(m) = f /\ m[3] = st
    BY <1>4 DEF LoggedField, StatusChangeType
  <2> QED BY <2>1, <2>2, <2>3, <2>4, GrantSyncAssumption
<1> QED BY <1>2, <1>3, <1>4 DEF Fields

(* DirtyLogged: a field that differs from the loaded one was moved by this *)
(* iteration, and then it is logged now, or by an earlier one.             *)
LEMMA DirtyLoggedStep ==
    ASSUME IInv, [Next]_vars
    PROVE  DirtyLogged'
<1> USE DEF IInv, SessionsSound
<1> SUFFICES ASSUME NEW v \in Worker, NEW e \in Ext, NEW f \in Fields,
                    sync'[v].local[e] # Absent,
                    FieldValue(sync'[v].local[e], f) # FieldValue(sync'[v].loaded[e], f)
             PROVE  /\ FieldValue(sync'[v].local[e], f) \notin {Empty, NoDate}
                    /\ \E c \in sync'[v].log : /\ c.key = <<sync'[v].src, e>>
                                               /\ LoggedField(c.move) = f
                                               /\ c.move[3] = FieldValue(sync'[v].local[e], f)
  BY DEF DirtyLogged
<1>1. CASE sync'[v] = sync[v]
  BY <1>1 DEF DirtyLogged
<1>2. ASSUME NEW w \in Worker, Ended(w) \/ Begun(w) \/ Commit(w), sync'[v] # sync[v] PROVE FALSE
  BY <1>2, CommitEffect DEF Ended, Begun, Others
<1>3. CASE \E w \in Worker : Advanced(w) /\ sync'[v] # sync[v]
  BY <1>3 DEF Advanced, Others, DirtyLogged
<1>4. ASSUME NEW w \in Worker, Reverify(w), sync'[v] # sync[v]
      PROVE  /\ FieldValue(sync'[v].local[e], f) \notin {Empty, NoDate}
             /\ \E c \in sync'[v].log : /\ c.key = <<sync'[v].src, e>>
                                        /\ LoggedField(c.move) = f
                                        /\ c.move[3] = FieldValue(sync'[v].local[e], f)
  <2> DEFINE rec == Head(sync[w].feed)
             row == ReverifiedRow(w)
             now == sync[w].now
  <2>1. /\ v = w /\ sync'[w].src = sync[w].src /\ sync[w].log \subseteq sync'[w].log
        /\ rec \in Record /\ row \in Row /\ now \in Nat
    BY <1>4, ReverifyEffect DEF Others
  <2>2. CASE e # rec.ext
    BY <1>4, <2>1, <2>2, ReverifyEffect DEF DirtyLogged
  <2>3. CASE e = rec.ext
    <3> DEFINE after == ApplyChanges(row, rec, now)
    <3>1. sync'[v].local[e] = after
      BY <1>4, <2>1, <2>3, ReverifyEffect
    <3>2. CASE FieldValue(after, f) # FieldValue(row, f)
      <4>1. PICK m \in Moves(row, rec, now) : LoggedField(m) = f /\ m[3] = FieldValue(after, f)
        BY <2>1, <3>2, MovedFieldLogged
      <4> DEFINE c == [sync |-> sync[w].id, key |-> <<sync[w].src, rec.ext>>, move |-> m]
      <4>2. c \in sync'[w].log
        BY <1>4, ReverifyEffect
      <4>3. FieldValue(after, f) \notin {Empty, NoDate}
        BY <2>1, <3>2, MovedFieldLogged
      <4>4. c.key = <<sync[w].src, e>> /\ c.move = m
        BY <2>3
      <4> HIDE DEF c, after
      <4> QED BY <2>1, <3>1, <4>1, <4>2, <4>3, <4>4
    <3>3. CASE FieldValue(after, f) = FieldValue(row, f)
      <4>1. sync[w].local[e] # Absent /\ row = sync[w].local[e]
            /\ sync'[w].loaded[e] = sync[w].loaded[e]
        BY <1>4, <2>1, <2>3, <3>1, <3>3, ReverifyEffect DEF ReverifiedRow, Found
      <4> HIDE DEF after, row
      <4> QED BY <2>1, <3>1, <3>3, <4>1, SMTT(30) DEF DirtyLogged
    <3> QED BY <3>2, <3>3
  <2> QED BY <2>2, <2>3
<1> QED BY <1>1, <1>2, <1>3, <1>4, StepShapes DEF Quiet

(* The initial state. *)
LEMMA InitIInv == Init => IInv
<1> SUFFICES ASSUME Init PROVE IInv
  OBVIOUS
<1>1. \A w \in Worker : ~Running(w) /\ sync[w].log = {} /\ \A e \in Ext : sync[w].local[e] = Absent
  BY DEF Init, Idle, Running
<1>2. ActiveMeansSynced
  BY DEF Init, ActiveMeansSynced
<1>3. SessionsSound
  BY <1>1 DEF Init, SessionsSound, SourceRead, NumberOwn, LoadedFirst, DirtyLogged
<1> QED BY <1>2, <1>3, InitType DEF IInv

(* Every step. *)
LEMMA StepIInv == IInv /\ [Next]_vars => IInv'
<1> SUFFICES ASSUME IInv, [Next]_vars PROVE IInv'
  OBVIOUS
<1>1. TypeOK'
  BY TypeStep DEF IInv, SessionsSound
<1> QED BY <1>1, ActiveStep, SourceReadStep, NumberOwnStep, LoadedFirstStep, DirtyLoggedStep
        DEF IInv, SessionsSound

(* The invariant holds of every behaviour. *)
LEMMA Invariance == Spec => []IInv
BY InitIInv, StepIInv, PTL DEF Spec

-----------------------------------------------------------------------------
(* The theorems.                                                           *)

(* Types: whatever the connectors return and however the syncs overlap,    *)
(* what sync_source leaves in the three tables is well formed.             *)
THEOREM TypeCorrect == Spec => []TypeOK
BY Invariance, PTL DEF IInv

(* No session holds a moved field without its change log row, a row it     *)
(* never loaded, or another sync's number.                                 *)
THEOREM SessionsAreSound == Spec => []SessionsSound
BY Invariance, PTL DEF IInv

(* A source shown as active has been synced, however the writes of its     *)
(* status by overlapping syncs fall.                                       *)
THEOREM ActiveSourcesSynced == Spec => []ActiveMeansSynced
BY Invariance, PTL DEF IInv

(* A tracked field that a commit moves in the database is one the session  *)
(* holds with another value than it loaded, and takes that value.          *)
LEMMA CommitMoves ==
    ASSUME IInv, NEW w \in Worker, Commit(w), NEW k \in Key, NEW f \in Fields,
           grants[k] # Absent, FieldValue(grants'[k], f) # FieldValue(grants[k], f)
    PROVE  /\ k = <<sync[w].src, k[2]>> /\ k[2] \in Ext
           /\ sync[w].local[k[2]] # Absent
           /\ FieldValue(sync[w].local[k[2]], f) # FieldValue(sync[w].loaded[k[2]], f)
           /\ FieldValue(grants'[k], f) = FieldValue(sync[w].local[k[2]], f)
<1> DEFINE e == k[2]
           current == grants[k]
           loaded == sync[w].loaded[e]
           local == sync[w].local[e]
<1>1. k = <<k[1], e>> /\ e \in Ext
  BY DEF Key
<1>2. k[1] = sync[w].src /\ e \notin AddedExts(w) /\ local # Absent
  BY <1>1 DEF Commit, Clash
<1>3. grants'[k] = Flushed(current, loaded, local)
  BY <1>2 DEF Commit
<1>4. FieldValue(Flushed(current, loaded, local), f)
        = Column(FieldValue(current, f), FieldValue(loaded, f), FieldValue(local, f))
  BY DEF Flushed, FieldValue, Fields, TextAttr
<1> QED BY <1>1, <1>2, <1>3, <1>4 DEF Column

(* What the live feed sees of a row is not the absence of one. *)
LEMMA CatalogueEntry ==
    ASSUME NEW row \in Row
    PROVE  [f \in Fields |-> FieldValue(row, f)] # Absent
<1>1. /\ row.text \in [TextAttr -> TextValue]
      /\ row.deadline \in Deadline /\ row.status \in GrantStatus
  BY DEF Row
<1>2. \A f \in Fields : FieldValue(row, f) \in FieldDomain
  BY <1>1 DEF FieldValue, Fields, FieldDomain, TextAttr
<1> QED BY <1>2, GrantSyncAssumption

(* The initial state of the ledger. *)
LEMMA LedgerInit == Init => Ledger!Init
BY DEF Init, Ledger!Init, Catalogue, Log

(* A step of the syncs is a step of the ledger. *)
LEMMA LedgerStep ==
    ASSUME IInv, [Next]_vars
    PROVE  [Ledger!Publish]_<<Catalogue, Log>>
<1> USE DEF IInv, SessionsSound
<1>1. CASE UNCHANGED <<grants, changes>>
  BY <1>1 DEF Catalogue, Log
<1>2. ASSUME NEW w \in Worker, Commit(w) PROVE Ledger!Publish
  <2>1. Log \subseteq Log'
    BY <1>2, CommitEffect DEF Log
  <2>2. ASSUME NEW k \in Key, grants[k] # Absent
        PROVE  /\ grants'[k] # Absent /\ Catalogue'[k] # Absent /\ Catalogue[k] # Absent
               /\ \A f \in Fields : /\ Catalogue[k][f] = FieldValue(grants[k], f)
                                    /\ Catalogue'[k][f] = FieldValue(grants'[k], f)
    <3>1. grants'[k] # Absent /\ grants[k] \in Row /\ grants'[k] \in Row
      BY <2>2, RowsStay, TypeStep DEF TypeOK
    <3>2. \A row \in Row : [f \in Fields |-> FieldValue(row, f)] # Absent
      BY CatalogueEntry
    <3>3. /\ Catalogue[k] = [f \in Fields |-> FieldValue(grants[k], f)]
          /\ Catalogue'[k] = [f \in Fields |-> FieldValue(grants'[k], f)]
      BY <2>2, <3>1 DEF Catalogue
    <3> QED BY <3>1, <3>2, <3>3
  <2>3. \A k \in Key : grants[k] = Absent => Catalogue[k] = Absent
    BY DEF Catalogue
  <2>4. ASSUME NEW k \in Key, grants[k] # Absent, NEW f \in Fields,
               Catalogue'[k][f] # Catalogue[k][f]
        PROVE  /\ Catalogue'[k][f] \notin {Empty, NoDate}
               /\ \E x \in Log' \ Log : x[2] = k /\ x[3] = f /\ x[4] = Catalogue'[k][f]
    <3> DEFINE e == k[2]
    <3>1. FieldValue(grants'[k], f) # FieldValue(grants[k], f)
      BY <2>2, <2>4
    <3>2. /\ k = <<sync[w].src, e>> /\ e \in Ext /\ sync[w].local[e] # Absent
          /\ FieldValue(sync[w].local[e], f) # FieldValue(sync[w].loaded[e], f)
          /\ Catalogue'[k][f] = FieldValue(sync[w].local[e], f)
      BY <1>2, <2>2, <2>4, <3>1, CommitMoves
    <3>3. PICK c \in sync[w].log : /\ c.key = k /\ LoggedField(c.move) = f
                                  /\ c.move[3] = Catalogue'[k][f]
      BY <3>2 DEF DirtyLogged
    <3>4. c \in changes' /\ c \notin changes
      BY <1>2, CommitEffect DEF NumberOwn, Running
    <3> DEFINE x == <<c, c.key, LoggedField(c.move), c.move[3]>>
    <3>5. x \in Log' /\ x \notin Log
      BY <3>4 DEF Log
    <3>6. x[2] = k /\ x[3] = f /\ x[4] = Catalogue'[k][f]
      BY <3>3
    <3> HIDE DEF x
    <3> QED BY <3>2, <3>5, <3>6 DEF DirtyLogged
  <2>5. \A k \in Key : Ledger!Kept(k)
    BY <2>2, <2>3 DEF Ledger!Kept
  <2>6. \A k \in Key : Ledger!Explained(k) /\ Ledger!NotErased(k)
    BY <2>3, <2>4 DEF Ledger!Explained, Ledger!NotErased, Ledger!Moving
  <2> QED BY <2>1, <2>5, <2>6 DEF Ledger!Publish
<1>3. (\E w \in Worker : Commit(w)) \/ UNCHANGED <<grants, changes>>
  BY StepShapes DEF Ended, Begun, Advanced, Reverify, Quiet
<1> QED BY <1>1, <1>2, <1>3

(* The import implements the ledger. *)
THEOREM ImportKeepsLedger == Spec => LedgerKept
<1>1. Init => Ledger!Init
  BY LedgerInit
<1>2. IInv /\ [Next]_vars => [Ledger!Publish]_<<Catalogue, Log>>
  BY LedgerStep
<1> QED BY <1>1, <1>2, Invariance, PTL DEF Spec, LedgerKept, Ledger!Spec

-----------------------------------------------------------------------------
(* What holds as long as syncs do not overlap: one worker runs them.       *)
OneAtATime == \A v, w \in Worker : v = w

(* The dedup hash of a row still names it. *)
HashNames(row) ==
    /\ row.hash.title = row.text["title"]
    /\ \/ ParseDeadline(row.hash.deadline) = row.deadline
       \/ /\ row.hash.deadline # NoDate
          /\ row.hash.deadline.form = "datetime"
          /\ row.hash.deadline.day = row.deadline

Sound(row, now) == HashNames(row) /\ row.updated <= row.verified /\ row.verified <= now

(* The loop of a sync runs at one reading of the clock, no earlier than    *)
(* the last commit, over rows that nobody writes until its own commit: the *)
(* row it loaded is the row that is there, what it holds is sound, and the *)
(* hash it found free stays free.                                          *)
LoopSound(w) ==
    LET now == sync[w].now IN
    /\ now <= clock
    /\ \A k \in Key : grants[k] # Absent => grants[k].verified <= now
    /\ \A e \in Ext : sync[w].local[e] # Absent =>
           /\ sync[w].loaded[e] = grants[<<sync[w].src, e>>]
           /\ Sound(sync[w].local[e], now)
    /\ \A i \in DOMAIN sync[w].added :
           LET row == sync[w].added[i].row IN Sound(row, now) /\ ~HashTaken(row.hash)

OneSync ==
    /\ \A k \in Key : grants[k] # Absent => Sound(grants[k], clock)
    /\ \A w \in Worker :
           IF sync[w].pc = "loop" THEN LoopSound(w)
           ELSE sync[w].added = <<>> /\ \A e \in Ext : sync[w].local[e] = Absent

(* The row _apply_changes leaves behind is sound if the one it found was.  *)
LEMMA ApplyChangesSound ==
    ASSUME NEW row \in Row, NEW rec \in Record, NEW now \in Nat,
           HashNames(row), row.updated <= now
    PROVE  Sound(ApplyChanges(row, rec, now), now)
<1> DEFINE text == [a \in TextAttr |->
                       IF a \in Moved(row, rec) THEN rec.text[a] ELSE row.text[a]]
           deadline == IF DeadlineMoves(row, rec) THEN ParseDeadline(rec.deadline)
                       ELSE row.deadline
           after == ApplyChanges(row, rec, now)
<1>1. /\ after.text = text /\ after.deadline = deadline /\ after.verified = now
      /\ after.hash = IF Changed(row, rec, now)
                      THEN ComputeDedupHash(text["title"], IsoFormat(deadline)) ELSE row.hash
      /\ after.updated = IF Changed(row, rec, now) THEN now ELSE row.updated
  BY DEF ApplyChanges
<1>2. deadline \in Deadline
  BY DeadlineTypes DEF Row, Record
<1>3. row.updated \in Nat
  BY DEF Row
<1>4. HashNames(after)
  <2>1. CASE Changed(row, rec, now)
    <3>1. after.hash.title = text["title"] /\ after.hash.deadline = IsoFormat(deadline)
      BY <1>1, <2>1 DEF ComputeDedupHash
    <3>2. ParseDeadline(IsoFormat(deadline)) = deadline
      <4>1. CASE deadline = NoDate
        BY <4>1 DEF IsoFormat, ParseDeadline
      <4>2. CASE deadline # NoDate
        <5> HIDE DEF deadline
        <5>1. deadline \in Nat
          BY <1>2, <4>2 DEF Deadline
        <5> DEFINE iso == [form |-> "datetime", day |-> deadline]
        <5>2. IsoFormat(deadline) = iso
          BY <4>2 DEF IsoFormat
        <5>3. iso # NoDate /\ iso.form # "bad" /\ iso.day = deadline
          BY <5>1, GrantSyncAssumption
        <5> HIDE DEF iso
        <5> QED BY <5>2, <5>3 DEF ParseDeadline
      <4> QED BY <4>1, <4>2
    <3> HIDE DEF deadline, text, after
    <3> QED BY <1>1, <3>1, <3>2 DEF HashNames
  <2>2. CASE ~Changed(row, rec, now)
    <3>1. text["title"] = row.text["title"] /\ deadline = row.deadline /\ after.hash = row.hash
      BY <1>1, <2>2 DEF Changed, TextAttr
    <3> HIDE DEF deadline, text, after
    <3> QED BY <1>1, <3>1 DEF HashNames
  <2> QED BY <2>1, <2>2
<1>5. after.updated <= after.verified /\ after.verified <= now
  <2> HIDE DEF after
  <2> QED BY <1>1, <1>3
<1> QED BY <1>4, <1>5 DEF Sound

(* The row a new record becomes is sound. *)
LEMMA ImportedGrantSound ==
    ASSUME NEW rec \in Record, NEW now \in Nat
    PROVE  Sound(ImportedGrant(rec, now), now)
BY DEF ImportedGrant, ComputeDedupHash, Sound, HashNames

(* Over the row it loaded, a session writes the row it holds. *)
LEMMA FlushedSound ==
    ASSUME NEW loaded \in Row, NEW local \in Row, NEW now, Sound(local, now)
    PROVE  Sound(Flushed(loaded, loaded, local), now)
<1> DEFINE row == Flushed(loaded, loaded, local)
<1>1. /\ row.text["title"] = local.text["title"] /\ row.deadline = local.deadline
      /\ row.hash = local.hash /\ row.verified = local.verified /\ row.updated = local.updated
  BY DEF Flushed, Column, TextAttr
<1> HIDE DEF row
<1>2. Sound(row, now)
  BY <1>1 DEF Sound, HashNames
<1> QED BY <1>2 DEF row

(* A row that was sound at one time is sound later. *)
LEMMA SoundLater ==
    ASSUME NEW row \in Row, NEW now \in Nat, NEW later \in Nat, Sound(row, now), now <= later
    PROVE  Sound(row, later)
<1>1. row.verified \in Nat
  BY DEF Row
<1> QED BY <1>1 DEF Sound

(* A worker that runs nothing has added nothing and holds no row. *)
LEMMA ReturnSound ==
    ASSUME OneAtATime, TypeOK, NEW w \in Worker, NEW outcome, Return(w, outcome)
    PROVE  \A v \in Worker : /\ sync'[v].pc # "loop" /\ sync'[v].added = <<>>
                             /\ \A e \in Ext : sync'[v].local[e] = Absent
<1>1. sync'[w] = [Idle EXCEPT !.outcome = outcome]
  BY DEF Return, TypeOK
<1> QED BY <1>1 DEF OneAtATime, Idle

-----------------------------------------------------------------------------
LEMMA InitOneSync == Init => OneSync
BY DEF Init, OneSync, Idle

(* A sync begins its loop: it holds nothing yet, and the clock has passed  *)
(* every commit.                                                           *)
LEMMA FetchReturnsSound ==
    ASSUME OneAtATime, IInv, OneSync, NEW w \in Worker, NEW feed \in Feed, FetchReturns(w, feed)
    PROVE  OneSync'
<1>1. /\ sync'[w].pc = "loop" /\ sync'[w].now = clock
      /\ sync'[w].added = sync[w].added /\ sync'[w].local = sync[w].local
      /\ grants' = grants /\ clock' = clock /\ clock \in Nat
  BY DEF FetchReturns, IInv, TypeOK, Session
<1>2. sync'[w].added = <<>> /\ \A e \in Ext : sync'[w].local[e] = Absent
  BY <1>1 DEF OneSync, FetchReturns
<1>3. \A k \in Key : grants'[k] # Absent => Sound(grants'[k], clock)
  BY <1>1 DEF OneSync
<1>4. LoopSound(w)'
  BY <1>1, <1>2, <1>3 DEF LoopSound, Sound
<1>5. \A v \in Worker : v = w
  BY DEF OneAtATime
<1> QED BY <1>1, <1>3, <1>4, <1>5 DEF OneSync

(* An iteration over a record of an imported grant. *)
LEMMA ReverifySound ==
    ASSUME OneAtATime, IInv, OneSync, NEW w \in Worker, Reverify(w)
    PROVE  OneSync'
<1> DEFINE ext == Head(sync[w].feed).ext
           row == ReverifiedRow(w)
           now == sync[w].now
           after == ApplyChanges(row, Head(sync[w].feed), now)
<1>0. TypeOK /\ SourceRead /\ LoopSound(w) /\ clock \in Nat
  BY DEF IInv, SessionsSound, OneSync, Reverify, TypeOK
<1>1. /\ \A e \in Ext \ {ext} : /\ sync'[w].local[e] = sync[w].local[e]
                               /\ sync'[w].loaded[e] = sync[w].loaded[e]
      /\ sync'[w].local[ext] = after
      /\ sync'[w].loaded[ext] = IF sync[w].local[ext] = Absent THEN row ELSE sync[w].loaded[ext]
      /\ sync'[w].src = sync[w].src /\ grants' = grants
      /\ ext \in Ext /\ row \in Row /\ now \in Nat /\ Head(sync[w].feed) \in Record
  BY <1>0, ReverifyEffect
<1>2. sync'[w].pc = "loop" /\ sync'[w].now = now /\ sync'[w].added = sync[w].added
      /\ clock' = clock
  <2> DEFINE found == Found(w, ext)
             loaded == [sync[w].loaded EXCEPT ![ext] = IF sync[w].local[ext] = Absent
                                                       THEN found ELSE @]
             local == [sync[w].local EXCEPT ![ext] = ApplyChanges(found, Head(sync[w].feed), now)]
             log == sync[w].log \cup
                        {[sync |-> sync[w].id, key |-> <<sync[w].src, ext>>, move |-> m] :
                            m \in Moves(found, Head(sync[w].feed), now)}
  <2>1. sync' = [sync EXCEPT ![w].feed = Tail(@), ![w].loaded = loaded, ![w].local = local,
                             ![w].log = log]
    BY <1>0, SMTT(30) DEF Reverify, TypeOK
  <2> HIDE DEF found, loaded, local, log
  <2>2. sync'[w] = [sync[w] EXCEPT !.feed = Tail(@), !.loaded = loaded, !.local = local,
                                   !.log = log]
    BY <1>0, <2>1 DEF TypeOK
  <2>3. sync[w] \in Session /\ sync[w].pc = "loop" /\ clock' = clock
    BY <1>0 DEF Reverify, TypeOK
  <2> QED BY <2>2, <2>3 DEF Session
<1>3. row = IF sync[w].local[ext] # Absent THEN sync[w].local[ext]
            ELSE grants[<<sync[w].src, ext>>]
  BY DEF ReverifiedRow, Found
<1>4. <<sync[w].src, ext>> \in Key
  BY <1>0, <1>1 DEF Reverify, SourceRead, Running, Key
<1>5. HashNames(row) /\ row.updated <= now
  <2>1. CASE sync[w].local[ext] # Absent
    <3>1. Sound(row, now)
      BY <1>0, <1>1, <1>3, <2>1 DEF LoopSound
    <3> QED BY <1>1, <3>1 DEF Sound, Row
  <2>2. CASE sync[w].local[ext] = Absent
    <3>1. row = grants[<<sync[w].src, ext>>] /\ row # Absent
      BY <1>1, <1>3, <2>2, GrantSyncAssumption
    <3>2. Sound(row, clock) /\ row.verified <= now
      BY <1>0, <1>4, <3>1 DEF OneSync, LoopSound
    <3> QED BY <1>1, <3>2 DEF Sound, Row
  <2> QED BY <2>1, <2>2
<1> HIDE DEF row
<1>6. Sound(after, now)
  BY <1>1, <1>5, ApplyChangesSound
<1> HIDE DEF after, ext
<1>7. ASSUME NEW e \in Ext, sync'[w].local[e] # Absent
      PROVE  sync'[w].loaded[e] = grants[<<sync[w].src, e>>] /\ Sound(sync'[w].local[e], now)
  BY <1>0, <1>1, <1>3, <1>6, <1>7 DEF LoopSound
<1>8. \A i \in DOMAIN sync'[w].added :
         /\ Sound(sync'[w].added[i].row, now)
         /\ \A k \in Key : grants'[k] # Absent => grants'[k].hash # sync'[w].added[i].row.hash
  BY <1>0, <1>1, <1>2 DEF LoopSound, HashTaken
<1>9. now <= clock /\ \A k \in Key : grants'[k] # Absent => grants'[k].verified <= now
  BY <1>0, <1>1 DEF LoopSound
<1>10. LoopSound(w)'
  <2> HIDE DEF now
  <2> QED BY <1>1, <1>2, <1>7, <1>8, <1>9 DEF LoopSound, HashTaken
<1>11. \A v \in Worker : v = w
  BY DEF OneAtATime
<1> QED BY <1>1, <1>2, <1>10, <1>11 DEF OneSync

(* An iteration over a record not imported yet. *)
LEMMA ImportSound ==
    ASSUME OneAtATime, IInv, OneSync, NEW w \in Worker, Import(w)
    PROVE  OneSync'
<1> DEFINE rec == Head(sync[w].feed)
           now == sync[w].now
           row == ImportedGrant(rec, now)
           new == [ext |-> rec.ext, row |-> row]
<1>0. TypeOK /\ LoopSound(w)
  BY DEF IInv, OneSync, Import
<1>1. /\ sync'[w].pc = "loop" /\ sync'[w].now = now /\ sync'[w].src = sync[w].src
      /\ sync'[w].local = sync[w].local /\ sync'[w].loaded = sync[w].loaded
      /\ sync'[w].added = IF HashTaken(row.hash) THEN sync[w].added
                          ELSE Append(sync[w].added, new)
      /\ grants' = grants /\ clock' = clock
  BY <1>0 DEF Import, TypeOK, Session
<1>2. rec \in Record /\ now \in Nat /\ sync[w].added \in Seq(Addition)
  <2>1. sync[w] \in Session /\ sync[w].feed # <<>>
    BY <1>0 DEF TypeOK, Import
  <2>2. sync[w].feed \in Seq(Record) /\ now \in Nat /\ sync[w].added \in Seq(Addition)
    BY <2>1 DEF Session
  <2> QED BY <2>1, <2>2
<1>3. Sound(row, now)
  BY <1>2, ImportedGrantSound
<1>4. new.row = row
  OBVIOUS
<1>5. /\ sync'[w].added \in Seq(Addition)
      /\ \A i \in DOMAIN sync'[w].added :
            /\ Sound(sync'[w].added[i].row, now)
            /\ ~HashTaken(sync'[w].added[i].row.hash)
  <2> DEFINE added == sync[w].added
  <2>1. \A i \in DOMAIN added : Sound(added[i].row, now) /\ ~HashTaken(added[i].row.hash)
    BY <1>0 DEF LoopSound
  <2>2. new \in Addition
    BY <1>2, ImportedGrantType DEF Addition, Record
  <2> HIDE DEF added, new, row, rec, now
  <2>3. CASE HashTaken(row.hash)
    BY <1>1, <1>2, <2>1, <2>3 DEF added
  <2>4. CASE ~HashTaken(row.hash)
    <3>1. added \in Seq(Addition) /\ sync'[w].added = Append(added, new)
      BY <1>1, <1>2, <2>4 DEF added
    <3>2. DOMAIN Append(added, new) = 1..(Len(added) + 1)
      BY <2>2, <3>1
    <3>3. ASSUME NEW i \in DOMAIN Append(added, new)
          PROVE  Append(added, new)[i] = new \/ (i \in DOMAIN added /\ Append(added, new)[i] = added[i])
      BY <2>2, <3>1, <3>2
    <3>4. Append(added, new) \in Seq(Addition)
      BY <2>2, <3>1
    <3> QED BY <1>3, <1>4, <2>1, <2>4, <3>1, <3>3, <3>4
  <2> QED BY <2>3, <2>4
<1>6. \A i \in DOMAIN sync'[w].added : \A k \in Key :
         grants'[k] # Absent => grants'[k].hash # sync'[w].added[i].row.hash
  BY <1>1, <1>5 DEF HashTaken
<1> HIDE DEF rec, now, row, new
<1>7. LoopSound(w)'
  <2>1. now <= clock /\ \A k \in Key : grants'[k] # Absent => grants'[k].verified <= now
    BY <1>0, <1>1 DEF LoopSound, now
  <2>2. \A e \in Ext : sync'[w].local[e] # Absent =>
           /\ sync'[w].loaded[e] = grants'[<<sync'[w].src, e>>]
           /\ Sound(sync'[w].local[e], now)
    BY <1>0, <1>1 DEF LoopSound, now
  <2> QED BY <1>1, <1>5, <1>6, <2>1, <2>2 DEF LoopSound, HashTaken
<1>8. \A v \in Worker : v = w
  BY DEF OneAtATime
<1> QED BY <1>1, <1>7, <1>8 DEF OneSync

(* What a commit leaves: a row it added, one it changed, which nobody      *)
(* wrote since it was loaded, or the row that was there.                   *)
LEMMA CommitRows ==
    ASSUME IInv, OneSync, NEW w \in Worker, Commit(w), NEW k \in Key
    PROVE  \/ \E i \in DOMAIN sync[w].added : grants'[k] = sync[w].added[i].row
           \/ grants[k] # Absent /\ Sound(grants'[k], sync[w].now)
           \/ grants'[k] = grants[k]
<1> DEFINE s == sync[w].src
           e == k[2]
           loaded == sync[w].loaded[e]
           local == sync[w].local[e]
<1>0. TypeOK /\ LoadedFirst /\ LoopSound(w)
  BY DEF IInv, SessionsSound, OneSync, Commit
<1>1. e \in Ext /\ k = <<k[1], e>> /\ grants[k] \in Row \cup {Absent}
  BY <1>0 DEF Key, TypeOK
<1>2. CASE k[1] # s
  BY <1>2 DEF Commit
<1>3. CASE k[1] = s /\ e \in AddedExts(w)
  <2>1. grants'[k] = AddedRow(w, e)
    BY <1>3 DEF Commit
  <2>2. \E i \in DOMAIN sync[w].added : sync[w].added[i].ext = e
    BY <1>3 DEF AddedExts
  <2> QED BY <2>1, <2>2 DEF AddedRow
<1>4. CASE k[1] = s /\ e \notin AddedExts(w) /\ local # Absent
  <2>1. grants'[k] = Flushed(grants[k], loaded, local)
    BY <1>4 DEF Commit
  <2>2. loaded = grants[k] /\ Sound(local, sync[w].now) /\ grants[k] # Absent
    BY <1>0, <1>1, <1>4 DEF LoopSound, LoadedFirst
  <2>3. local \in Row /\ grants[k] \in Row
    BY <1>0, <1>1, <1>4, <2>2 DEF TypeOK, Session
  <2> QED BY <2>1, <2>2, <2>3, FlushedSound
<1>5. CASE k[1] = s /\ e \notin AddedExts(w) /\ local = Absent
  BY <1>5 DEF Commit
<1> QED BY <1>2, <1>3, <1>4, <1>5

LEMMA CommitSound ==
    ASSUME OneAtATime, IInv, OneSync, NEW w \in Worker, Commit(w), TypeOK'
    PROVE  OneSync'
<1>0. TypeOK /\ LoopSound(w) /\ clock \in Nat /\ sync[w].now \in Nat /\ clock' = clock
  BY DEF IInv, OneSync, Commit, TypeOK, Session
<1>1. ASSUME NEW k \in Key, grants'[k] # Absent PROVE Sound(grants'[k], clock)
  <2>1. grants'[k] \in Row
    BY <1>1 DEF TypeOK
  <2>2. Sound(grants'[k], sync[w].now) \/ grants'[k] = grants[k]
    BY <1>0, CommitRows DEF LoopSound
  <2>3. sync[w].now <= clock
    BY <1>0 DEF LoopSound
  <2> QED BY <1>0, <1>1, <2>1, <2>2, <2>3, SoundLater DEF OneSync
<1>2. \A v \in Worker : /\ sync'[v].pc # "loop" /\ sync'[v].added = <<>>
                        /\ \A e \in Ext : sync'[v].local[e] = Absent
  BY <1>0, ReturnSound DEF Commit
<1> QED BY <1>0, <1>1, <1>2 DEF OneSync

(* A call that returns without a commit. *)
LEMMA ReturnedSound ==
    ASSUME OneAtATime, IInv, OneSync, NEW w \in Worker, NEW outcome, Return(w, outcome),
           grants' = grants, clock' = clock
    PROVE  OneSync'
<1>1. \A v \in Worker : /\ sync'[v].pc # "loop" /\ sync'[v].added = <<>>
                        /\ \A e \in Ext : sync'[v].local[e] = Absent
  BY ReturnSound DEF IInv
<1> QED BY <1>1 DEF OneSync

LEMMA OneSyncStep == OneAtATime /\ IInv /\ OneSync /\ [Next]_vars => OneSync'
<1> SUFFICES ASSUME OneAtATime, IInv, OneSync, [Next]_vars PROVE OneSync'
  OBVIOUS
<1>0. TypeOK /\ TypeOK' /\ clock \in Nat
  BY TypeStep DEF IInv, SessionsSound, TypeOK
<1>1. ASSUME NEW w \in Worker, NEW s \in Source, UnknownConnector(w, s) PROVE OneSync'
  BY <1>1, ReturnedSound DEF UnknownConnector
<1>2. ASSUME NEW w \in Worker, NEW s \in Source, NotConfigured(w, s) PROVE OneSync'
  BY <1>2, ReturnedSound DEF NotConfigured
<1>3. ASSUME NEW w \in Worker, NEW s \in Source, StartFetch(w, s) PROVE OneSync'
  <2>1. /\ sync'[w].pc = "fetch" /\ sync'[w].added = <<>>
        /\ \A e \in Ext : sync'[w].local[e] = Absent
    BY <1>0, <1>3 DEF StartFetch, TypeOK, Idle
  <2>2. \A v \in Worker : v = w
    BY DEF OneAtATime
  <2> QED BY <1>3, <2>1, <2>2 DEF StartFetch, OneSync
<1>4. ASSUME NEW w \in Worker, NEW status \in SourceStatus, FetchFails(w, status) PROVE OneSync'
  BY <1>4, ReturnedSound DEF FetchFails
<1>5. ASSUME NEW w \in Worker, NEW feed \in Feed, FetchReturns(w, feed) PROVE OneSync'
  BY <1>5, FetchReturnsSound
<1>6. ASSUME NEW w \in Worker, Reverify(w) PROVE OneSync'
  BY <1>6, ReverifySound
<1>7. ASSUME NEW w \in Worker, Import(w) PROVE OneSync'
  BY <1>7, ImportSound
<1>8. ASSUME NEW w \in Worker, Commit(w) PROVE OneSync'
  BY <1>0, <1>8, CommitSound
<1>9. ASSUME NEW w \in Worker, CommitRefused(w) \/ SessionLost(w) PROVE OneSync'
  BY <1>9, ReturnedSound DEF CommitRefused, SessionLost
<1>10. CASE Tick
  <2>1. clock' = clock + 1 /\ grants' = grants /\ sync' = sync
    BY <1>10 DEF Tick
  <2>2. \A w \in Worker : sync[w].now \in Nat
    BY <1>0 DEF TypeOK, Session
  <2>3. \A k \in Key : grants'[k] # Absent => Sound(grants'[k], clock')
    BY <1>0, <2>1, SoundLater DEF OneSync, TypeOK
  <2>4. ASSUME NEW w \in Worker, LoopSound(w) PROVE LoopSound(w)'
    BY <1>0, <2>1, <2>2, <2>4 DEF LoopSound, HashTaken
  <2> QED BY <2>1, <2>3, <2>4 DEF OneSync
<1>11. CASE UNCHANGED vars
  BY <1>11 DEF vars, OneSync, LoopSound, HashTaken
<1> QED BY <1>1, <1>2, <1>3, <1>4, <1>5, <1>6, <1>7, <1>8, <1>9, <1>10, <1>11 DEF Next

LEMMA OneSyncInvariance == OneAtATime => (Spec => [](IInv /\ OneSync))
<1> SUFFICES ASSUME OneAtATime PROVE Spec => [](IInv /\ OneSync)
  OBVIOUS
<1>1. Init => IInv /\ OneSync
  BY InitIInv, InitOneSync
<1>2. IInv /\ OneSync /\ [Next]_vars => (IInv /\ OneSync)'
  BY StepIInv, OneSyncStep
<1> QED BY <1>1, <1>2, PTL DEF Spec

(* While syncs do not overlap, _apply_changes and the import leave every   *)
(* row with the hash of its own title and deadline.                        *)
THEOREM HashesNameRows == OneAtATime => (Spec => []HashNamesRow)
<1> SUFFICES ASSUME OneAtATime PROVE Spec => []HashNamesRow
  OBVIOUS
<1>1. OneSync => HashNamesRow
  BY DEF OneSync, Sound, HashNames, HashNamesRow
<1>2. Spec => [](IInv /\ OneSync)
  BY OneSyncInvariance
<1> QED BY <1>1, <1>2, PTL

(* While syncs do not overlap, a row's last_updated_at never passes its    *)
(* last_verified_at, nor that the clock, whatever a feed lists twice.      *)
THEOREM StampsAreOrdered == OneAtATime => (Spec => []StampsOrdered)
<1> SUFFICES ASSUME OneAtATime PROVE Spec => []StampsOrdered
  OBVIOUS
<1>1. OneSync => StampsOrdered
  BY DEF OneSync, Sound, StampsOrdered
<1>2. Spec => [](IInv /\ OneSync)
  BY OneSyncInvariance
<1> QED BY <1>1, <1>2, PTL

(* While syncs do not overlap, the look-up by hash, made record by record  *)
(* in the loop, still holds at the commit that ends the sync.              *)
LEMMA CopyStep ==
    ASSUME IInv, OneSync, [Next]_vars, NEW k \in Key, grants[k] = Absent, grants'[k] # Absent,
           NEW j \in Key, grants[j] # Absent
    PROVE  grants[j].hash # grants'[k].hash
<1>1. PICK w \in Worker : Commit(w)
  BY StepShapes DEF Ended, Begun, Advanced, Reverify, Quiet, IInv, SessionsSound
<1>2. PICK i \in DOMAIN sync[w].added : grants'[k] = sync[w].added[i].row
  BY <1>1, CommitRows
<1>3. LoopSound(w)
  BY <1>1 DEF OneSync, Commit
<1> QED BY <1>2, <1>3 DEF LoopSound, HashTaken

(* A sync adds no grant that another source's row carries the hash of.     *)
THEOREM NoCopyIsImported == OneAtATime => (Spec => NoSecondCopy)
<1> SUFFICES ASSUME OneAtATime PROVE Spec => NoSecondCopy
  OBVIOUS
<1>1. IInv /\ OneSync /\ [Next]_vars =>
         [\A k \in Key : grants[k] = Absent /\ grants'[k] # Absent =>
             ~ \E j \in Key : /\ j[1] # k[1]
                              /\ grants[j] # Absent
                              /\ grants[j].hash = grants'[k].hash]_vars
  BY CopyStep
<1>2. Spec => [](IInv /\ OneSync)
  BY OneSyncInvariance
<1> QED BY <1>1, <1>2, PTL DEF Spec, NoSecondCopy

=============================================================================
