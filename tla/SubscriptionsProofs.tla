------------------------ MODULE SubscriptionsProofs ------------------------
(***************************************************************************)
(* Theorems about Subscriptions, for any number of threads, any limits and *)
(* whether or not processes exit.                                          *)
(***************************************************************************)
EXTENDS Subscriptions, TLAPS

(* A thread past its first read holds a row that exists, and no endpoint   *)
(* deletes one; a thread that sends or verifies holds a token.  TypeOK is  *)
(* not inductive without it: a commit updates the row it read.             *)
HoldsRow ==
    /\ tasks > 0 => row # Never
    /\ \A w \in Worker :
        /\ thread[w].pc \in {"renew", "send", "store", "verify", "unsubscribe"} =>
               row # Never /\ thread[w].loaded # Never
        /\ thread[w].pc \in {"send", "store", "verify"} => thread[w].token \in Token

IInv == TypeOK /\ HoldsRow /\ TokenDated

(* What a step of a thread does to the thread: it gets a new state of      *)
(* Thread and the others keep theirs.                                      *)
LEMMA ThreadStep ==
    ASSUME TypeOK, NEW w \in Worker, NEW s \in Thread,
           thread' = [thread EXCEPT ![w] = s]
    PROVE  /\ thread' \in [Worker -> Thread]
           /\ thread'[w] = s
           /\ \A v \in Worker \ {w} : thread'[v] = thread[v]
  BY DEF TypeOK

LEMMA IdleThread == Idle \in Thread /\ Idle.pc = "idle"
  BY DEF Idle, Thread

LEMMA InitInv == Init => IInv
<1> SUFFICES ASSUME Init PROVE IInv
  OBVIOUS
<1>1. TypeOK
  BY IdleThread DEF Init, TypeOK
<1>2. HoldsRow
  BY DEF Init, HoldsRow, Idle
<1>3. TokenDated
  BY DEF Init, TokenDated
<1> QED
  BY <1>1, <1>2, <1>3 DEF IInv

(* A thread that becomes idle keeps what HoldsRow says of every thread.    *)
LEMMA ReturnHolds ==
    ASSUME IInv, NEW w \in Worker, Return(w),
           row # Never => row' # Never, tasks' > 0 => row' # Never
    PROVE  thread' \in [Worker -> Thread] /\ HoldsRow'
<1>1. /\ thread' \in [Worker -> Thread]
      /\ thread'[w].pc = "idle"
      /\ \A v \in Worker \ {w} : thread'[v] = thread[v]
  BY IdleThread, ThreadStep DEF IInv, Return
<1>2. ASSUME NEW v \in Worker
      PROVE  /\ thread'[v].pc \in {"renew", "send", "store", "verify", "unsubscribe"} =>
                    row' # Never /\ thread'[v].loaded # Never
             /\ thread'[v].pc \in {"send", "store", "verify"} => thread'[v].token \in Token
  <2>1. CASE v = w
    BY <1>1, <2>1
  <2>2. CASE v # w
    BY <1>1, <2>2 DEF IInv, HoldsRow
  <2> QED
    BY <2>1, <2>2
<1> QED
  BY <1>1, <1>2 DEF HoldsRow

(* A thread that moves to a state that meets HoldsRow keeps it, as long as *)
(* the row stays.                                                          *)
LEMMA MoveHolds ==
    ASSUME IInv, NEW w \in Worker, NEW s \in Thread,
           thread' = [thread EXCEPT ![w] = s],
           row' = row, tasks' > 0 => row # Never,
           s.pc \in {"renew", "send", "store", "verify", "unsubscribe"} =>
               row # Never /\ s.loaded # Never,
           s.pc \in {"send", "store", "verify"} => s.token \in Token
    PROVE  thread' \in [Worker -> Thread] /\ HoldsRow'
<1>1. /\ thread' \in [Worker -> Thread]
      /\ thread'[w] = s
      /\ \A v \in Worker \ {w} : thread'[v] = thread[v]
  BY ThreadStep DEF IInv
<1>2. ASSUME NEW v \in Worker
      PROVE  /\ thread'[v].pc \in {"renew", "send", "store", "verify", "unsubscribe"} =>
                    row' # Never /\ thread'[v].loaded # Never
             /\ thread'[v].pc \in {"send", "store", "verify"} => thread'[v].token \in Token
  <2>1. CASE v = w
    BY <1>1, <2>1
  <2>2. CASE v # w
    BY <1>1, <2>2 DEF IInv, HoldsRow
  <2> QED
    BY <2>1, <2>2
<1> QED
  BY <1>1, <1>2 DEF HoldsRow

-----------------------------------------------------------------------------
(* A thread that starts sends a new token, for the row it has just read.   *)
LEMMA NewTokenHolds ==
    ASSUME IInv, NEW w \in Worker, NEW force \in BOOLEAN, NewToken(w, force),
           row # Never, row' = row
    PROVE  thread' \in [Worker -> Thread] /\ HoldsRow' /\ sends' \in Nat
<1> DEFINE s == [pc |-> "send", loaded |-> row, token |-> sends', now |-> clock, force |-> force]
<1>1. sends' \in Nat /\ sends' \in Token
  BY SubscriptionsAssumption DEF NewToken, IInv, TypeOK, Token
<1>2. s \in Thread
  BY <1>1 DEF Thread, IInv, TypeOK
<1>3. thread' = [thread EXCEPT ![w] = s]
  BY DEF NewToken
<1>4. s.pc = "send" /\ s.loaded # Never /\ s.token \in Token
  BY <1>1
<1> HIDE DEF s
<1> QED
  BY <1>1, <1>2, <1>3, <1>4, MoveHolds

(* A request of subscribe, unsubscribe or verify that has read the row.    *)
LEMMA LoadHolds ==
    ASSUME IInv, NEW w \in Worker, NEW pc \in {"insert", "renew", "unsubscribe"},
           pc # "insert" => row # Never, Load(w, pc), row' = row, tasks' = tasks
    PROVE  thread' \in [Worker -> Thread] /\ HoldsRow'
<1> DEFINE s == [Idle EXCEPT !.pc = pc, !.loaded = row]
<1>1. s \in Thread /\ s.pc = pc /\ s.loaded = row
  BY DEF Idle, Thread, IInv, TypeOK
<1>2. thread' = [thread EXCEPT ![w] = s]
  BY DEF Load
<1>3. tasks > 0 => row # Never
  BY DEF IInv, HoldsRow
<1> HIDE DEF s
<1> QED
  BY <1>1, <1>2, <1>3, MoveHolds

(* What a commit that merges a column leaves: one of the two values.       *)
LEMMA ColumnValue ==
    ASSUME NEW current, NEW loaded, NEW local
    PROVE  Column(current, loaded, local) \in {current, local}
  BY DEF Column

LEMMA RowIsRow ==
    ASSUME IInv, row # Never
    PROVE  row \in Row
  BY DEF IInv, TypeOK

(* A commit that changes nothing but the status leaves the token dated.    *)
LEMMA StatusOnly ==
    ASSUME IInv, row # Never, NEW r \in Row, row' = r, log' = log,
           r.token = row.token, r.expires = row.expires, r.sentAt = row.sentAt
    PROVE  TokenDated'
  BY DEF IInv, TokenDated

-----------------------------------------------------------------------------
LEMMA NextInv == IInv /\ [Next]_vars => IInv'
<1> SUFFICES ASSUME IInv, [Next]_vars PROVE IInv'
  OBVIOUS
<1>0. TypeOK /\ HoldsRow /\ TokenDated
  BY DEF IInv
<1>1. ASSUME NEW w \in Worker, Subscribe(w) PROVE IInv'
  <2>1. thread' \in [Worker -> Thread] /\ HoldsRow'
    BY <1>1, LoadHolds DEF Subscribe
  <2>2. TypeOK'
    BY <1>0, <1>1, <2>1 DEF Subscribe, TypeOK
  <2>3. TokenDated'
    BY <1>0, <1>1 DEF Subscribe, TokenDated
  <2> QED
    BY <2>1, <2>2, <2>3 DEF IInv
<1>2. ASSUME NEW w \in Worker, Resend(w) PROVE IInv'
  <2>1. thread' \in [Worker -> Thread] /\ HoldsRow' /\ sends' \in Nat
    BY <1>2, NewTokenHolds DEF Resend
  <2>2. TypeOK'
    BY <1>0, <1>2, <2>1 DEF Resend, TypeOK
  <2>3. TokenDated'
    BY <1>0, <1>2 DEF Resend, TokenDated
  <2> QED
    BY <2>1, <2>2, <2>3 DEF IInv
<1>3. ASSUME NEW w \in Worker, Unsubscribe(w) PROVE IInv'
  <2>1. thread' \in [Worker -> Thread] /\ HoldsRow'
    BY <1>3, LoadHolds DEF Unsubscribe
  <2>2. TypeOK'
    BY <1>0, <1>3, <2>1 DEF Unsubscribe, TypeOK
  <2>3. TokenDated'
    BY <1>0, <1>3 DEF Unsubscribe, TokenDated
  <2> QED
    BY <2>1, <2>2, <2>3 DEF IInv
<1>4. ASSUME NEW w \in Worker, TaskStarts(w) PROVE IInv'
  <2>1. row # Never /\ row' = row
    BY <1>0, <1>4 DEF TaskStarts, HoldsRow
  <2>2. thread' \in [Worker -> Thread] /\ HoldsRow' /\ sends' \in Nat
    BY <1>4, <2>1, NewTokenHolds DEF TaskStarts
  <2>3. TypeOK'
    BY <1>0, <1>4, <2>2 DEF TaskStarts, TypeOK
  <2>4. TokenDated'
    BY <1>0, <1>4 DEF TaskStarts, TokenDated
  <2> QED
    BY <2>2, <2>3, <2>4 DEF IInv
<1>5. ASSUME NEW w \in Worker, NEW t \in Token, Verify(w, t) PROVE IInv'
  <2> DEFINE s == [Idle EXCEPT !.pc = "verify", !.loaded = row, !.token = t]
  <2>1. s \in Thread /\ s.pc = "verify" /\ s.loaded = row /\ s.token = t
    BY <1>0 DEF Idle, Thread, TypeOK
  <2>2. /\ thread' = [thread EXCEPT ![w] = s]
        /\ row' = row /\ tasks' = tasks /\ row # Never
    BY <1>5 DEF Verify
  <2>3. thread' \in [Worker -> Thread] /\ HoldsRow'
    <3> HIDE DEF s
    <3> QED
      BY <1>0, <2>1, <2>2, MoveHolds
  <2>4. TypeOK'
    BY <1>0, <1>5, <2>3 DEF Verify, TypeOK
  <2>5. TokenDated'
    BY <1>0, <1>5 DEF Verify, TokenDated
  <2> QED
    BY <2>3, <2>4, <2>5 DEF IInv
<1>6. ASSUME NEW w \in Worker, SubscribeInsert(w) PROVE IInv'
  <2>1. NewRow \in Row /\ NewRow.token = Never
    BY <1>0 DEF NewRow, Row, Status, TypeOK
  <2>2. row' \in Row /\ row' # Never /\ tasks' \in Nat
    BY <1>0, <1>6, <2>1, NoRowAssumption DEF SubscribeInsert, TypeOK
  <2>3. thread' \in [Worker -> Thread] /\ HoldsRow'
    BY <1>6, <2>2, ReturnHolds DEF SubscribeInsert
  <2>4. TypeOK'
    BY <1>0, <1>6, <2>2, <2>3 DEF SubscribeInsert, TypeOK
  <2>5. TokenDated'
    BY <1>0, <1>6, <2>1 DEF SubscribeInsert, TokenDated
  <2> QED
    BY <2>3, <2>4, <2>5 DEF IInv
<1>7. ASSUME NEW w \in Worker, SubscribeAgain(w) PROVE IInv'
  <2>1. row \in Row
    BY <1>0, <1>7, RowIsRow DEF SubscribeAgain, HoldsRow
  <2> DEFINE r == [row EXCEPT !.status = "pending"]
  <2>2. r \in Row /\ r.token = row.token /\ r.expires = row.expires /\ r.sentAt = row.sentAt
    BY <1>0, <2>1 DEF Row, Status, TypeOK
  <2>3. row' = r /\ log' = log /\ row # Never /\ tasks' \in Nat /\ r # Never
    BY <1>0, <1>7, <2>2, NoRowAssumption DEF SubscribeAgain, HoldsRow, TypeOK
  <2> HIDE DEF r
  <2>4. thread' \in [Worker -> Thread] /\ HoldsRow'
    BY <1>7, <2>3, ReturnHolds DEF SubscribeAgain
  <2>5. TypeOK'
    BY <1>0, <1>7, <2>2, <2>3, <2>4 DEF SubscribeAgain, TypeOK
  <2>6. TokenDated'
    BY <2>2, <2>3, StatusOnly
  <2> QED
    BY <2>4, <2>5, <2>6 DEF IInv
<1>8. ASSUME NEW w \in Worker, NEW delivered \in BOOLEAN, Deliver(w, delivered) PROVE IInv'
  <2> DEFINE s == [thread[w] EXCEPT !.pc = "store"]
  <2>1. /\ s \in Thread /\ s.pc = "store" /\ s.loaded = thread[w].loaded
        /\ s.token = thread[w].token
    BY <1>0 DEF Thread, TypeOK
  <2>2. /\ thread' = [thread EXCEPT ![w] = s] /\ row' = row /\ tasks' = tasks
        /\ thread[w].token \in Token /\ row # Never /\ thread[w].loaded # Never
    BY <1>0, <1>8 DEF Deliver, HoldsRow
  <2>3. thread' \in [Worker -> Thread] /\ HoldsRow'
    <3> HIDE DEF s
    <3> QED
      BY <1>0, <2>1, <2>2, MoveHolds
  <2>4. TypeOK'
    BY <1>0, <1>8, <2>2, <2>3 DEF Deliver, TypeOK
  <2>5. TokenDated'
    BY <1>0, <1>8 DEF Deliver, TokenDated
  <2> QED
    BY <2>3, <2>4, <2>5 DEF IInv
<1>9. ASSUME NEW w \in Worker, StoreToken(w) PROVE IInv'
  <2> DEFINE t == thread[w].token
             at == thread[w].now
             u == Column(row.used, thread[w].loaded.used, FALSE)
             r == [row EXCEPT !.token = t, !.expires = at + TTL, !.used = u, !.sentAt = at]
             l == [token |-> t, at |-> at, force |-> thread[w].force]
  <2>1. row \in Row /\ row # Never /\ t \in Token
    BY <1>0, <1>9, RowIsRow DEF StoreToken, HoldsRow
  <2>2. at \in Nat /\ at + TTL \in Nat /\ thread[w].force \in BOOLEAN
    BY <1>0, SubscriptionsAssumption DEF TypeOK, Thread
  <2>3. u \in BOOLEAN
    <3>1. row.used \in BOOLEAN
      BY <2>1 DEF Row
    <3>2. u = row.used \/ u = FALSE
      BY Zenon DEF Column
    <3> QED
      BY <3>1, <3>2, Zenon
  <2>4. row' = r /\ log' = log \cup {l}
    BY <1>9 DEF StoreToken
  <2>5. r \in Row /\ r.token = t /\ r.expires = at + TTL /\ r.sentAt = at
    <3> HIDE DEF t, at, u
    <3> QED
      BY <2>1, <2>2, <2>3 DEF Row
  <2>6. thread' \in [Worker -> Thread] /\ HoldsRow'
    BY <1>9, <2>4, <2>5, NoRowAssumption, ReturnHolds DEF StoreToken
  <2>7. TypeOK'
    <3>1. l \in [token : Token, at : Nat, force : BOOLEAN]
      BY <2>1, <2>2
    <3> HIDE DEF r, l
    <3> QED
      BY <1>0, <1>9, <2>4, <2>5, <2>6, <3>1 DEF StoreToken, TypeOK
  <2>8. TokenDated'
    <3>1. l.token = t /\ l.at = at
      OBVIOUS
    <3> HIDE DEF r, l
    <3> QED
      BY <2>4, <2>5, <3>1 DEF TokenDated
  <2> QED
    BY <2>6, <2>7, <2>8 DEF IInv
<1>10. ASSUME NEW w \in Worker, VerifyCommit(w) PROVE IInv'
  <2> DEFINE c == Column(row.status, thread[w].loaded.status, "verified")
             r == [row EXCEPT !.status = c, !.used = TRUE]
  <2>1. row \in Row /\ row # Never /\ thread[w].token \in Token
    BY <1>0, <1>10, RowIsRow DEF VerifyCommit, HoldsRow
  <2>2. c \in Status
    BY <2>1, ColumnValue DEF Row, Status
  <2>3. r \in Row /\ r.token = row.token /\ r.expires = row.expires /\ r.sentAt = row.sentAt
    <3> HIDE DEF c
    <3> QED
      BY <2>1, <2>2 DEF Row
  <2>4. row' = r /\ log' = log
    BY <1>10 DEF VerifyCommit
  <2> HIDE DEF r
  <2>5. thread' \in [Worker -> Thread] /\ HoldsRow'
    BY <1>10, <2>3, <2>4, NoRowAssumption, ReturnHolds DEF VerifyCommit
  <2>6. TypeOK'
    BY <1>0, <1>10, <2>1, <2>3, <2>4, <2>5 DEF VerifyCommit, TypeOK
  <2>7. TokenDated'
    BY <2>1, <2>3, <2>4, StatusOnly
  <2> QED
    BY <2>5, <2>6, <2>7 DEF IInv
<1>11. ASSUME NEW w \in Worker, UnsubscribeCommit(w) PROVE IInv'
  <2> DEFINE c == Column(row.status, thread[w].loaded.status, "unsubscribed")
             r == [row EXCEPT !.status = c]
  <2>1. row \in Row /\ row # Never
    BY <1>0, <1>11, RowIsRow DEF UnsubscribeCommit, HoldsRow
  <2>2. c \in Status
    BY <2>1, ColumnValue DEF Row, Status
  <2>3. r \in Row /\ r.token = row.token /\ r.expires = row.expires /\ r.sentAt = row.sentAt
    <3> HIDE DEF c
    <3> QED
      BY <2>1, <2>2 DEF Row
  <2>4. row' = r /\ log' = log
    BY <1>11 DEF UnsubscribeCommit
  <2> HIDE DEF r
  <2>5. thread' \in [Worker -> Thread] /\ HoldsRow'
    BY <1>11, <2>3, <2>4, NoRowAssumption, ReturnHolds DEF UnsubscribeCommit
  <2>6. TypeOK'
    BY <1>0, <1>11, <2>3, <2>4, <2>5 DEF UnsubscribeCommit, TypeOK
  <2>7. TokenDated'
    BY <2>1, <2>3, <2>4, StatusOnly
  <2> QED
    BY <2>5, <2>6, <2>7 DEF IInv
<1>12. ASSUME NEW w \in Worker, Exit(w) PROVE IInv'
  <2>1. thread' \in [Worker -> Thread] /\ HoldsRow'
    BY <1>0, <1>12, ReturnHolds DEF Exit, HoldsRow
  <2>2. TypeOK'
    BY <1>0, <1>12, <2>1 DEF Exit, TypeOK
  <2>3. TokenDated'
    BY <1>0, <1>12 DEF Exit, TokenDated
  <2> QED
    BY <2>1, <2>2, <2>3 DEF IInv
<1>13. ASSUME LoseTask PROVE IInv'
  <2>1. tasks' \in Nat /\ (tasks' > 0 => tasks > 0)
    BY <1>0, <1>13 DEF LoseTask, TypeOK
  <2> QED
    BY <1>0, <1>13, <2>1 DEF LoseTask, IInv, TypeOK, HoldsRow, TokenDated
<1>14. ASSUME Tick PROVE IInv'
  BY <1>0, <1>14 DEF Tick, IInv, TypeOK, HoldsRow, TokenDated
<1>15. ASSUME UNCHANGED vars PROVE IInv'
  BY <1>0, <1>15 DEF vars, IInv, TypeOK, HoldsRow, TokenDated
<1> QED
  BY <1>1, <1>2, <1>3, <1>4, <1>5, <1>6, <1>7, <1>8, <1>9, <1>10, <1>11, <1>12, <1>13,
     <1>14, <1>15 DEF Next, Step

(* Whatever requests, tasks and exits overlap, the row is well formed, and *)
(* a commit never finds that the row it read is gone.                      *)
THEOREM TypeCorrect == Spec => []TypeOK
<1>1. IInv => TypeOK
  BY DEF IInv
<1> QED
  BY InitInv, NextInv, <1>1, PTL DEF Spec

(* The token of send_verification_email, its expiry and its date come from *)
(* one send that email_logs records, though any number of sends overlap.   *)
THEOREM TokensAreDated == Spec => []TokenDated
<1>1. IInv => TokenDated
  BY DEF IInv
<1> QED
  BY InitInv, NextInv, <1>1, PTL DEF Spec

-----------------------------------------------------------------------------
(* What holds as long as requests do not overlap: one thread runs them.    *)
Alone == \A v, w \in Worker : v = w

Sending(w) == thread[w].pc \in {"send", "store"}

(* Nobody writes the row between a request's two steps. *)
LoadedIsRow == \A w \in Worker : thread[w].pc # "idle" => thread[w].loaded = row

(* The token of a send is newer than every one that was stored, logged or  *)
(* used.                                                                   *)
NewestToken ==
    /\ \A t \in Token : uses[t] > 0 => t <= sends
    /\ \A l \in log : l.token <= sends
    /\ \A w \in Worker : Sending(w) =>
           /\ thread[w].token <= sends
           /\ uses[thread[w].token] = 0
           /\ \A l \in log : l.token < thread[w].token

(* used tells whether the stored token has verified. *)
UsedMeansUsed ==
    /\ row # Never =>
           /\ row.used = TRUE => row.token \in Token /\ uses[row.token] > 0
           /\ row.used = FALSE /\ row.token \in Token => uses[row.token] = 0
    /\ \A w \in Worker : thread[w].pc = "verify" =>
           row.token = thread[w].token /\ row.used = FALSE

(* Every logged email was sent by the date in the row, and Limit before an *)
(* email that resend sends.                                                *)
SentAtIsLast ==
    /\ \A l \in log : row # Never /\ row.sentAt \in Nat /\ l.at <= row.sentAt
    /\ row # Never /\ row.sentAt \in Nat => row.sentAt <= clock
    /\ \A w \in Worker : Sending(w) =>
           /\ thread[w].now <= clock
           /\ \A l \in log : /\ l.at <= thread[w].now
                             /\ thread[w].force = FALSE => l.at + Limit <= thread[w].now

SInv ==
    /\ IInv /\ LoadedIsRow /\ NewestToken /\ UsedMeansUsed /\ SentAtIsLast
    /\ SingleUse /\ ResendSpaced

(* What of SInv is not about a thread. *)
RowFacts ==
    /\ \A t \in Token : uses[t] > 0 => t <= sends
    /\ \A l \in log : l.token <= sends
    /\ row # Never =>
           /\ row.used = TRUE => row.token \in Token /\ uses[row.token] > 0
           /\ row.used = FALSE /\ row.token \in Token => uses[row.token] = 0
    /\ \A l \in log : row # Never /\ row.sentAt \in Nat /\ l.at <= row.sentAt
    /\ row # Never /\ row.sentAt \in Nat => row.sentAt <= clock
    /\ SingleUse /\ ResendSpaced

(* What of SInv is about a thread w whose record is s. *)
ThreadFacts(s) ==
    /\ s.pc # "idle" => s.loaded = row
    /\ s.pc \in {"send", "store"} =>
           /\ s.token <= sends /\ uses[s.token] = 0
           /\ \A l \in log : l.token < s.token
           /\ s.now <= clock
           /\ \A l \in log : /\ l.at <= s.now
                             /\ s.force = FALSE => l.at + Limit <= s.now
    /\ s.pc = "verify" => row.token = s.token /\ row.used = FALSE

LEMMA SInvParts == SInv <=> IInv /\ RowFacts /\ \A w \in Worker : ThreadFacts(thread[w])
<1>1. ASSUME SInv PROVE RowFacts /\ \A w \in Worker : ThreadFacts(thread[w])
  BY <1>1 DEF SInv, RowFacts, ThreadFacts, LoadedIsRow, NewestToken, UsedMeansUsed,
              SentAtIsLast, Sending
<1>2. ASSUME IInv, RowFacts, \A w \in Worker : ThreadFacts(thread[w]) PROVE SInv
  BY <1>2 DEF SInv, RowFacts, ThreadFacts, LoadedIsRow, NewestToken, UsedMeansUsed,
              SentAtIsLast, Sending
<1> QED
  BY <1>1, <1>2 DEF SInv

LEMMA SInvPartsNext == (SInv <=> IInv /\ RowFacts /\ \A w \in Worker : ThreadFacts(thread[w]))'
  BY SInvParts, PTL

(* The one thread there is has the record it was given. *)
LEMMA OneThread ==
    ASSUME Alone, TypeOK, NEW w \in Worker, NEW s \in Thread,
           thread' = [thread EXCEPT ![w] = s]
    PROVE  \A v \in Worker : thread'[v] = s
  BY ThreadStep DEF Alone

LEMMA OneReturns ==
    ASSUME Alone, TypeOK, NEW w \in Worker, Return(w)
    PROVE  \A v \in Worker : ThreadFacts(thread[v])'
<1>1. \A v \in Worker : thread'[v].pc = "idle"
  BY OneThread, IdleThread DEF Return
<1> QED
  BY <1>1 DEF ThreadFacts

(* A request or task has begun or ended, and changed no committed state.   *)
LEMMA SameFacts ==
    ASSUME RowFacts, row' = row, uses' = uses, log' = log,
           clock' = clock, sends' = sends
    PROVE  RowFacts'
  BY DEF RowFacts, SingleUse, ResendSpaced

LEMMA LoadSerial ==
    ASSUME Alone, TypeOK, NEW w \in Worker, NEW pc \in {"insert", "renew", "unsubscribe"},
           Load(w, pc), row' = row
    PROVE  \A v \in Worker : ThreadFacts(thread[v])'
<1> DEFINE s == [Idle EXCEPT !.pc = pc, !.loaded = row]
<1>1. s \in Thread /\ s.pc = pc /\ s.loaded = row
  BY DEF Idle, Thread, TypeOK
<1>2. thread' = [thread EXCEPT ![w] = s]
  BY DEF Load
<1>3. \A v \in Worker : thread'[v].pc = pc /\ thread'[v].loaded = row'
  <2> HIDE DEF s
  <2> QED
    BY <1>1, <1>2, OneThread
<1> QED
  BY <1>3 DEF ThreadFacts

(* The rows of email_logs in numbers. *)
LEMMA LogTypes ==
    ASSUME IInv
    PROVE  \A l \in log : l.token \in Nat /\ l.at \in Nat
  BY SubscriptionsAssumption DEF IInv, TypeOK, Token

(* The new token is newer than every other, and resend keeps its distance. *)
LEMMA NewTokenSerial ==
    ASSUME Alone, IInv, RowFacts, NEW w \in Worker, NEW force \in BOOLEAN, NewToken(w, force),
           row # Never, force = FALSE => ~RateLimited,
           row' = row, uses' = uses, log' = log, clock' = clock
    PROVE  RowFacts' /\ \A v \in Worker : ThreadFacts(thread[v])'
<1> DEFINE s == [pc |-> "send", loaded |-> row, token |-> sends', now |-> clock, force |-> force]
<1>1. /\ sends' = sends + 1 /\ sends \in Nat /\ sends' \in Nat /\ sends' \in Token
      /\ clock \in Nat /\ Limit \in Nat
  BY SubscriptionsAssumption DEF NewToken, IInv, TypeOK, Token
<1>2. s \in Thread
  BY <1>1 DEF Thread, IInv, TypeOK
<1>3. thread' = [thread EXCEPT ![w] = s]
  BY DEF NewToken
<1>4. /\ s.pc = "send" /\ s.loaded = row /\ s.token = sends' /\ s.now = clock
      /\ s.force = force
  OBVIOUS
<1>5. \A v \in Worker : thread'[v] = s
  <2> HIDE DEF s
  <2> QED
    BY <1>2, <1>3, OneThread DEF IInv
<1> HIDE DEF s
<1>6. \A t \in Token : t \in Nat /\ uses[t] \in Nat
  BY SubscriptionsAssumption DEF IInv, TypeOK, Token
<1>7. RowFacts'
  <2>1. \A t \in Token : uses'[t] > 0 => t <= sends'
    BY <1>1, <1>6 DEF RowFacts
  <2>2. \A l \in log' : l.token <= sends'
    BY <1>1, LogTypes DEF RowFacts
  <2> QED
    BY <2>1, <2>2 DEF RowFacts, SingleUse, ResendSpaced
<1>8. uses[sends'] = 0 /\ \A l \in log : l.token < sends'
  BY <1>1, <1>6, LogTypes DEF RowFacts
<1>9. ASSUME NEW l \in log
      PROVE  l.at <= clock /\ (force = FALSE => l.at + Limit <= clock)
  <2> DEFINE a == l.at
             b == row.sentAt
  <2>1. a \in Nat /\ b \in Nat /\ a <= b /\ b <= clock
    BY <1>9, LogTypes DEF RowFacts
  <2>2. force = FALSE => ~(clock - b < Limit)
    BY <2>1, SubscriptionsAssumption DEF RateLimited
  <2> HIDE DEF a, b
  <2>3. a <= clock /\ (force = FALSE => a + Limit <= clock)
    BY <1>1, <2>1, <2>2
  <2> QED
    BY <2>3 DEF a
<1>10. ASSUME NEW v \in Worker PROVE ThreadFacts(thread[v])'
  <2> DEFINE u == thread'[v]
  <2>1. u = s
    BY <1>5
  <2> HIDE DEF u
  <2>2. /\ u.pc = "send" /\ u.loaded = row' /\ u.token <= sends' /\ uses'[u.token] = 0
        /\ u.now <= clock'
    BY <1>1, <1>4, <1>8, <2>1
  <2>3. \A l \in log' : l.token < u.token /\ l.at <= u.now
                        /\ (u.force = FALSE => l.at + Limit <= u.now)
    BY <1>4, <1>8, <1>9, <2>1
  <2> QED
    BY <2>2, <2>3 DEF u, ThreadFacts
<1> QED
  BY <1>7, <1>10

(* A commit that changes the status alone. *)
LEMMA StatusFacts ==
    ASSUME RowFacts, row # Never, NEW r \in Row, row' = r,
           r.token = row.token, r.used = row.used, r.sentAt = row.sentAt,
           uses' = uses, log' = log, clock' = clock, sends' = sends
    PROVE  RowFacts'
  BY NoRowAssumption DEF RowFacts, SingleUse, ResendSpaced

-----------------------------------------------------------------------------
LEMMA SInitInv == Init => SInv
<1> SUFFICES ASSUME Init PROVE SInv
  OBVIOUS
<1>1. RowFacts
  BY DEF Init, RowFacts, SingleUse, ResendSpaced
<1>2. \A w \in Worker : ThreadFacts(thread[w])
  BY DEF Init, Idle, ThreadFacts
<1> QED
  BY <1>1, <1>2, InitInv, SInvParts

(* The commit of send_verification_email: the new token has verified       *)
(* nobody, its date is the last, and a resent email is late enough.        *)
LEMMA StoreSerial ==
    ASSUME Alone, SInv, NEW w \in Worker, StoreToken(w)
    PROVE  RowFacts'
<1>0. IInv /\ RowFacts /\ ThreadFacts(thread[w]) /\ TypeOK
  BY SInvParts DEF IInv
<1> DEFINE t == thread[w].token
           at == thread[w].now
           f == thread[w].force
           u == Column(row.used, thread[w].loaded.used, FALSE)
           r == [row EXCEPT !.token = t, !.expires = at + TTL, !.used = u, !.sentAt = at]
           l == [token |-> t, at |-> at, force |-> f]
<1>1. row \in Row /\ row # Never /\ t \in Token
  BY <1>0, RowIsRow DEF StoreToken, HoldsRow, IInv
<1>2. at \in Nat /\ at + TTL \in Nat /\ t \in Nat /\ sends \in Nat /\ clock \in Nat /\ Limit \in Nat
  BY <1>0, <1>1, SubscriptionsAssumption DEF TypeOK, Thread, Token
<1>3. u = FALSE
  <2>1. thread[w].loaded = row
    BY <1>0 DEF StoreToken, ThreadFacts
  <2>2. row.used \in BOOLEAN
    BY <1>1 DEF Row
  <2> QED
    BY <2>1, <2>2, Zenon DEF Column
<1>4. row' = r /\ log' = log \cup {l} /\ uses' = uses /\ clock' = clock /\ sends' = sends
  BY DEF StoreToken
<1>5. /\ t <= sends /\ uses[t] = 0 /\ at <= clock
      /\ \A m \in log : m.token < t /\ m.at <= at /\ (f = FALSE => m.at + Limit <= at)
  BY <1>0 DEF StoreToken, ThreadFacts
<1>6. l.token = t /\ l.at = at /\ l.force = f
  OBVIOUS
<1> HIDE DEF t, at, f, u, l
<1>7. r \in Row /\ r.token = t /\ r.used = FALSE /\ r.sentAt = at
  BY <1>1, <1>2, <1>3 DEF Row
<1> HIDE DEF r
<1>8. \A k \in Token : uses'[k] > 0 => k <= sends'
  BY <1>0, <1>4 DEF RowFacts
<1>9. \A m \in log' : m.token <= sends'
  BY <1>0, <1>4, <1>5, <1>6 DEF RowFacts
<1>10. \A m \in log' : row' # Never /\ row'.sentAt \in Nat /\ m.at <= row'.sentAt
  BY <1>2, <1>4, <1>5, <1>6, <1>7, NoRowAssumption
<1>11. SingleUse'
  BY <1>0, <1>4 DEF RowFacts, SingleUse
<1>12. ResendSpaced'
  <2> SUFFICES ASSUME NEW a \in log', NEW b \in log', a.token < b.token, ~b.force
               PROVE  b.at - a.at >= Limit
    BY <1>4 DEF ResendSpaced
  <2>1. CASE a \in log /\ b \in log
    BY <1>0, <2>1 DEF RowFacts, ResendSpaced
  <2>2. CASE a \in log /\ b = l
    <3> DEFINE p == a.at
    <3>1. p \in Nat /\ p + Limit <= at
      BY <1>0, <1>5, <1>6, <2>2, LogTypes
    <3>2. b.at = at
      BY <1>6, <2>2
    <3> HIDE DEF p
    <3>3. at - p >= Limit
      BY <1>2, <3>1
    <3> QED
      BY <3>2, <3>3 DEF p
  <2>3. CASE a = l /\ b = l
    BY <1>2, <1>6, <2>3
  <2>4. CASE a = l /\ b \in log
    <3>1. b.token \in Nat /\ b.token < t /\ t < b.token
      BY <1>0, <1>5, <1>6, <2>4, LogTypes
    <3> QED
      BY <1>2, <3>1
  <2> QED
    BY <1>4, <2>1, <2>2, <2>3, <2>4
<1>13. row'.sentAt <= clock' /\ row'.used = FALSE /\ uses'[row'.token] = 0
  BY <1>4, <1>5, <1>7
<1> QED
  BY <1>8, <1>9, <1>10, <1>11, <1>12, <1>13 DEF RowFacts

(* The commit of verify_email: the token had verified nobody. *)
LEMMA VerifySerial ==
    ASSUME Alone, SInv, NEW w \in Worker, VerifyCommit(w)
    PROVE  RowFacts'
<1>0. IInv /\ RowFacts /\ ThreadFacts(thread[w]) /\ TypeOK /\ TokenDated
  BY SInvParts DEF IInv
<1> DEFINE t == thread[w].token
           c == Column(row.status, thread[w].loaded.status, "verified")
           r == [row EXCEPT !.status = c, !.used = TRUE]
<1>1. row \in Row /\ row # Never /\ t \in Token
  BY <1>0, RowIsRow DEF VerifyCommit, HoldsRow, IInv
<1>2. row.token = t /\ row.used = FALSE
  BY <1>0 DEF VerifyCommit, ThreadFacts
<1>3. /\ row' = r /\ uses' = [uses EXCEPT ![t] = uses[t] + 1]
      /\ log' = log /\ clock' = clock /\ sends' = sends
  BY DEF VerifyCommit
<1> HIDE DEF t
<1>4. uses[t] = 0 /\ t <= sends
  <2>1. uses[t] = 0
    BY <1>0, <1>1, <1>2 DEF RowFacts
  <2>2. t # Never
    BY <1>1, SubscriptionsAssumption DEF Token
  <2> QED
    BY <1>0, <1>1, <1>2, <2>1, <2>2 DEF TokenDated, RowFacts
<1>5. c \in Status
  BY <1>1, ColumnValue DEF Row, Status
<1> HIDE DEF c
<1>6. r \in Row /\ r.token = t /\ r.used = TRUE /\ r.sentAt = row.sentAt
  BY <1>1, <1>2, <1>5 DEF Row
<1> HIDE DEF r
<1>7. uses'[t] = 1 /\ \A k \in Token \ {t} : uses'[k] = uses[k]
  BY <1>0, <1>1, <1>3, <1>4 DEF TypeOK
<1>8. \A k \in Token : uses'[k] > 0 => k <= sends'
  BY <1>0, <1>3, <1>4, <1>7 DEF RowFacts
<1>9. SingleUse'
  BY <1>0, <1>7 DEF RowFacts, SingleUse
<1>10. ResendSpaced'
  BY <1>0, <1>3 DEF RowFacts, ResendSpaced
<1>11. row'.token = t /\ row'.used = TRUE /\ row'.sentAt = row.sentAt /\ row' # Never
  BY <1>3, <1>6, NoRowAssumption
<1>12. row'.token \in Token /\ uses'[row'.token] > 0
  BY <1>1, <1>7, <1>11
<1> QED
  BY <1>0, <1>1, <1>3, <1>8, <1>9, <1>10, <1>11, <1>12 DEF RowFacts

LEMMA SNextInv == Alone /\ SInv /\ [Next]_vars => SInv'
<1> SUFFICES ASSUME Alone, SInv, [Next]_vars PROVE SInv'
  OBVIOUS
<1>0. /\ IInv /\ RowFacts /\ TypeOK /\ HoldsRow
      /\ \A v \in Worker : ThreadFacts(thread[v])
  BY SInvParts DEF IInv
<1> SUFFICES RowFacts' /\ \A v \in Worker : ThreadFacts(thread[v])'
  <2>1. IInv'
    BY <1>0, NextInv
  <2> QED
    BY <2>1, SInvPartsNext
<1>1. ASSUME NEW w \in Worker, Subscribe(w)
      PROVE  RowFacts' /\ \A v \in Worker : ThreadFacts(thread[v])'
  BY <1>0, <1>1, SameFacts, LoadSerial DEF Subscribe
<1>2. ASSUME NEW w \in Worker, Resend(w)
      PROVE  RowFacts' /\ \A v \in Worker : ThreadFacts(thread[v])'
  BY <1>0, <1>2, NewTokenSerial DEF Resend
<1>3. ASSUME NEW w \in Worker, Unsubscribe(w)
      PROVE  RowFacts' /\ \A v \in Worker : ThreadFacts(thread[v])'
  BY <1>0, <1>3, SameFacts, LoadSerial DEF Unsubscribe
<1>4. ASSUME NEW w \in Worker, TaskStarts(w)
      PROVE  RowFacts' /\ \A v \in Worker : ThreadFacts(thread[v])'
  <2>1. row # Never
    BY <1>0, <1>4 DEF TaskStarts, HoldsRow
  <2> QED
    BY <1>0, <1>4, <2>1, NewTokenSerial DEF TaskStarts
<1>5. ASSUME NEW w \in Worker, NEW t \in Token, Verify(w, t)
      PROVE  RowFacts' /\ \A v \in Worker : ThreadFacts(thread[v])'
  <2> DEFINE s == [Idle EXCEPT !.pc = "verify", !.loaded = row, !.token = t]
  <2>1. s \in Thread /\ s.pc = "verify" /\ s.loaded = row /\ s.token = t
    BY <1>0 DEF Idle, Thread, TypeOK
  <2>2. thread' = [thread EXCEPT ![w] = s] /\ row' = row /\ row.token = t /\ row.used = FALSE
    <3>1. row \in Row
      BY <1>0, <1>5, RowIsRow DEF Verify
    <3> QED
      BY <1>5, <3>1 DEF Verify, Row
  <2>3. \A v \in Worker : thread'[v] = s
    <3> HIDE DEF s
    <3> QED
      BY <1>0, <2>1, <2>2, OneThread
  <2>4. \A v \in Worker : ThreadFacts(thread[v])'
    <3> HIDE DEF s
    <3> QED
      BY <2>1, <2>2, <2>3 DEF ThreadFacts
  <2>5. RowFacts'
    BY <1>0, <1>5, SameFacts DEF Verify
  <2> QED
    BY <2>4, <2>5
<1>6. ASSUME NEW w \in Worker, SubscribeInsert(w)
      PROVE  RowFacts' /\ \A v \in Worker : ThreadFacts(thread[v])'
  <2>1. CASE row = Never
    <3>1. /\ NewRow \in Row /\ NewRow.token = Never /\ NewRow.used = FALSE
          /\ NewRow.sentAt = Never
      BY <1>0 DEF NewRow, Row, Status, TypeOK
    <3>2. /\ row' = NewRow /\ uses' = uses /\ log' = log /\ sends' = sends /\ clock' = clock
      BY <1>6, <2>1 DEF SubscribeInsert
    <3>3. log = {}
      BY <1>0, <2>1 DEF RowFacts
    <3>4. Never \notin Token
      BY SubscriptionsAssumption DEF Token
    <3> QED
      BY <1>0, <1>6, <3>1, <3>2, <3>3, <3>4, OneReturns, SubscriptionsAssumption
         DEF SubscribeInsert, RowFacts, SingleUse, ResendSpaced
  <2>2. CASE row # Never
    BY <1>0, <1>6, <2>2, OneReturns, SameFacts DEF SubscribeInsert
  <2> QED
    BY <2>1, <2>2
<1>7. ASSUME NEW w \in Worker, SubscribeAgain(w)
      PROVE  RowFacts' /\ \A v \in Worker : ThreadFacts(thread[v])'
  <2>1. row \in Row /\ row # Never
    BY <1>0, <1>7, RowIsRow DEF SubscribeAgain, HoldsRow
  <2> DEFINE r == [row EXCEPT !.status = "pending"]
  <2>2. r \in Row /\ r.token = row.token /\ r.used = row.used /\ r.sentAt = row.sentAt
    BY <2>1 DEF Row, Status
  <2>3. /\ row' = r /\ uses' = uses /\ log' = log /\ sends' = sends /\ clock' = clock
        /\ Return(w)
    BY <1>7 DEF SubscribeAgain
  <2> HIDE DEF r
  <2> QED
    BY <1>0, <2>1, <2>2, <2>3, OneReturns, StatusFacts
<1>8. ASSUME NEW w \in Worker, NEW delivered \in BOOLEAN, Deliver(w, delivered)
      PROVE  RowFacts' /\ \A v \in Worker : ThreadFacts(thread[v])'
  <2> DEFINE s == [thread[w] EXCEPT !.pc = "store"]
  <2>1. /\ s \in Thread /\ s.pc = "store" /\ s.loaded = thread[w].loaded
        /\ s.token = thread[w].token /\ s.now = thread[w].now /\ s.force = thread[w].force
    BY <1>0 DEF Thread, TypeOK
  <2>2. /\ thread' = [thread EXCEPT ![w] = s] /\ row' = row /\ uses' = uses /\ log' = log
        /\ sends' = sends /\ clock' = clock /\ thread[w].pc = "send"
    BY <1>8 DEF Deliver
  <2> HIDE DEF s
  <2>3. \A v \in Worker : thread'[v] = s
    BY <1>0, <2>1, <2>2, OneThread
  <2>4. ThreadFacts(thread[w])
    BY <1>0
  <2>5. \A v \in Worker : ThreadFacts(thread[v])'
    BY <2>1, <2>2, <2>3, <2>4 DEF ThreadFacts
  <2> QED
    BY <1>0, <2>2, <2>5, SameFacts
<1>9. ASSUME NEW w \in Worker, StoreToken(w)
      PROVE  RowFacts' /\ \A v \in Worker : ThreadFacts(thread[v])'
  BY <1>0, <1>9, StoreSerial, OneReturns DEF StoreToken
<1>10. ASSUME NEW w \in Worker, VerifyCommit(w)
       PROVE  RowFacts' /\ \A v \in Worker : ThreadFacts(thread[v])'
  BY <1>0, <1>10, VerifySerial, OneReturns DEF VerifyCommit
<1>11. ASSUME NEW w \in Worker, UnsubscribeCommit(w)
       PROVE  RowFacts' /\ \A v \in Worker : ThreadFacts(thread[v])'
  <2> DEFINE c == Column(row.status, thread[w].loaded.status, "unsubscribed")
             r == [row EXCEPT !.status = c]
  <2>1. row \in Row /\ row # Never
    BY <1>0, <1>11, RowIsRow DEF UnsubscribeCommit, HoldsRow
  <2>2. c \in Status
    BY <2>1, ColumnValue DEF Row, Status
  <2>3. /\ row' = r /\ uses' = uses /\ log' = log /\ sends' = sends /\ clock' = clock
        /\ Return(w)
    BY <1>11 DEF UnsubscribeCommit
  <2> HIDE DEF c
  <2>4. r \in Row /\ r.token = row.token /\ r.used = row.used /\ r.sentAt = row.sentAt
    BY <2>1, <2>2 DEF Row
  <2> HIDE DEF r
  <2> QED
    BY <1>0, <2>1, <2>3, <2>4, OneReturns, StatusFacts
<1>12. ASSUME NEW w \in Worker, Exit(w)
       PROVE  RowFacts' /\ \A v \in Worker : ThreadFacts(thread[v])'
  BY <1>0, <1>12, OneReturns, SameFacts DEF Exit
<1>13. ASSUME LoseTask
       PROVE  RowFacts' /\ \A v \in Worker : ThreadFacts(thread[v])'
  BY <1>0, <1>13, SameFacts DEF LoseTask, ThreadFacts
<1>14. ASSUME Tick
       PROVE  RowFacts' /\ \A v \in Worker : ThreadFacts(thread[v])'
  <2>1. clock \in Nat /\ \A v \in Worker : thread[v].now \in Nat
    BY <1>0 DEF TypeOK, Thread
  <2>2. /\ row' = row /\ uses' = uses /\ log' = log /\ sends' = sends /\ thread' = thread
        /\ clock' = clock + 1
    BY <1>14 DEF Tick
  <2>3. RowFacts'
    BY <1>0, <2>1, <2>2 DEF RowFacts, SingleUse, ResendSpaced
  <2>4. \A v \in Worker : ThreadFacts(thread[v])'
    BY <1>0, <2>1, <2>2 DEF ThreadFacts
  <2> QED
    BY <2>3, <2>4
<1>15. ASSUME UNCHANGED vars
       PROVE  RowFacts' /\ \A v \in Worker : ThreadFacts(thread[v])'
  BY <1>0, <1>15, SameFacts DEF vars, ThreadFacts
<1> QED
  BY <1>1, <1>2, <1>3, <1>4, <1>5, <1>6, <1>7, <1>8, <1>9, <1>10, <1>11, <1>12, <1>13,
     <1>14, <1>15 DEF Next, Step

(* While requests do not overlap, and however many are cut off, a link     *)
(* verifies its subscriber at most once: verify_email marks the token.     *)
THEOREM TokensVerifyOnce == Alone => (Spec => []SingleUse)
<1> SUFFICES ASSUME Alone PROVE Spec => []SingleUse
  OBVIOUS
<1>1. SInv => SingleUse
  BY DEF SInv
<1>2. SInv /\ [Next]_vars => SInv'
  BY SNextInv
<1> QED
  BY SInitInv, <1>1, <1>2, PTL DEF Spec

(* While requests do not overlap, verify_email refuses no link as already  *)
(* used that verified nobody: send_verification_email resets the mark.     *)
THEOREM FreshLinksWork == Alone => (Spec => []FreshTokenUnused)
<1> SUFFICES ASSUME Alone PROVE Spec => []FreshTokenUnused
  OBVIOUS
<1>1. SInv => FreshTokenUnused
  BY DEF SInv, UsedMeansUsed, FreshTokenUnused
<1>2. SInv /\ [Next]_vars => SInv'
  BY SNextInv
<1> QED
  BY SInitInv, <1>1, <1>2, PTL DEF Spec

(* While requests do not overlap, an email that resend_verification sends  *)
(* comes the rate limit after every email sent to the address before it,   *)
(* by whichever endpoint.                                                  *)
THEOREM ResendsAreSpaced == Alone => (Spec => []ResendSpaced)
<1> SUFFICES ASSUME Alone PROVE Spec => []ResendSpaced
  OBVIOUS
<1>1. SInv => ResendSpaced
  BY DEF SInv
<1>2. SInv /\ [Next]_vars => SInv'
  BY SNextInv
<1> QED
  BY SInitInv, <1>1, <1>2, PTL DEF Spec

=============================================================================
