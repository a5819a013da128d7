------------------------- MODULE RefreshJobsProofs -------------------------
(***************************************************************************)
(* Theorems about RefreshJobs, for any sources, grants, subscribers, jobs  *)
(* and threads, whatever raises and whichever processes exit.              *)
(***************************************************************************)
EXTENDS RefreshJobs, FiniteSetTheorems, TLAPS

(* Every run that a thread or a task works for has its row, and only jobs  *)
(* go through the first two steps.                                         *)
RunsStored ==
    /\ \A j \in tasks : jobs[j] # None
    /\ \A w \in Worker :
        /\ thread[w].pc # "idle" => thread[w].run \in Run
        /\ thread[w].pc \in {"start", "list"} => thread[w].run \in Job
        /\ thread[w].run \in Job => jobs[thread[w].run] # None

(* Whether the thread t may still mail subscriber s about grant g.         *)
MayMail(t, s, g) ==
    /\ g \in t.found
    /\ t.pc \notin {"finish", "failing"}
    /\ t.pc = "send" => s \in t.recipients

(* Why no subscriber is mailed twice: a grant that is mailed was imported, *)
(* a grant is imported once, so at most one thread has found it, and that  *)
(* thread takes each recipient once.                                       *)
FoundByOne ==
    /\ \A w \in Worker : \A g \in thread[w].found : imported[g] # None
    /\ \A v, w \in Worker : v # w => thread[v].found \cap thread[w].found = {}

MailedOnce ==
    /\ \A s \in Subscriber, g \in Grant :
        /\ mail[<<s, g>>] <= 1
        /\ mail[<<s, g>>] > 0 => imported[g] # None
    /\ \A w \in Worker, s \in Subscriber, g \in Grant :
        MayMail(thread[w], s, g) => mail[<<s, g>>] = 0

IInv == TypeOK /\ RunsStored /\ FoundByOne /\ MailedOnce

-----------------------------------------------------------------------------
(* The counters are natural numbers.                                       *)

LEMMA FiniteLogs == ASSUME NEW S \in SUBSET LogRow PROVE Cardinality(S) \in Nat
<1>1. IsFiniteSet(Pair)
  BY FS_Product, RefreshJobsAssumption DEF Pair
<1>2. IsFiniteSet({"sent", "failed"})
  <2>1. IsFiniteSet({"sent"})
    BY FS_Singleton, Zenon
  <2>2. IsFiniteSet({"sent"} \cup {"failed"})
    BY <2>1, FS_AddElement, Zenon
  <2>3. {"sent", "failed"} = {"sent"} \cup {"failed"}
    OBVIOUS
  <2> QED
    BY <2>2, <2>3
<1>3. IsFiniteSet(LogRow)
  BY <1>1, <1>2, FS_Product DEF LogRow
<1> QED
  BY <1>3, FS_Subset, FS_CardinalityType

LEMMA FiniteGrants == ASSUME NEW S \in SUBSET Grant PROVE Cardinality(S) \in Nat
  BY RefreshJobsAssumption, FS_Subset, FS_CardinalityType

LEMMA FiniteSources == Cardinality(Source) \in Nat
  BY RefreshJobsAssumption, FS_CardinalityType

LEMMA RowIsNotNone == \A r \in Row : r # None
  BY RefreshJobsAssumption

LEMMA IdleThread ==
    /\ Idle \in Thread /\ Idle.pc = "idle" /\ Idle.run = None /\ Idle.found = {}
    /\ None \notin Run
  BY RefreshJobsAssumption DEF Idle, Thread

LEMMA InitInv == Init => IInv
<1> SUFFICES ASSUME Init PROVE IInv
  OBVIOUS
<1>1. TypeOK
  BY IdleThread DEF Init, TypeOK, Pair
<1>2. RunsStored
  BY IdleThread DEF Init, RunsStored, Run
<1>3. FoundByOne
  BY IdleThread DEF Init, FoundByOne
<1>4. MailedOnce
  <2>1. \A s \in Subscriber, g \in Grant : mail[<<s, g>>] = 0
    BY DEF Init, Pair
  <2> QED
    BY <2>1 DEF MailedOnce
<1> QED
  BY <1>1, <1>2, <1>3, <1>4 DEF IInv

-----------------------------------------------------------------------------
(* A thread gets a new state: the others keep theirs.                      *)
LEMMA ThreadStep ==
    ASSUME TypeOK, NEW w \in Worker, NEW t \in Thread,
           thread' = [thread EXCEPT ![w] = t]
    PROVE  /\ thread' \in [Worker -> Thread]
           /\ thread'[w] = t
           /\ \A v \in Worker \ {w} : thread'[v] = thread[v]
  BY DEF TypeOK

(* The new state t of thread w works for a stored run.                     *)
RunStored(t) ==
    /\ t.pc # "idle" => t.run \in Run
    /\ t.pc \in {"start", "list"} => t.run \in Job
    /\ t.run \in Job => jobs'[t.run] # None

(* Rows are updated, never deleted.                                        *)
JobsStay == \A j \in Job : jobs[j] # None => jobs'[j] # None

LEMMA RunsStep ==
    ASSUME IInv, NEW w \in Worker, NEW t \in Thread,
           thread' = [thread EXCEPT ![w] = t],
           RunStored(t), JobsStay, \A j \in tasks' : jobs'[j] # None
    PROVE  RunsStored'
<1>1. /\ thread'[w] = t
      /\ \A v \in Worker \ {w} : thread'[v] = thread[v]
  BY ThreadStep DEF IInv
<1>2. ASSUME NEW v \in Worker
      PROVE  /\ thread'[v].pc # "idle" => thread'[v].run \in Run
             /\ thread'[v].pc \in {"start", "list"} => thread'[v].run \in Job
             /\ thread'[v].run \in Job => jobs'[thread'[v].run] # None
  <2>1. CASE v = w
    BY <1>1, <2>1 DEF RunStored
  <2>2. CASE v # w
    BY <1>1, <2>2 DEF IInv, RunsStored, JobsStay
  <2> QED
    BY <2>1, <2>2
<1> QED
  BY <1>2 DEF RunsStored

(* A thread that finds nothing and gets no new chance to mail keeps the    *)
(* two invariants about mail.                                              *)
LEMMA MailStep ==
    ASSUME IInv, NEW w \in Worker, NEW t \in Thread,
           thread' = [thread EXCEPT ![w] = t],
           imported' = imported, mail' = mail, t.found \subseteq thread[w].found,
           \A s \in Subscriber, g \in Grant : MayMail(t, s, g) => MayMail(thread[w], s, g)
    PROVE  FoundByOne' /\ MailedOnce'
<1>1. /\ thread'[w] = t
      /\ \A v \in Worker \ {w} : thread'[v] = thread[v]
  BY ThreadStep DEF IInv
<1>2. \A v \in Worker : thread'[v].found \subseteq thread[v].found
  BY <1>1
<1>3. FoundByOne'
  BY <1>2 DEF IInv, FoundByOne
<1>4. \A v \in Worker, s \in Subscriber, g \in Grant :
          MayMail(thread'[v], s, g) => MayMail(thread[v], s, g)
  BY <1>1
<1>5. MailedOnce'
  BY <1>4 DEF IInv, MailedOnce
<1> QED
  BY <1>3, <1>5

(* The whole invariant, for a step that neither imports nor mails.         *)
LEMMA QuietStep ==
    ASSUME IInv, NEW w \in Worker, NEW t \in Thread,
           thread' = [thread EXCEPT ![w] = t],
           imported' = imported, mail' = mail, t.found \subseteq thread[w].found,
           \A s \in Subscriber, g \in Grant : MayMail(t, s, g) => MayMail(thread[w], s, g),
           jobs' \in [Job -> Row \cup {None}], JobsStay, RunStored(t),
           tasks' \subseteq Job, \A j \in tasks' : jobs'[j] # None,
           verified' = verified, logs' \subseteq LogRow, singles' \in Nat, lost' \subseteq Job \X Cause
    PROVE  IInv'
<1>1. thread' \in [Worker -> Thread]
  BY ThreadStep DEF IInv
<1>2. TypeOK'
  BY <1>1 DEF IInv, TypeOK
<1>3. RunsStored'
  BY RunsStep
<1>4. FoundByOne' /\ MailedOnce'
  BY MailStep
<1> QED
  BY <1>2, <1>3, <1>4 DEF IInv

(* One row of refresh_jobs is written.                                     *)
LEMMA JobWritten ==
    ASSUME IInv, NEW j \in Job, NEW r \in Row, jobs' = [jobs EXCEPT ![j] = r]
    PROVE  /\ jobs' \in [Job -> Row \cup {None}]
           /\ JobsStay
           /\ jobs'[j] # None
           /\ \A i \in tasks : jobs'[i] # None
<1>1. jobs \in [Job -> Row \cup {None}] /\ tasks \subseteq Job /\ \A i \in tasks : jobs[i] # None
  BY DEF IInv, TypeOK, RunsStored
<1>2. jobs' \in [Job -> Row \cup {None}] /\ jobs'[j] = r /\ \A i \in Job \ {j} : jobs'[i] = jobs[i]
  BY <1>1
<1>3. r # None
  BY RowIsNotNone
<1> QED
  BY <1>1, <1>2, <1>3 DEF JobsStay

LEMMA JobsSame ==
    ASSUME IInv, jobs' = jobs
    PROVE  /\ jobs' \in [Job -> Row \cup {None}]
           /\ JobsStay
           /\ \A i \in tasks : jobs'[i] # None
  BY DEF IInv, TypeOK, RunsStored, JobsStay

(* The row of the job that a thread works for.                             *)
LEMMA JobRow ==
    ASSUME IInv, NEW w \in Worker, thread[w].run \in Job
    PROVE  jobs[thread[w].run] \in Row
  BY DEF IInv, TypeOK, RunsStored

(* A thread that ends.                                                     *)
LEMMA EndStep ==
    ASSUME IInv, NEW w \in Worker, thread' = [thread EXCEPT ![w] = Idle],
           imported' = imported, mail' = mail, verified' = verified, logs' = logs,
           tasks' = tasks, singles' = singles, lost' \subseteq Job \X Cause,
           jobs' \in [Job -> Row \cup {None}], JobsStay, \A i \in tasks : jobs'[i] # None
    PROVE  IInv'
<1>1. \A s \in Subscriber, g \in Grant : ~MayMail(Idle, s, g)
  BY IdleThread DEF MayMail
<1>2. RunStored(Idle)
  BY IdleThread DEF RunStored, Run
<1>3. logs' \subseteq LogRow /\ singles' \in Nat /\ tasks' \subseteq Job
  BY DEF IInv, TypeOK
<1>4. Idle.found \subseteq thread[w].found
  BY IdleThread
<1> QED
  BY <1>1, <1>2, <1>3, <1>4, IdleThread, QuietStep

-----------------------------------------------------------------------------
(* The two steps that the invariants about mail are for.                   *)

LEMMA SyncSourceInv ==
    ASSUME IInv, NEW w \in Worker, NEW s \in Source, NEW new \in SUBSET Grant,
           SyncSource(w, s, new)
    PROVE  IInv'
<1>0. TypeOK /\ RunsStored /\ FoundByOne /\ MailedOnce
  BY DEF IInv
<1> DEFINE t == [thread[w] EXCEPT !.pc = "count", !.todo = @ \ {s}, !.fresh = new,
                                  !.found = @ \cup new]
<1>1. /\ t \in Thread /\ t.pc = "count" /\ t.run = thread[w].run
      /\ t.found = thread[w].found \cup new
  BY <1>0, ZenonT(60) DEF TypeOK, Thread
<1>2. thread' = [thread EXCEPT ![w] = t]
  BY DEF SyncSource
<1>3. thread[w].run \in Run /\ thread[w].pc = "sync"
  BY <1>0 DEF SyncSource, RunsStored
<1> HIDE DEF t
<1>4. /\ thread' \in [Worker -> Thread] /\ thread'[w] = t
      /\ \A v \in Worker \ {w} : thread'[v] = thread[v]
  BY <1>0, <1>1, <1>2, ThreadStep
<1>5. /\ \A g \in new : imported[g] = None /\ imported'[g] # None
      /\ \A g \in Grant \ new : imported'[g] = imported[g]
      /\ imported' \in [Grant -> Run \cup {None}]
  BY <1>0, <1>3, IdleThread DEF SyncSource, NotImported, TypeOK
<1>6. TypeOK'
  BY <1>0, <1>4, <1>5 DEF SyncSource, TypeOK
<1>7. RunsStored'
  <2>1. jobs' = jobs /\ tasks' = tasks
    BY DEF SyncSource
  <2>2. RunStored(t)
    BY <1>0, <1>1, <1>3, <2>1 DEF RunStored, RunsStored
  <2> QED
    BY <1>0, <1>1, <1>2, <2>1, <2>2, RunsStep DEF RunsStored, JobsStay
<1>8. FoundByOne'
  <2>1. \A v \in Worker : thread'[v].found \in SUBSET Grant /\ thread[v].found \in SUBSET Grant
    BY <1>0, <1>4 DEF TypeOK, Thread
  <2>2. \A v \in Worker : \A g \in thread[v].found : g \notin new
    BY <1>0, <1>5 DEF FoundByOne
  <2>3. \A v \in Worker : \A g \in thread'[v].found : imported'[g] # None
    BY <1>0, <1>1, <1>4, <1>5, <2>1, <2>2 DEF FoundByOne
  <2>4. \A u, v \in Worker : u # v => thread'[u].found \cap thread'[v].found = {}
    <3> SUFFICES ASSUME NEW u \in Worker, NEW v \in Worker, u # v,
                        NEW g, g \in thread'[u].found, g \in thread'[v].found
                 PROVE  FALSE
      OBVIOUS
    <3>1. ~(g \in thread[u].found /\ g \in thread[v].found)
      BY <1>0 DEF FoundByOne
    <3>2. CASE u = w
      BY <1>1, <1>4, <2>2, <3>1, <3>2
    <3>3. CASE v = w
      BY <1>1, <1>4, <2>2, <3>1, <3>3
    <3>4. CASE u # w /\ v # w
      BY <1>4, <3>1, <3>4
    <3> QED
      BY <3>2, <3>3, <3>4
  <2> QED
    BY <2>3, <2>4 DEF FoundByOne
<1>9. MailedOnce'
  <2>1. mail' = mail
    BY DEF SyncSource
  <2>2. \A s1 \in Subscriber, g \in new : mail[<<s1, g>>] = 0
    <3> SUFFICES ASSUME NEW s1 \in Subscriber, NEW g \in new
                 PROVE  mail[<<s1, g>>] = 0
      OBVIOUS
    <3>1. mail[<<s1, g>>] \in Nat
      BY <1>0 DEF TypeOK, Pair
    <3>2. ~(mail[<<s1, g>>] > 0)
      BY <1>0, <1>5 DEF MailedOnce
    <3> QED
      BY <3>1, <3>2
  <2>3. \A s1 \in Subscriber, g \in Grant : mail'[<<s1, g>>] <= 1
    BY <1>0, <2>1 DEF MailedOnce
  <2>4. \A s1 \in Subscriber, g \in Grant : mail'[<<s1, g>>] > 0 => imported'[g] # None
    BY <1>0, <1>5, <2>1 DEF MailedOnce
  <2>5. ASSUME NEW v \in Worker, NEW s1 \in Subscriber, NEW g \in Grant,
               MayMail(thread'[v], s1, g)
        PROVE  mail'[<<s1, g>>] = 0
    <3>1. CASE g \in new
      BY <2>1, <2>2, <3>1
    <3>2. CASE g \notin new /\ v = w
      <4>1. MayMail(thread[w], s1, g)
        BY <1>1, <1>3, <1>4, <2>5, <3>2 DEF MayMail
      <4> QED
        BY <1>0, <2>1, <4>1 DEF MailedOnce
    <3>3. CASE g \notin new /\ v # w
      BY <1>0, <1>4, <2>1, <2>5, <3>3 DEF MailedOnce
    <3> QED
      BY <3>1, <3>2, <3>3
  <2> QED
    BY <2>3, <2>4, <2>5 DEF MailedOnce
<1> QED
  BY <1>6, <1>7, <1>8, <1>9 DEF IInv

LEMMA SendDigestInv ==
    ASSUME IInv, NEW w \in Worker, NEW s \in Subscriber, NEW status \in {"sent", "failed"},
           SendDigest(w, s, status)
    PROVE  IInv'
<1>0. TypeOK /\ RunsStored /\ FoundByOne /\ MailedOnce
  BY DEF IInv
<1> DEFINE d == Digest(w, s)
           rows == {<<<<s, g>>, status>> : g \in d}
           t == [thread[w] EXCEPT !.recipients = @ \ {s}, !.pending = @ \cup rows]
<1>1. d \subseteq thread[w].found /\ thread[w].found \subseteq Grant
  BY <1>0 DEF Digest, TypeOK, Thread
<1>2. rows \subseteq LogRow
  BY <1>1 DEF LogRow, Pair
<1>3. /\ thread[w].pc = "send" /\ s \in thread[w].recipients
      /\ mail' = [p \in Pair |-> IF p[1] = s /\ p[2] \in d THEN mail[p] + 1 ELSE mail[p]]
      /\ thread' = [thread EXCEPT ![w] = t]
      /\ imported' = imported
  BY DEF SendDigest
<1> HIDE DEF d, rows
<1>4. /\ t \in Thread /\ t.pc = thread[w].pc /\ t.run = thread[w].run
      /\ t.found = thread[w].found /\ t.recipients = thread[w].recipients \ {s}
  BY <1>0, <1>2 DEF TypeOK, Thread
<1> HIDE DEF t
<1>5. /\ thread' \in [Worker -> Thread] /\ thread'[w] = t
      /\ \A v \in Worker \ {w} : thread'[v] = thread[v]
  BY <1>0, <1>3, <1>4, ThreadStep
<1>6. \A s1 \in Subscriber, g \in Grant :
          mail'[<<s1, g>>] = IF s1 = s /\ g \in d THEN mail[<<s1, g>>] + 1 ELSE mail[<<s1, g>>]
  BY <1>3 DEF Pair
<1>7. \A g \in d : mail[<<s, g>>] = 0 /\ imported[g] # None
  <2>1. \A g \in d : MayMail(thread[w], s, g)
    BY <1>1, <1>3 DEF MayMail
  <2> QED
    BY <1>0, <1>1, <2>1 DEF MailedOnce, FoundByOne
<1>8. TypeOK'
  <2>1. mail' \in [Pair -> Nat]
    BY <1>0, <1>3 DEF TypeOK
  <2> QED
    BY <1>0, <1>5, <2>1 DEF SendDigest, TypeOK
<1>9. RunsStored'
  <2>1. jobs' = jobs /\ tasks' = tasks
    BY DEF SendDigest
  <2>2. RunStored(t)
    BY <1>0, <1>4, <2>1 DEF RunStored, RunsStored
  <2> QED
    BY <1>0, <1>3, <1>4, <2>1, <2>2, RunsStep DEF RunsStored, JobsStay
<1>10. FoundByOne'
  <2>1. \A v \in Worker : thread'[v].found = thread[v].found
    BY <1>4, <1>5
  <2> QED
    BY <1>0, <1>3, <2>1 DEF FoundByOne
<1>11. MailedOnce'
  <2>1. ASSUME NEW s1 \in Subscriber, NEW g \in Grant PROVE mail'[<<s1, g>>] <= 1
    <3>1. CASE s1 = s /\ g \in d
      <4>1. mail[<<s1, g>>] = 0 /\ mail'[<<s1, g>>] = mail[<<s1, g>>] + 1
        BY <1>6, <1>7, <3>1
      <4> QED
        BY <4>1
    <3>2. CASE ~(s1 = s /\ g \in d)
      <4>1. mail'[<<s1, g>>] = mail[<<s1, g>>]
        BY <1>6, <3>2
      <4> QED
        BY <1>0, <4>1 DEF MailedOnce
    <3> QED
      BY <3>1, <3>2
  <2>2. \A s1 \in Subscriber, g \in Grant : mail'[<<s1, g>>] > 0 => imported'[g] # None
    BY <1>0, <1>3, <1>6, <1>7 DEF MailedOnce
  <2>3. ASSUME NEW v \in Worker, NEW s1 \in Subscriber, NEW g \in Grant,
               MayMail(thread'[v], s1, g)
        PROVE  mail'[<<s1, g>>] = 0
    <3>1. MayMail(thread[v], s1, g)
      BY <1>4, <1>5, <2>3 DEF MayMail
    <3>2. ~(s1 = s /\ g \in d)
      <4>1. CASE v = w
        BY <1>3, <1>4, <1>5, <2>3, <4>1 DEF MayMail
      <4>2. CASE v # w
        BY <1>0, <1>1, <3>1, <4>2 DEF FoundByOne, MayMail
      <4> QED
        BY <4>1, <4>2
    <3> QED
      BY <1>0, <1>6, <3>1, <3>2 DEF MailedOnce
  <2> QED
    BY <2>1, <2>2, <2>3 DEF MailedOnce
<1> QED
  BY <1>8, <1>9, <1>10, <1>11 DEF IInv

-----------------------------------------------------------------------------
(* A step that moves a thread on without touching what it found, or the    *)
(* stored rows of its job.                                                 *)
LEMMA MoveOn ==
    ASSUME IInv, NEW w \in Worker, NEW t \in Thread,
           thread[w].pc # "idle", thread' = [thread EXCEPT ![w] = t],
           t.pc \notin {"start", "list"}, t.run = thread[w].run, t.found = thread[w].found,
           \A s \in Subscriber, g \in Grant : MayMail(t, s, g) => MayMail(thread[w], s, g),
           imported' = imported, mail' = mail, verified' = verified, logs' \subseteq LogRow,
           tasks' = tasks, singles' = singles, lost' = lost,
           jobs' \in [Job -> Row \cup {None}], JobsStay, \A i \in tasks : jobs'[i] # None
    PROVE  IInv'
<1>1. t.run \in Run /\ (t.run \in Job => jobs[t.run] # None)
  BY DEF IInv, RunsStored
<1>2. RunStored(t)
  BY <1>1 DEF RunStored, JobsStay
<1>3. singles' \in Nat /\ lost' \subseteq Job \X Cause /\ tasks' \subseteq Job
  BY DEF IInv, TypeOK
<1> QED
  BY <1>2, <1>3, QuietStep

LEMMA NextInv == IInv /\ [Next]_vars => IInv'
<1> SUFFICES ASSUME IInv, [Next]_vars PROVE IInv'
  OBVIOUS
<1>0. TypeOK /\ RunsStored /\ FoundByOne /\ MailedOnce
  BY DEF IInv
<1>1. ASSUME NEW j \in Job, RefreshAll(j) PROVE IInv'
  <2>1. NewJob("queued") \in Row
    BY DEF NewJob, Row, JobStatus
  <2>2. /\ jobs' \in [Job -> Row \cup {None}] /\ JobsStay
        /\ \A i \in tasks' : jobs'[i] # None
    BY <1>1, <2>1, JobWritten DEF RefreshAll
  <2>3. TypeOK'
    BY <1>0, <1>1, <2>2 DEF RefreshAll, TypeOK
  <2>4. RunsStored'
    BY <1>0, <1>1, <2>2 DEF RefreshAll, RunsStored, JobsStay
  <2>5. FoundByOne' /\ MailedOnce'
    BY <1>0, <1>1 DEF RefreshAll, FoundByOne, MailedOnce
  <2> QED
    BY <2>3, <2>4, <2>5 DEF IInv
<1>2. ASSUME NEW j \in Job, LoseTask(j) PROVE IInv'
  BY <1>0, <1>2 DEF LoseTask, IInv, TypeOK, Cause, RunsStored, FoundByOne, MailedOnce
<1>3. ASSUME NEW w \in Worker, NEW j \in Job, StartTask(w, j) PROVE IInv'
  <2> DEFINE t == [Idle EXCEPT !.pc = "start", !.run = j]
  <2>1. t \in Thread /\ t.pc = "start" /\ t.run = j /\ t.found = {}
    BY DEF Idle, Thread, Run
  <2>2. thread' = [thread EXCEPT ![w] = t]
    BY <1>3 DEF StartTask
  <2> HIDE DEF t
  <2>3. /\ jobs' \in [Job -> Row \cup {None}] /\ JobsStay
        /\ \A i \in tasks' : jobs'[i] # None
    BY <1>3, JobsSame DEF StartTask
  <2>4. RunStored(t)
    BY <1>0, <1>3, <2>1 DEF RunStored, StartTask, RunsStored, Run
  <2>5. \A s \in Subscriber, g \in Grant : ~MayMail(t, s, g)
    BY <2>1 DEF MayMail
  <2>6. /\ imported' = imported /\ mail' = mail /\ verified' = verified
        /\ logs' \subseteq LogRow /\ tasks' \subseteq Job /\ singles' \in Nat /\ lost' \subseteq Job \X Cause
    BY <1>0, <1>3 DEF StartTask, TypeOK
  <2> QED
    BY <2>1, <2>2, <2>3, <2>4, <2>5, <2>6, QuietStep
<1>4. ASSUME NEW w \in Worker, NEW j \in Job, ScheduledRefresh(w, j) PROVE IInv'
  <2> DEFINE t == [Idle EXCEPT !.pc = "start", !.run = j]
  <2>1. t \in Thread /\ t.pc = "start" /\ t.run = j /\ t.found = {}
    BY DEF Idle, Thread, Run
  <2>2. thread' = [thread EXCEPT ![w] = t]
    BY <1>4 DEF ScheduledRefresh
  <2> HIDE DEF t
  <2>3. NewJob("running") \in Row
    BY DEF NewJob, Row, JobStatus
  <2>4. /\ jobs' \in [Job -> Row \cup {None}] /\ JobsStay /\ jobs'[j] # None
        /\ \A i \in tasks' : jobs'[i] # None
    BY <1>4, <2>3, JobWritten DEF ScheduledRefresh
  <2>5. RunStored(t)
    BY <2>1, <2>4 DEF RunStored, Run
  <2>6. \A s \in Subscriber, g \in Grant : ~MayMail(t, s, g)
    BY <2>1 DEF MayMail
  <2>7. /\ imported' = imported /\ mail' = mail /\ verified' = verified
        /\ logs' \subseteq LogRow /\ tasks' \subseteq Job /\ singles' \in Nat /\ lost' \subseteq Job \X Cause
    BY <1>0, <1>4 DEF ScheduledRefresh, TypeOK
  <2> QED
    BY <2>1, <2>2, <2>4, <2>5, <2>6, <2>7, QuietStep
<1>5. ASSUME NEW w \in Worker, NEW s \in Source, SyncOne(w, s) PROVE IInv'
  <2> DEFINE t == [Idle EXCEPT !.pc = "sync", !.run = "single", !.todo = {s}]
  <2>1. t \in Thread /\ t.pc = "sync" /\ t.run = "single" /\ t.found = {}
    BY DEF Idle, Thread, Run
  <2>2. thread' = [thread EXCEPT ![w] = t]
    BY <1>5 DEF SyncOne
  <2> HIDE DEF t
  <2>3. /\ jobs' \in [Job -> Row \cup {None}] /\ JobsStay
        /\ \A i \in tasks' : jobs'[i] # None
    BY <1>5, JobsSame DEF SyncOne
  <2>4. RunStored(t)
    BY <2>1, RefreshJobsAssumption DEF RunStored, Run
  <2>5. \A s1 \in Subscriber, g \in Grant : ~MayMail(t, s1, g)
    BY <2>1 DEF MayMail
  <2>6. /\ imported' = imported /\ mail' = mail /\ verified' = verified
        /\ logs' \subseteq LogRow /\ tasks' \subseteq Job /\ singles' \in Nat /\ lost' \subseteq Job \X Cause
    BY <1>0, <1>5 DEF SyncOne, TypeOK
  <2> QED
    BY <2>1, <2>2, <2>3, <2>4, <2>5, <2>6, QuietStep
<1>6. ASSUME NEW w \in Worker, SetRunning(w) PROVE IInv'
  <2> DEFINE j == thread[w].run
             r == [jobs[j] EXCEPT !.status = "running"]
             t == [thread[w] EXCEPT !.pc = "list"]
  <2>1. j \in Job
    BY <1>0, <1>6 DEF SetRunning, RunsStored
  <2>2. r \in Row
    BY <2>1, JobRow DEF Row, JobStatus
  <2>3. jobs' = [jobs EXCEPT ![j] = r] /\ thread' = [thread EXCEPT ![w] = t]
    BY <1>6 DEF SetRunning
  <2>4. t \in Thread /\ t.pc = "list" /\ t.run = j /\ t.found = thread[w].found
    BY <1>0 DEF TypeOK, Thread
  <2> HIDE DEF j, r, t
  <2>5. /\ jobs' \in [Job -> Row \cup {None}] /\ JobsStay /\ jobs'[j] # None
        /\ \A i \in tasks' : jobs'[i] # None
    BY <1>6, <2>1, <2>2, <2>3, JobWritten DEF SetRunning
  <2>6. RunStored(t)
    BY <2>1, <2>4, <2>5 DEF RunStored, Run
  <2>7. \A s \in Subscriber, g \in Grant : MayMail(t, s, g) => MayMail(thread[w], s, g)
    BY <1>6, <2>4 DEF MayMail, SetRunning
  <2>8. /\ imported' = imported /\ mail' = mail /\ verified' = verified
        /\ logs' \subseteq LogRow /\ tasks' \subseteq Job /\ singles' \in Nat /\ lost' \subseteq Job \X Cause
    BY <1>0, <1>6 DEF SetRunning, TypeOK
  <2> QED
    BY <2>3, <2>4, <2>5, <2>6, <2>7, <2>8, QuietStep
<1>7. ASSUME NEW w \in Worker, ListSources(w) PROVE IInv'
  <2> DEFINE j == thread[w].run
             r == [jobs[j] EXCEPT !.total = Cardinality(Source)]
             t == [thread[w] EXCEPT !.pc = "sync", !.todo = Source]
  <2>1. j \in Job
    BY <1>0, <1>7 DEF ListSources, RunsStored
  <2>2. r \in Row
    BY <2>1, JobRow, FiniteSources DEF Row
  <2>3. jobs' = [jobs EXCEPT ![j] = r] /\ thread' = [thread EXCEPT ![w] = t]
    BY <1>7 DEF ListSources
  <2>4. t \in Thread /\ t.pc = "sync" /\ t.run = thread[w].run /\ t.found = thread[w].found
    BY <1>0 DEF TypeOK, Thread
  <2> HIDE DEF j, r, t
  <2>5. /\ jobs' \in [Job -> Row \cup {None}] /\ JobsStay
        /\ \A i \in tasks : jobs'[i] # None
    BY <1>7, <2>1, <2>2, <2>3, JobWritten
  <2>6. \A s \in Subscriber, g \in Grant : MayMail(t, s, g) => MayMail(thread[w], s, g)
    BY <1>7, <2>4 DEF MayMail, ListSources
  <2>7. /\ thread[w].pc # "idle" /\ imported' = imported /\ mail' = mail
        /\ verified' = verified /\ logs' \subseteq LogRow
        /\ tasks' = tasks /\ singles' = singles /\ lost' = lost
    BY <1>0, <1>7 DEF ListSources, TypeOK
  <2> QED
    BY <2>3, <2>4, <2>5, <2>6, <2>7, MoveOn
<1>8. ASSUME NEW w \in Worker, CountSource(w) PROVE IInv'
  <2> DEFINE j == thread[w].run
             t == [thread[w] EXCEPT !.pc = "sync", !.fresh = {}]
  <2>1. /\ jobs' \in [Job -> Row \cup {None}] /\ JobsStay
        /\ \A i \in tasks : jobs'[i] # None
    <3>1. CASE j \in Job
      <4> DEFINE r == [jobs[j] EXCEPT !.checked = @ + 1, !.new = @ + Cardinality(thread[w].fresh)]
      <4>1. Cardinality(thread[w].fresh) \in Nat
        BY <1>0, FiniteGrants DEF TypeOK, Thread
      <4>2. r \in Row
        <5>1. jobs[j] \in Row
          BY <3>1, JobRow
        <5>2. /\ jobs[j].checked + 1 \in Nat
              /\ jobs[j].new + Cardinality(thread[w].fresh) \in Nat
          BY <4>1, <5>1 DEF Row
        <5> HIDE DEF j
        <5> QED
          BY <5>1, <5>2 DEF Row
      <4>3. jobs' = [jobs EXCEPT ![j] = r]
        BY <1>8, <3>1 DEF CountSource, IsJob
      <4> HIDE DEF r
      <4> QED
        BY <3>1, <4>2, <4>3, JobWritten
    <3>2. CASE j \notin Job
      BY <1>8, <3>2, JobsSame DEF CountSource, IsJob
    <3> QED
      BY <3>1, <3>2
  <2>2. t \in Thread /\ t.pc = "sync" /\ t.run = thread[w].run /\ t.found = thread[w].found
    BY <1>0 DEF TypeOK, Thread
  <2>3. thread' = [thread EXCEPT ![w] = t]
    BY <1>8 DEF CountSource
  <2> HIDE DEF j, t
  <2>4. \A s \in Subscriber, g \in Grant : MayMail(t, s, g) => MayMail(thread[w], s, g)
    BY <1>8, <2>2 DEF MayMail, CountSource
  <2>5. /\ thread[w].pc # "idle" /\ imported' = imported /\ mail' = mail
        /\ verified' = verified /\ logs' \subseteq LogRow
        /\ tasks' = tasks /\ singles' = singles /\ lost' = lost
    BY <1>0, <1>8 DEF CountSource, TypeOK
  <2> QED
    BY <2>1, <2>2, <2>3, <2>4, <2>5, MoveOn
<1>9. ASSUME NEW w \in Worker, ReadSubscribers(w) PROVE IInv'
  <2> DEFINE pc == IF thread[w].found = {} THEN "finish" ELSE "send"
             rs == IF thread[w].found = {} THEN {} ELSE verified
             t == [thread[w] EXCEPT !.pc = pc, !.recipients = rs]
  <2>1. pc \in {"finish", "send"} /\ rs \subseteq Subscriber
    BY <1>0 DEF TypeOK
  <2>2. thread' = [thread EXCEPT ![w] = t]
    BY <1>9 DEF ReadSubscribers
  <2> HIDE DEF pc, rs
  <2>3. t \in Thread /\ t.pc = pc /\ t.run = thread[w].run /\ t.found = thread[w].found
    BY <1>0, <2>1 DEF TypeOK, Thread
  <2> HIDE DEF t
  <2>4. \A s \in Subscriber, g \in Grant : MayMail(t, s, g) => MayMail(thread[w], s, g)
    BY <1>9, <2>1, <2>3 DEF MayMail, ReadSubscribers
  <2>5. /\ thread[w].pc # "idle" /\ imported' = imported /\ mail' = mail
        /\ verified' = verified /\ logs' \subseteq LogRow /\ jobs' = jobs
        /\ tasks' = tasks /\ singles' = singles /\ lost' = lost
    BY <1>0, <1>9 DEF ReadSubscribers, TypeOK
  <2> QED
    BY <2>1, <2>2, <2>3, <2>4, <2>5, JobsSame, MoveOn
<1>10. ASSUME NEW w \in Worker, NEW s \in Subscriber, NothingToSend(w, s) PROVE IInv'
  <2> DEFINE t == [thread[w] EXCEPT !.recipients = @ \ {s}]
  <2>1. /\ t \in Thread /\ t.pc = thread[w].pc /\ t.run = thread[w].run
        /\ t.found = thread[w].found /\ t.recipients \subseteq thread[w].recipients
    BY <1>0 DEF TypeOK, Thread
  <2>2. thread' = [thread EXCEPT ![w] = t]
    BY <1>10 DEF NothingToSend
  <2> HIDE DEF t
  <2>3. \A s1 \in Subscriber, g \in Grant : MayMail(t, s1, g) => MayMail(thread[w], s1, g)
    BY <2>1 DEF MayMail
  <2>4. /\ thread[w].pc = "send" /\ imported' = imported /\ mail' = mail
        /\ verified' = verified /\ logs' \subseteq LogRow /\ jobs' = jobs
        /\ tasks' = tasks /\ singles' = singles /\ lost' = lost
    BY <1>0, <1>10 DEF NothingToSend, TypeOK
  <2> QED
    BY <2>1, <2>2, <2>3, <2>4, JobsSame, MoveOn
<1>11. ASSUME NEW w \in Worker, CommitLogs(w) PROVE IInv'
  <2> DEFINE stored == IF KeyTaken(w) THEN {} ELSE thread[w].pending
             pc == IF KeyTaken(w) THEN "failing" ELSE "finish"
             t == [thread[w] EXCEPT !.pc = pc, !.pending = stored]
  <2>1. pc \in {"finish", "failing"} /\ stored \subseteq LogRow
    BY <1>0 DEF TypeOK, Thread
  <2>2. thread' = [thread EXCEPT ![w] = t] /\ logs' = logs \cup stored
    BY <1>11 DEF CommitLogs
  <2> HIDE DEF pc, stored
  <2>3. t \in Thread /\ t.pc = pc /\ t.run = thread[w].run /\ t.found = thread[w].found
    BY <1>0, <2>1 DEF TypeOK, Thread
  <2> HIDE DEF t
  <2>4. \A s \in Subscriber, g \in Grant : ~MayMail(t, s, g)
    BY <2>1, <2>3 DEF MayMail
  <2>5. /\ thread[w].pc # "idle" /\ imported' = imported /\ mail' = mail
        /\ verified' = verified /\ logs' \subseteq LogRow /\ jobs' = jobs
        /\ tasks' = tasks /\ singles' = singles /\ lost' = lost
    BY <1>0, <1>11, <2>1, <2>2 DEF CommitLogs, TypeOK
  <2> QED
    BY <2>1, <2>2, <2>3, <2>4, <2>5, JobsSame, MoveOn
<1>12. ASSUME NEW w \in Worker, Complete(w) PROVE IInv'
  <2> DEFINE j == thread[w].run
  <2>1. /\ jobs' \in [Job -> Row \cup {None}] /\ JobsStay
        /\ \A i \in tasks : jobs'[i] # None
    <3>1. CASE j \in Job
      <4> DEFINE r == [jobs[j] EXCEPT !.sent = Cardinality(thread[w].pending),
                                      !.status = "completed"]
      <4>1. Cardinality(thread[w].pending) \in Nat
        BY <1>0, FiniteLogs DEF TypeOK, Thread
      <4>2. r \in Row
        BY <3>1, <4>1, JobRow DEF Row, JobStatus
      <4>3. jobs' = [jobs EXCEPT ![j] = r]
        BY <1>12, <3>1 DEF Complete, IsJob
      <4> HIDE DEF r
      <4> QED
        BY <3>1, <4>2, <4>3, JobWritten
    <3>2. CASE j \notin Job
      BY <1>12, <3>2, JobsSame DEF Complete, IsJob
    <3> QED
      BY <3>1, <3>2
  <2> QED
    BY <1>0, <1>12, <2>1, EndStep DEF Complete, TypeOK
<1>13. ASSUME NEW w \in Worker, RecordFailure(w) PROVE IInv'
  <2> DEFINE j == thread[w].run
  <2>1. /\ jobs' \in [Job -> Row \cup {None}] /\ JobsStay
        /\ \A i \in tasks : jobs'[i] # None
    <3>1. CASE j \in Job
      <4> DEFINE r == [jobs[j] EXCEPT !.status = "failed"]
      <4>1. r \in Row
        BY <3>1, JobRow DEF Row, JobStatus
      <4>2. jobs' = [jobs EXCEPT ![j] = r]
        BY <1>13, <3>1 DEF RecordFailure, IsJob
      <4> HIDE DEF r
      <4> QED
        BY <3>1, <4>1, <4>2, JobWritten
    <3>2. CASE j \notin Job
      BY <1>13, <3>2, JobsSame DEF RecordFailure, IsJob
    <3> QED
      BY <3>1, <3>2
  <2> QED
    BY <1>0, <1>13, <2>1, EndStep DEF RecordFailure, TypeOK
<1>14. ASSUME NEW w \in Worker, SyncRaises(w) \/ StepFails(w) PROVE IInv'
  <2>1. PICK lg \in SUBSET LogRow :
            thread' = [thread EXCEPT ![w] = [thread[w] EXCEPT !.pc = "failing", !.pending = lg]]
    <3>1. CASE SyncRaises(w)
      <4>1. thread[w] \in Thread
        BY <1>0 DEF TypeOK
      <4>2. [thread[w] EXCEPT !.pc = "failing", !.pending = thread[w].pending]
              = [thread[w] EXCEPT !.pc = "failing"]
        BY <4>1 DEF Thread
      <4>3. thread[w].pending \in SUBSET LogRow
        BY <4>1 DEF Thread
      <4> QED
        BY <3>1, <4>2, <4>3 DEF SyncRaises
    <3>2. CASE StepFails(w)
      BY <3>2 DEF StepFails
    <3> QED
      BY <1>14, <3>1, <3>2
  <2> DEFINE t == [thread[w] EXCEPT !.pc = "failing", !.pending = lg]
  <2>2. t \in Thread /\ t.pc = "failing" /\ t.run = thread[w].run /\ t.found = thread[w].found
    BY <1>0 DEF TypeOK, Thread
  <2>3. thread' = [thread EXCEPT ![w] = t]
    BY <2>1
  <2> HIDE DEF t
  <2>4. \A s \in Subscriber, g \in Grant : ~MayMail(t, s, g)
    BY <2>2 DEF MayMail
  <2>5. /\ thread[w].pc # "idle" /\ imported' = imported /\ mail' = mail
        /\ verified' = verified /\ logs' \subseteq LogRow /\ jobs' = jobs
        /\ tasks' = tasks /\ singles' = singles /\ lost' = lost
    BY <1>0, <1>14 DEF SyncRaises, StepFails, TypeOK
  <2> QED
    BY <2>2, <2>3, <2>4, <2>5, JobsSame, MoveOn
<1>15. ASSUME NEW w \in Worker, RaisesOutside(w) \/ Exit(w) PROVE IInv'
  <2>1. CASE RaisesOutside(w)
    <3>1. lost' \subseteq Job \X Cause
      BY <1>0, <2>1 DEF RaisesOutside, IsJob, TypeOK, Cause
    <3>2. /\ jobs' = jobs /\ imported' = imported /\ mail' = mail /\ verified' = verified
          /\ logs' = logs /\ tasks' = tasks /\ singles' = singles
          /\ thread' = [thread EXCEPT ![w] = Idle]
      BY <2>1 DEF RaisesOutside
    <3> QED
      BY <3>1, <3>2, JobsSame, EndStep
  <2>2. CASE Exit(w)
    <3>1. lost' \subseteq Job \X Cause
      BY <1>0, <2>2 DEF Exit, TypeOK, Cause
    <3>2. /\ jobs' = jobs /\ imported' = imported /\ mail' = mail /\ verified' = verified
          /\ logs' = logs /\ tasks' = tasks /\ singles' = singles
          /\ thread' = [thread EXCEPT ![w] = Idle]
      BY <2>2 DEF Exit
    <3> QED
      BY <3>1, <3>2, JobsSame, EndStep
  <2> QED
    BY <1>15, <2>1, <2>2
<1>16. ASSUME NEW s \in Subscriber, SubscriberMoves(s) PROVE IInv'
  BY <1>0, <1>16 DEF SubscriberMoves, IInv, TypeOK, RunsStored, FoundByOne, MailedOnce
<1>18. ASSUME NEW j \in Job, NEW status \in {"queued", "running"}, RefreshRaises(j, status)
      PROVE  IInv'
  <2>1. NewJob(status) \in Row
    BY DEF NewJob, Row, JobStatus
  <2>2. /\ jobs' \in [Job -> Row \cup {None}] /\ JobsStay
        /\ \A i \in tasks : jobs'[i] # None
    BY <1>18, <2>1, JobWritten DEF RefreshRaises
  <2>3. lost' \subseteq Job \X Cause
    BY <1>0, <1>18 DEF RefreshRaises, TypeOK, Cause
  <2>4. TypeOK'
    BY <1>0, <1>18, <2>2, <2>3 DEF RefreshRaises, TypeOK
  <2>5. RunsStored'
    BY <1>0, <1>18, <2>2 DEF RefreshRaises, RunsStored, JobsStay
  <2>6. FoundByOne' /\ MailedOnce'
    BY <1>0, <1>18 DEF RefreshRaises, FoundByOne, MailedOnce
  <2> QED
    BY <2>4, <2>5, <2>6 DEF IInv
<1>17. ASSUME UNCHANGED vars PROVE IInv'
  BY <1>0, <1>17 DEF vars, IInv, TypeOK, RunsStored, FoundByOne, MailedOnce
<1> QED
  BY <1>1, <1>2, <1>3, <1>4, <1>5, <1>6, <1>7, <1>8, <1>9, <1>10, <1>11, <1>12, <1>13,
     <1>14, <1>15, <1>16, <1>17, <1>18, SyncSourceInv, SendDigestInv DEF Next, Step

(* Whatever runs overlap, raise or are cut off, the state is well formed:  *)
(* no thread works for a job that has no row.                              *)
THEOREM TypeCorrect == Spec => []TypeOK
<1>1. IInv => TypeOK
  BY DEF IInv
<1> QED
  BY InitInv, NextInv, <1>1, PTL DEF Spec

(* notify_subscribers_of_new_grants hands no subscriber to the provider    *)
(* twice about one grant, in any number of runs: dedup_key comes too late  *)
(* to be the reason, and the proof does not use it.                        *)
THEOREM AlertedAtMostOnce == Spec => []AlertAtMostOnce
<1>1. IInv => AlertAtMostOnce
  BY DEF IInv, MailedOnce, AlertAtMostOnce, Pair
<1> QED
  BY InitInv, NextInv, <1>1, PTL DEF Spec

-----------------------------------------------------------------------------
(* What the row of a job reports is true: the two invariants of            *)
(* RefreshJobs about counters and alerts.                                  *)

Checked(r, n) == r.total = Cardinality(Source) /\ r.checked + n = Cardinality(Source)
Untouched(r) == r.checked = 0 /\ r.total = 0 /\ r.new = 0

(* The counters of the job that a thread works for, between two commits.   *)
Counted(w) ==
    LET t == thread[w]
        r == jobs[t.run]
    IN  t.run \in Job =>
          /\ r.status \in {"queued", "running"}
          /\ Found(t.run) = t.found
          /\ t.pc \in {"start", "list"} => Untouched(r) /\ t.found = {}
          /\ t.pc = "sync" =>
                 Checked(r, Cardinality(t.todo)) /\ r.new = Cardinality(t.found)
          /\ t.pc = "count" =>
                 /\ Checked(r, Cardinality(t.todo) + 1)
                 /\ r.new + Cardinality(t.fresh) = Cardinality(t.found)
          /\ t.pc \in {"send", "finish"} => Checked(r, 0) /\ r.new = Cardinality(t.found)

(* The log rows about the grants that a thread has found are its own: none *)
(* before its commit, all of them after it.                                *)
LogsOf(grants) == {l \in logs : l[1][2] \in grants}

Alerts(w) ==
    LET t == thread[w]
    IN  /\ \A g \in t.found : imported[g] = t.run
        /\ t.pc \notin {"finish", "failing"} => LogsOf(t.found) = {}
        /\ t.pc \notin {"send", "finish", "failing"} => t.pending = {}
        /\ \A l \in t.pending : l[1][2] \in t.found
        /\ t.pc = "send" =>
               \A g \in t.found, s \in Loyal :
                   <<s, g>> \in Matches /\ s \notin t.recipients =>
                       \E l \in t.pending : l[1] = <<s, g>>
        /\ t.pc = "finish" =>
               /\ t.pending = LogsOf(t.found)
               /\ \A g \in t.found, s \in Loyal : <<s, g>> \in Matches => Logged(<<s, g>>)

(* One job: the body of CountersHonest and of CompletedMeansAlerted.       *)
Honest(j) ==
    jobs[j] # None =>
        /\ jobs[j].checked <= jobs[j].total \/ jobs[j].total = 0
        /\ jobs[j].new <= Cardinality(Found(j))
        /\ jobs[j].status = "completed" =>
              /\ jobs[j].checked = Cardinality(Source)
              /\ jobs[j].new = Cardinality(Found(j))
              /\ jobs[j].sent = Cardinality(LogsOf(Found(j)))
              /\ \A g \in Found(j), s \in Loyal : <<s, g>> \in Matches => Logged(<<s, g>>)

(* A job has one thread, or waits for one, or is over. *)
OneOwner ==
    /\ \A v, w \in Worker : thread[v].run \in Job /\ thread[v].run = thread[w].run => v = w
    /\ \A j \in tasks : /\ jobs[j].status = "queued" /\ Untouched(jobs[j]) /\ Found(j) = {}
                        /\ \A w \in Worker : thread[w].run # j
    /\ \A w \in Worker : thread[w].pc = "idle" => thread[w] = Idle

Report ==
    /\ \A w \in Worker : Counted(w) /\ Alerts(w)
    /\ \A j \in Job : Honest(j) /\ (jobs[j] = None => Found(j) = {})
    /\ OneOwner
    /\ \A l \in logs : imported[l[1][2]] # None
    /\ Loyal \subseteq verified

RInv == IInv /\ Report

-----------------------------------------------------------------------------
LEMMA InitReport == Init => RInv
<1> SUFFICES ASSUME Init PROVE Report
  BY InitInv DEF RInv
<1>1. \A w \in Worker : thread[w] = Idle /\ thread[w].run \notin Job /\ thread[w].found = {}
  BY IdleThread DEF Init, Run
<1>2. \A w \in Worker : Counted(w) /\ Alerts(w)
  <2>1. \A w \in Worker : thread[w].pc = "idle" /\ thread[w].pending = {} /\ LogsOf({}) = {}
    BY <1>1 DEF Idle, Init, LogsOf
  <2> QED
    BY <1>1, <2>1 DEF Counted, Alerts
<1>3. \A j \in Job : jobs[j] = None /\ Found(j) = {}
  BY IdleThread DEF Init, Found, Run
<1>4. OneOwner
  BY <1>1 DEF Init, OneOwner
<1> QED
  BY <1>2, <1>3, <1>4 DEF Init, Report, Honest

(* Cardinalities of the sets of grants and of sources.                     *)
LEMMA CountGrants ==
    ASSUME NEW S \in SUBSET Grant, NEW T \in SUBSET Grant
    PROVE  /\ Cardinality(S) \in Nat /\ Cardinality(T) \in Nat
           /\ S \subseteq T => Cardinality(S) <= Cardinality(T)
           /\ S \cap T = {} => Cardinality(S \cup T) = Cardinality(S) + Cardinality(T)
<1>1. IsFiniteSet(S) /\ IsFiniteSet(T)
  BY RefreshJobsAssumption, FS_Subset
<1>2. Cardinality(S) \in Nat /\ Cardinality(T) \in Nat
  BY <1>1, FS_CardinalityType
<1>3. S \subseteq T => Cardinality(S) <= Cardinality(T)
  BY <1>1, FS_Subset
<1>4. ASSUME S \cap T = {} PROVE Cardinality(S \cup T) = Cardinality(S) + Cardinality(T)
  <2>1. Cardinality(S \cup T) = Cardinality(S) + Cardinality(T) - Cardinality(S \cap T)
    BY <1>1, FS_Union
  <2>2. Cardinality(S \cap T) = 0
    BY <1>4, FS_EmptySet
  <2> QED
    BY <1>2, <2>1, <2>2
<1> QED
  BY <1>2, <1>3, <1>4

LEMMA CountSources ==
    ASSUME NEW S \in SUBSET Source
    PROVE  /\ Cardinality(S) \in Nat /\ Cardinality(S) <= Cardinality(Source)
           /\ Cardinality({}) = 0
           /\ \A s \in S : Cardinality(S \ {s}) + 1 = Cardinality(S)
<1>1. IsFiniteSet(S) /\ Cardinality(S) <= Cardinality(Source)
  BY RefreshJobsAssumption, FS_Subset
<1>2. Cardinality(S) \in Nat
  BY <1>1, FS_CardinalityType
<1>3. ASSUME NEW s \in S PROVE Cardinality(S \ {s}) + 1 = Cardinality(S)
  <2>1. Cardinality(S \ {s}) = Cardinality(S) - 1
    BY <1>1, <1>3, FS_RemoveElement
  <2> QED
    BY <1>2, <2>1
<1> QED
  BY <1>1, <1>2, <1>3, FS_EmptySet

-----------------------------------------------------------------------------
(* The row of a job that its thread still works for is honest.             *)
LEMMA RunningIsHonest ==
    IInv /\ OneOwner =>
        \A w \in Worker :
            Counted(w) /\ thread[w].run \in Job /\ thread[w].pc # "failing" =>
                Honest(thread[w].run)
<1> SUFFICES ASSUME IInv, OneOwner, NEW w \in Worker, Counted(w), thread[w].run \in Job,
                    thread[w].pc # "failing"
             PROVE  Honest(thread[w].run)
  OBVIOUS
<1> DEFINE j == thread[w].run
           r == jobs[j]
           n == Cardinality(Source)
           m == Cardinality(thread[w].found)
<1>1. /\ r \in Row /\ thread[w] \in Thread
      /\ thread[w].pc # "idle" /\ Found(j) = thread[w].found
  BY JobRow, IdleThread DEF IInv, TypeOK, Counted, OneOwner, Run
<1>2. /\ r.checked \in Nat /\ r.total \in Nat /\ r.new \in Nat /\ n \in Nat /\ m \in Nat
      /\ Cardinality(thread[w].todo) \in Nat /\ Cardinality(thread[w].fresh) \in Nat
  BY <1>1, FiniteSources, CountGrants, CountSources DEF Row, Thread
<1>3. r.status # "completed"
  BY DEF Counted
<1>4. /\ thread[w].pc \in {"start", "list", "sync", "count", "send", "finish"}
      /\ thread[w].pc \in {"start", "list"} => Untouched(r)
      /\ thread[w].pc = "sync" => Checked(r, Cardinality(thread[w].todo)) /\ r.new = m
      /\ thread[w].pc = "count" => /\ Checked(r, Cardinality(thread[w].todo) + 1)
                                   /\ r.new + Cardinality(thread[w].fresh) = m
      /\ thread[w].pc \in {"send", "finish"} => Checked(r, 0) /\ r.new = m
  BY <1>1 DEF Counted, Thread
<1> HIDE DEF r, n, m
<1>5. /\ r.checked <= r.total \/ r.total = 0
      /\ r.new <= m
  BY <1>2, <1>4 DEF Checked, Untouched, n
<1> QED
  BY <1>1, <1>3, <1>5 DEF Honest, r, m

LEMMA RunningIsHonestNext ==
    (IInv /\ OneOwner =>
        \A w \in Worker :
            Counted(w) /\ thread[w].run \in Job /\ thread[w].pc # "failing" =>
                Honest(thread[w].run))'
  BY RunningIsHonest, PTL

(* A job stays honest when no counter of it moves and it does not complete. *)
LEMMA StaysHonest ==
    ASSUME NEW j \in Job, Honest(j), imported' = imported, jobs[j] # None,
           jobs'[j].checked = jobs[j].checked, jobs'[j].total = jobs[j].total,
           jobs'[j].new = jobs[j].new, jobs'[j].status # "completed"
    PROVE  Honest(j)'
  BY DEF Honest, Found

-----------------------------------------------------------------------------
(* A step of thread w writes at most the row of its own job, imports for   *)
(* its own run, and logs about what it has found.                          *)
Private(w, t) ==
    /\ \A j \in Job : j # t.run /\ j # thread[w].run => jobs'[j] = jobs[j]
    /\ JobsStay
    /\ \A g \in Grant : \/ imported'[g] = imported[g]
                        \/ /\ imported[g] = None /\ imported'[g] = t.run
                           /\ t.run = thread[w].run /\ t.run # None
    /\ logs \subseteq logs' /\ \A l \in logs' \ logs : l[1][2] \in thread[w].found
    /\ tasks' \subseteq tasks /\ t.run \notin tasks'
    /\ t.run \in Job => t.run = thread[w].run \/ \A v \in Worker : thread[v].run # t.run
    /\ t.pc = "idle" => t = Idle
    /\ verified' = verified

(* The other threads and the other jobs do not see it.                     *)
LEMMA OthersSame ==
    ASSUME RInv, IInv', NEW w \in Worker, NEW t \in Thread,
           thread' = [thread EXCEPT ![w] = t], Private(w, t)
    PROVE  /\ \A v \in Worker : v # w => Counted(v)' /\ Alerts(v)'
           /\ \A j \in Job : j # t.run /\ j # thread[w].run => Honest(j)'
           /\ \A j \in Job : jobs'[j] = None => Found(j)' = {}
           /\ OneOwner'
           /\ \A l \in logs' : imported'[l[1][2]] # None
<1>0. /\ IInv /\ Report /\ TypeOK /\ OneOwner
  BY DEF RInv, IInv, Report
<1>1. /\ thread'[w] = t /\ \A v \in Worker \ {w} : thread'[v] = thread[v]
  BY <1>0, ThreadStep
<1>2. ASSUME NEW j \in Job, j # thread[w].run
      PROVE  Found(j)' = Found(j) /\ LogsOf(Found(j))' = LogsOf(Found(j))
  <2>1. Found(j)' = Found(j)
    BY <1>2, IdleThread DEF Found, Private, Run
  <2>2. \A g \in thread[w].found : g \notin Found(j)
    BY <1>0, <1>2 DEF Report, Alerts, Found
  <2> QED
    BY <2>1, <2>2 DEF LogsOf, Private
<1>3. ASSUME NEW v \in Worker, v # w PROVE Counted(v)' /\ Alerts(v)'
  <2>1. thread'[v] = thread[v] /\ Counted(v) /\ Alerts(v) /\ thread[v].found \subseteq Grant
    BY <1>0, <1>1, <1>3 DEF Report, TypeOK, Thread
  <2>2. Counted(v)'
    <3>1. ASSUME thread[v].run \in Job
          PROVE  /\ jobs'[thread[v].run] = jobs[thread[v].run]
                 /\ Found(thread[v].run)' = Found(thread[v].run)
      <4>1. thread[v].run # thread[w].run /\ thread[v].run # t.run
        BY <1>0, <1>3, <3>1 DEF OneOwner, Private
      <4>2. imported' \in [Grant -> Run \cup {None}] /\ thread[v].run # None
        BY <3>1, IdleThread DEF IInv, TypeOK, Run
      <4>3. \A g \in Grant : imported'[g] = thread'[v].run <=> imported[g] = thread[v].run
        BY <2>1, <4>1, <4>2 DEF Private
      <4> QED
        BY <2>1, <3>1, <4>1, <4>3 DEF Private, Found
    <3> QED
      BY <2>1, <3>1 DEF Counted
  <2>3. Alerts(v)'
    <3>1. thread[w].found \cap thread[v].found = {}
      BY <1>0, <1>3 DEF IInv, FoundByOne
    <3>2. LogsOf(thread[v].found)' = LogsOf(thread[v].found)
      BY <2>1, <3>1 DEF LogsOf, Private
    <3>3. \A g \in thread[v].found : imported'[g] = imported[g]
      BY <1>0, <2>1 DEF IInv, FoundByOne, Private
    <3>4. \A p : Logged(p) => Logged(p)'
      BY DEF Logged, Private
    <3> QED
      BY <2>1, <3>2, <3>3, <3>4 DEF Alerts
  <2> QED
    BY <2>2, <2>3
<1>4. ASSUME NEW j \in Job, j # t.run, j # thread[w].run PROVE Honest(j)'
  <2>1. /\ jobs'[j] = jobs[j] /\ Found(j)' = Found(j) /\ LogsOf(Found(j))' = LogsOf(Found(j))
    BY <1>2, <1>4 DEF Private
  <2>2. \A p : Logged(p) => Logged(p)'
    BY DEF Logged, Private
  <2> QED
    BY <1>0, <2>1, <2>2 DEF Report, Honest
<1>5. ASSUME NEW j \in Job, jobs'[j] = None PROVE Found(j)' = {}
  <2>1. jobs[j] = None /\ j # thread[w].run
    BY <1>0, <1>5 DEF Private, JobsStay, IInv, RunsStored
  <2> QED
    BY <1>0, <1>2, <2>1 DEF Report
<1>6. OneOwner'
  <2>1. ASSUME NEW u \in Worker, NEW v \in Worker,
               thread'[u].run \in Job, thread'[u].run = thread'[v].run
        PROVE  u = v
    <3>1. CASE u = w /\ v # w
      BY <1>0, <1>1, <2>1, <3>1 DEF OneOwner, Private
    <3>2. CASE u # w /\ v = w
      BY <1>0, <1>1, <2>1, <3>2 DEF OneOwner, Private
    <3>3. CASE u # w /\ v # w
      BY <1>0, <1>1, <2>1, <3>3 DEF OneOwner
    <3> QED
      BY <3>1, <3>2, <3>3
  <2>2. ASSUME NEW j \in tasks'
        PROVE  /\ jobs'[j].status = "queued" /\ Untouched(jobs'[j]) /\ Found(j)' = {}
               /\ \A v \in Worker : thread'[v].run # j
    <3>1. j \in tasks /\ j \in Job /\ j # t.run /\ \A v \in Worker : thread[v].run # j
      BY <1>0, <2>2 DEF Private, TypeOK, OneOwner
    <3>2. jobs'[j] = jobs[j] /\ Found(j)' = Found(j)
      BY <1>2, <3>1 DEF Private
    <3> QED
      BY <1>0, <1>1, <3>1, <3>2 DEF OneOwner
  <2>3. \A v \in Worker : thread'[v].pc = "idle" => thread'[v] = Idle
    BY <1>0, <1>1 DEF OneOwner, Private
  <2> QED
    BY <2>1, <2>2, <2>3 DEF OneOwner
<1>7. ASSUME NEW l \in logs' PROVE imported'[l[1][2]] # None
  <2>1. l[1][2] \in Grant
    <3>1. l \in LogRow
      BY <1>7 DEF IInv, TypeOK
    <3> QED
      BY <3>1 DEF LogRow, Pair
  <2>2. imported[l[1][2]] # None
    BY <1>0 DEF Report, Private, IInv, FoundByOne
  <2> QED
    BY <2>1, <2>2 DEF Private
<1> QED
  BY <1>3, <1>4, <1>5, <1>6, <1>7

LEMMA ReportStep ==
    ASSUME RInv, IInv', NEW w \in Worker, NEW t \in Thread,
           thread' = [thread EXCEPT ![w] = t], Private(w, t),
           Counted(w)', Alerts(w)', thread[w].run \in {None, t.run},
           t.pc = "failing" => \A j \in Job : j = t.run => Honest(j)'
    PROVE  Report'
<1>1. /\ IInv /\ Report /\ thread'[w] = t
      /\ \A v \in Worker : v # w => Counted(v)' /\ Alerts(v)'
      /\ \A j \in Job : j # t.run /\ j # thread[w].run => Honest(j)'
      /\ \A j \in Job : jobs'[j] = None => Found(j)' = {}
      /\ OneOwner'
      /\ \A l \in logs' : imported'[l[1][2]] # None
  BY OthersSame, ThreadStep DEF RInv, IInv
<1>2. ASSUME NEW j \in Job, j = t.run, t.pc # "failing" PROVE Honest(j)'
  <2>1. thread'[w].run = j /\ thread'[w].pc # "failing"
    BY <1>1, <1>2
  <2>2. Honest(thread[w].run)'
    BY <1>1, <2>1, RunningIsHonestNext
  <2> QED
    BY <2>1, <2>2 DEF Honest
<1>3. \A j \in Job : Honest(j)'
  BY <1>1, <1>2, IdleThread DEF Run
<1> QED
  BY <1>1, <1>3 DEF Report, Private

(* A thread that ends: its job has reached an honest row.                  *)
LEMMA ReportEnd ==
    ASSUME RInv, IInv', NEW w \in Worker,
           thread' = [thread EXCEPT ![w] = Idle], Private(w, Idle),
           \A j \in Job : j = thread[w].run => Honest(j)'
    PROVE  Report'
<1>1. /\ IInv /\ Report /\ thread'[w] = Idle
      /\ \A v \in Worker : v # w => Counted(v)' /\ Alerts(v)'
      /\ \A j \in Job : j # Idle.run /\ j # thread[w].run => Honest(j)'
      /\ \A j \in Job : jobs'[j] = None => Found(j)' = {}
      /\ OneOwner'
      /\ \A l \in logs' : imported'[l[1][2]] # None
  BY OthersSame, ThreadStep, IdleThread DEF RInv, IInv
<1>2. Counted(w)' /\ Alerts(w)'
  <2>1. /\ Idle.run \notin Job /\ Idle.found = {} /\ Idle.pending = {} /\ Idle.pc = "idle"
    BY IdleThread DEF Idle, Run
  <2> QED
    BY <1>1, <2>1 DEF Counted, Alerts, LogsOf
<1>3. \A j \in Job : Honest(j)'
  BY <1>1, IdleThread DEF Run
<1> QED
  BY <1>1, <1>2, <1>3 DEF Report, Private

-----------------------------------------------------------------------------
(* One lemma per step of a run.                                            *)

LEMMA Facts ==
    ASSUME RInv, NEW w \in Worker
    PROVE  /\ IInv /\ Report /\ TypeOK /\ RunsStored /\ FoundByOne /\ OneOwner
           /\ Counted(w) /\ Alerts(w)
           /\ thread[w] \in Thread
           /\ thread[w].pc = "idle" => thread[w] = Idle
           /\ thread[w].pc # "idle" => thread[w].run \in Run /\ thread[w].run # None
           /\ thread[w].run \notin tasks
           /\ thread[w].run \in Job => jobs[thread[w].run] \in Row
           /\ \A j \in Job : Honest(j)
<1>1. IInv /\ Report /\ TypeOK /\ RunsStored /\ FoundByOne /\ OneOwner /\ Counted(w) /\ Alerts(w)
  BY DEF RInv, IInv, Report
<1> QED
  BY <1>1, IdleThread, JobRow DEF OneOwner, TypeOK, RunsStored, Report

(* A step that only moves the thread.                                      *)
LEMMA PrivateQuiet ==
    ASSUME RInv, NEW w \in Worker, NEW t \in Thread, thread[w].pc # "idle",
           t.run = thread[w].run, t.pc # "idle",
           jobs' = jobs, imported' = imported, logs' = logs, tasks' = tasks, verified' = verified
    PROVE  Private(w, t)
  BY Facts DEF Private, JobsStay

(* One that also writes the row of its job. *)
LEMMA PrivateRow ==
    ASSUME RInv, NEW w \in Worker, NEW t \in Thread, thread[w].pc # "idle",
           t.run = thread[w].run, t.pc # "idle", NEW r \in Row,
           thread[w].run \in Job, jobs' = [jobs EXCEPT ![thread[w].run] = r],
           imported' = imported, logs' = logs, tasks' = tasks, verified' = verified
    PROVE  Private(w, t) /\ jobs'[thread[w].run] = r
<1>1. /\ jobs'[thread[w].run] = r /\ r # None
      /\ \A j \in Job : j # thread[w].run => jobs'[j] = jobs[j]
  BY Facts, RowIsNotNone DEF TypeOK
<1> QED
  BY <1>1, Facts DEF Private, JobsStay

LEMMA ReportStartTask ==
    ASSUME RInv, IInv', NEW w \in Worker, NEW j \in Job, StartTask(w, j)
    PROVE  Report'
<1> DEFINE t == [Idle EXCEPT !.pc = "start", !.run = j]
<1>1. /\ t \in Thread /\ t.pc = "start" /\ t.run = j /\ t.found = {} /\ t.pending = {}
  BY IdleThread DEF Idle, Thread, Run
<1>2. thread' = [thread EXCEPT ![w] = t]
  BY DEF StartTask
<1> HIDE DEF t
<1>3. thread'[w] = t /\ thread[w] = Idle /\ thread[w].run = None /\ IInv /\ OneOwner
  BY <1>1, <1>2, Facts, ThreadStep, IdleThread DEF StartTask
<1>4. /\ j \in tasks /\ tasks' = tasks \ {j} /\ jobs' = jobs /\ imported' = imported
      /\ logs' = logs /\ verified' = verified
  BY DEF StartTask
<1>5. Private(w, t)
  BY <1>1, <1>3, <1>4 DEF Private, JobsStay, OneOwner
<1>6. Counted(w)'
  <2>1. Found(j)' = {} /\ jobs'[j].status = "queued" /\ Untouched(jobs'[j])
    BY <1>3, <1>4 DEF OneOwner, Found
  <2> QED
    BY <1>1, <1>3, <2>1 DEF Counted
<1>7. Alerts(w)'
  BY <1>1, <1>3 DEF Alerts, LogsOf
<1> QED
  BY <1>1, <1>2, <1>3, <1>5, <1>6, <1>7, ReportStep

LEMMA ReportScheduled ==
    ASSUME RInv, IInv', NEW w \in Worker, NEW j \in Job, ScheduledRefresh(w, j)
    PROVE  Report'
<1> DEFINE t == [Idle EXCEPT !.pc = "start", !.run = j]
           r == NewJob("running")
<1>1. /\ t \in Thread /\ t.pc = "start" /\ t.run = j /\ t.found = {} /\ t.pending = {}
  BY IdleThread DEF Idle, Thread, Run
<1>2. thread' = [thread EXCEPT ![w] = t] /\ jobs' = [jobs EXCEPT ![j] = r]
  BY DEF ScheduledRefresh
<1>3. r \in Row /\ r.status = "running" /\ Untouched(r)
  BY DEF NewJob, Row, JobStatus, Untouched
<1> HIDE DEF t, r
<1>4. /\ thread'[w] = t /\ thread[w] = Idle /\ thread[w].run = None
      /\ IInv /\ Report /\ TypeOK /\ RunsStored
  BY <1>1, <1>2, Facts, ThreadStep, IdleThread DEF ScheduledRefresh
<1>5. /\ jobs[j] = None /\ tasks' = tasks /\ imported' = imported
      /\ logs' = logs /\ verified' = verified
  BY DEF ScheduledRefresh
<1>6. jobs'[j] = r /\ r # None /\ \A i \in Job \ {j} : jobs'[i] = jobs[i]
  BY <1>2, <1>3, <1>4, RowIsNotNone DEF TypeOK
<1>7. j \notin tasks /\ \A v \in Worker : thread[v].run # j
  BY <1>4, <1>5 DEF RunsStored
<1>8. Private(w, t)
  BY <1>1, <1>3, <1>4, <1>5, <1>6, <1>7 DEF Private, JobsStay
<1>9. Counted(w)'
  <2>1. Found(j)' = {}
    BY <1>4, <1>5 DEF Report, Found
  <2> QED
    BY <1>1, <1>3, <1>4, <1>6, <2>1 DEF Counted
<1>10. Alerts(w)'
  BY <1>1, <1>4 DEF Alerts, LogsOf
<1> QED
  BY <1>1, <1>2, <1>4, <1>8, <1>9, <1>10, ReportStep

LEMMA ReportSyncOne ==
    ASSUME RInv, IInv', NEW w \in Worker, NEW s \in Source, SyncOne(w, s)
    PROVE  Report'
<1> DEFINE t == [Idle EXCEPT !.pc = "sync", !.run = "single", !.todo = {s}]
<1>1. /\ t \in Thread /\ t.pc = "sync" /\ t.run = "single" /\ t.found = {} /\ t.pending = {}
      /\ "single" \notin Job
  BY IdleThread, RefreshJobsAssumption DEF Idle, Thread, Run
<1>2. thread' = [thread EXCEPT ![w] = t]
  BY DEF SyncOne
<1> HIDE DEF t
<1>3. thread'[w] = t /\ thread[w] = Idle /\ thread[w].run = None /\ TypeOK
  BY <1>1, <1>2, Facts, ThreadStep, IdleThread DEF SyncOne
<1>4. Private(w, t)
  BY <1>1, <1>3 DEF Private, JobsStay, SyncOne, TypeOK
<1>5. Counted(w)' /\ Alerts(w)'
  BY <1>1, <1>3 DEF Counted, Alerts, LogsOf
<1> QED
  BY <1>1, <1>2, <1>3, <1>4, <1>5, ReportStep

LEMMA ReportSetRunning ==
    ASSUME RInv, IInv', NEW w \in Worker, SetRunning(w)
    PROVE  Report'
<1>0. PICK j \in Job : j = thread[w].run /\ thread[w].pc = "start" /\ jobs[j] \in Row
  BY Facts DEF SetRunning, RunsStored
<1> DEFINE r == [jobs[j] EXCEPT !.status = "running"]
           t == [thread[w] EXCEPT !.pc = "list"]
<1>1. /\ r \in Row /\ r.status = "running" /\ r.checked = jobs[j].checked
      /\ r.total = jobs[j].total /\ r.new = jobs[j].new
  BY <1>0 DEF Row, JobStatus
<1>2. /\ t \in Thread /\ t.pc = "list" /\ t.run = j /\ t.found = thread[w].found
      /\ t.pending = thread[w].pending
  BY <1>0, Facts DEF Thread
<1>3. /\ thread' = [thread EXCEPT ![w] = t] /\ jobs' = [jobs EXCEPT ![thread[w].run] = r]
      /\ imported' = imported /\ logs' = logs /\ tasks' = tasks /\ verified' = verified
  BY <1>0 DEF SetRunning
<1> HIDE DEF r, t
<1>4. thread'[w] = t /\ Counted(w) /\ Alerts(w)
  BY <1>2, <1>3, Facts, ThreadStep
<1>5. Private(w, t) /\ jobs'[j] = r
  BY <1>0, <1>1, <1>2, <1>3, PrivateRow
<1>6. Counted(w)'
  <2>1. Found(j) = t.found /\ t.found = {} /\ Untouched(jobs[j])
    BY <1>0, <1>2, <1>4 DEF Counted
  <2>2. Found(j)' = Found(j)
    BY <1>3 DEF Found
  <2> QED
    BY <1>1, <1>2, <1>4, <1>5, <2>1, <2>2 DEF Counted, Untouched
<1>7. Alerts(w)'
  BY <1>0, <1>2, <1>3, <1>4 DEF Alerts, LogsOf
<1> QED
  BY <1>0, <1>2, <1>3, <1>5, <1>6, <1>7, ReportStep

LEMMA ReportListSources ==
    ASSUME RInv, IInv', NEW w \in Worker, ListSources(w)
    PROVE  Report'
<1>0. PICK j \in Job : j = thread[w].run /\ thread[w].pc = "list" /\ jobs[j] \in Row
  BY Facts DEF ListSources, RunsStored
<1> DEFINE r == [jobs[j] EXCEPT !.total = Cardinality(Source)]
           t == [thread[w] EXCEPT !.pc = "sync", !.todo = Source]
<1>1. /\ r \in Row /\ r.status = jobs[j].status /\ r.checked = jobs[j].checked
      /\ r.total = Cardinality(Source) /\ r.new = jobs[j].new
  BY <1>0, FiniteSources DEF Row
<1>2. /\ t \in Thread /\ t.pc = "sync" /\ t.run = j /\ t.found = thread[w].found
      /\ t.pending = thread[w].pending /\ t.todo = Source
  BY <1>0, Facts DEF Thread
<1>3. /\ thread' = [thread EXCEPT ![w] = t] /\ jobs' = [jobs EXCEPT ![thread[w].run] = r]
      /\ imported' = imported /\ logs' = logs /\ tasks' = tasks /\ verified' = verified
  BY <1>0 DEF ListSources
<1> HIDE DEF r, t
<1>4. thread'[w] = t /\ Counted(w) /\ Alerts(w)
  BY <1>2, <1>3, Facts, ThreadStep
<1>5. Private(w, t) /\ jobs'[j] = r
  BY <1>0, <1>1, <1>2, <1>3, PrivateRow
<1>6. Counted(w)'
  <2>1. /\ Found(j) = t.found /\ Untouched(jobs[j]) /\ jobs[j].status \in {"queued", "running"}
    BY <1>0, <1>2, <1>4 DEF Counted
  <2>2. Found(j)' = Found(j)
    BY <1>3 DEF Found
  <2>3. t.found = {}
    BY <1>0, <1>2, <1>4 DEF Counted
  <2>4. Checked(r, Cardinality(t.todo)) /\ r.new = Cardinality(t.found)
    <3>1. Cardinality({}) = 0
      BY FS_EmptySet
    <3> QED
      BY <1>1, <1>2, <2>1, <2>3, <3>1, FiniteSources DEF Untouched, Checked
  <2> QED
    BY <1>1, <1>2, <1>4, <1>5, <2>1, <2>2, <2>4 DEF Counted
<1>7. Alerts(w)'
  BY <1>0, <1>2, <1>3, <1>4 DEF Alerts, LogsOf
<1> QED
  BY <1>0, <1>2, <1>3, <1>5, <1>6, <1>7, ReportStep

LEMMA ReportSyncSource ==
    ASSUME RInv, IInv', NEW w \in Worker, NEW s \in Source, NEW new \in SUBSET Grant,
           SyncSource(w, s, new)
    PROVE  Report'
<1> DEFINE t == [thread[w] EXCEPT !.pc = "count", !.todo = @ \ {s}, !.fresh = new,
                                  !.found = @ \cup new]
<1>0. /\ thread[w] \in Thread /\ thread[w].pc = "sync" /\ s \in thread[w].todo
      /\ thread[w].run \in Run /\ thread[w].run # None
      /\ Counted(w) /\ Alerts(w) /\ Report /\ FoundByOne /\ TypeOK
  BY Facts DEF SyncSource
<1>1. PICK run \in Run : run = thread[w].run
  BY <1>0
<1>2. /\ t \in Thread /\ t.pc = "count" /\ t.run = run /\ t.fresh = new
      /\ t.found = thread[w].found \cup new /\ t.todo = thread[w].todo \ {s}
      /\ t.pending = thread[w].pending
  BY <1>0, <1>1 DEF Thread
<1>3. /\ thread' = [thread EXCEPT ![w] = t]
      /\ jobs' = jobs /\ logs' = logs /\ tasks' = tasks /\ verified' = verified
  BY DEF SyncSource
<1>4. /\ \A g \in Grant : imported'[g] = IF g \in new THEN run ELSE imported[g]
      /\ \A g \in new : imported[g] = None
  BY <1>1 DEF SyncSource, NotImported
<1> HIDE DEF t
<1>5. thread'[w] = t /\ thread[w].found \subseteq Grant /\ thread[w].todo \subseteq Source
  BY <1>0, <1>2, <1>3, ThreadStep DEF Thread
<1>6. Private(w, t)
  BY <1>0, <1>1, <1>2, <1>3, <1>4, Facts DEF Private, JobsStay
<1>7. new \cap thread[w].found = {}
  BY <1>0, <1>4 DEF FoundByOne
<1>8. Counted(w)'
  <2>1. SUFFICES ASSUME run \in Job
                 PROVE  /\ jobs[run].status \in {"queued", "running"}
                        /\ Found(run)' = t.found
                        /\ Checked(jobs[run], Cardinality(t.todo) + 1)
                        /\ jobs[run].new + Cardinality(t.fresh) = Cardinality(t.found)
    BY <1>2, <1>3, <1>5 DEF Counted
  <2>2. /\ jobs[run].status \in {"queued", "running"} /\ Found(run) = thread[w].found
        /\ Checked(jobs[run], Cardinality(thread[w].todo))
        /\ jobs[run].new = Cardinality(thread[w].found)
    BY <1>0, <1>1, <2>1 DEF Counted
  <2>3. Found(run)' = t.found
    <3>1. \A g \in Grant : imported'[g] = run <=> imported[g] = run \/ g \in new
      BY <1>4
    <3> QED
      BY <1>2, <2>2, <3>1 DEF Found
  <2>4. Cardinality(t.todo) + 1 = Cardinality(thread[w].todo)
    BY <1>0, <1>2, <1>5, CountSources
  <2>5. Cardinality(thread[w].found) + Cardinality(new) = Cardinality(t.found)
    BY <1>2, <1>5, <1>7, CountGrants
  <2> QED
    BY <1>2, <2>2, <2>3, <2>4, <2>5
<1>9. Alerts(w)'
  <2>1. \A l \in logs : imported[l[1][2]] # None
    BY <1>0 DEF Report
  <2>2. LogsOf(thread[w].found) = {} /\ thread[w].pending = {}
    BY <1>0 DEF Alerts
  <2>3. LogsOf(t.found) = {}
    BY <1>2, <1>4, <2>1, <2>2 DEF LogsOf
  <2>4. \A g \in t.found : imported'[g] = run
    BY <1>0, <1>1, <1>2, <1>4, <1>5 DEF Alerts
  <2> QED
    BY <1>2, <1>3, <1>5, <2>2, <2>3, <2>4 DEF Alerts, LogsOf
<1> QED
  BY <1>1, <1>2, <1>3, <1>6, <1>8, <1>9, ReportStep

LEMMA ReportCountSource ==
    ASSUME RInv, IInv', NEW w \in Worker, CountSource(w)
    PROVE  Report'
<1> DEFINE t == [thread[w] EXCEPT !.pc = "sync", !.fresh = {}]
<1>0. /\ thread[w] \in Thread /\ thread[w].pc = "count" /\ thread[w].run # None
      /\ Counted(w) /\ Alerts(w) /\ TypeOK
  BY Facts DEF CountSource
<1>1. /\ t \in Thread /\ t.pc = "sync" /\ t.run = thread[w].run /\ t.found = thread[w].found
      /\ t.todo = thread[w].todo /\ t.pending = thread[w].pending
  BY <1>0 DEF Thread
<1>2. /\ thread' = [thread EXCEPT ![w] = t] /\ imported' = imported
      /\ logs' = logs /\ tasks' = tasks /\ verified' = verified
  BY DEF CountSource
<1> HIDE DEF t
<1>3. thread'[w] = t
  BY <1>0, <1>1, <1>2, ThreadStep
<1>4. Alerts(w)'
  BY <1>0, <1>1, <1>2, <1>3 DEF Alerts, LogsOf
<1>5. CASE thread[w].run \in Job
  <2>0. PICK j \in Job : j = thread[w].run
    BY <1>5
  <2> DEFINE r == [jobs[j] EXCEPT !.checked = @ + 1, !.new = @ + Cardinality(thread[w].fresh)]
  <2>1. jobs[j] \in Row /\ jobs' = [jobs EXCEPT ![thread[w].run] = r]
    BY <1>5, <2>0, Facts DEF CountSource, IsJob
  <2>2. /\ jobs[j].checked \in Nat /\ jobs[j].new \in Nat
        /\ Cardinality(thread[w].fresh) \in Nat
        /\ Cardinality(thread[w].todo) \in Nat
    BY <1>0, <2>1, CountGrants, CountSources DEF Row, Thread
  <2>3. jobs[j].checked + 1 \in Nat /\ jobs[j].new + Cardinality(thread[w].fresh) \in Nat
    BY <2>2
  <2>4. /\ r \in Row /\ r.status = jobs[j].status /\ r.total = jobs[j].total
        /\ r.checked = jobs[j].checked + 1
        /\ r.new = jobs[j].new + Cardinality(thread[w].fresh)
    BY <2>1, <2>3 DEF Row
  <2> HIDE DEF r
  <2>5. Private(w, t) /\ jobs'[j] = r
    BY <1>0, <1>1, <1>2, <1>5, <2>0, <2>1, <2>4, PrivateRow, ZenonT(60)
  <2>6. Counted(w)'
    <3>1. /\ jobs[j].status \in {"queued", "running"} /\ Found(j) = t.found
          /\ Checked(jobs[j], Cardinality(t.todo) + 1)
          /\ jobs[j].new + Cardinality(thread[w].fresh) = Cardinality(t.found)
      BY <1>0, <1>1, <2>0 DEF Counted
    <3>2. Checked(r, Cardinality(t.todo)) /\ r.new = Cardinality(t.found)
      <4>1. (jobs[j].checked + 1) + Cardinality(t.todo) = jobs[j].checked + (Cardinality(t.todo) + 1)
        BY <1>1, <2>2
      <4> QED
        BY <2>4, <3>1, <4>1 DEF Checked
    <3>3. Found(j)' = Found(j)
      BY <1>2 DEF Found
    <3> QED
      BY <1>1, <1>3, <2>0, <2>4, <2>5, <3>1, <3>2, <3>3 DEF Counted
  <2> QED
    BY <1>1, <1>2, <1>4, <2>5, <2>6, ReportStep
<1>6. CASE thread[w].run \notin Job
  <2>1. jobs' = jobs
    BY <1>6 DEF CountSource, IsJob
  <2>2. Private(w, t)
    BY <1>0, <1>1, <1>2, <2>1, PrivateQuiet
  <2>3. Counted(w)'
    BY <1>1, <1>3, <1>6 DEF Counted
  <2> QED
    BY <1>1, <1>2, <1>4, <2>2, <2>3, ReportStep
<1> QED
  BY <1>5, <1>6

LEMMA ReportReadSubscribers ==
    ASSUME RInv, IInv', NEW w \in Worker, ReadSubscribers(w)
    PROVE  Report'
<1> DEFINE pc == IF thread[w].found = {} THEN "finish" ELSE "send"
           rs == IF thread[w].found = {} THEN {} ELSE verified
           t == [thread[w] EXCEPT !.pc = pc, !.recipients = rs]
<1>0. /\ thread[w] \in Thread /\ thread[w].pc = "sync" /\ thread[w].todo = {}
      /\ Counted(w) /\ Alerts(w) /\ TypeOK /\ Loyal \subseteq verified
  BY Facts DEF ReadSubscribers, Report
<1>1. /\ pc \in {"finish", "send"} /\ rs \subseteq Subscriber
      /\ pc = "finish" => thread[w].found = {}
      /\ pc = "send" => rs = verified
  BY <1>0 DEF TypeOK
<1>2. thread' = [thread EXCEPT ![w] = t]
  BY DEF ReadSubscribers
<1> HIDE DEF pc, rs
<1>3. /\ t \in Thread /\ t.pc = pc /\ t.run = thread[w].run /\ t.found = thread[w].found
      /\ t.pending = thread[w].pending /\ t.recipients = rs
  BY <1>0, <1>1 DEF Thread
<1>4. /\ jobs' = jobs /\ imported' = imported
      /\ logs' = logs /\ tasks' = tasks /\ verified' = verified
  BY DEF ReadSubscribers
<1> HIDE DEF t
<1>5. thread'[w] = t
  BY <1>0, <1>2, <1>3, ThreadStep
<1>6. Private(w, t)
  BY <1>0, <1>1, <1>3, <1>4, PrivateQuiet
<1>7. Counted(w)'
  <2>1. Cardinality(thread[w].todo) = 0
    BY <1>0, FS_EmptySet
  <2>2. \A j \in Job : Found(j)' = Found(j)
    BY <1>4 DEF Found
  <2> QED
    BY <1>0, <1>1, <1>3, <1>4, <1>5, <2>1, <2>2 DEF Counted
<1>8. Alerts(w)'
  <2>1. /\ \A l \in logs : l[1][2] \notin thread[w].found
        /\ thread[w].pending = {}
        /\ \A g \in thread[w].found : imported[g] = thread[w].run
    BY <1>0 DEF Alerts, LogsOf
  <2> QED
    BY <1>0, <1>1, <1>3, <1>4, <1>5, <2>1 DEF Alerts, LogsOf
<1> QED
  BY <1>1, <1>2, <1>3, <1>6, <1>7, <1>8, ReportStep

LEMMA ReportFails ==
    ASSUME RInv, IInv', NEW w \in Worker, SyncRaises(w) \/ StepFails(w)
    PROVE  Report'
<1>0. /\ thread[w] \in Thread /\ thread[w].pc # "idle"
      /\ Counted(w) /\ Alerts(w) /\ TypeOK /\ \A j \in Job : Honest(j)
      /\ jobs' = jobs /\ imported' = imported
      /\ logs' = logs /\ tasks' = tasks /\ verified' = verified
  BY Facts DEF SyncRaises, StepFails
<1>1. PICK t \in Thread : /\ t.pc = "failing" /\ t.run = thread[w].run
                          /\ t.found = thread[w].found /\ t.pending \subseteq thread[w].pending
                          /\ thread' = [thread EXCEPT ![w] = t]
  <2>1. CASE SyncRaises(w)
    <3> DEFINE t == [thread[w] EXCEPT !.pc = "failing"]
    <3>1. /\ t \in Thread /\ t.pc = "failing" /\ t.run = thread[w].run
          /\ t.found = thread[w].found /\ t.pending = thread[w].pending
      BY <1>0 DEF Thread
    <3>2. thread' = [thread EXCEPT ![w] = t]
      BY <2>1 DEF SyncRaises
    <3> HIDE DEF t
    <3> QED
      BY <3>1, <3>2
  <2>2. CASE StepFails(w)
    <3> DEFINE t == [thread[w] EXCEPT !.pc = "failing", !.pending = {}]
    <3>1. /\ t \in Thread /\ t.pc = "failing" /\ t.run = thread[w].run
          /\ t.found = thread[w].found /\ t.pending = {}
      BY <1>0 DEF Thread
    <3>2. thread' = [thread EXCEPT ![w] = t]
      BY <2>2 DEF StepFails
    <3> HIDE DEF t
    <3> QED
      BY <3>1, <3>2
  <2> QED
    BY <2>1, <2>2
<1>2. thread'[w] = t
  BY <1>0, <1>1, ThreadStep
<1>3. Private(w, t)
  BY <1>0, <1>1, PrivateQuiet
<1>4. \A j \in Job : Found(j)' = Found(j)
  BY <1>0 DEF Found
<1>5. Counted(w)' /\ Alerts(w)'
  BY <1>0, <1>1, <1>2, <1>4 DEF Counted, Alerts
<1>6. \A j \in Job : Honest(j)'
  BY <1>0, <1>4 DEF Honest, LogsOf, Logged
<1> QED
  BY <1>1, <1>3, <1>5, <1>6, ReportStep

(* What is still to be sent when one recipient is done.                    *)
LEMMA ReportDigest ==
    ASSUME RInv, IInv', NEW w \in Worker, NEW s \in Subscriber,
           \/ NothingToSend(w, s)
           \/ \E status \in {"sent", "failed"} : SendDigest(w, s, status)
    PROVE  Report'
<1>0. /\ thread[w] \in Thread /\ thread[w].pc = "send" /\ thread[w].run # None
      /\ Counted(w) /\ Alerts(w) /\ TypeOK
      /\ jobs' = jobs /\ imported' = imported
      /\ logs' = logs /\ tasks' = tasks /\ verified' = verified
  BY Facts DEF NothingToSend, SendDigest
<1>1. Digest(w, s) = {g \in thread[w].found : <<s, g>> \in Matches}
  <2>1. \A g \in thread[w].found : ~Logged(<<s, g>>)
    BY <1>0 DEF Alerts, LogsOf, Logged
  <2> QED
    BY <2>1 DEF Digest
<1>2. PICK rows \in SUBSET LogRow :
          /\ \A l \in rows : l[1][2] \in thread[w].found
          /\ \A g \in Digest(w, s) : \E l \in rows : l[1] = <<s, g>>
          /\ thread' = [thread EXCEPT ![w] = [thread[w] EXCEPT
                 !.recipients = @ \ {s}, !.pending = @ \cup rows]]
  <2>1. CASE NothingToSend(w, s)
    <3>1. [thread[w] EXCEPT !.recipients = @ \ {s}, !.pending = @ \cup {}]
            = [thread[w] EXCEPT !.recipients = @ \ {s}]
      BY <1>0 DEF Thread
    <3>2. thread' = [thread EXCEPT ![w] = [thread[w] EXCEPT
                 !.recipients = @ \ {s}, !.pending = @ \cup {}]]
      BY <2>1, <3>1 DEF NothingToSend
    <3> QED
      BY <2>1, <3>2 DEF NothingToSend
  <2>2. ASSUME NEW status \in {"sent", "failed"}, SendDigest(w, s, status)
        PROVE  \E rows \in SUBSET LogRow :
                 /\ \A l \in rows : l[1][2] \in thread[w].found
                 /\ \A g \in Digest(w, s) : \E l \in rows : l[1] = <<s, g>>
                 /\ thread' = [thread EXCEPT ![w] = [thread[w] EXCEPT
                        !.recipients = @ \ {s}, !.pending = @ \cup rows]]
    <3> DEFINE rows == {<<<<s, g>>, status>> : g \in Digest(w, s)}
    <3>1. rows \in SUBSET LogRow
      <4> SUFFICES ASSUME NEW g \in Digest(w, s) PROVE <<<<s, g>>, status>> \in LogRow
        OBVIOUS
      <4>1. g \in Grant
        BY <1>0 DEF Digest, Thread
      <4> QED
        BY <4>1 DEF LogRow, Pair
    <3>2. \A l \in rows : l[1][2] \in thread[w].found
      <4> SUFFICES ASSUME NEW g \in Digest(w, s) PROVE <<<<s, g>>, status>>[1][2] \in thread[w].found
        OBVIOUS
      <4>1. <<<<s, g>>, status>>[1][2] = g
        OBVIOUS
      <4> QED
        BY <4>1 DEF Digest
    <3>3. \A g \in Digest(w, s) : \E l \in rows : l[1] = <<s, g>>
      <4> SUFFICES ASSUME NEW g \in Digest(w, s) PROVE \E l \in rows : l[1] = <<s, g>>
        OBVIOUS
      <4>1. <<<<s, g>>, status>> \in rows /\ <<<<s, g>>, status>>[1] = <<s, g>>
        OBVIOUS
      <4> QED
        BY <4>1
    <3>4. thread' = [thread EXCEPT ![w] = [thread[w] EXCEPT
              !.recipients = @ \ {s}, !.pending = @ \cup rows]]
      BY <2>2 DEF SendDigest
    <3> HIDE DEF rows
    <3> QED
      BY <3>1, <3>2, <3>3, <3>4
  <2> QED
    BY <2>1, <2>2
<1> DEFINE t == [thread[w] EXCEPT !.recipients = @ \ {s}, !.pending = @ \cup rows]
<1>3. /\ t \in Thread /\ t.pc = "send" /\ t.run = thread[w].run /\ t.found = thread[w].found
      /\ t.recipients = thread[w].recipients \ {s} /\ t.pending = thread[w].pending \cup rows
  BY <1>0, <1>2 DEF Thread
<1>4. thread' = [thread EXCEPT ![w] = t]
  BY <1>2
<1> HIDE DEF t
<1>5. thread'[w] = t
  BY <1>0, <1>3, <1>4, ThreadStep
<1>6. Private(w, t)
  BY <1>0, <1>3, PrivateQuiet
<1>7. Counted(w)'
  <2>1. \A j \in Job : Found(j)' = Found(j)
    BY <1>0 DEF Found
  <2> QED
    BY <1>0, <1>3, <1>5, <2>1 DEF Counted
<1>8. Alerts(w)'
  <2>1. \A l \in t.pending : l[1][2] \in t.found
    BY <1>0, <1>2, <1>3 DEF Alerts
  <2>2. ASSUME NEW g \in t.found, NEW s1 \in Loyal, <<s1, g>> \in Matches,
               s1 \notin t.recipients
        PROVE  \E l \in t.pending : l[1] = <<s1, g>>
    <3>1. CASE s1 = s
      BY <1>1, <1>2, <1>3, <2>2, <3>1
    <3>2. CASE s1 # s
      <4>1. s1 \notin thread[w].recipients
        BY <1>3, <2>2, <3>2
      <4>2. \E l \in thread[w].pending : l[1] = <<s1, g>>
        BY <1>0, <1>3, <2>2, <4>1 DEF Alerts
      <4> QED
        BY <1>3, <4>2
    <3> QED
      BY <3>1, <3>2
  <2>3. \A l \in logs' : l[1][2] \notin t.found
    BY <1>0, <1>3 DEF Alerts, LogsOf
  <2> QED
    BY <1>0, <1>3, <1>5, <2>1, <2>2, <2>3 DEF Alerts, LogsOf
<1> QED
  BY <1>0, <1>3, <1>4, <1>6, <1>7, <1>8, ReportStep

LEMMA ReportCommitLogs ==
    ASSUME RInv, IInv', NEW w \in Worker, CommitLogs(w)
    PROVE  Report'
<1> DEFINE t == [thread[w] EXCEPT !.pc = "finish"]
<1>0. /\ thread[w] \in Thread /\ thread[w].pc = "send" /\ thread[w].recipients = {}
      /\ Counted(w) /\ Alerts(w) /\ TypeOK /\ thread[w].run # None
      /\ thread[w].run \notin tasks
  BY Facts DEF CommitLogs
<1>1. ~KeyTaken(w)
  BY <1>0 DEF KeyTaken, Logged, Alerts, LogsOf
<1>2. /\ t \in Thread /\ t.pc = "finish" /\ t.run = thread[w].run
      /\ t.found = thread[w].found /\ t.pending = thread[w].pending
  BY <1>0 DEF Thread
<1>3. /\ thread' = [thread EXCEPT ![w] = t] /\ logs' = logs \cup thread[w].pending
      /\ jobs' = jobs /\ imported' = imported /\ tasks' = tasks /\ verified' = verified
  <2>1. [thread[w] EXCEPT !.pc = "finish", !.pending = thread[w].pending] = t
    BY <1>0 DEF Thread
  <2> QED
    BY <1>1, <2>1 DEF CommitLogs
<1> HIDE DEF t
<1>4. thread'[w] = t
  BY <1>0, <1>2, <1>3, ThreadStep
<1>5. Private(w, t)
  BY <1>0, <1>2, <1>3 DEF Private, JobsStay, Alerts
<1>6. Counted(w)'
  <2>1. \A j \in Job : Found(j)' = Found(j)
    BY <1>3 DEF Found
  <2> QED
    BY <1>0, <1>2, <1>3, <1>4, <2>1 DEF Counted
<1>7. Alerts(w)'
  <2>1. t.pending = {l \in logs' : l[1][2] \in t.found}
    BY <1>0, <1>2, <1>3 DEF Alerts, LogsOf
  <2>2. ASSUME NEW g \in t.found, NEW s \in Loyal, <<s, g>> \in Matches
        PROVE  \E l \in logs' : l[1] = <<s, g>>
    <3>1. \E l \in thread[w].pending : l[1] = <<s, g>>
      BY <1>0, <1>2, <2>2 DEF Alerts
    <3> QED
      BY <1>3, <3>1
  <2> QED
    BY <1>0, <1>2, <1>3, <1>4, <2>1, <2>2 DEF Alerts, LogsOf, Logged
<1> QED
  BY <1>2, <1>3, <1>5, <1>6, <1>7, ReportStep

(* A thread ends: its job completed, failed, or was cut off.               *)
LEMMA ReportEnds ==
    ASSUME RInv, IInv', NEW w \in Worker,
           Complete(w) \/ RecordFailure(w) \/ RaisesOutside(w) \/ Exit(w)
    PROVE  Report'
<1>0. /\ thread[w] \in Thread /\ thread[w].pc # "idle" /\ thread[w].run # None
      /\ Counted(w) /\ Alerts(w) /\ TypeOK /\ thread[w].run \notin tasks
      /\ \A j \in Job : Honest(j)
      /\ imported' = imported /\ logs' = logs /\ tasks' = tasks /\ verified' = verified
      /\ thread' = [thread EXCEPT ![w] = Idle]
  BY Facts DEF Complete, RecordFailure, RaisesOutside, Exit
<1>1. Idle \in Thread /\ Idle.run = None /\ None \notin tasks /\ None \notin Job
  BY <1>0, IdleThread DEF TypeOK, Run
<1>2. \A j \in Job : Found(j)' = Found(j) /\ LogsOf(Found(j))' = LogsOf(Found(j))
  BY <1>0 DEF Found, LogsOf
<1>3. \A p : Logged(p)' = Logged(p)
  BY <1>0 DEF Logged
<1>4. CASE jobs' = jobs
  <2>1. Private(w, Idle)
    BY <1>0, <1>1, <1>4 DEF Private, JobsStay
  <2>2. \A j \in Job : Honest(j)'
    BY <1>0, <1>2, <1>3, <1>4 DEF Honest
  <2> QED
    BY <1>0, <2>1, <2>2, ReportEnd
<1>5. ASSUME NEW r \in Row, NEW j \in Job, j = thread[w].run,
             jobs' = [jobs EXCEPT ![thread[w].run] = r],
             r.checked = jobs[j].checked, r.total = jobs[j].total, r.new = jobs[j].new,
             r.status = "completed" => thread[w].pc = "finish" /\ r.sent = Cardinality(thread[w].pending)
      PROVE  Report'
  <2>1. /\ jobs'[j] = r /\ r # None /\ \A i \in Job \ {j} : jobs'[i] = jobs[i]
        /\ jobs[j] # None
    BY <1>0, <1>5, RowIsNotNone, Facts DEF TypeOK
  <2>2. Private(w, Idle)
    BY <1>0, <1>1, <1>5, <2>1 DEF Private, JobsStay
  <2>3. Honest(j)'
    <3>1. CASE r.status # "completed"
      BY <1>0, <1>2, <1>5, <2>1, <3>1 DEF Honest
    <3>2. CASE r.status = "completed"
      <4>1. /\ Checked(jobs[j], 0) /\ jobs[j].new = Cardinality(thread[w].found)
            /\ Found(j) = thread[w].found
        BY <1>0, <1>5, <3>2 DEF Counted
      <4>2. /\ thread[w].pending = LogsOf(thread[w].found)
            /\ \A g \in thread[w].found, s \in Loyal : <<s, g>> \in Matches => Logged(<<s, g>>)
        BY <1>0, <1>5, <3>2 DEF Alerts
      <4>3. jobs[j].checked = Cardinality(Source)
        <5>1. jobs[j].checked \in Nat
          BY <1>5, Facts DEF Row
        <5> QED
          BY <4>1, <5>1, FiniteSources DEF Checked
      <4> QED
        BY <1>0, <1>2, <1>3, <1>5, <2>1, <3>2, <4>1, <4>2, <4>3 DEF Honest
    <3> QED
      BY <3>1, <3>2
  <2> QED
    BY <1>0, <1>5, <2>2, <2>3, ReportEnd DEF Honest
<1>6. CASE Complete(w) /\ thread[w].run \in Job
  <2>0. PICK j \in Job : j = thread[w].run
    BY <1>6
  <2> DEFINE r == [jobs[j] EXCEPT !.sent = Cardinality(thread[w].pending),
                                  !.status = "completed"]
  <2>1. jobs[j] \in Row /\ Cardinality(thread[w].pending) \in Nat
    BY <1>0, <2>0, Facts, FiniteLogs DEF Thread
  <2>2. /\ r \in Row /\ r.checked = jobs[j].checked /\ r.total = jobs[j].total
        /\ r.new = jobs[j].new /\ r.sent = Cardinality(thread[w].pending)
    BY <2>1 DEF Row, JobStatus
  <2>3. jobs' = [jobs EXCEPT ![thread[w].run] = r] /\ thread[w].pc = "finish"
    BY <1>6, <2>0 DEF Complete, IsJob
  <2> HIDE DEF r
  <2> QED
    BY <1>5, <2>0, <2>2, <2>3
<1>7. CASE RecordFailure(w) /\ thread[w].run \in Job
  <2>0. PICK j \in Job : j = thread[w].run
    BY <1>7
  <2> DEFINE r == [jobs[j] EXCEPT !.status = "failed"]
  <2>1. jobs[j] \in Row
    BY <2>0, Facts
  <2>2. /\ r \in Row /\ r.checked = jobs[j].checked /\ r.total = jobs[j].total
        /\ r.new = jobs[j].new /\ r.status # "completed"
    BY <2>1 DEF Row, JobStatus
  <2>3. jobs' = [jobs EXCEPT ![thread[w].run] = r]
    BY <1>7, <2>0 DEF RecordFailure, IsJob
  <2> HIDE DEF r
  <2> QED
    BY <1>5, <2>0, <2>2, <2>3
<1> QED
  BY <1>4, <1>6, <1>7 DEF Complete, RecordFailure, RaisesOutside, Exit, IsJob

-----------------------------------------------------------------------------
(* The steps of no thread.                                                 *)

(* A job is stored, with a task or without one.                            *)
LEMMA ReportNewJob ==
    ASSUME RInv, IInv', NEW j \in Job, NEW status \in {"queued", "running"},
           jobs[j] = None, jobs' = [jobs EXCEPT ![j] = NewJob(status)],
           (tasks' = tasks \cup {j} /\ status = "queued") \/ tasks' = tasks,
           imported' = imported, logs' = logs, thread' = thread, verified' = verified
    PROVE  Report'
<1> DEFINE r == NewJob(status)
<1>0. /\ IInv /\ Report /\ TypeOK /\ RunsStored /\ OneOwner
  BY DEF RInv, IInv, Report
<1>1. /\ r \in Row /\ r.status = status /\ Untouched(r) /\ r.checked = 0 /\ r.new = 0
      /\ r.total = 0
  BY DEF NewJob, Row, JobStatus, Untouched
<1>2. /\ jobs[j] = None /\ jobs' = [jobs EXCEPT ![j] = r]
      /\ (tasks' = tasks \cup {j} /\ status = "queued") \/ tasks' = tasks
      /\ imported' = imported /\ logs' = logs /\ thread' = thread /\ verified' = verified
  OBVIOUS
<1> HIDE DEF r
<1>3. jobs'[j] = r /\ r # None /\ \A i \in Job \ {j} : jobs'[i] = jobs[i]
  BY <1>0, <1>1, <1>2, RowIsNotNone DEF TypeOK
<1>4. \A w \in Worker : thread[w].run # j
  BY <1>0, <1>2 DEF RunsStored
<1>5. /\ \A i \in Job : Found(i)' = Found(i) /\ LogsOf(Found(i))' = LogsOf(Found(i))
      /\ \A p : Logged(p)' = Logged(p)
  BY <1>2 DEF Found, LogsOf, Logged
<1>6. \A w \in Worker : Counted(w)' /\ Alerts(w)'
  <2> SUFFICES ASSUME NEW w \in Worker PROVE Counted(w)' /\ Alerts(w)'
    OBVIOUS
  <2>1. Counted(w) /\ Alerts(w)
    BY <1>0 DEF Report
  <2>2. thread[w].run \in Job => jobs'[thread[w].run] = jobs[thread[w].run]
    BY <1>3, <1>4
  <2>3. Counted(w)'
    BY <1>2, <1>5, <2>1, <2>2 DEF Counted, Found
  <2>4. Alerts(w)'
    <3>1. LogsOf(thread[w].found)' = LogsOf(thread[w].found)
      BY <1>2 DEF LogsOf
    <3> QED
      BY <1>2, <1>5, <2>1, <3>1 DEF Alerts
  <2> QED
    BY <2>3, <2>4
<1>7. Found(j)' = {}
  BY <1>0, <1>2, <1>5 DEF Report
<1>8. \A i \in Job : Honest(i)' /\ (jobs'[i] = None => Found(i)' = {})
  <2>1. Honest(j)'
    <3>1. Cardinality({}) = 0
      BY FS_EmptySet
    <3> QED
      BY <1>1, <1>3, <1>7, <3>1 DEF Honest
  <2>2. \A i \in Job \ {j} : Honest(i)' /\ (jobs'[i] = None => Found(i)' = {})
    BY <1>0, <1>3, <1>5 DEF Report, Honest
  <2> QED
    BY <1>7, <2>1, <2>2
<1>9. OneOwner'
  <2>1. \A i \in tasks : i \in Job /\ i # j
    BY <1>0, <1>2 DEF TypeOK, RunsStored
  <2> QED
    BY <1>0, <1>1, <1>2, <1>3, <1>4, <1>5, <1>7, <2>1 DEF OneOwner
<1> QED
  BY <1>0, <1>2, <1>6, <1>8, <1>9 DEF Report

LEMMA ReportRefresh ==
    ASSUME RInv, IInv', NEW j \in Job, NEW status \in {"queued", "running"},
           RefreshAll(j) \/ RefreshRaises(j, status)
    PROVE  Report'
<1>1. CASE RefreshAll(j)
  BY <1>1, ReportNewJob DEF RefreshAll
<1>2. CASE RefreshRaises(j, status)
  BY <1>2, ReportNewJob DEF RefreshRaises
<1> QED
  BY <1>1, <1>2

(* Tasks are lost, subscribers other than the loyal ones come and go.      *)
LEMMA ReportAside ==
    ASSUME RInv, IInv', jobs' = jobs, imported' = imported, logs' = logs, thread' = thread,
           tasks' \subseteq tasks, Loyal \subseteq verified'
    PROVE  Report'
<1>0. Report
  BY DEF RInv
<1>1. /\ \A i \in Job : Found(i)' = Found(i) /\ LogsOf(Found(i))' = LogsOf(Found(i))
      /\ \A p : Logged(p)' = Logged(p)
  BY DEF Found, LogsOf, Logged
<1>2. \A w \in Worker : Counted(w)' /\ Alerts(w)'
  <2> SUFFICES ASSUME NEW w \in Worker PROVE Counted(w)' /\ Alerts(w)'
    OBVIOUS
  <2>1. Counted(w) /\ Alerts(w)
    BY <1>0 DEF Report
  <2>2. Counted(w)'
    BY <2>1 DEF Counted, Found
  <2>3. Alerts(w)'
    BY <2>1 DEF Alerts, LogsOf, Logged
  <2> QED
    BY <2>2, <2>3
<1>3. \A i \in Job : Honest(i)' /\ (jobs'[i] = None => Found(i)' = {})
  BY <1>0, <1>1 DEF Report, Honest
<1>4. OneOwner'
  BY <1>0 DEF Report, OneOwner, Found
<1> QED
  BY <1>0, <1>2, <1>3, <1>4 DEF Report

LEMMA NextReport == RInv /\ [Next]_vars => RInv'
<1> SUFFICES ASSUME RInv, [Next]_vars PROVE Report'
  BY NextInv DEF RInv
<1>0. IInv /\ IInv' /\ Loyal \subseteq verified
  BY NextInv DEF RInv, Report
<1>1. ASSUME NEW w \in Worker, Step(w) PROVE Report'
  BY <1>0, <1>1, ReportSetRunning, ReportListSources, ReportCountSource, ReportReadSubscribers,
     ReportSyncSource, ReportDigest, ReportCommitLogs, ReportEnds DEF Step
<1>2. ASSUME NEW w \in Worker, SyncRaises(w) \/ StepFails(w) \/ RaisesOutside(w) \/ Exit(w)
      PROVE  Report'
  BY <1>0, <1>2, ReportFails, ReportEnds
<1>3. ASSUME NEW w \in Worker, NEW j \in Job, StartTask(w, j) \/ ScheduledRefresh(w, j)
      PROVE  Report'
  BY <1>0, <1>3, ReportStartTask, ReportScheduled
<1>4. ASSUME NEW j \in Job, RefreshAll(j) \/ LoseTask(j) PROVE Report'
  <2>1. CASE LoseTask(j)
    BY <1>0, <2>1, ReportAside DEF LoseTask
  <2> QED
    BY <1>0, <1>4, <2>1, ReportRefresh
<1>5. ASSUME NEW s \in Subscriber, SubscriberMoves(s) PROVE Report'
  <2>1. Loyal \subseteq verified'
    BY <1>0, <1>5 DEF SubscriberMoves
  <2> QED
    BY <1>0, <1>5, <2>1, ReportAside DEF SubscriberMoves
<1>6. CASE UNCHANGED vars
  BY <1>0, <1>6, ReportAside DEF vars
<1>7. ASSUME NEW j \in Job, NEW status \in {"queued", "running"}, RefreshRaises(j, status)
      PROVE  Report'
  BY <1>0, <1>7, ReportRefresh
<1> QED
  BY <1>0, <1>1, <1>2, <1>3, <1>4, <1>5, <1>6, <1>7, ReportSyncOne DEF Next

(* What GET /admin/refresh-jobs shows: no job claims more sources or more  *)
(* new grants than there are, and a completed one has checked every source *)
(* and counted every grant it brought in and every alert about one.        *)
THEOREM JobsCountHonestly == Spec => []CountersHonest
<1>1. RInv => CountersHonest
  BY DEF RInv, Report, Honest, CountersHonest, LogsOf
<1> QED
  BY InitReport, NextReport, <1>1, PTL DEF Spec

(* A completed job has alerted every subscriber that was verified all      *)
(* along about every matching grant it brought in, or logged a failure     *)
(* (_execute_refresh_job, notify_subscribers_of_new_grants).               *)
THEOREM CompletedJobsHaveAlerted == Spec => []CompletedMeansAlerted
<1>1. RInv => CompletedMeansAlerted
  BY DEF RInv, Report, Honest, CompletedMeansAlerted
<1> QED
  BY InitReport, NextReport, <1>1, PTL DEF Spec

=============================================================================
