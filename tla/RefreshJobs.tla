---------------------------- MODULE RefreshJobs ----------------------------
(***************************************************************************)
(* api/routers/grant_sources.py and api/scheduler.py: refresh jobs and     *)
(* single-source syncs, run by threads of one or several processes, and    *)
(* the alerts they send (src/email/notify.py).                             *)
(*                                                                         *)
(* sync_source is one step here: it commits the grants that are new, or    *)
(* changes nothing and returns, or raises.  GrantSync says when each of    *)
(* these happens, and that no two calls import one row.                    *)
(***************************************************************************)
EXTENDS Naturals, FiniteSets

CONSTANTS
    Source,      \* rows of grant_sources
    Grant,       \* rows that imported_grants may get
    SourceOf,    \* the source of each
    Subscriber,  \* rows of subscribers
    Loyal,       \* those that are verified with alerts on from the start, and stay so
    Matches,     \* <<subscriber, grant>>: the grant is in the focus areas of the NGO
    Worker,      \* threads that run background tasks, requests or the scheduler
    Job,         \* values of job_id
    StepsFail,   \* whether a database call outside of sync_source may raise
    MayExit,     \* whether a process may exit under its threads
    MaxSingles,  \* bound of the number of calls of POST /admin/sync-source
    None         \* no such row, no run

Pair == Subscriber \X Grant
Run == Job \cup {"single"}
Cause == {"exit", "raised"}
JobStatus == {"queued", "running", "completed", "failed"}
Row == [status : JobStatus, checked : Nat, total : Nat, new : Nat, sent : Nat]

ASSUME RefreshJobsAssumption ==
    /\ SourceOf \in [Grant -> Source]
    /\ IsFiniteSet(Grant) /\ IsFiniteSet(Source) /\ IsFiniteSet(Subscriber)
    /\ Loyal \subseteq Subscriber
    /\ Matches \subseteq Pair
    /\ None \notin Run \cup Row
    /\ "single" \notin Job
    /\ StepsFail \in BOOLEAN /\ MayExit \in BOOLEAN
    /\ MaxSingles \in Nat

VARIABLES
    jobs,      \* the committed rows of refresh_jobs
    imported,  \* by which run each committed row of imported_grants was found, or None
    verified,  \* the subscribers whose status is "verified", with notify_new_grants on
    mail,      \* how often each pair was handed to the email provider
    logs,      \* the committed rows of email_logs: <<pair, status>>
    tasks,     \* the background tasks that have not started
    thread,    \* the local variables and the session of each thread
    singles,   \* how many single-source syncs have started
    lost       \* history: the jobs that were given up, and why

vars == <<jobs, imported, verified, mail, logs, tasks, thread, singles, lost>>

Idle == [pc |-> "idle", run |-> None, todo |-> {}, fresh |-> {}, found |-> {},
         recipients |-> {}, pending |-> {}]

Init ==
    /\ jobs = [j \in Job |-> None]
    /\ imported = [g \in Grant |-> None]
    /\ verified \in {v \in SUBSET Subscriber : Loyal \subseteq v}
    /\ mail = [p \in Pair |-> 0]
    /\ logs = {}
    /\ tasks = {}
    /\ thread = [w \in Worker |-> Idle]
    /\ singles = 0
    /\ lost = {}

(* Mutant: sources_total has no default. *)
NewJobUnset(status) == [status |-> status, checked |-> 0, total |-> None, new |-> 0, sent |-> 0]

NewJob(status) == [status |-> status, checked |-> 0, total |-> 0, new |-> 0, sent |-> 0]

IsJob(w) == thread[w].run \in Job

-----------------------------------------------------------------------------
(* How a run starts.                                                       *)

(* sync_all_grant_sources: the job is stored, read back, and its task      *)
(* scheduled.                                                              *)
RefreshAll(j) ==
    /\ jobs[j] = None
    /\ jobs' = [jobs EXCEPT ![j] = NewJob("queued")]
    /\ tasks' = tasks \cup {j}
    /\ UNCHANGED <<imported, verified, mail, logs, thread, singles, lost>>

StartTask(w, j) ==
    /\ thread[w].pc = "idle" /\ j \in tasks
    /\ tasks' = tasks \ {j}
    /\ thread' = [thread EXCEPT ![w] = [Idle EXCEPT !.pc = "start", !.run = j]]
    /\ UNCHANGED <<jobs, imported, verified, mail, logs, singles, lost>>

(* _run_scheduled_refresh, to its call of _execute_refresh_job. *)
ScheduledRefresh(w, j) ==
    /\ thread[w].pc = "idle" /\ jobs[j] = None
    /\ jobs' = [jobs EXCEPT ![j] = NewJob("running")]
    /\ thread' = [thread EXCEPT ![w] = [Idle EXCEPT !.pc = "start", !.run = j]]
    /\ UNCHANGED <<imported, verified, mail, logs, tasks, singles, lost>>

(* db.refresh, which reads the stored job back, raises: what was to run it *)
(* is never scheduled, or is not called.                                   *)
RefreshRaises(j, status) ==
    /\ StepsFail
    /\ jobs[j] = None
    /\ jobs' = [jobs EXCEPT ![j] = NewJob(status)]
    /\ lost' = lost \cup {<<j, "raised">>}
    /\ UNCHANGED <<imported, verified, mail, logs, tasks, thread, singles>>

(* sync_grant_source: one source, no job, in the request's own thread. *)
SyncOne(w, s) ==
    /\ thread[w].pc = "idle" /\ singles < MaxSingles
    /\ singles' = singles + 1
    /\ thread' = [thread EXCEPT ![w] = [Idle EXCEPT !.pc = "sync", !.run = "single", !.todo = {s}]]
    /\ UNCHANGED <<jobs, imported, verified, mail, logs, tasks, lost>>

-----------------------------------------------------------------------------
(* _execute_refresh_job.                                                   *)

SetRunning(w) ==
    /\ thread[w].pc = "start"
    /\ jobs' = [jobs EXCEPT ![thread[w].run].status = "running"]
    /\ thread' = [thread EXCEPT ![w].pc = "list"]
    /\ UNCHANGED <<imported, verified, mail, logs, tasks, singles, lost>>

ListSources(w) ==
    /\ thread[w].pc = "list"
    /\ jobs' = [jobs EXCEPT ![thread[w].run].total = Cardinality(Source)]
    /\ thread' = [thread EXCEPT ![w].pc = "sync", ![w].todo = Source]
    /\ UNCHANGED <<imported, verified, mail, logs, tasks, singles, lost>>

(* Mutant: whatever was fetched counts as new. *)
NotImportedButFetched(s) == {g \in Grant : SourceOf[g] = s}

NotImported(s) == {g \in Grant : SourceOf[g] = s /\ imported[g] = None}

(* Mutant: only the last source's new grants are kept for the alerts. *)
SyncSourceForgets(w, s, new) ==
    /\ thread[w].pc = "sync" /\ s \in thread[w].todo
    /\ new \subseteq NotImported(s)
    /\ imported' = [g \in Grant |-> IF g \in new THEN thread[w].run ELSE imported[g]]
    /\ thread' = [thread EXCEPT ![w].pc = "count", ![w].todo = @ \ {s},
                                ![w].fresh = new, ![w].found = new]
    /\ UNCHANGED <<jobs, verified, mail, logs, tasks, singles, lost>>

(* sync_source returns: what it found new is committed. *)
SyncSource(w, s, new) ==
    /\ thread[w].pc = "sync" /\ s \in thread[w].todo
    /\ new \subseteq NotImported(s)
    /\ imported' = [g \in Grant |-> IF g \in new THEN thread[w].run ELSE imported[g]]
    /\ thread' = [thread EXCEPT ![w].pc = "count", ![w].todo = @ \ {s},
                                ![w].fresh = new, ![w].found = @ \cup new]
    /\ UNCHANGED <<jobs, verified, mail, logs, tasks, singles, lost>>

(* sync_source raises: unknown connector, or its commit is refused. *)
SyncRaises(w) ==
    /\ thread[w].pc = "sync" /\ thread[w].todo # {}
    /\ thread' = [thread EXCEPT ![w].pc = "failing"]
    /\ UNCHANGED <<jobs, imported, verified, mail, logs, tasks, singles, lost>>

(* Mutant: the grants of the sources before are counted again. *)
CountSourceCumulative(w) ==
    /\ thread[w].pc = "count"
    /\ jobs' = IF IsJob(w)
               THEN [jobs EXCEPT ![thread[w].run].checked = @ + 1,
                                 ![thread[w].run].new = @ + Cardinality(thread[w].found)]
               ELSE jobs
    /\ thread' = [thread EXCEPT ![w].pc = "sync", ![w].fresh = {}]
    /\ UNCHANGED <<imported, verified, mail, logs, tasks, singles, lost>>

(* The counters of the job; a single-source sync has none. *)
CountSource(w) ==
    /\ thread[w].pc = "count"
    /\ jobs' = IF IsJob(w)
               THEN [jobs EXCEPT ![thread[w].run].checked = @ + 1,
                                 ![thread[w].run].new = @ + Cardinality(thread[w].fresh)]
               ELSE jobs
    /\ thread' = [thread EXCEPT ![w].pc = "sync", ![w].fresh = {}]
    /\ UNCHANGED <<imported, verified, mail, logs, tasks, singles, lost>>

(* notify_subscribers_of_new_grants reads the subscribers once. *)
ReadSubscribers(w) ==
    /\ thread[w].pc = "sync" /\ thread[w].todo = {}
    /\ thread' = [thread EXCEPT
          ![w].pc = IF thread[w].found = {} THEN "finish" ELSE "send",
          ![w].recipients = IF thread[w].found = {} THEN {} ELSE verified]
    /\ UNCHANGED <<jobs, imported, verified, mail, logs, tasks, singles, lost>>

Logged(p) == \E l \in logs : l[1] = p

(* The grants that the digest of one subscriber lists. *)
Digest(w, s) == {g \in thread[w].found : <<s, g>> \in Matches /\ ~Logged(<<s, g>>)}

(* One subscriber: a digest is handed to the provider, and its log rows    *)
(* are added to the session.                                               *)
SendDigest(w, s, status) ==
    /\ thread[w].pc = "send" /\ s \in thread[w].recipients
    /\ Digest(w, s) # {}
    /\ mail' = [p \in Pair |-> IF p[1] = s /\ p[2] \in Digest(w, s) THEN mail[p] + 1 ELSE mail[p]]
    /\ thread' = [thread EXCEPT
          ![w].recipients = @ \ {s},
          ![w].pending = @ \cup {<<<<s, g>>, status>> : g \in Digest(w, s)}]
    /\ UNCHANGED <<jobs, imported, verified, logs, tasks, singles, lost>>

NothingToSend(w, s) ==
    /\ thread[w].pc = "send" /\ s \in thread[w].recipients
    /\ Digest(w, s) = {}
    /\ thread' = [thread EXCEPT ![w].recipients = @ \ {s}]
    /\ UNCHANGED <<jobs, imported, verified, mail, logs, tasks, singles, lost>>

(* The one commit of notify_subscribers_of_new_grants: refused, and with  *)
(* it every row, if the dedup_key of one has been stored meanwhile.        *)
KeyTaken(w) == \E l \in thread[w].pending : Logged(l[1])

CommitLogs(w) ==
    /\ thread[w].pc = "send" /\ thread[w].recipients = {}
    /\ LET stored == IF KeyTaken(w) THEN {} ELSE thread[w].pending
       IN /\ logs' = logs \cup stored
          /\ thread' = [thread EXCEPT ![w].pc = IF KeyTaken(w) THEN "failing" ELSE "finish",
                                      ![w].pending = stored]
    /\ UNCHANGED <<jobs, imported, verified, mail, tasks, singles, lost>>

Complete(w) ==
    /\ thread[w].pc = "finish"
    /\ jobs' = IF IsJob(w)
               THEN [jobs EXCEPT ![thread[w].run].sent = Cardinality(thread[w].pending),
                                 ![thread[w].run].status = "completed"]
               ELSE jobs
    /\ thread' = [thread EXCEPT ![w] = Idle]
    /\ UNCHANGED <<imported, verified, mail, logs, tasks, singles, lost>>

-----------------------------------------------------------------------------
(* Failures.                                                               *)

(* Mutant: the failure is only written to the log file. *)
RecordFailureSilent(w) ==
    /\ thread[w].pc = "failing"
    /\ thread' = [thread EXCEPT ![w] = Idle]
    /\ UNCHANGED <<jobs, imported, verified, mail, logs, tasks, singles, lost>>

(* The except branch: rollback, then the job is marked failed.  The        *)
(* exception of a single-source sync leaves its request.                   *)
RecordFailure(w) ==
    /\ thread[w].pc = "failing"
    /\ jobs' = IF IsJob(w) THEN [jobs EXCEPT ![thread[w].run].status = "failed"] ELSE jobs
    /\ thread' = [thread EXCEPT ![w] = Idle]
    /\ UNCHANGED <<imported, verified, mail, logs, tasks, singles, lost>>

(* A database call inside the try of _execute_refresh_job raises, or one   *)
(* of a single-source sync.                                                *)
StepFails(w) ==
    /\ StepsFail
    /\ thread[w].pc \notin {"idle", "failing"}
    /\ thread' = [thread EXCEPT ![w].pc = "failing", ![w].pending = {}]
    /\ UNCHANGED <<jobs, imported, verified, mail, logs, tasks, singles, lost>>

(* A call outside of that try raises: db.get, the first call, or rollback, *)
(* db.get or the commit of the except branch.  The job stays as stored.    *)
RaisesOutside(w) ==
    /\ StepsFail
    /\ thread[w].pc \in {"start", "failing"} /\ IsJob(w)
    /\ thread' = [thread EXCEPT ![w] = Idle]
    /\ lost' = lost \cup {<<thread[w].run, "raised">>}
    /\ UNCHANGED <<jobs, imported, verified, mail, logs, tasks, singles>>

(* The process of a thread exits, or the one that holds a task. *)
Exit(w) ==
    /\ MayExit
    /\ thread[w].pc # "idle"
    /\ thread' = [thread EXCEPT ![w] = Idle]
    /\ lost' = lost \cup (({thread[w].run} \cap Job) \X {"exit"})
    /\ UNCHANGED <<jobs, imported, verified, mail, logs, tasks, singles>>

LoseTask(j) ==
    /\ MayExit
    /\ j \in tasks
    /\ tasks' = tasks \ {j}
    /\ lost' = lost \cup {<<j, "exit">>}
    /\ UNCHANGED <<jobs, imported, verified, mail, logs, thread, singles>>

-----------------------------------------------------------------------------
(* The subscribers verify and unsubscribe meanwhile (see Subscriptions).   *)

SubscriberMoves(s) ==
    /\ s \notin Loyal
    /\ verified' = IF s \in verified THEN verified \ {s} ELSE verified \cup {s}
    /\ UNCHANGED <<jobs, imported, mail, logs, tasks, thread, singles, lost>>

-----------------------------------------------------------------------------
(* A step that a thread takes by itself. *)
Step(w) ==
    \/ SetRunning(w) \/ ListSources(w) \/ CountSource(w) \/ ReadSubscribers(w)
    \/ \E s \in Source, new \in SUBSET Grant : SyncSource(w, s, new)
    \/ \E s \in Subscriber : NothingToSend(w, s)
    \/ \E s \in Subscriber, status \in {"sent", "failed"} : SendDigest(w, s, status)
    \/ CommitLogs(w) \/ Complete(w) \/ RecordFailure(w)

Next ==
    \/ \E j \in Job : RefreshAll(j) \/ LoseTask(j)
    \/ \E j \in Job, status \in {"queued", "running"} : RefreshRaises(j, status)
    \/ \E w \in Worker, j \in Job : StartTask(w, j) \/ ScheduledRefresh(w, j)
    \/ \E w \in Worker, s \in Source : SyncOne(w, s)
    \/ \E w \in Worker : Step(w) \/ SyncRaises(w) \/ StepFails(w) \/ RaisesOutside(w) \/ Exit(w)
    \/ \E s \in Subscriber : SubscriberMoves(s)

Spec == Init /\ [][Next]_vars

(* A thread that has a step takes it, and a task gets a thread: the pool   *)
(* runs every task it was given.                                           *)
Fairness ==
    /\ \A w \in Worker : WF_vars(Step(w))
    /\ \A j \in Job : WF_vars(\E w \in Worker : StartTask(w, j))

FairSpec == Spec /\ Fairness
-----------------------------------------------------------------------------
LogRow == Pair \X {"sent", "failed"}
Thread == [pc : {"idle", "start", "list", "sync", "count", "send", "finish", "failing"},
           run : Run \cup {None}, todo : SUBSET Source, fresh : SUBSET Grant,
           found : SUBSET Grant, recipients : SUBSET Subscriber, pending : SUBSET LogRow]

TypeOK ==
    /\ jobs \in [Job -> Row \cup {None}]
    /\ imported \in [Grant -> Run \cup {None}]
    /\ verified \subseteq Subscriber
    /\ mail \in [Pair -> Nat]
    /\ logs \subseteq LogRow
    /\ tasks \subseteq Job
    /\ thread \in [Worker -> Thread]
    /\ singles \in Nat
    /\ lost \subseteq Job \X Cause

Found(j) == {g \in Grant : imported[g] = j}

(* However many jobs and single syncs overlap, fail or are cut off, no     *)
(* subscriber is mailed twice about one row (EmailLog, "never notified     *)
(* twice about the same grant"): dedup_key is looked up before the send    *)
(* but stored long after it, so it is the import that keeps runs apart.    *)
AlertAtMostOnce == \A p \in Pair : mail[p] <= 1

(* What GET /admin/refresh-jobs shows: a job never claims more sources or  *)
(* more new grants than there are, and a completed job has checked every   *)
(* source, counted every grant it brought in and every alert about one.    *)
CountersHonest ==
    \A j \in Job : jobs[j] # None =>
        /\ jobs[j].checked <= jobs[j].total \/ jobs[j].total = 0
        /\ jobs[j].new <= Cardinality(Found(j))
        /\ jobs[j].status = "completed" =>
              /\ jobs[j].checked = Cardinality(Source)
              /\ jobs[j].new = Cardinality(Found(j))
              /\ jobs[j].sent = Cardinality({l \in logs : l[1][2] \in Found(j)})

(* A completed job has alerted every subscriber that was verified all      *)
(* along about every matching grant it brought in, or logged a failure.    *)
CompletedMeansAlerted ==
    \A j \in Job : jobs[j] # None /\ jobs[j].status = "completed" =>
        \A g \in Found(j), s \in Loyal : <<s, g>> \in Matches => Logged(<<s, g>>)

(* A job that is queued or running reaches completed or failed, which is   *)
(* what the frontend polls for, whatever raises inside its try and         *)
(* whatever else runs.  Two things leave it as it is: the exit of its own  *)
(* process, and a database call that raises outside of the try.            *)
JobEnds ==
    \A j \in Job : jobs[j] # None ~>
        \/ \E why \in Cause : <<j, why>> \in lost
        \/ jobs[j] # None /\ jobs[j].status \in {"completed", "failed"}

(* "a job must record its own failure, never crash silently" (the except   *)
(* branch of _execute_refresh_job): while no process exits, an unfinished  *)
(* job has a task or a thread.  A raise outside of the try refutes it.     *)
NeverCrashesSilently ==
    \A j \in Job : jobs[j] # None /\ jobs[j].status \in {"queued", "running"} =>
        \/ <<j, "exit">> \in lost
        \/ j \in tasks
        \/ \E w \in Worker : thread[w].run = j

=============================================================================
