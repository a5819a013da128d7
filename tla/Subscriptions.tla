--------------------------- MODULE Subscriptions ---------------------------
(***************************************************************************)
(* api/routers/subscribers.py and send_verification_email of               *)
(* src/email/notify.py: the life of one subscription, from sign-up through *)
(* the link in the verification email to unsubscribing.                    *)
(*                                                                         *)
(* Every endpoint is a plain def, run by a thread of a pool, and every     *)
(* request and background task has a session of its own: it reads the row  *)
(* in one step and commits in a later one, and the commit writes only the  *)
(* columns whose value differs from the one that was read.  Two readings   *)
(* of the clock, or two tokens, never agree, so those columns are always   *)
(* written; status and verify_token_used_at are not.                       *)
(***************************************************************************)
EXTENDS Naturals, FiniteSets

CONSTANTS
    Worker,    \* threads that run requests and background tasks
    Limit,     \* MIN_SECONDS_BETWEEN_VERIFICATION_EMAILS, in ticks
    TTL,       \* VERIFICATION_TOKEN_TTL, in ticks
    Never,     \* a date or a token of None, no row
    MayExit,   \* whether a process may exit, or a commit fail, under a thread
    MaxNow,    \* bound of the clock
    MaxSends,  \* bound of the number of verification emails
    MaxCalls   \* bound of the number of subscribe and unsubscribe requests

ASSUME SubscriptionsAssumption ==
    /\ Limit \in Nat \ {0} /\ TTL \in Nat \ {0}
    /\ Never \notin Nat
    /\ MayExit \in BOOLEAN
    /\ MaxNow \in Nat /\ MaxSends \in Nat /\ MaxCalls \in Nat

Status == {"pending", "verified", "unsubscribed"}

(* Tokens are numbered as they are generated; the stored hash of a token   *)
(* stands for the token.                                                   *)
Token == 1..MaxSends

Row == [status : Status, token : Token \cup {Never}, expires : Nat \cup {Never},
        used : BOOLEAN, sentAt : Nat \cup {Never}]

ASSUME NoRowAssumption == Never \notin Row

VARIABLES
    row,     \* the committed row of subscribers for one email address, or Never
    inbox,   \* the tokens whose email was delivered
    log,     \* the committed verification rows of email_logs
    uses,    \* how many requests each token has verified
    tasks,   \* background tasks scheduled and not started
    thread,  \* the local variables and the session of each thread
    clock,
    sends,   \* how many tokens were generated
    calls,   \* how many subscribe and unsubscribe requests were made
    lost     \* history: whether a process has taken a verification email with it

vars == <<row, inbox, log, uses, tasks, thread, clock, sends, calls, lost>>

Idle == [pc |-> "idle", loaded |-> Never, token |-> Never, now |-> 0, force |-> FALSE]

Init ==
    /\ row = Never
    /\ inbox = {} /\ log = {}
    /\ uses = [t \in Token |-> 0]
    /\ tasks = 0
    /\ thread = [w \in Worker |-> Idle]
    /\ clock = 0 /\ sends = 0 /\ calls = 0
    /\ lost = FALSE

Column(current, loaded, local) == IF local = loaded THEN current ELSE local

Load(w, pc) == thread' = [thread EXCEPT ![w] = [Idle EXCEPT !.pc = pc, !.loaded = row]]
Return(w) == thread' = [thread EXCEPT ![w] = Idle]

-----------------------------------------------------------------------------
(* subscribe                                                               *)

(* Mutant: the columns have no default. *)
NewRowUnset == [status |-> "pending", token |-> Never, expires |-> Never, used |-> Never,
                sentAt |-> Never]

NewRow == [status |-> "pending", token |-> Never, expires |-> Never, used |-> FALSE,
           sentAt |-> Never]

(* A row that is pending or verified is left as it is, so is not read here. *)
Subscribe(w) ==
    /\ thread[w].pc = "idle" /\ calls < MaxCalls
    /\ row # Never => row.status = "unsubscribed"
    /\ calls' = calls + 1
    /\ Load(w, IF row = Never THEN "insert" ELSE "renew")
    /\ UNCHANGED <<row, inbox, log, uses, tasks, clock, sends, lost>>

(* Mutant: the task is not scheduled for a new row. *)
SubscribeInsertSilent(w) ==
    /\ thread[w].pc = "insert"
    /\ row' = IF row = Never THEN NewRow ELSE row
    /\ Return(w)
    /\ UNCHANGED <<inbox, log, uses, tasks, clock, sends, calls, lost>>

(* The insert, refused if the email got a row meanwhile. *)
SubscribeInsert(w) ==
    /\ thread[w].pc = "insert"
    /\ row' = IF row = Never THEN NewRow ELSE row
    /\ tasks' = IF row = Never THEN tasks + 1 ELSE tasks
    /\ Return(w)
    /\ UNCHANGED <<inbox, log, uses, clock, sends, calls, lost>>

(* The row was unsubscribed: back to pending, and a new email. *)
SubscribeAgain(w) ==
    /\ thread[w].pc = "renew"
    /\ row' = [row EXCEPT !.status = "pending"]
    /\ tasks' = tasks + 1
    /\ Return(w)
    /\ UNCHANGED <<inbox, log, uses, clock, sends, calls, lost>>

-----------------------------------------------------------------------------
(* send_verification_email, run by a task (force) or by resend.            *)

NewToken(w, force) ==
    /\ thread[w].pc = "idle" /\ sends < MaxSends
    /\ sends' = sends + 1
    /\ thread' = [thread EXCEPT ![w] = [pc |-> "send", loaded |-> row, token |-> sends',
                                        now |-> clock, force |-> force]]

TaskStarts(w) ==
    /\ tasks > 0
    /\ NewToken(w, TRUE)
    /\ tasks' = tasks - 1
    /\ UNCHANGED <<row, inbox, log, uses, clock, calls, lost>>

(* Mutant: off by one tick. *)
RateLimitedLess == row.sentAt # Never /\ clock - row.sentAt < Limit - 1

RateLimited == row.sentAt # Never /\ clock - row.sentAt < Limit

(* resend_verification. *)
Resend(w) ==
    /\ row # Never
    /\ row.status # "verified"
    /\ ~RateLimited
    /\ NewToken(w, FALSE)
    /\ UNCHANGED <<row, inbox, log, uses, tasks, clock, calls, lost>>

(* The provider delivers the email, or fails; the code goes on the same.   *)
Deliver(w, delivered) ==
    /\ thread[w].pc = "send"
    /\ inbox' = IF delivered THEN inbox \cup {thread[w].token} ELSE inbox
    /\ thread' = [thread EXCEPT ![w].pc = "store"]
    /\ UNCHANGED <<row, log, uses, tasks, clock, sends, calls, lost>>

(* Mutants: verify_token_used_at is not reset; the expiry is not renewed. *)
StoreTokenStillUsed(w) ==
    /\ thread[w].pc = "store"
    /\ row' = [row EXCEPT !.token = thread[w].token, !.expires = thread[w].now + TTL,
                          !.sentAt = thread[w].now]
    /\ log' = log \cup {[token |-> thread[w].token, at |-> thread[w].now,
                         force |-> thread[w].force]}
    /\ Return(w)
    /\ UNCHANGED <<inbox, uses, tasks, clock, sends, calls, lost>>

StoreTokenOldExpiry(w) ==
    /\ thread[w].pc = "store"
    /\ row' = [row EXCEPT !.token = thread[w].token,
                          !.expires = IF @ = Never THEN thread[w].now + TTL ELSE @,
                          !.used = Column(@, thread[w].loaded.used, FALSE),
                          !.sentAt = thread[w].now]
    /\ log' = log \cup {[token |-> thread[w].token, at |-> thread[w].now,
                         force |-> thread[w].force]}
    /\ Return(w)
    /\ UNCHANGED <<inbox, uses, tasks, clock, sends, calls, lost>>

StoreToken(w) ==
    /\ thread[w].pc = "store"
    /\ row' = [row EXCEPT !.token = thread[w].token,
                          !.expires = thread[w].now + TTL,
                          !.used = Column(@, thread[w].loaded.used, FALSE),
                          !.sentAt = thread[w].now]
    /\ log' = log \cup {[token |-> thread[w].token, at |-> thread[w].now,
                         force |-> thread[w].force]}
    /\ Return(w)
    /\ UNCHANGED <<inbox, uses, tasks, clock, sends, calls, lost>>

-----------------------------------------------------------------------------
(* verify_email and unsubscribe                                            *)

Verify(w, t) ==
    /\ thread[w].pc = "idle"
    /\ t \in inbox
    /\ row # Never /\ row.token = t
    /\ ~row.used
    /\ row.expires >= clock
    /\ thread' = [thread EXCEPT ![w] = [Idle EXCEPT !.pc = "verify", !.loaded = row, !.token = t]]
    /\ UNCHANGED <<row, inbox, log, uses, tasks, clock, sends, calls, lost>>

(* Mutant: the token is not marked used. *)
VerifyCommitUnmarked(w) ==
    /\ thread[w].pc = "verify"
    /\ row' = [row EXCEPT !.status = Column(@, thread[w].loaded.status, "verified")]
    /\ uses' = [uses EXCEPT ![thread[w].token] = @ + 1]
    /\ Return(w)
    /\ UNCHANGED <<inbox, log, tasks, clock, sends, calls, lost>>

VerifyCommit(w) ==
    /\ thread[w].pc = "verify"
    /\ row' = [row EXCEPT !.status = Column(@, thread[w].loaded.status, "verified"),
                          !.used = TRUE]
    /\ uses' = [uses EXCEPT ![thread[w].token] = @ + 1]
    /\ Return(w)
    /\ UNCHANGED <<inbox, log, tasks, clock, sends, calls, lost>>

(* The unsubscribe link is in every email. *)
Unsubscribe(w) ==
    /\ thread[w].pc = "idle" /\ calls < MaxCalls
    /\ inbox # {}
    /\ row # Never
    /\ calls' = calls + 1
    /\ Load(w, "unsubscribe")
    /\ UNCHANGED <<row, inbox, log, uses, tasks, clock, sends, lost>>

UnsubscribeCommit(w) ==
    /\ thread[w].pc = "unsubscribe"
    /\ row' = [row EXCEPT !.status = Column(@, thread[w].loaded.status, "unsubscribed")]
    /\ Return(w)
    /\ UNCHANGED <<inbox, log, uses, tasks, clock, sends, calls, lost>>

-----------------------------------------------------------------------------
(* The process of a thread exits, or its database call fails. *)
Exit(w) ==
    /\ MayExit /\ thread[w].pc # "idle"
    /\ lost' = (lost \/ thread[w].pc \in {"send", "store"})
    /\ Return(w)
    /\ UNCHANGED <<row, inbox, log, uses, tasks, clock, sends, calls>>

LoseTask ==
    /\ MayExit /\ tasks > 0
    /\ tasks' = tasks - 1
    /\ lost' = TRUE
    /\ UNCHANGED <<row, inbox, log, uses, thread, clock, sends, calls>>

Tick ==
    /\ clock < MaxNow
    /\ clock' = clock + 1
    /\ UNCHANGED <<row, inbox, log, uses, tasks, thread, sends, calls, lost>>

(* A step that a thread takes by itself once its request has begun. *)
Step(w) ==
    \/ SubscribeInsert(w) \/ SubscribeAgain(w)
    \/ \E delivered \in BOOLEAN : Deliver(w, delivered)
    \/ StoreToken(w) \/ VerifyCommit(w) \/ UnsubscribeCommit(w)

Next ==
    \/ \E w \in Worker : Subscribe(w) \/ Resend(w) \/ Unsubscribe(w) \/ TaskStarts(w)
    \/ \E w \in Worker, t \in Token : Verify(w, t)
    \/ \E w \in Worker : Step(w) \/ Exit(w)
    \/ LoseTask
    \/ Tick

Spec == Init /\ [][Next]_vars

(* A thread finishes what it has begun, and the pool runs a task it was    *)
(* given; nobody has to make a request or to click a link.                 *)
Fairness ==
    /\ \A w \in Worker : WF_vars(Step(w))
    /\ WF_vars(\E w \in Worker : TaskStarts(w))

FairSpec == Spec /\ Fairness

-----------------------------------------------------------------------------
Thread == [pc : {"idle", "insert", "renew", "send", "store", "verify", "unsubscribe"},
           loaded : Row \cup {Never}, token : Token \cup {Never}, now : Nat, force : BOOLEAN]

TypeOK ==
    /\ row \in Row \cup {Never}
    /\ inbox \subseteq Token
    /\ log \subseteq [token : Token, at : Nat, force : BOOLEAN]
    /\ uses \in [Token -> Nat]
    /\ tasks \in Nat
    /\ thread \in [Worker -> Thread]
    /\ clock \in Nat /\ sends \in Nat /\ calls \in Nat
    /\ lost \in BOOLEAN

(* The expiry of a row, its date and its token come from one send, though  *)
(* overlapping sends write them; and that send has its row of email_logs.  *)
TokenDated ==
    row # Never /\ row.token # Never =>
        \E l \in log : /\ l.token = row.token
                       /\ row.sentAt = l.at
                       /\ row.expires = l.at + TTL

(* A subscriber who has been sent no link yet will be, whether or not the  *)
(* provider delivers it, unless a process exits with the email: the row is *)
(* stored in one commit, its token by a task in another session, later.    *)
PendingGetsLink ==
    (row # Never /\ row.token = Never)
        ~> ((row # Never /\ row.token # Never) \/ lost \/ sends = MaxSends)

-----------------------------------------------------------------------------
(* What holds as long as requests do not overlap.                          *)

(* A token verifies once ("single-use", subscribers.py:100). *)
SingleUse == \A t \in Token : uses[t] <= 1

(* A token that verified nobody is not refused as already used. *)
FreshTokenUnused == row # Never /\ row.used => uses[row.token] > 0

(* An email that resend logs comes Limit after every email logged before.  *)
ResendSpaced ==
    \A a, b \in log : a.token < b.token /\ ~b.force => b.at - a.at >= Limit

=============================================================================
