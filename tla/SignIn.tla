------------------------------- MODULE SignIn -------------------------------
(***************************************************************************)
(* api/routers/auth.py, src/auth/google_oauth.py, src/auth/sessions.py:    *)
(* the optional Google sign-in, the sessions it gives out and the          *)
(* migration of a guest's NGO profile.                                     *)
(*                                                                         *)
(* The pending OAuth states are a dict of one process; the threads of its  *)
(* pool share it without a lock, and the tables with every other process.  *)
(* A handler is cut where another thread can change what it has looked at. *)
(***************************************************************************)
EXTENDS Naturals, FiniteSets

CONSTANTS
    Process,     \* worker processes of the server
    Worker,      \* threads that run requests
    ProcessOf,   \* the process of each
    Account,     \* values of google_sub
    Reply,       \* what Google may answer to the exchange of a code
    Profile,     \* rows of ngo_profiles, created by guests
    None,        \* a user_id of None
    StateTTL,    \* _STATE_TTL, in ticks
    SessionTTL,  \* SESSION_TTL, in ticks
    MaxNow,      \* bound of the clock
    MaxStates,   \* bound of the number of OAuth states
    MaxTokens    \* bound of the number of sessions

GoogleReply == [idToken : BOOLEAN, signed : BOOLEAN, google : BOOLEAN,
                emailVerified : BOOLEAN, sub : Account]

ASSUME SignInAssumption ==
    /\ ProcessOf \in [Worker -> Process]
    /\ Reply \subseteq GoogleReply
    /\ None \notin Account /\ None \notin Process
    /\ IsFiniteSet(Worker)
    /\ StateTTL \in Nat /\ SessionTTL \in Nat
    /\ MaxNow \in Nat /\ MaxStates \in Nat /\ MaxTokens \in Nat

(* States and session tokens are numbered as they are generated. *)
State == 1..MaxStates
Token == 1..MaxTokens
PendingState == [by : Process \cup {None}, until : Nat]
UserSession == [token : Token, user : Account, until : Nat]

VARIABLES
    pending,   \* the keys of _pending_states of each process
    given,     \* the value of each key, and the process that keeps it
    users,     \* the accounts that have a row of users
    sessions,  \* the committed rows of user_sessions
    owner,     \* user_id of each profile
    thread,    \* the request of each thread
    clock,
    states,    \* how many states were generated
    tokens,    \* how many session tokens were generated
    redeemed   \* history: how many callbacks each state has let through

vars == <<pending, given, users, sessions, owner, thread, clock, states, tokens, redeemed>>
tables == <<users, sessions, owner>>

Idle == [pc |-> "idle", expired |-> {}, state |-> None, account |-> None, known |-> FALSE,
         profile |-> None, loaded |-> None]

Init ==
    /\ pending = [p \in Process |-> {}]
    /\ given = [s \in State |-> [by |-> None, until |-> 0]]
    /\ users = {} /\ sessions = {}
    /\ owner = [n \in Profile |-> None]
    /\ thread = [w \in Worker |-> Idle]
    /\ clock = 0 /\ states = 0 /\ tokens = 0
    /\ redeemed = [s \in State |-> 0]

PendingIn(w) == pending[ProcessOf[w]]
Forget(w, s) == pending' = [pending EXCEPT ![ProcessOf[w]] = @ \ {s}]
Goto(w, pc) == thread' = [thread EXCEPT ![w].pc = pc]
Return(w) == thread' = [thread EXCEPT ![w] = Idle]

-----------------------------------------------------------------------------
(* _cleanup_states, with which login and callback begin.                   *)

(* Mutant: the comparison is off by one. *)
ExpiredEarly(s) == given[s].until <= clock

Expired(s) == given[s].until < clock

(* The expired states are listed first, then deleted one by one; s is None *)
(* for a login.                                                            *)
StartCleanup(w, s) ==
    thread' = [thread EXCEPT ![w] =
        [Idle EXCEPT !.pc = "cleanup", !.state = s,
                     !.expired = {e \in PendingIn(w) : Expired(e)}]]

Login(w) ==
    /\ thread[w].pc = "idle" /\ states < MaxStates
    /\ StartCleanup(w, None)
    /\ UNCHANGED <<pending, given, tables, clock, states, tokens, redeemed>>

(* The browser comes back with a state that some process gave out. *)
Callback(w, s) ==
    /\ thread[w].pc = "idle" /\ s <= states
    /\ StartCleanup(w, s)
    /\ UNCHANGED <<pending, given, tables, clock, states, tokens, redeemed>>

(* The dict is in the order of insertion.  del raises KeyError, and the    *)
(* request ends in an error, if another thread has deleted the state.      *)
CleanupDelete(w) ==
    /\ thread[w].pc = "cleanup" /\ thread[w].expired # {}
    /\ LET s == CHOOSE x \in thread[w].expired : \A y \in thread[w].expired : x <= y
       IN /\ Forget(w, s)
          /\ IF s \in PendingIn(w)
             THEN thread' = [thread EXCEPT ![w].expired = @ \ {s}]
             ELSE Return(w)
    /\ UNCHANGED <<given, tables, clock, states, tokens, redeemed>>

-----------------------------------------------------------------------------
(* google_login                                                            *)

IssueState(w) ==
    /\ thread[w].pc = "cleanup" /\ thread[w].expired = {} /\ thread[w].state = None
    /\ states < MaxStates
    /\ states' = states + 1
    /\ pending' = [pending EXCEPT ![ProcessOf[w]] = @ \cup {states'}]
    /\ given' = [given EXCEPT ![states'] = [by |-> ProcessOf[w], until |-> clock + StateTTL]]
    /\ Return(w)
    /\ UNCHANGED <<tables, clock, tokens, redeemed>>

-----------------------------------------------------------------------------
(* google_callback                                                         *)

CheckState(w) ==
    /\ thread[w].pc = "cleanup" /\ thread[w].expired = {} /\ thread[w].state # None
    /\ IF thread[w].state \in PendingIn(w) THEN Goto(w, "redeem") ELSE Return(w)
    /\ UNCHANGED <<pending, given, tables, clock, states, tokens, redeemed>>

(* Mutant: pop(state, None) instead of del. *)
RedeemStatePop(w) ==
    /\ thread[w].pc = "redeem"
    /\ Forget(w, thread[w].state)
    /\ Goto(w, "exchange")
    /\ redeemed' = [redeemed EXCEPT ![thread[w].state] = @ + 1]
    /\ UNCHANGED <<given, tables, clock, states, tokens>>

(* del _pending_states[state]: the test and the deletion are two steps,    *)
(* but del raises if the state is gone.                                    *)
RedeemState(w) ==
    /\ thread[w].pc = "redeem"
    /\ Forget(w, thread[w].state)
    /\ IF thread[w].state \in PendingIn(w)
       THEN /\ Goto(w, "exchange")
            /\ redeemed' = [redeemed EXCEPT ![thread[w].state] = @ + 1]
       ELSE /\ Return(w)
            /\ UNCHANGED redeemed
    /\ UNCHANGED <<given, tables, clock, states, tokens>>

(* exchange_code_for_identity: every check passes, or it raises.           *)
Trusted(r) == r.idToken /\ r.signed /\ r.google /\ r.emailVerified

Exchange(w, r) ==
    /\ thread[w].pc = "exchange" /\ Trusted(r)
    /\ thread' = [thread EXCEPT ![w].pc = "store", ![w].account = r.sub,
                                ![w].known = r.sub \in users]
    /\ UNCHANGED <<pending, given, tables, clock, states, tokens, redeemed>>

ExchangeFails(w) ==
    /\ thread[w].pc = "exchange"
    /\ Return(w)
    /\ UNCHANGED <<pending, given, tables, clock, states, tokens, redeemed>>

(* The user is inserted unless the query found it; google_sub is unique.   *)
StoreUser(w) ==
    /\ thread[w].pc = "store"
    /\ users' = users \cup {thread[w].account}
    /\ IF thread[w].known \/ thread[w].account \notin users THEN Goto(w, "session") ELSE Return(w)
    /\ UNCHANGED <<pending, given, sessions, owner, clock, states, tokens, redeemed>>

(* Mutant: the request may be run again. *)
CreateSessionAgain(w) ==
    /\ thread[w].pc = "session" /\ tokens < MaxTokens
    /\ tokens' = tokens + 1
    /\ sessions' = sessions \cup {[token |-> tokens', user |-> thread[w].account,
                                   until |-> clock + SessionTTL]}
    /\ UNCHANGED <<pending, given, users, owner, thread, clock, states, redeemed>>

CreateSession(w) ==
    /\ thread[w].pc = "session" /\ tokens < MaxTokens
    /\ tokens' = tokens + 1
    /\ sessions' = sessions \cup {[token |-> tokens', user |-> thread[w].account,
                                   until |-> clock + SessionTTL]}
    /\ Return(w)
    /\ UNCHANGED <<pending, given, users, owner, clock, states, redeemed>>

-----------------------------------------------------------------------------
(* Requests with a session token                                           *)

(* get_user_for_token deletes a session that has expired. *)
Authenticate(x) ==
    /\ x.until < clock
    /\ sessions' = sessions \ {x}
    /\ UNCHANGED <<pending, given, users, owner, thread, clock, states, tokens, redeemed>>

Logout(x) ==
    /\ sessions' = sessions \ {x}
    /\ UNCHANGED <<pending, given, users, owner, thread, clock, states, tokens, redeemed>>

(* Mutant: the owner is not looked at. *)
MigrateGuestUnchecked(w, x, n) ==
    /\ thread[w].pc = "idle"
    /\ x.until >= clock
    /\ thread' = [thread EXCEPT ![w] =
          [Idle EXCEPT !.pc = "migrate", !.account = x.user, !.profile = n,
                       !.loaded = owner[n]]]
    /\ UNCHANGED <<pending, given, tables, clock, states, tokens, redeemed>>

(* migrate_guest: refused if the profile belongs to somebody else.         *)
MigrateGuest(w, x, n) ==
    /\ thread[w].pc = "idle"
    /\ x.until >= clock
    /\ owner[n] \in {None, x.user}
    /\ thread' = [thread EXCEPT ![w] =
          [Idle EXCEPT !.pc = "migrate", !.account = x.user, !.profile = n,
                       !.loaded = owner[n]]]
    /\ UNCHANGED <<pending, given, tables, clock, states, tokens, redeemed>>

(* The commit writes user_id if it differs from what was loaded. *)
MigrateCommit(w) ==
    /\ thread[w].pc = "migrate"
    /\ owner' = IF thread[w].loaded = thread[w].account THEN owner
                ELSE [owner EXCEPT ![thread[w].profile] = thread[w].account]
    /\ Return(w)
    /\ UNCHANGED <<pending, given, users, sessions, clock, states, tokens, redeemed>>

-----------------------------------------------------------------------------
(* A process exits, or is restarted: its dict and its requests are gone.   *)
Exit(p) ==
    /\ pending' = [pending EXCEPT ![p] = {}]
    /\ given' = [s \in State |-> IF given[s].by = p THEN [given[s] EXCEPT !.by = None]
                               ELSE given[s]]
    /\ thread' = [w \in Worker |-> IF ProcessOf[w] = p THEN Idle ELSE thread[w]]
    /\ UNCHANGED <<tables, clock, states, tokens, redeemed>>

Tick ==
    /\ clock < MaxNow
    /\ clock' = clock + 1
    /\ UNCHANGED <<pending, given, tables, thread, states, tokens, redeemed>>

Step(w) ==
    \/ CleanupDelete(w) \/ IssueState(w) \/ CheckState(w) \/ RedeemState(w)
    \/ \E r \in Reply : Exchange(w, r)
    \/ ExchangeFails(w) \/ StoreUser(w) \/ CreateSession(w) \/ MigrateCommit(w)

Next ==
    \/ \E w \in Worker : Login(w) \/ Step(w)
    \/ \E w \in Worker, s \in State : Callback(w, s)
    \/ \E w \in Worker, x \in sessions, n \in Profile : MigrateGuest(w, x, n)
    \/ \E x \in sessions : Authenticate(x) \/ Logout(x)
    \/ \E p \in Process : Exit(p)
    \/ Tick

Spec == Init /\ [][Next]_vars

-----------------------------------------------------------------------------
Thread == [pc : {"idle", "cleanup", "redeem", "exchange", "store", "session", "migrate"},
           expired : SUBSET State, state : State \cup {None}, account : Account \cup {None},
           known : BOOLEAN, profile : Profile \cup {None},
           loaded : Account \cup {None}]

TypeOK ==
    /\ pending \in [Process -> SUBSET State]
    /\ given \in [State -> PendingState]
    /\ users \subseteq Account
    /\ sessions \subseteq UserSession
    /\ owner \in [Profile -> Account \cup {None}]
    /\ thread \in [Worker -> Thread]
    /\ clock \in Nat /\ states \in Nat /\ tokens \in Nat
    /\ redeemed \in [State -> Nat]

(* A state is single-use (auth.py:27), although threads test and delete it *)
(* in two statements, and cleanups of other threads run in between.        *)
StateUsedOnce == \A s \in State : redeemed[s] <= 1

(* Every session names a user that exists: user and session are stored in  *)
(* two commits, and another process may have stored the user meanwhile.    *)
SessionHasUser == \A x \in sessions : x.user \in users

(* Nobody gets a session without a state of his own: however callbacks     *)
(* overlap, are repeated or die, there are no more sessions than states    *)
(* that were let through.                                                  *)
OneSessionPerState == tokens <= Cardinality({s \in State : redeemed[s] > 0})

(* What the sessions owe to the requests that made them (auth.py,          *)
(* google_callback), in states of the type.                                *)
SessionsEarned == TypeOK /\ SessionHasUser /\ OneSessionPerState

(* A profile that is linked to an account stays with it, unless the        *)
(* request that moves it has read it when it belonged to nobody.           *)
OwnerKept ==
    [][\A n \in Profile : owner[n] # None /\ owner'[n] # owner[n] =>
          \E w \in Worker : /\ thread[w].pc = "migrate" /\ thread[w].profile = n
                            /\ thread[w].loaded = None]_vars

(* A callback is refused for its state only if the state was used, is past *)
(* its time, or is not among those of this process: given out by another,  *)
(* or lost when the process ended.  No cleanup of an overlapping request   *)
(* takes away a state that is still good.                                  *)
RefusedForAReason ==
    [][\A w \in Worker :
          (/\ thread[w].pc = "cleanup" /\ thread[w].expired = {} /\ thread[w].state # None
           /\ thread'[w].pc = "idle") =>
          LET s == thread[w].state
          IN redeemed[s] > 0 \/ given'[s].by # ProcessOf[w] \/ given[s].until < clock]_vars

=============================================================================
