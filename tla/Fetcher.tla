------------------------------ MODULE Fetcher -------------------------------
(***************************************************************************)
(* src/discovery/fetcher.py: fetch_url as the threads of one process run   *)
(* it.  They share two dicts without a lock: the robots.txt of each domain *)
(* and the time of the last request to it.                                 *)
(*                                                                         *)
(* Time is counted in ticks since the last request, up to Gap, so that     *)
(* nothing grows with the length of a behaviour.                           *)
(***************************************************************************)
EXTENDS Naturals, FiniteSets

CONSTANTS
    Worker,        \* threads that fetch
    Url, Domain,   \* addresses, and their hosts
    DomainOf,      \* _domain_of
    Wanted,        \* the addresses that callers ask for
    Safe,          \* the addresses that validate_url_is_safe lets through
    Disallowed,    \* the addresses that robots.txt of their domain forbids
    Reply,         \* what the server of each address may reply
    None,
    Gap,           \* MIN_SECONDS_BETWEEN_REQUESTS_PER_DOMAIN, in ticks
    MAX_RETRIES,
    MAX_REDIRECTS

ASSUME FetcherAssumption ==
    /\ DomainOf \in [Url -> Domain]
    /\ Wanted \subseteq Url /\ Safe \subseteq Url /\ Disallowed \subseteq Url
    /\ None \notin {"rules", "allow"}
    /\ Gap \in Nat \ {0} /\ MAX_RETRIES \in Nat \ {0} /\ MAX_REDIRECTS \in Nat

VARIABLES
    robots,      \* _robots_cache: "rules", "allow" (nothing to be read) or None
    age,         \* ticks since _last_request_at, at most Gap; Gap if there is none
    fetch,       \* the call of fetch_url of each thread
    unread       \* history: domains whose robots.txt could not be read once

vars == <<robots, age, fetch, unread>>

(* now: current_url.  overtaken, a history: another thread has written the *)
(* time of the last request since this one read it.                        *)
Call(u) == [pc |-> "robots", url |-> u, now |-> u, attempt |-> 1, hops |-> 0, wait |-> 0,
            parser |-> None, overtaken |-> FALSE]

Idle == [Call(None) EXCEPT !.pc = "idle"]

Init ==
    /\ robots = [d \in Domain |-> None]
    /\ age = [d \in Domain |-> Gap]
    /\ fetch = [w \in Worker |-> Idle]
    /\ unread = {}

Host(w) == DomainOf[fetch[w].now]
Goto(w, pc) == fetch' = [fetch EXCEPT ![w].pc = pc]

(* Every outcome is a FetchResult, with its reason; nothing is kept of it. *)
Return(w) == fetch' = [fetch EXCEPT ![w] = Idle]

-----------------------------------------------------------------------------
FetchUrl(w, u) ==
    /\ fetch[w].pc = "idle"
    /\ u \in Safe
    /\ fetch' = [fetch EXCEPT ![w] = Call(u)]
    /\ UNCHANGED <<robots, age, unread>>

(* _get_robot_parser: the cached one, or a request for robots.txt, which   *)
(* is neither paced nor retried.                                           *)
CachedRobots(w) ==
    /\ fetch[w].pc = "robots" /\ robots[Host(w)] # None
    /\ fetch' = [fetch EXCEPT ![w].pc = "check", ![w].parser = robots[Host(w)]]
    /\ UNCHANGED <<robots, age, unread>>

RequestRobots(w) ==
    /\ fetch[w].pc = "robots" /\ robots[Host(w)] = None
    /\ Goto(w, "robots reply")
    /\ UNCHANGED <<robots, age, unread>>

(* Anything but a 200, and any error, is stored as a robots.txt that       *)
(* allows everything, for as long as the process runs.                     *)
RobotsReply(w, rules) ==
    /\ fetch[w].pc = "robots reply"
    /\ robots' = [robots EXCEPT ![Host(w)] = rules]
    /\ unread' = IF rules = "allow" THEN unread \cup {Host(w)} ELSE unread
    /\ fetch' = [fetch EXCEPT ![w].pc = "check", ![w].parser = rules]
    /\ UNCHANGED age

CanFetch(w) == fetch[w].parser = "rules" => fetch[w].now \notin Disallowed

CheckRobots(w) ==
    /\ fetch[w].pc = "check"
    /\ IF CanFetch(w) THEN fetch' = [fetch EXCEPT ![w].pc = "pace", ![w].parser = None] ELSE Return(w)
    /\ UNCHANGED <<robots, age, unread>>

-----------------------------------------------------------------------------
(* _respect_rate_limit: the dict is read, the thread sleeps for what is    *)
(* left of the gap as it was read, then the dict is written.               *)

(* Mutant: off by one. *)
PaceShort(w) ==
    /\ fetch[w].pc = "pace"
    /\ fetch' = [fetch EXCEPT ![w].pc = "sleep",
                              ![w].wait = IF age[Host(w)] = Gap THEN 0 ELSE Gap - age[Host(w)] - 1,
                              ![w].overtaken = FALSE]
    /\ UNCHANGED <<robots, age, unread>>

Pace(w) ==
    /\ fetch[w].pc = "pace"
    /\ fetch' = [fetch EXCEPT ![w].pc = "sleep", ![w].wait = Gap - age[Host(w)],
                              ![w].overtaken = FALSE]
    /\ UNCHANGED <<robots, age, unread>>

Stamp(w) ==
    /\ fetch[w].pc = "sleep" /\ fetch[w].wait = 0
    /\ age' = [age EXCEPT ![Host(w)] = 0]
    /\ fetch' = [v \in Worker |->
          IF v = w THEN [fetch[w] EXCEPT !.pc = "send", !.overtaken = FALSE]
          ELSE IF fetch[v].pc = "sleep" /\ Host(v) = Host(w) THEN [fetch[v] EXCEPT !.overtaken = TRUE]
          ELSE fetch[v]]
    /\ UNCHANGED <<robots, unread>>

-----------------------------------------------------------------------------
(* client.get, and what fetch_url does with the response                   *)

Send(w) ==
    /\ fetch[w].pc = "send"
    /\ Goto(w, "reply")
    /\ UNCHANGED <<robots, age, unread>>

(* Mutant: the attempts are not counted. *)
NetworkErrorUncounted(w) ==
    /\ fetch[w].pc = "reply" /\ "error" \in Reply[fetch[w].now].kinds
    /\ fetch' = [fetch EXCEPT ![w].pc = "pace", ![w].now = fetch[w].url, ![w].hops = 0]
    /\ UNCHANGED <<robots, age, unread>>

(* The next attempt begins with the first address again. *)
NetworkError(w) ==
    /\ fetch[w].pc = "reply" /\ "error" \in Reply[fetch[w].now].kinds
    /\ IF fetch[w].attempt < MAX_RETRIES
       THEN fetch' = [fetch EXCEPT ![w].pc = "pace", ![w].now = fetch[w].url,
                                   ![w].attempt = @ + 1, ![w].hops = 0]
       ELSE Return(w)
    /\ UNCHANGED <<robots, age, unread>>

(* Mutant: the page redirected to is not looked up in robots.txt. *)
RedirectUnchecked(w, u) ==
    /\ fetch[w].pc = "reply" /\ u \in Reply[fetch[w].now].locations
    /\ IF fetch[w].hops = MAX_REDIRECTS \/ u \notin Safe THEN Return(w)
       ELSE fetch' = [fetch EXCEPT ![w].pc = "pace", ![w].now = u, ![w].hops = @ + 1]
    /\ UNCHANGED <<robots, age, unread>>

(* A hop is checked and paced like a first request.  The loop over the     *)
(* hops has an else branch: after the last one the answer is refused,      *)
(* whatever it is.                                                         *)
Redirect(w, u) ==
    /\ fetch[w].pc = "reply" /\ u \in Reply[fetch[w].now].locations
    /\ IF fetch[w].hops = MAX_REDIRECTS \/ u \notin Safe THEN Return(w)
       ELSE fetch' = [fetch EXCEPT ![w].pc = "robots", ![w].now = u, ![w].hops = @ + 1]
    /\ UNCHANGED <<robots, age, unread>>

(* Status, content type and size decide, unless the hops are used up:      *)
(* whichever it is, the call is over.                                      *)
Respond(w) ==
    /\ fetch[w].pc = "reply" /\ "page" \in Reply[fetch[w].now].kinds
    /\ Return(w)
    /\ UNCHANGED <<robots, age, unread>>

-----------------------------------------------------------------------------
Tick ==
    /\ \/ \E d \in Domain : age[d] < Gap
       \/ \E w \in Worker : fetch[w].wait > 0
    /\ age' = [d \in Domain |-> IF age[d] < Gap THEN age[d] + 1 ELSE Gap]
    /\ fetch' = [w \in Worker |-> IF fetch[w].wait > 0 THEN [fetch[w] EXCEPT !.wait = @ - 1]
                                  ELSE fetch[w]]
    /\ UNCHANGED <<robots, unread>>

Step(w) ==
    \/ CachedRobots(w) \/ RequestRobots(w) \/ CheckRobots(w)
    \/ \E rules \in {"rules", "allow"} : RobotsReply(w, rules)
    \/ Pace(w) \/ Stamp(w) \/ Send(w) \/ NetworkError(w)
    \/ \E u \in Url : Redirect(w, u)
    \/ Respond(w)

Next ==
    \/ \E w \in Worker, u \in Wanted : FetchUrl(w, u)
    \/ \E w \in Worker : Step(w)
    \/ Tick

(* Every request has a timeout, and a sleep ends. *)
Spec == Init /\ [][Next]_vars /\ WF_vars(Tick) /\ \A w \in Worker : WF_vars(Step(w))

-----------------------------------------------------------------------------
Fetch == [pc : {"idle", "robots", "robots reply", "check", "pace", "sleep", "send", "reply"},
          url : Url \cup {None}, now : Url \cup {None}, attempt : 1..MAX_RETRIES,
          hops : 0..MAX_REDIRECTS, wait : 0..Gap, parser : {"rules", "allow", None},
          overtaken : BOOLEAN]

TypeOK ==
    /\ robots \in [Domain -> {"rules", "allow", None}]
    /\ age \in [Domain -> 0..Gap]
    /\ fetch \in [Worker -> Fetch]
    /\ unread \subseteq Domain

(* A page that robots.txt forbids is never requested, first or by a        *)
(* redirect or a retry, unless the robots.txt of its domain could not be   *)
(* read once: that answer may be the one that is kept.  Nor is an address  *)
(* that is not safe.                                                       *)
RequestsAllowed ==
    /\ TypeOK
    /\ \A w \in Worker : fetch[w].pc \in {"send", "reply"} =>
           /\ fetch[w].now \in Safe
           /\ fetch[w].now \in Disallowed => Host(w) \in unread

(* Two requests to a domain are Gap apart, at retries and at hops too,     *)
(* unless another thread wrote its request between this one's look at the  *)
(* last request and its own.                                               *)
RequestsSpaced ==
    [][\A w \in Worker :
          (fetch[w].pc = "sleep" /\ fetch'[w].pc = "send" /\ ~fetch[w].overtaken) =>
          age[Host(w)] = Gap]_vars

(* fetch_url never hangs: every call returns, although the pages redirect  *)
(* to each other, servers fail, and other threads keep the domain busy.    *)
FetchReturns == \A w \in Worker : fetch[w].pc # "idle" ~> fetch[w].pc = "idle"

=============================================================================
