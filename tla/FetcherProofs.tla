--------------------------- MODULE FetcherProofs ----------------------------
(***************************************************************************)
(* Proofs about Fetcher: no thread requests a page it must not, and the    *)
(* requests to a domain are Gap apart but for the threads that overtake    *)
(* each other, for every set of addresses and threads.                     *)
(***************************************************************************)
EXTENDS Fetcher, TLAPS

(* robots.txt lets u through, or it could not be read when it was asked. *)
Cleared(u) == u \in Disallowed => DomainOf[u] \in unread

(* What a thread knows of its addresses.  A retry goes back to the first   *)
(* address without asking robots.txt again, so the first address has to    *)
(* stay cleared while the hops after it are looked at.                     *)
SafeFetch(f) == f.pc # "idle" => f.url \in Url \cap Safe /\ f.now \in Url \cap Safe

ClearedFetch(f) ==
    /\ f.pc \in {"pace", "sleep", "send", "reply"} => Cleared(f.url) /\ Cleared(f.now)
    /\ f.pc \in {"robots", "robots reply", "check"} => Cleared(f.url) \/ f.now = f.url

ParserHeld(f) ==
    f.pc = "check" =>
        /\ f.parser \in {"rules", "allow"}
        /\ f.parser = "allow" => DomainOf[f.now] \in unread

(* A sleeping thread waits for no less than the rest of the gap. *)
SleepsEnough(f) ==
    (f.pc = "sleep" /\ f.overtaken = FALSE) => age[DomainOf[f.now]] + f.wait >= Gap

RobotsRead == \A d \in Domain : robots[d] = "allow" => d \in unread

Sound(f) == SafeFetch(f) /\ ClearedFetch(f) /\ ParserHeld(f) /\ SleepsEnough(f)

IInv == TypeOK /\ RobotsRead /\ \A w \in Worker : Sound(fetch[w])

-----------------------------------------------------------------------------
(* Arithmetic, apart from the records it is used on. *)
LEMMA Arithmetic ==
    /\ 0 \in 0..Gap /\ 0 \in 0..MAX_REDIRECTS /\ 1 \in 1..MAX_RETRIES
    /\ \A k \in 0..Gap : k > 0 => k - 1 \in 0..Gap
    /\ \A k \in 0..Gap : Gap - k \in 0..Gap /\ k + (Gap - k) >= Gap
    /\ \A k \in 0..MAX_REDIRECTS : k # MAX_REDIRECTS => k + 1 \in 0..MAX_REDIRECTS
    /\ \A k \in 1..MAX_RETRIES : k < MAX_RETRIES => k + 1 \in 1..MAX_RETRIES
BY FetcherAssumption DEF FetcherAssumption

LEMMA CallType ==
    ASSUME NEW u \in Url \cup {None}
    PROVE  /\ Call(u) \in Fetch
           /\ Call(u).pc = "robots" /\ Call(u).url = u /\ Call(u).now = u
BY Arithmetic DEF Call, Fetch

LEMMA IdleType == Idle \in Fetch /\ Idle.pc = "idle" /\ Sound(Idle)
<1>1. Call(None) \in Fetch
  BY CallType
<1>2. Idle \in Fetch /\ Idle.pc = "idle"
  BY <1>1 DEF Idle, Fetch
<1> QED
  BY <1>2 DEF Sound, SafeFetch, ClearedFetch, ParserHeld, SleepsEnough

(* The host of an address that a thread fetches is a domain. *)
LEMMA HostType ==
    ASSUME NEW f, SafeFetch(f), f.pc # "idle"
    PROVE  DomainOf[f.now] \in Domain
BY FetcherAssumption DEF SafeFetch, FetcherAssumption

LEMMA InitInv == Init => IInv
<1> SUFFICES ASSUME Init PROVE IInv
  OBVIOUS
<1>1. TypeOK
  BY FetcherAssumption, IdleType DEF Init, TypeOK, FetcherAssumption
<1>2. RobotsRead
  BY FetcherAssumption DEF Init, RobotsRead, FetcherAssumption
<1> QED
  BY <1>1, <1>2, IdleType DEF Init, IInv

-----------------------------------------------------------------------------
(* A step that changes only what thread w holds keeps the invariant if it  *)
(* leaves w in order.                                                      *)
LEMMA OwnStep ==
    ASSUME IInv, NEW w \in Worker, NEW f \in Fetch, Sound(f),
           fetch' = [fetch EXCEPT ![w] = f],
           UNCHANGED <<robots, age, unread>>
    PROVE  IInv'
<1>1. TypeOK'
  BY DEF IInv, TypeOK
<1>2. RobotsRead'
  BY DEF IInv, RobotsRead
<1>3. ASSUME NEW v \in Worker PROVE Sound(fetch[v])'
  <2>1. Sound(fetch'[v])
    BY DEF IInv, TypeOK
  <2> QED
    BY <2>1 DEF Sound, SafeFetch, ClearedFetch, ParserHeld, SleepsEnough, Cleared
<1> QED
  BY <1>1, <1>2, <1>3 DEF IInv

LEMMA ReturnStep ==
    ASSUME IInv, NEW w \in Worker, Return(w), UNCHANGED <<robots, age, unread>>
    PROVE  IInv'
BY OwnStep, IdleType DEF Return

LEMMA FetchUrlStep ==
    ASSUME IInv, NEW w \in Worker, NEW u \in Wanted, FetchUrl(w, u)
    PROVE  IInv'
<1>1. u \in Url /\ u \in Safe
  BY FetcherAssumption DEF FetchUrl, FetcherAssumption
<1>2. Sound(Call(u))
  BY <1>1, CallType DEF Sound, SafeFetch, ClearedFetch, ParserHeld, SleepsEnough
<1> QED
  BY <1>1, <1>2, OwnStep, CallType DEF FetchUrl

LEMMA CachedRobotsStep ==
    ASSUME IInv, NEW w \in Worker, CachedRobots(w)
    PROVE  IInv'
<1> DEFINE f == [fetch[w] EXCEPT !.pc = "check", !.parser = robots[Host(w)]]
<1>1. fetch[w] \in Fetch /\ Sound(fetch[w]) /\ fetch[w].pc = "robots"
  BY DEF IInv, TypeOK, CachedRobots
<1>2. Host(w) \in Domain
  BY <1>1, HostType DEF Sound, Host
<1>3. robots[Host(w)] \in {"rules", "allow"} /\ (robots[Host(w)] = "allow" => Host(w) \in unread)
  BY <1>2 DEF IInv, TypeOK, RobotsRead, CachedRobots
<1>4. /\ f \in Fetch /\ f.pc = "check" /\ f.parser = robots[Host(w)]
      /\ f.url = fetch[w].url /\ f.now = fetch[w].now
  BY <1>1, <1>3 DEF Fetch
<1>5. fetch' = [fetch EXCEPT ![w] = f] /\ UNCHANGED <<robots, age, unread>>
  BY DEF CachedRobots
<1> HIDE DEF f
<1>6. Sound(f)
  BY <1>1, <1>3, <1>4 DEF Sound, SafeFetch, ClearedFetch, ParserHeld, SleepsEnough, Host
<1> QED
  BY <1>4, <1>5, <1>6, OwnStep

LEMMA RequestRobotsStep ==
    ASSUME IInv, NEW w \in Worker, RequestRobots(w)
    PROVE  IInv'
<1> DEFINE f == [fetch[w] EXCEPT !.pc = "robots reply"]
<1>1. fetch[w] \in Fetch /\ Sound(fetch[w]) /\ fetch[w].pc = "robots"
  BY DEF IInv, TypeOK, RequestRobots
<1>2. f \in Fetch /\ f.pc = "robots reply" /\ f.url = fetch[w].url /\ f.now = fetch[w].now
  BY <1>1 DEF Fetch
<1>3. fetch' = [fetch EXCEPT ![w] = f] /\ UNCHANGED <<robots, age, unread>>
  BY DEF RequestRobots, Goto
<1> HIDE DEF f
<1>4. Sound(f)
  BY <1>1, <1>2 DEF Sound, SafeFetch, ClearedFetch, ParserHeld, SleepsEnough
<1> QED
  BY <1>2, <1>3, <1>4, OwnStep

(* The other threads keep what they know, as unread only grows. *)
LEMMA RobotsReplyStep ==
    ASSUME IInv, NEW w \in Worker, NEW rules \in {"rules", "allow"}, RobotsReply(w, rules)
    PROVE  IInv'
<1> DEFINE f == [fetch[w] EXCEPT !.pc = "check", !.parser = rules]
<1>1. fetch[w] \in Fetch /\ Sound(fetch[w]) /\ fetch[w].pc = "robots reply"
  BY DEF IInv, TypeOK, RobotsReply
<1>2. Host(w) \in Domain /\ Host(w) = DomainOf[fetch[w].now]
  BY <1>1, HostType DEF Sound, Host
<1>3. /\ f \in Fetch /\ f.pc = "check" /\ f.parser = rules
      /\ f.url = fetch[w].url /\ f.now = fetch[w].now
  BY <1>1 DEF Fetch
<1>4. fetch' = [fetch EXCEPT ![w] = f]
  BY DEF RobotsReply
<1>5. /\ unread \subseteq unread' /\ (rules = "allow" => Host(w) \in unread')
      /\ unread' \subseteq unread \cup {Host(w)} /\ age' = age
  BY DEF RobotsReply
<1> HIDE DEF f
<1>6. TypeOK'
  <2>1. robots' \in [Domain -> {"rules", "allow", None}]
    BY DEF RobotsReply, IInv, TypeOK
  <2> QED
    BY <1>2, <1>3, <1>4, <1>5, <2>1 DEF IInv, TypeOK
<1>7. RobotsRead'
  <2>1. SUFFICES ASSUME NEW d \in Domain, robots'[d] = "allow" PROVE d \in unread'
    BY DEF RobotsRead
  <2>2. CASE d = Host(w)
    BY <1>5, <2>1, <2>2 DEF RobotsReply, IInv, TypeOK
  <2>3. CASE d # Host(w)
    BY <1>5, <2>1, <2>3 DEF RobotsReply, IInv, TypeOK, RobotsRead
  <2> QED
    BY <2>2, <2>3
<1>8. ASSUME NEW v \in Worker PROVE Sound(fetch[v])'
  <2>1. CASE v = w
    <3>1. /\ fetch'[v].pc = "check" /\ fetch'[v].parser = rules
          /\ fetch'[v].url = fetch[w].url /\ fetch'[v].now = fetch[w].now
      BY <1>3, <1>4, <2>1 DEF IInv, TypeOK
    <3>2. SafeFetch(fetch[v])' /\ ParserHeld(fetch[v])' /\ SleepsEnough(fetch[v])'
      BY <1>1, <1>2, <1>5, <3>1 DEF Sound, SafeFetch, ParserHeld, SleepsEnough
    <3>3. ClearedFetch(fetch[v])'
      <4>1. Cleared(fetch[w].url) \/ fetch[w].now = fetch[w].url
        BY <1>1 DEF Sound, ClearedFetch
      <4>2. Cleared(fetch[v].url)' \/ fetch'[v].now = fetch'[v].url
        BY <1>5, <3>1, <4>1 DEF Cleared
      <4> QED
        BY <3>1, <4>2 DEF ClearedFetch
    <3> QED
      BY <3>2, <3>3 DEF Sound
  <2>2. CASE v # w
    <3>1. fetch'[v] = fetch[v] /\ Sound(fetch[v])
      BY <1>4, <2>2 DEF IInv, TypeOK
    <3> QED
      BY <1>5, <3>1 DEF Sound, SafeFetch, ClearedFetch, ParserHeld, SleepsEnough, Cleared
  <2> QED
    BY <2>1, <2>2
<1> QED
  BY <1>6, <1>7, <1>8 DEF IInv

LEMMA CheckRobotsStep ==
    ASSUME IInv, NEW w \in Worker, CheckRobots(w)
    PROVE  IInv'
<1>1. CASE ~CanFetch(w)
  BY <1>1, ReturnStep DEF CheckRobots
<1>2. CASE CanFetch(w)
  <2> DEFINE f == [fetch[w] EXCEPT !.pc = "pace", !.parser = None]
  <2>1. fetch[w] \in Fetch /\ Sound(fetch[w]) /\ fetch[w].pc = "check"
    BY DEF IInv, TypeOK, CheckRobots
  <2>2. /\ f \in Fetch /\ f.pc = "pace" /\ f.url = fetch[w].url /\ f.now = fetch[w].now
    BY <2>1 DEF Fetch
  <2>3. fetch' = [fetch EXCEPT ![w] = f] /\ UNCHANGED <<robots, age, unread>>
    BY <1>2 DEF CheckRobots
  <2> HIDE DEF f
  <2>4. Cleared(fetch[w].now)
    BY <1>2, <2>1 DEF CanFetch, Sound, ParserHeld, Cleared
  <2>5. Cleared(fetch[w].url)
    BY <2>1, <2>4 DEF Sound, ClearedFetch
  <2>6. Sound(f)
    BY <2>1, <2>2, <2>4, <2>5 DEF Sound, SafeFetch, ClearedFetch, ParserHeld, SleepsEnough
  <2> QED
    BY <2>2, <2>3, <2>6, OwnStep
<1> QED
  BY <1>1, <1>2

LEMMA PaceStep ==
    ASSUME IInv, NEW w \in Worker, Pace(w)
    PROVE  IInv'
<1> DEFINE f == [fetch[w] EXCEPT !.pc = "sleep", !.wait = Gap - age[Host(w)], !.overtaken = FALSE]
<1>1. fetch[w] \in Fetch /\ Sound(fetch[w]) /\ fetch[w].pc = "pace"
  BY DEF IInv, TypeOK, Pace
<1>2. Host(w) \in Domain /\ Host(w) = DomainOf[fetch[w].now]
  BY <1>1, HostType DEF Sound, Host
<1>3. age[Host(w)] \in 0..Gap
  BY <1>2 DEF IInv, TypeOK
<1>4. Gap - age[Host(w)] \in 0..Gap /\ age[Host(w)] + (Gap - age[Host(w)]) >= Gap
  BY <1>3, Arithmetic
<1>5. /\ f \in Fetch /\ f.pc = "sleep" /\ f.url = fetch[w].url /\ f.now = fetch[w].now
      /\ f.wait = Gap - age[Host(w)]
  BY <1>1, <1>4 DEF Fetch
<1>6. fetch' = [fetch EXCEPT ![w] = f] /\ UNCHANGED <<robots, age, unread>>
  BY DEF Pace
<1> HIDE DEF f
<1>7. SafeFetch(f) /\ ClearedFetch(f) /\ ParserHeld(f)
  BY <1>1, <1>5 DEF Sound, SafeFetch, ClearedFetch, ParserHeld
<1>8. SleepsEnough(f)
  BY <1>2, <1>4, <1>5 DEF SleepsEnough
<1> QED
  BY <1>5, <1>6, <1>7, <1>8, OwnStep DEF Sound

(* Threads that sleep for the same domain are overtaken; the others look   *)
(* at another domain.                                                      *)
LEMMA StampStep ==
    ASSUME IInv, NEW w \in Worker, Stamp(w)
    PROVE  IInv'
<1>1. \A v \in Worker : fetch[v] \in Fetch /\ Sound(fetch[v])
  BY DEF IInv, TypeOK
<1>2. Host(w) \in Domain
  BY <1>1, HostType DEF Sound, Host, Stamp
<1>3. ASSUME NEW v \in Worker
      PROVE  /\ fetch'[v] \in Fetch
             /\ fetch'[v].url = fetch[v].url /\ fetch'[v].now = fetch[v].now
             /\ fetch'[v].wait = fetch[v].wait /\ fetch'[v].parser = fetch[v].parser
             /\ fetch'[v].pc = IF v = w THEN "send" ELSE fetch[v].pc
             /\ (v # w /\ fetch[v].pc = "sleep" /\ Host(v) = Host(w)) => fetch'[v].overtaken = TRUE
             /\ (v # w /\ ~(fetch[v].pc = "sleep" /\ Host(v) = Host(w)))
                   => fetch'[v].overtaken = fetch[v].overtaken
  <2>1. fetch[v] \in Fetch
    BY <1>1
  <2>2. CASE v = w
    <3>1. fetch'[v] = [fetch[v] EXCEPT !.pc = "send", !.overtaken = FALSE]
      BY <2>2 DEF Stamp
    <3> QED
      BY <2>1, <2>2, <3>1 DEF Fetch
  <2>3. CASE v # w /\ fetch[v].pc = "sleep" /\ Host(v) = Host(w)
    <3>1. fetch'[v] = [fetch[v] EXCEPT !.overtaken = TRUE]
      BY <2>3 DEF Stamp
    <3> QED
      BY <2>1, <2>3, <3>1 DEF Fetch
  <2>4. CASE v # w /\ ~(fetch[v].pc = "sleep" /\ Host(v) = Host(w))
    <3>1. fetch'[v] = fetch[v]
      BY <2>4 DEF Stamp
    <3> QED
      BY <2>1, <2>4, <3>1
  <2> QED
    BY <2>2, <2>3, <2>4
<1>4. TypeOK'
  <2>1. fetch' \in [Worker -> Fetch]
    BY <1>3 DEF Stamp
  <2>2. age' \in [Domain -> 0..Gap]
    BY <1>2, Arithmetic DEF Stamp, IInv, TypeOK
  <2> QED
    BY <2>1, <2>2 DEF Stamp, IInv, TypeOK
<1>5. RobotsRead'
  BY DEF Stamp, IInv, RobotsRead
<1>6. ASSUME NEW v \in Worker PROVE Sound(fetch[v])'
  <2>1. unread' = unread /\ Sound(fetch[v])
    BY <1>1 DEF Stamp
  <2>2. SafeFetch(fetch[v])' /\ ClearedFetch(fetch[v])' /\ ParserHeld(fetch[v])'
    <3>1. CASE v = w
      <4>1. fetch[v].pc = "sleep" /\ fetch'[v].pc = "send"
        BY <1>3, <3>1 DEF Stamp
      <4>2. fetch'[v].url = fetch[v].url /\ fetch'[v].now = fetch[v].now
        BY <1>3
      <4> QED
        BY <2>1, <4>1, <4>2 DEF Sound, SafeFetch, ClearedFetch, ParserHeld, Cleared
    <3>2. CASE v # w
      BY <1>3, <2>1, <3>2 DEF Sound, SafeFetch, ClearedFetch, ParserHeld, Cleared
    <3> QED
      BY <3>1, <3>2
  <2>3. SleepsEnough(fetch[v])'
    <3>1. SUFFICES ASSUME fetch'[v].pc = "sleep", fetch'[v].overtaken = FALSE
                   PROVE  age'[DomainOf[fetch'[v].now]] + fetch'[v].wait >= Gap
      BY DEF SleepsEnough
    <3>2. v # w /\ fetch[v].pc = "sleep" /\ fetch[v].overtaken = FALSE /\ Host(v) # Host(w)
      BY <1>3, <3>1
    <3>3. age'[Host(v)] = age[Host(v)]
      <4>1. Host(v) \in Domain
        BY <2>1, <3>2, HostType DEF Sound, Host
      <4> QED
        BY <3>2, <4>1 DEF Stamp, IInv, TypeOK
    <3>4. age[Host(v)] + fetch[v].wait >= Gap
      BY <2>1, <3>2 DEF Sound, SleepsEnough, Host
    <3>5. DomainOf[fetch'[v].now] = Host(v) /\ fetch'[v].wait = fetch[v].wait
      BY <1>3 DEF Host
    <3> QED
      BY <3>3, <3>4, <3>5
  <2> QED
    BY <2>2, <2>3 DEF Sound
<1> QED
  BY <1>4, <1>5, <1>6 DEF IInv

LEMMA SendStep ==
    ASSUME IInv, NEW w \in Worker, Send(w)
    PROVE  IInv'
<1> DEFINE f == [fetch[w] EXCEPT !.pc = "reply"]
<1>1. fetch[w] \in Fetch /\ Sound(fetch[w]) /\ fetch[w].pc = "send"
  BY DEF IInv, TypeOK, Send
<1>2. f \in Fetch /\ f.pc = "reply" /\ f.url = fetch[w].url /\ f.now = fetch[w].now
  BY <1>1 DEF Fetch
<1>3. fetch' = [fetch EXCEPT ![w] = f] /\ UNCHANGED <<robots, age, unread>>
  BY DEF Send, Goto
<1> HIDE DEF f
<1>4. Sound(f)
  BY <1>1, <1>2 DEF Sound, SafeFetch, ClearedFetch, ParserHeld, SleepsEnough
<1> QED
  BY <1>2, <1>3, <1>4, OwnStep

LEMMA NetworkErrorStep ==
    ASSUME IInv, NEW w \in Worker, NetworkError(w)
    PROVE  IInv'
<1>1. CASE ~(fetch[w].attempt < MAX_RETRIES)
  BY <1>1, ReturnStep DEF NetworkError
<1>2. CASE fetch[w].attempt < MAX_RETRIES
  <2> DEFINE f == [fetch[w] EXCEPT !.pc = "pace", !.now = fetch[w].url,
                                   !.attempt = @ + 1, !.hops = 0]
  <2>1. fetch[w] \in Fetch /\ Sound(fetch[w]) /\ fetch[w].pc = "reply"
    BY DEF IInv, TypeOK, NetworkError
  <2>2. fetch[w].attempt + 1 \in 1..MAX_RETRIES
    <3>1. fetch[w].attempt \in 1..MAX_RETRIES
      BY <2>1 DEF Fetch
    <3> QED
      BY <1>2, <3>1, Arithmetic
  <2>3. f \in Fetch /\ f.pc = "pace" /\ f.url = fetch[w].url /\ f.now = fetch[w].url
    BY <2>1, <2>2, Arithmetic DEF Fetch
  <2>4. fetch' = [fetch EXCEPT ![w] = f] /\ UNCHANGED <<robots, age, unread>>
    BY <1>2 DEF NetworkError
  <2> HIDE DEF f
  <2>5. Sound(f)
    BY <2>1, <2>3 DEF Sound, SafeFetch, ClearedFetch, ParserHeld, SleepsEnough
  <2> QED
    BY <2>3, <2>4, <2>5, OwnStep
<1> QED
  BY <1>1, <1>2

LEMMA RedirectStep ==
    ASSUME IInv, NEW w \in Worker, NEW u \in Url, Redirect(w, u)
    PROVE  IInv'
<1>1. CASE fetch[w].hops = MAX_REDIRECTS \/ u \notin Safe
  BY <1>1, ReturnStep DEF Redirect
<1>2. CASE ~(fetch[w].hops = MAX_REDIRECTS \/ u \notin Safe)
  <2> DEFINE f == [fetch[w] EXCEPT !.pc = "robots", !.now = u, !.hops = @ + 1]
  <2>1. fetch[w] \in Fetch /\ Sound(fetch[w]) /\ fetch[w].pc = "reply"
    BY DEF IInv, TypeOK, Redirect
  <2>2. fetch[w].hops + 1 \in 0..MAX_REDIRECTS
    <3>1. fetch[w].hops \in 0..MAX_REDIRECTS
      BY <2>1 DEF Fetch
    <3> QED
      BY <1>2, <3>1, Arithmetic
  <2>3. f \in Fetch /\ f.pc = "robots" /\ f.url = fetch[w].url /\ f.now = u
    BY <2>1, <2>2 DEF Fetch
  <2>4. fetch' = [fetch EXCEPT ![w] = f] /\ UNCHANGED <<robots, age, unread>>
    BY <1>2 DEF Redirect
  <2> HIDE DEF f
  <2>5. Sound(f)
    BY <1>2, <2>1, <2>3 DEF Sound, SafeFetch, ClearedFetch, ParserHeld, SleepsEnough
  <2> QED
    BY <2>3, <2>4, <2>5, OwnStep
<1> QED
  BY <1>1, <1>2

(* Time takes from a sleep what it adds to the time since a request. *)
LEMMA TickStep == ASSUME IInv, Tick PROVE IInv'
<1>1. \A v \in Worker : fetch[v] \in Fetch /\ Sound(fetch[v])
  BY DEF IInv, TypeOK
<1>2. ASSUME NEW v \in Worker
      PROVE  /\ fetch'[v] \in Fetch
             /\ fetch'[v].url = fetch[v].url /\ fetch'[v].now = fetch[v].now
             /\ fetch'[v].pc = fetch[v].pc /\ fetch'[v].parser = fetch[v].parser
             /\ fetch'[v].overtaken = fetch[v].overtaken
             /\ fetch'[v].wait = IF fetch[v].wait > 0 THEN fetch[v].wait - 1 ELSE fetch[v].wait
  <2>1. fetch[v] \in Fetch
    BY <1>1
  <2>2. CASE fetch[v].wait > 0
    <3>1. fetch'[v] = [fetch[v] EXCEPT !.wait = @ - 1]
      BY <2>2 DEF Tick
    <3>2. fetch[v].wait - 1 \in 0..Gap
      <4>1. fetch[v].wait \in 0..Gap
        BY <2>1 DEF Fetch
      <4> QED
        BY <2>2, <4>1, Arithmetic
    <3> QED
      BY <2>1, <2>2, <3>1, <3>2 DEF Fetch
  <2>3. CASE ~(fetch[v].wait > 0)
    BY <2>1, <2>3 DEF Tick
  <2> QED
    BY <2>2, <2>3
<1>3. TypeOK'
  <2>1. fetch' \in [Worker -> Fetch]
    BY <1>2 DEF Tick
  <2>2. age' \in [Domain -> 0..Gap]
    BY FetcherAssumption DEF Tick, IInv, TypeOK, FetcherAssumption
  <2> QED
    BY <2>1, <2>2 DEF Tick, IInv, TypeOK
<1>4. RobotsRead'
  BY DEF Tick, IInv, RobotsRead
<1>5. ASSUME NEW v \in Worker PROVE Sound(fetch[v])'
  <2>1. unread' = unread /\ Sound(fetch[v])
    BY <1>1 DEF Tick
  <2>2. SafeFetch(fetch[v])' /\ ClearedFetch(fetch[v])' /\ ParserHeld(fetch[v])'
    BY <1>2, <2>1 DEF Sound, SafeFetch, ClearedFetch, ParserHeld, Cleared
  <2>3. SleepsEnough(fetch[v])'
    <3>1. SUFFICES ASSUME fetch'[v].pc = "sleep", fetch'[v].overtaken = FALSE
                   PROVE  age'[DomainOf[fetch'[v].now]] + fetch'[v].wait >= Gap
      BY DEF SleepsEnough
    <3>2. fetch[v].pc = "sleep" /\ fetch[v].overtaken = FALSE /\ DomainOf[fetch'[v].now] = Host(v)
      BY <1>2, <3>1 DEF Host
    <3>3. age[Host(v)] + fetch[v].wait >= Gap /\ Host(v) \in Domain
      BY <2>1, <3>2, HostType DEF Sound, SleepsEnough, Host
    <3>4. age[Host(v)] \in 0..Gap /\ fetch[v].wait \in 0..Gap
      BY <1>1, <3>3 DEF IInv, TypeOK, Fetch
    <3>5. age'[Host(v)] = IF age[Host(v)] < Gap THEN age[Host(v)] + 1 ELSE Gap
      BY <3>3 DEF Tick
    <3>6. fetch'[v].wait = IF fetch[v].wait > 0 THEN fetch[v].wait - 1 ELSE fetch[v].wait
      BY <1>2
    <3> QED
      BY <3>2, <3>3, <3>4, <3>5, <3>6, FetcherAssumption DEF FetcherAssumption
  <2> QED
    BY <2>2, <2>3 DEF Sound
<1> QED
  BY <1>3, <1>4, <1>5 DEF IInv

LEMMA StepInv == IInv /\ [Next]_vars => IInv'
<1> SUFFICES ASSUME IInv, [Next]_vars PROVE IInv'
  OBVIOUS
<1>1. ASSUME NEW w \in Worker, NEW u \in Wanted, FetchUrl(w, u) PROVE IInv'
  BY <1>1, FetchUrlStep
<1>2. ASSUME NEW w \in Worker, Step(w) PROVE IInv'
  <2>1. CASE CachedRobots(w)
    BY <2>1, CachedRobotsStep
  <2>2. CASE RequestRobots(w)
    BY <2>2, RequestRobotsStep
  <2>3. CASE CheckRobots(w)
    BY <2>3, CheckRobotsStep
  <2>4. ASSUME NEW rules \in {"rules", "allow"}, RobotsReply(w, rules) PROVE IInv'
    BY <2>4, RobotsReplyStep
  <2>5. CASE Pace(w)
    BY <2>5, PaceStep
  <2>6. CASE Stamp(w)
    BY <2>6, StampStep
  <2>7. CASE Send(w)
    BY <2>7, SendStep
  <2>8. CASE NetworkError(w)
    BY <2>8, NetworkErrorStep
  <2>9. ASSUME NEW u \in Url, Redirect(w, u) PROVE IInv'
    BY <2>9, RedirectStep
  <2>10. CASE Respond(w)
    BY <2>10, ReturnStep DEF Respond
  <2> QED
    BY <1>2, <2>1, <2>2, <2>3, <2>4, <2>5, <2>6, <2>7, <2>8, <2>9, <2>10 DEF Step
<1>3. CASE Tick
  BY <1>3, TickStep
<1>4. CASE UNCHANGED vars
  BY <1>4 DEF vars, IInv, TypeOK, RobotsRead, Sound, SafeFetch, ClearedFetch, ParserHeld,
     SleepsEnough, Cleared
<1> QED
  BY <1>1, <1>2, <1>3, <1>4 DEF Next

-----------------------------------------------------------------------------
(* The invariant holds of every behaviour of fetch_url's threads. *)
LEMMA InvHolds == Spec => []IInv
BY InitInv, StepInv, PTL DEF Spec

(* A page that robots.txt forbids is requested only if the robots.txt of   *)
(* its domain could not be read once, and an address that is not safe is   *)
(* never requested: at first, at a retry or at a hop (_fetch_once and      *)
(* fetch_url), however the threads that share the cache interleave.        *)
THEOREM OnlyAllowedPages == Spec => []RequestsAllowed
<1>1. IInv => RequestsAllowed
  BY DEF IInv, RequestsAllowed, Sound, SafeFetch, ClearedFetch, Cleared, Host
<1> QED
  BY <1>1, InvHolds, PTL

(* Whatever it was that another request did not overtake, the last request *)
(* to the domain is MIN_SECONDS_BETWEEN_REQUESTS_PER_DOMAIN ago when the   *)
(* next one is sent (_respect_rate_limit).                                 *)
THEOREM PoliteToDomains == Spec => RequestsSpaced
<1>1. IInv /\ [Next]_vars =>
         \A w \in Worker :
            (fetch[w].pc = "sleep" /\ fetch'[w].pc = "send" /\ ~fetch[w].overtaken) =>
            age[Host(w)] = Gap
  <2> SUFFICES ASSUME IInv, [Next]_vars, NEW w \in Worker, fetch[w].pc = "sleep",
                      fetch'[w].pc = "send", ~fetch[w].overtaken
               PROVE  age[Host(w)] = Gap
    OBVIOUS
  <2>1. fetch[w] \in Fetch /\ Sound(fetch[w]) /\ fetch[w].overtaken = FALSE
    BY DEF IInv, TypeOK, Fetch
  <2>2. age[Host(w)] + fetch[w].wait >= Gap
    BY <2>1 DEF Sound, SleepsEnough, Host
  <2>3. age[Host(w)] \in 0..Gap
    BY <2>1, HostType DEF IInv, TypeOK, Sound, Host
  <2>4. fetch[w].wait = 0
    <3>1. ASSUME NEW v \in Worker, NEW u \in Wanted, FetchUrl(v, u) PROVE FALSE
      BY <3>1, CallType, FetcherAssumption DEF FetchUrl, IInv, TypeOK
    <3>2. ASSUME NEW v \in Worker, Step(v) PROVE v = w \/ Stamp(v)
      BY <3>2 DEF Step, CachedRobots, RequestRobots, CheckRobots, RobotsReply, Pace, Send,
         NetworkError, Redirect, Respond, Goto, Return, IInv, TypeOK
    <3>3. ASSUME NEW v \in Worker, Stamp(v) PROVE v = w
      <4>1. SUFFICES ASSUME v # w PROVE fetch'[w].pc = fetch[w].pc
        OBVIOUS
      <4> QED
        BY <2>1, <3>3, <4>1 DEF Stamp, Fetch
    <3>4. ASSUME Tick PROVE FALSE
      BY <2>1, <3>4 DEF Tick, Fetch
    <3>5. ASSUME Step(w) PROVE Stamp(w)
      BY <3>5, IdleType DEF Step, CachedRobots, RequestRobots, CheckRobots, RobotsReply, Pace,
         Send, NetworkError, Redirect, Respond
    <3> QED
      BY <3>1, <3>2, <3>3, <3>4, <3>5 DEF Next, Stamp, vars
  <2> QED
    BY <2>2, <2>3, <2>4, FetcherAssumption DEF FetcherAssumption
<1>2. IInv /\ [Next]_vars =>
         [\A w \in Worker :
            (fetch[w].pc = "sleep" /\ fetch'[w].pc = "send" /\ ~fetch[w].overtaken) =>
            age[Host(w)] = Gap]_vars
  BY <1>1
<1> QED
  BY <1>2, InvHolds, PTL DEF Spec, RequestsSpaced

=============================================================================
