---------------------------- MODULE SignInProofs ----------------------------
(***************************************************************************)
(* Theorems about SignIn, for any processes, threads, accounts, profiles   *)
(* and limits, whatever Google answers and whichever process ends.         *)
(***************************************************************************)
EXTENDS SignIn, FiniteSetTheorems, TLAPS

(* What the record of a thread owes to the tables: the states it deletes   *)
(* are past their time, the state it was given was generated, and the      *)
(* account it stores a session for has a row.                              *)
SoundIn(t, generated, g, now, known) ==
    /\ \A s \in t.expired : s <= generated /\ g[s].until < now
    /\ t.state # None => t.state <= generated
    /\ t.pc = "redeem" => t.state # None
    /\ t.pc \in {"store", "session", "migrate"} => t.account \in Account
    /\ t.pc = "session" \/ t.known => t.account \in known
    /\ t.pc = "migrate" => t.profile \in Profile /\ t.loaded \in {None, t.account}

ThreadsSound == \A w \in Worker : SoundIn(thread[w], states, given, clock, users)

(* A state is pending in the process that gave it out, until it is used    *)
(* or past its time.                                                       *)
StatesSound ==
    \A s \in State :
        /\ s > states => redeemed[s] = 0
        /\ redeemed[s] > 0 => redeemed[s] = 1
        /\ \A p \in Process :
              /\ s \in pending[p] => s <= states /\ redeemed[s] = 0 /\ given[s].by = p
              /\ s <= states /\ given[s].by = p =>
                     s \in pending[p] \/ redeemed[s] > 0 \/ given[s].until < clock

(* A callback between its state and its session, and the states let        *)
(* through: each of these callbacks, and each session, has one of them.    *)
Flying == {"exchange", "store", "session"}
InFlight == {w \in Worker : thread[w].pc \in Flying}
Redeemed == {s \in State : redeemed[s] > 0}
Earned == tokens + Cardinality(InFlight) <= Cardinality(Redeemed)

IInv == TypeOK /\ ThreadsSound /\ StatesSound /\ SessionHasUser /\ Earned

-----------------------------------------------------------------------------
(* Sets                                                                    *)

(* A finite set of numbers has a least element: else each has another      *)
(* number of elements below it, and there are too few such numbers.        *)
LEMMA LeastExists ==
    ASSUME NEW S \in SUBSET Nat, IsFiniteSet(S), S # {}
    PROVE  \E x \in S : \A y \in S : x <= y
<1> DEFINE Below(x) == {y \in S : y < x}
           rank == [x \in S |-> Cardinality(Below(x))]
<1>1. SUFFICES ASSUME \A x \in S : \E y \in S : y < x PROVE FALSE
  OBVIOUS
<1>2. Cardinality(S) \in Nat
  BY FS_CardinalityType
<1>3. ASSUME NEW x \in S
      PROVE  /\ IsFiniteSet(Below(x)) /\ Cardinality(Below(x)) \in Nat
             /\ Cardinality(Below(x)) # 0 /\ Cardinality(Below(x)) < Cardinality(S)
  <2>1. Below(x) \in SUBSET S /\ Below(x) # {} /\ Below(x) # S
    BY <1>1
  <2>2. IsFiniteSet(Below(x)) /\ Cardinality(Below(x)) \in Nat
    BY <2>1, FS_Subset, FS_CardinalityType
  <2> QED
    BY <1>2, <2>1, <2>2, FS_Subset, FS_EmptySet
<1>4. ASSUME NEW x \in S, NEW y \in S, x < y
      PROVE  Cardinality(Below(x)) < Cardinality(Below(y))
  <2>0. x \in Nat /\ y \in Nat /\ \A z \in S : z \in Nat
    OBVIOUS
  <2>a. \A z \in Below(x) : z \in Below(y)
    BY <1>4, <2>0
  <2>b. x \in Below(y)
    BY <1>4
  <2>c. x \notin Below(x)
    BY <2>0
  <2>1. Below(x) \in SUBSET Below(y) /\ x \in Below(y) /\ x \notin Below(x)
    BY <2>a, <2>b, <2>c, Zenon
  <2>2. Cardinality(Below(x)) \in Nat /\ Cardinality(Below(y)) \in Nat /\ IsFiniteSet(Below(y))
    BY <1>3
  <2> HIDE DEF Below
  <2> QED
    BY <2>1, <2>2, FS_Subset
<1>5. rank \in [S -> 1 .. Cardinality(S) - 1]
  BY <1>2, <1>3
<1>6. IsFiniteSet(1 .. Cardinality(S) - 1)
      /\ Cardinality(1 .. Cardinality(S) - 1) < Cardinality(S)
  <2>1. Cardinality(S) # 0
    BY FS_EmptySet
  <2>2. PICK n \in Nat : n = Cardinality(S) - 1
    BY <1>2, <2>1
  <2>3. IsFiniteSet(1 .. n) /\ Cardinality(1 .. n) = n
    BY FS_Interval, 1 \in Int, n \in Int
  <2> QED
    BY <1>2, <2>2, <2>3
<1>7. PICK x \in S, y \in S : x # y /\ rank[x] = rank[y]
  <2> HIDE DEF rank
  <2> QED
    BY <1>5, <1>6, FS_PigeonHole
<1>8. x < y \/ y < x
  BY <1>7
<1>9. rank[x] = Cardinality(Below(x)) /\ rank[y] = Cardinality(Below(y))
  OBVIOUS
<1> QED
  BY <1>3, <1>4, <1>7, <1>8, <1>9

LEMMA FiniteSets ==
    /\ IsFiniteSet(State)
    /\ \A S \in SUBSET State : IsFiniteSet(S) /\ Cardinality(S) \in Nat
    /\ \A S \in SUBSET Worker : IsFiniteSet(S) /\ Cardinality(S) \in Nat
<1>1. IsFiniteSet(State)
  BY FS_Interval, SignInAssumption, 1 \in Int, MaxStates \in Int DEF State
<1>2. IsFiniteSet(Worker)
  BY SignInAssumption
<1> QED
  BY <1>1, <1>2, FS_Subset, FS_CardinalityType

-----------------------------------------------------------------------------
(* Threads                                                                 *)

LEMMA IdleSound ==
    ASSUME NEW n, NEW g, NEW now, NEW known
    PROVE  Idle \in Thread /\ Idle.pc = "idle" /\ SoundIn(Idle, n, g, now, known)
  BY DEF Idle, Thread, SoundIn

(* Time passes, states are generated, accounts get rows. *)
Grown ==
    /\ states' \in Nat /\ clock' \in Nat
    /\ states <= states' /\ clock <= clock' /\ users \subseteq users'
    /\ \A s \in State : s <= states => given'[s].until = given[s].until

LEMMA StaysSound ==
    ASSUME TypeOK, Grown, NEW t \in Thread, SoundIn(t, states, given, clock, users),
           given' \in [State -> PendingState]
    PROVE  SoundIn(t, states', given', clock', users')
<1>1. states \in Nat /\ clock \in Nat /\ given \in [State -> PendingState]
  BY DEF TypeOK
<1>2. ASSUME NEW s \in t.expired PROVE s <= states' /\ given'[s].until < clock'
  <2>1. s \in State /\ s \in Nat
    BY DEF Thread, State
  <2>2. s <= states /\ given[s].until < clock /\ given'[s].until = given[s].until
    BY <2>1 DEF SoundIn, Grown
  <2>3. given[s].until \in Nat
    BY <1>1, <2>1 DEF PendingState
  <2> QED
    BY <1>1, <2>1, <2>2, <2>3 DEF Grown
<1>3. t.state # None => t.state <= states'
  BY <1>1 DEF SoundIn, Grown, Thread, State
<1> QED
  BY <1>2, <1>3 DEF SoundIn, Grown

LEMMA OneThread ==
    ASSUME TypeOK, ThreadsSound, Grown, given' \in [State -> PendingState],
           NEW w \in Worker, NEW t \in Thread, thread' = [thread EXCEPT ![w] = t],
           SoundIn(t, states', given', clock', users')
    PROVE  thread' \in [Worker -> Thread] /\ ThreadsSound'
<1>1. /\ thread' \in [Worker -> Thread] /\ thread'[w] = t
      /\ \A v \in Worker \ {w} : thread'[v] = thread[v] /\ thread[v] \in Thread
  BY DEF TypeOK
<1>2. ASSUME NEW v \in Worker PROVE SoundIn(thread'[v], states', given', clock', users')
  <2>1. CASE v = w
    BY <1>1, <2>1
  <2>2. CASE v # w
    <3>1. SoundIn(thread[v], states, given, clock, users)
      BY DEF ThreadsSound
    <3> QED
      BY <1>1, <2>2, <3>1, StaysSound
  <2> QED
    BY <2>1, <2>2
<1> QED
  BY <1>1, <1>2 DEF ThreadsSound

LEMMA FlightOfOne ==
    ASSUME TypeOK, NEW w \in Worker, NEW t \in Thread, thread' = [thread EXCEPT ![w] = t]
    PROVE  InFlight' = IF t.pc \in Flying THEN InFlight \cup {w} ELSE InFlight \ {w}
  BY DEF TypeOK, InFlight

LEMMA EarnedKept ==
    ASSUME TypeOK, Earned, InFlight' \in SUBSET InFlight, tokens' = tokens, redeemed' = redeemed
    PROVE  Earned'
<1>1. /\ Cardinality(InFlight) \in Nat /\ Cardinality(InFlight') \in Nat
      /\ Cardinality(InFlight') <= Cardinality(InFlight)
  BY FiniteSets, FS_Subset DEF InFlight
<1>2. Redeemed' = Redeemed /\ Cardinality(Redeemed) \in Nat /\ tokens \in Nat
  BY FiniteSets DEF Redeemed, TypeOK
<1> QED
  BY <1>1, <1>2 DEF Earned

(* A step that only moves one thread, or an owner besides. *)
LEMMA ThreadOnly ==
    ASSUME IInv, NEW w \in Worker, NEW t \in Thread, thread' = [thread EXCEPT ![w] = t],
           SoundIn(t, states, given, clock, users),
           t.pc \in Flying => thread[w].pc \in Flying,
           UNCHANGED <<pending, given, users, sessions, clock, states, tokens, redeemed>>,
           owner' \in [Profile -> Account \cup {None}]
    PROVE  IInv'
<1>1. Grown /\ given' \in [State -> PendingState]
  BY DEF IInv, TypeOK, Grown
<1>2. thread' \in [Worker -> Thread] /\ ThreadsSound'
  BY <1>1, OneThread DEF IInv
<1>3. TypeOK'
  BY <1>2 DEF IInv, TypeOK
<1>4. StatesSound' /\ SessionHasUser'
  BY DEF IInv, StatesSound, SessionHasUser
<1>5. InFlight' \in SUBSET InFlight
  <2>1. InFlight' = IF t.pc \in Flying THEN InFlight \cup {w} ELSE InFlight \ {w}
    BY FlightOfOne DEF IInv
  <2> QED
    BY <2>1 DEF InFlight
<1>6. Earned'
  BY <1>5, EarnedKept DEF IInv
<1> QED
  BY <1>2, <1>3, <1>4, <1>6 DEF IInv

-----------------------------------------------------------------------------
(* The steps                                                               *)

LEMMA InitInv == Init => IInv
<1> SUFFICES ASSUME Init PROVE IInv
  OBVIOUS
<1>1. TypeOK
  <2>1. Idle \in Thread
    BY IdleSound
  <2> QED
    BY <2>1, SignInAssumption DEF Init, TypeOK, PendingState
<1>2. ThreadsSound
  BY IdleSound DEF Init, ThreadsSound
<1>3. StatesSound
  BY DEF Init, StatesSound, State
<1>4. SessionHasUser
  BY DEF Init, SessionHasUser
<1>5. Earned
  <2>1. InFlight = {} /\ Redeemed = {}
    BY IdleSound DEF Init, InFlight, Flying, Redeemed
  <2> QED
    BY <2>1, FS_EmptySet DEF Earned, Init
<1> QED
  BY <1>1, <1>2, <1>3, <1>4, <1>5 DEF IInv

LEMMA StartCleanupInv ==
    ASSUME IInv, NEW w \in Worker, thread[w].pc = "idle", NEW s \in State \cup {None},
           s # None => s <= states, StartCleanup(w, s),
           UNCHANGED <<pending, given, tables, clock, states, tokens, redeemed>>
    PROVE  IInv'
<1> DEFINE t == [Idle EXCEPT !.pc = "cleanup", !.state = s,
                             !.expired = {e \in PendingIn(w) : Expired(e)}]
<1>1. PendingIn(w) \in SUBSET State
  BY SignInAssumption DEF IInv, TypeOK, PendingIn
<1>2. t \in Thread /\ t.pc = "cleanup"
  BY <1>1 DEF Idle, Thread
<1>3. ASSUME NEW e \in PendingIn(w), Expired(e) PROVE e <= states /\ given[e].until < clock
  BY <1>1, <1>3, SignInAssumption DEF IInv, StatesSound, PendingIn, Expired
<1>4. SoundIn(t, states, given, clock, users)
  BY <1>3 DEF SoundIn, Idle
<1>5. thread' = [thread EXCEPT ![w] = t]
  BY DEF StartCleanup
<1>6. t.pc \notin Flying
  BY <1>2 DEF Flying
<1>7. owner' \in [Profile -> Account \cup {None}]
  BY DEF tables, IInv, TypeOK
<1> HIDE DEF t
<1> QED
  BY <1>2, <1>4, <1>5, <1>6, <1>7, ThreadOnly DEF tables

(* A request that ends without having written. *)
LEMMA ReturnInv ==
    ASSUME IInv, NEW w \in Worker, Return(w),
           UNCHANGED <<pending, given, users, sessions, clock, states, tokens, redeemed>>,
           owner' \in [Profile -> Account \cup {None}]
    PROVE  IInv'
<1>1. Idle \in Thread /\ Idle.pc \notin Flying /\ SoundIn(Idle, states, given, clock, users)
  BY IdleSound DEF Flying
<1>2. thread' = [thread EXCEPT ![w] = Idle]
  BY DEF Return
<1> QED
  BY <1>1, <1>2, ThreadOnly

(* A thread lets go of a state of its process that is past its time, or    *)
(* that it redeems.                                                        *)
LEMMA ForgetPending ==
    ASSUME IInv, NEW w \in Worker, NEW s \in State, Forget(w, s)
    PROVE  /\ pending' \in [Process -> SUBSET State]
           /\ \A p \in Process, x \in State :
                 x \in pending'[p] <=> x \in pending[p] /\ ~(p = ProcessOf[w] /\ x = s)
  BY SignInAssumption DEF IInv, TypeOK, Forget

LEMMA CleanupDeleteInv ==
    ASSUME IInv, NEW w \in Worker, CleanupDelete(w)
    PROVE  IInv'
<1> DEFINE E == thread[w].expired
           s == CHOOSE x \in E : \A y \in E : x <= y
           t == IF s \in PendingIn(w) THEN [thread[w] EXCEPT !.expired = @ \ {s}] ELSE Idle
<1>1. thread[w] \in Thread /\ E \in SUBSET State /\ E \in SUBSET Nat /\ IsFiniteSet(E) /\ E # {}
  <2>1. thread[w] \in Thread
    BY DEF IInv, TypeOK
  <2>2. E \in SUBSET State
    BY <2>1 DEF Thread
  <2>3. E \in SUBSET Nat
    BY <2>2 DEF State
  <2> QED
    BY <2>1, <2>2, <2>3, FiniteSets DEF CleanupDelete
<1>2. s \in E
  <2>1. \E x \in E : \A y \in E : x <= y
    BY <1>1, LeastExists
  <2> QED
    BY <2>1
<1>3. s \in State /\ s <= states /\ given[s].until < clock
  BY <1>1, <1>2 DEF IInv, ThreadsSound, SoundIn
<1>4. /\ Forget(w, s) /\ thread' = [thread EXCEPT ![w] = t]
      /\ UNCHANGED <<given, tables, clock, states, tokens, redeemed>>
  BY DEF CleanupDelete, Return
<1>5. t \in Thread /\ t.pc \notin Flying /\ SoundIn(t, states, given, clock, users)
  <2>1. SoundIn(thread[w], states, given, clock, users) /\ thread[w].pc = "cleanup"
    BY DEF IInv, ThreadsSound, CleanupDelete
  <2>2. CASE s \in PendingIn(w)
    <3>1. t = [thread[w] EXCEPT !.expired = @ \ {s}]
      BY <2>2
    <3> HIDE DEF t, s
    <3>2. t \in Thread /\ t.expired = E \ {s}
      BY <1>1, <3>1 DEF Thread
    <3>3. /\ t.pc = "cleanup" /\ t.state = thread[w].state
          /\ t.known = thread[w].known /\ t.account = thread[w].account
      BY <1>1, <2>1, <3>1 DEF Thread
    <3> QED
      BY <2>1, <3>2, <3>3 DEF Flying, SoundIn
  <2>3. CASE s \notin PendingIn(w)
    <3>1. t = Idle
      BY <2>3
    <3> HIDE DEF t, s
    <3> QED
      BY <3>1, IdleSound DEF Flying
  <2> QED
    BY <2>2, <2>3
<1> HIDE DEF s, t
<1>6. Grown /\ given' \in [State -> PendingState]
  BY <1>4 DEF IInv, TypeOK, Grown, tables
<1>7. thread' \in [Worker -> Thread] /\ ThreadsSound'
  <2>1. SoundIn(t, states', given', clock', users')
    BY <1>4, <1>5 DEF tables
  <2> QED
    BY <1>4, <1>5, <1>6, <2>1, OneThread DEF IInv
<1>8. TypeOK'
  BY <1>3, <1>4, <1>7, ForgetPending DEF IInv, TypeOK, tables
<1>9. StatesSound'
  BY <1>3, <1>4, ForgetPending DEF IInv, StatesSound
<1>10. SessionHasUser' /\ Earned'
  <2>1. InFlight' \in SUBSET InFlight
    BY <1>4, <1>5, FlightOfOne DEF IInv
  <2> QED
    BY <1>4, <2>1, EarnedKept DEF IInv, SessionHasUser, tables
<1> QED
  BY <1>7, <1>8, <1>9, <1>10 DEF IInv

LEMMA IssueStateInv ==
    ASSUME IInv, NEW w \in Worker, IssueState(w)
    PROVE  IInv'
<1>1. /\ states \in Nat /\ clock \in Nat /\ states' = states + 1 /\ states' \in State
      /\ \A s \in State : s \in Nat
  BY SignInAssumption DEF IInv, TypeOK, IssueState, State
<1>2. /\ pending \in [Process -> SUBSET State] /\ given \in [State -> PendingState]
      /\ ProcessOf[w] \in Process
  BY SignInAssumption DEF IInv, TypeOK
<1>3. /\ pending' \in [Process -> SUBSET State]
      /\ \A p \in Process, x \in State :
            x \in pending'[p] <=> x \in pending[p] \/ (p = ProcessOf[w] /\ x = states')
  BY <1>1, <1>2 DEF IssueState
<1>4. /\ given' \in [State -> PendingState]
      /\ given'[states'].by = ProcessOf[w] /\ given'[states'].until = clock + StateTTL
      /\ \A x \in State \ {states'} : given'[x] = given[x]
  <2>1. [by |-> ProcessOf[w], until |-> clock + StateTTL] \in PendingState
    BY <1>1, <1>2, SignInAssumption DEF PendingState
  <2> QED
    BY <1>1, <1>2, <2>1 DEF IssueState
<1>5. Grown
  BY <1>1, <1>4 DEF Grown, IssueState, tables
<1>6. thread' \in [Worker -> Thread] /\ ThreadsSound'
  <2>1. Idle \in Thread /\ SoundIn(Idle, states', given', clock', users')
    BY IdleSound
  <2>2. thread' = [thread EXCEPT ![w] = Idle]
    BY DEF IssueState, Return
  <2> QED
    BY <1>4, <1>5, <2>1, <2>2, OneThread DEF IInv
<1>7. TypeOK'
  BY <1>1, <1>3, <1>4, <1>6 DEF IInv, TypeOK, IssueState, tables
<1>8. StatesSound'
  <2>1. redeemed' = redeemed /\ clock' = clock /\ redeemed \in [State -> Nat]
    BY DEF IssueState, IInv, TypeOK
  <2>2. ASSUME NEW s \in State
        PROVE  /\ s > states' => redeemed'[s] = 0
               /\ redeemed'[s] > 0 => redeemed'[s] = 1
               /\ \A p \in Process :
                     /\ s \in pending'[p] => s <= states' /\ redeemed'[s] = 0 /\ given'[s].by = p
                     /\ s <= states' /\ given'[s].by = p =>
                            s \in pending'[p] \/ redeemed'[s] > 0 \/ given'[s].until < clock'
    <3>1. CASE s = states'
      <4>1. redeemed[s] = 0 /\ \A p \in Process : s \notin pending[p]
        BY <1>1, <3>1 DEF IInv, StatesSound
      <4>2. s <= states' /\ redeemed'[s] = 0
        BY <1>1, <2>1, <3>1, <4>1
      <4>3. \A p \in Process : s \in pending'[p] <=> p = ProcessOf[w]
        BY <1>3, <3>1, <4>1
      <4>4. given'[s].by = ProcessOf[w]
        BY <1>4, <3>1
      <4> QED
        BY <1>1, <3>1, <4>2, <4>3, <4>4
    <3>2. CASE s # states'
      <4>1. given'[s] = given[s] /\ \A p \in Process : s \in pending'[p] <=> s \in pending[p]
        BY <1>3, <1>4, <3>2
      <4>3. /\ s > states => redeemed[s] = 0
            /\ redeemed[s] > 0 => redeemed[s] = 1
            /\ \A p \in Process :
                  /\ s \in pending[p] => s <= states /\ redeemed[s] = 0 /\ given[s].by = p
                  /\ s <= states /\ given[s].by = p =>
                         s \in pending[p] \/ redeemed[s] > 0 \/ given[s].until < clock
        BY DEF IInv, StatesSound
      <4>4. (s > states' => s > states) /\ (s <= states' <=> s <= states)
        BY <1>1, <3>2
      <4> QED
        BY <2>1, <4>1, <4>3, <4>4
    <3> QED
      BY <3>1, <3>2
  <2> QED
    BY <2>2 DEF StatesSound
<1>9. SessionHasUser' /\ Earned'
  <2>1. InFlight' \in SUBSET InFlight
    BY IdleSound, FlightOfOne DEF IInv, IssueState, Return, Flying
  <2> QED
    BY <2>1, EarnedKept DEF IInv, SessionHasUser, IssueState, tables
<1> QED
  BY <1>6, <1>7, <1>8, <1>9 DEF IInv

LEMMA CheckStateInv ==
    ASSUME IInv, NEW w \in Worker, CheckState(w)
    PROVE  IInv'
<1>1. owner' \in [Profile -> Account \cup {None}]
  BY DEF CheckState, tables, IInv, TypeOK
<1>2. CASE thread[w].state \notin PendingIn(w)
  BY <1>1, <1>2, ReturnInv DEF CheckState, tables
<1>3. CASE thread[w].state \in PendingIn(w)
  <2> DEFINE t == [thread[w] EXCEPT !.pc = "redeem"]
  <2>1. /\ thread[w] \in Thread /\ SoundIn(thread[w], states, given, clock, users)
        /\ thread[w].pc = "cleanup" /\ thread[w].state # None
    BY DEF IInv, TypeOK, ThreadsSound, CheckState
  <2>2. /\ t \in Thread /\ t.pc = "redeem" /\ t.expired = thread[w].expired
        /\ t.state = thread[w].state /\ t.known = thread[w].known
        /\ t.account = thread[w].account
    BY <2>1 DEF Thread
  <2>3. thread' = [thread EXCEPT ![w] = t]
    BY <1>3 DEF CheckState, Goto
  <2> HIDE DEF t
  <2>4. SoundIn(t, states, given, clock, users) /\ t.pc \notin Flying
    BY <2>1, <2>2 DEF SoundIn, Flying
  <2> QED
    BY <1>1, <2>2, <2>3, <2>4, ThreadOnly DEF CheckState, tables
<1> QED
  BY <1>2, <1>3

LEMMA RedeemStateInv ==
    ASSUME IInv, NEW w \in Worker, RedeemState(w)
    PROVE  IInv'
<1> DEFINE s == thread[w].state
           t == [thread[w] EXCEPT !.pc = "exchange"]
<1>1. /\ thread[w] \in Thread /\ SoundIn(thread[w], states, given, clock, users)
      /\ thread[w].pc = "redeem"
  BY DEF IInv, TypeOK, ThreadsSound, RedeemState
<1>2. s \in State /\ s <= states
  BY <1>1 DEF SoundIn, Thread
<1>3. /\ Forget(w, s)
      /\ UNCHANGED <<given, users, sessions, owner, clock, states, tokens>>
  BY DEF RedeemState, tables
<1>4. Grown /\ given' \in [State -> PendingState]
  BY <1>3 DEF IInv, TypeOK, Grown
<1>5. CASE s \notin PendingIn(w)
  <2>1. pending' = pending /\ Return(w) /\ UNCHANGED redeemed
    <3>1. pending[ProcessOf[w]] \ {s} = pending[ProcessOf[w]]
      BY <1>5 DEF PendingIn
    <3> QED
      BY <1>3, <1>5, <3>1, SignInAssumption DEF IInv, TypeOK, Forget, RedeemState
  <2> QED
    BY <1>3, <2>1, ReturnInv DEF IInv, TypeOK
<1>6. CASE s \in PendingIn(w)
  <2>1. /\ thread' = [thread EXCEPT ![w] = t]
        /\ redeemed' = [redeemed EXCEPT ![s] = redeemed[s] + 1]
    BY <1>6 DEF RedeemState, Goto
  <2>2. /\ t \in Thread /\ t.pc = "exchange" /\ t.expired = thread[w].expired
        /\ t.state = thread[w].state /\ t.known = thread[w].known
        /\ t.account = thread[w].account
    BY <1>1 DEF Thread
  <2>3. redeemed[s] = 0 /\ given[s].by = ProcessOf[w] /\ ProcessOf[w] \in Process
    BY <1>2, <1>6, SignInAssumption DEF IInv, StatesSound, PendingIn
  <2> HIDE DEF s, t
  <2>4. thread' \in [Worker -> Thread] /\ ThreadsSound'
    <3>1. SoundIn(t, states', given', clock', users')
      BY <1>1, <1>3, <2>2 DEF SoundIn
    <3> QED
      BY <1>4, <2>1, <2>2, <3>1, OneThread DEF IInv
  <2>5. /\ redeemed' \in [State -> Nat] /\ redeemed'[s] = 1
        /\ \A x \in State \ {s} : redeemed'[x] = redeemed[x]
    BY <1>2, <2>1, <2>3 DEF IInv, TypeOK
  <2>6. TypeOK'
    BY <1>2, <1>3, <2>4, <2>5, ForgetPending DEF IInv, TypeOK
  <2>7. StatesSound'
    <3>1. ASSUME NEW x \in State
          PROVE  /\ x > states' => redeemed'[x] = 0
                 /\ redeemed'[x] > 0 => redeemed'[x] = 1
                 /\ \A p \in Process :
                       /\ x \in pending'[p] => x <= states' /\ redeemed'[x] = 0 /\ given'[x].by = p
                       /\ x <= states' /\ given'[x].by = p =>
                              x \in pending'[p] \/ redeemed'[x] > 0 \/ given'[x].until < clock'
      <4>1. /\ x > states => redeemed[x] = 0
            /\ redeemed[x] > 0 => redeemed[x] = 1
            /\ \A p \in Process :
                  /\ x \in pending[p] => x <= states /\ redeemed[x] = 0 /\ given[x].by = p
                  /\ x <= states /\ given[x].by = p =>
                         x \in pending[p] \/ redeemed[x] > 0 \/ given[x].until < clock
        BY DEF IInv, StatesSound
      <4>2. \A p \in Process : x \in pending'[p] <=> x \in pending[p] /\ ~(p = ProcessOf[w] /\ x = s)
        BY <1>2, <1>3, ForgetPending
      <4>3. CASE x = s
        <5>1. ~(x > states)
          BY <1>2, <4>3 DEF IInv, TypeOK, State
        <5>2. \A p \in Process : x \notin pending'[p]
          BY <2>3, <4>1, <4>2, <4>3
        <5> QED
          BY <1>3, <2>5, <4>3, <5>1, <5>2
      <4>4. CASE x # s
        BY <1>3, <2>5, <4>1, <4>2, <4>4
      <4> QED
        BY <4>3, <4>4
    <3> QED
      BY <3>1 DEF StatesSound
  <2>8. SessionHasUser'
    BY <1>3 DEF IInv, SessionHasUser
  <2>9. Earned'
    <3>1. Redeemed' = Redeemed \cup {s} /\ s \notin Redeemed
      BY <1>2, <2>3, <2>5 DEF Redeemed
    <3>2. InFlight' = InFlight \cup {w}
      BY <2>1, <2>2, FlightOfOne DEF IInv, Flying
    <3>3. /\ IsFiniteSet(Redeemed) /\ Cardinality(Redeemed) \in Nat
          /\ IsFiniteSet(InFlight) /\ Cardinality(InFlight) \in Nat
      BY FiniteSets DEF Redeemed, InFlight
    <3>4. Cardinality(Redeemed') = Cardinality(Redeemed) + 1
      BY <3>1, <3>3, FS_AddElement
    <3>5. Cardinality(InFlight') \in {Cardinality(InFlight), Cardinality(InFlight) + 1}
      BY <3>2, <3>3, FS_AddElement
    <3> QED
      BY <1>3, <3>3, <3>4, <3>5 DEF IInv, TypeOK, Earned
  <2> QED
    BY <2>4, <2>6, <2>7, <2>8, <2>9 DEF IInv
<1> QED
  BY <1>5, <1>6

LEMMA ExchangeInv ==
    ASSUME IInv, NEW w \in Worker, NEW r \in Reply, Exchange(w, r)
    PROVE  IInv'
<1> DEFINE known == r.sub \in users
           t == [thread[w] EXCEPT !.pc = "store", !.account = r.sub, !.known = known]
<1>1. /\ thread[w] \in Thread /\ SoundIn(thread[w], states, given, clock, users)
      /\ thread[w].pc = "exchange" /\ r.sub \in Account
  BY SignInAssumption DEF IInv, TypeOK, ThreadsSound, Exchange, GoogleReply
<1>2. thread' = [thread EXCEPT ![w] = t]
  BY DEF Exchange
<1>a. known \in BOOLEAN /\ (known => r.sub \in users)
  OBVIOUS
<1> HIDE DEF known
<1>3. /\ t \in Thread /\ t.pc = "store" /\ t.expired = thread[w].expired
      /\ t.state = thread[w].state /\ t.account = r.sub /\ t.known = known
  BY <1>1, <1>a DEF Thread
<1> HIDE DEF t
<1>4. SoundIn(t, states, given, clock, users)
  BY <1>1, <1>3, <1>a DEF SoundIn
<1>5. thread[w].pc \in Flying
  BY <1>1 DEF Flying
<1>6. owner' \in [Profile -> Account \cup {None}]
  BY DEF Exchange, tables, IInv, TypeOK
<1> QED
  BY <1>2, <1>3, <1>4, <1>5, <1>6, ThreadOnly DEF Exchange, tables

LEMMA ExchangeFailsInv ==
    ASSUME IInv, NEW w \in Worker, ExchangeFails(w)
    PROVE  IInv'
  BY ReturnInv DEF ExchangeFails, tables, IInv, TypeOK

LEMMA StoreUserInv ==
    ASSUME IInv, NEW w \in Worker, StoreUser(w)
    PROVE  IInv'
<1> DEFINE t == IF thread[w].known \/ thread[w].account \notin users
                THEN [thread[w] EXCEPT !.pc = "session"] ELSE Idle
<1>1. /\ thread[w] \in Thread /\ SoundIn(thread[w], states, given, clock, users)
      /\ thread[w].pc = "store" /\ thread[w].account \in Account
  BY DEF IInv, TypeOK, ThreadsSound, StoreUser, SoundIn
<1>2. /\ users' = users \cup {thread[w].account} /\ thread' = [thread EXCEPT ![w] = t]
      /\ UNCHANGED <<pending, given, sessions, owner, clock, states, tokens, redeemed>>
  BY DEF StoreUser, Goto, Return
<1>3. t \in Thread /\ SoundIn(t, states', given', clock', users')
  <2>1. CASE thread[w].known \/ thread[w].account \notin users
    <3>1. t = [thread[w] EXCEPT !.pc = "session"]
      BY <2>1
    <3> HIDE DEF t
    <3>2. /\ t \in Thread /\ t.pc = "session" /\ t.expired = thread[w].expired
          /\ t.state = thread[w].state /\ t.account = thread[w].account
      BY <1>1, <3>1 DEF Thread
    <3> QED
      BY <1>1, <1>2, <3>2 DEF SoundIn
  <2>2. CASE ~(thread[w].known \/ thread[w].account \notin users)
    BY <2>2, IdleSound
  <2> QED
    BY <2>1, <2>2
<1> HIDE DEF t
<1>4. Grown /\ given' \in [State -> PendingState]
  BY <1>2 DEF IInv, TypeOK, Grown
<1>5. thread' \in [Worker -> Thread] /\ ThreadsSound'
  BY <1>2, <1>3, <1>4, OneThread DEF IInv
<1>6. TypeOK'
  BY <1>1, <1>2, <1>5 DEF IInv, TypeOK
<1>7. StatesSound' /\ SessionHasUser'
  BY <1>2 DEF IInv, StatesSound, SessionHasUser
<1>8. Earned'
  <2>1. w \in InFlight
    BY <1>1 DEF InFlight, Flying
  <2>2. InFlight' \in SUBSET InFlight
    BY <1>2, <1>3, <2>1, FlightOfOne DEF IInv
  <2> QED
    BY <1>2, <2>2, EarnedKept DEF IInv
<1> QED
  BY <1>5, <1>6, <1>7, <1>8 DEF IInv

LEMMA CreateSessionInv ==
    ASSUME IInv, NEW w \in Worker, CreateSession(w)
    PROVE  IInv'
<1> DEFINE x == [token |-> tokens', user |-> thread[w].account, until |-> clock + SessionTTL]
<1>1. /\ thread[w].pc = "session" /\ thread[w].account \in Account
      /\ thread[w].account \in users
  BY DEF IInv, ThreadsSound, CreateSession, SoundIn
<1>2. /\ tokens' = tokens + 1 /\ sessions' = sessions \cup {x}
      /\ thread' = [thread EXCEPT ![w] = Idle]
      /\ UNCHANGED <<pending, given, users, owner, clock, states, redeemed>>
  BY DEF CreateSession, Return
<1>3. x \in UserSession /\ tokens' \in Nat
  BY <1>1, SignInAssumption DEF IInv, TypeOK, CreateSession, UserSession, Token
<1>4. Grown /\ given' \in [State -> PendingState]
  BY <1>2 DEF IInv, TypeOK, Grown
<1>5. thread' \in [Worker -> Thread] /\ ThreadsSound'
  BY <1>2, <1>4, IdleSound, OneThread DEF IInv
<1>6. TypeOK'
  BY <1>2, <1>3, <1>5 DEF IInv, TypeOK
<1>7. StatesSound' /\ SessionHasUser'
  BY <1>1, <1>2 DEF IInv, StatesSound, SessionHasUser
<1>8. Earned'
  <2>1. w \in InFlight /\ InFlight' = InFlight \ {w}
    BY <1>1, <1>2, IdleSound, FlightOfOne DEF IInv, InFlight, Flying
  <2>2. IsFiniteSet(InFlight) /\ Cardinality(InFlight) \in Nat
    BY FiniteSets DEF InFlight
  <2>3. Cardinality(InFlight') = Cardinality(InFlight) - 1
    BY <2>1, <2>2, FS_RemoveElement
  <2>4. Redeemed' = Redeemed /\ Cardinality(Redeemed) \in Nat
    BY <1>2, FiniteSets DEF Redeemed
  <2> QED
    BY <1>2, <2>2, <2>3, <2>4 DEF IInv, TypeOK, Earned
<1> QED
  BY <1>5, <1>6, <1>7, <1>8 DEF IInv

(* A session expires or is logged out. *)
LEMMA SessionEndsInv ==
    ASSUME IInv, NEW x \in sessions, Authenticate(x) \/ Logout(x)
    PROVE  IInv'
<1>1. /\ sessions' = sessions \ {x}
      /\ UNCHANGED <<pending, given, users, owner, thread, clock, states, tokens, redeemed>>
  BY DEF Authenticate, Logout
<1>2. TypeOK'
  BY <1>1 DEF IInv, TypeOK
<1>3. ThreadsSound' /\ StatesSound' /\ SessionHasUser'
  BY <1>1 DEF IInv, ThreadsSound, StatesSound, SessionHasUser
<1>4. Earned'
  <2>1. InFlight' = InFlight
    BY <1>1 DEF InFlight
  <2> QED
    BY <1>1, <2>1, EarnedKept DEF IInv
<1> QED
  BY <1>2, <1>3, <1>4 DEF IInv

LEMMA MigrateGuestInv ==
    ASSUME IInv, NEW w \in Worker, NEW x \in sessions, NEW n \in Profile, MigrateGuest(w, x, n)
    PROVE  IInv'
<1> DEFINE t == [Idle EXCEPT !.pc = "migrate", !.account = x.user, !.profile = n,
                             !.loaded = owner[n]]
<1>1. x.user \in Account /\ owner[n] \in Account \cup {None} /\ owner[n] \in {None, x.user}
  BY DEF IInv, TypeOK, UserSession, MigrateGuest
<1>2. /\ t \in Thread /\ t.pc = "migrate" /\ t.expired = {} /\ t.state = None /\ t.known = FALSE
      /\ t.account = x.user /\ t.profile = n /\ t.loaded = owner[n]
  BY <1>1 DEF Idle, Thread
<1>3. thread' = [thread EXCEPT ![w] = t]
  BY DEF MigrateGuest
<1> HIDE DEF t
<1>4. SoundIn(t, states, given, clock, users) /\ t.pc \notin Flying
  BY <1>1, <1>2 DEF SoundIn, Flying
<1>5. owner' \in [Profile -> Account \cup {None}]
  BY DEF MigrateGuest, tables, IInv, TypeOK
<1> QED
  BY <1>2, <1>3, <1>4, <1>5, ThreadOnly DEF MigrateGuest, tables

LEMMA MigrateCommitInv ==
    ASSUME IInv, NEW w \in Worker, MigrateCommit(w)
    PROVE  IInv'
<1>1. thread[w].account \in Account /\ thread[w].profile \in Profile
  BY DEF IInv, ThreadsSound, MigrateCommit, SoundIn
<1>2. owner' \in [Profile -> Account \cup {None}]
  BY <1>1 DEF MigrateCommit, IInv, TypeOK
<1> QED
  BY <1>2, ReturnInv DEF MigrateCommit

LEMMA ExitInv ==
    ASSUME IInv, NEW p \in Process, Exit(p)
    PROVE  IInv'
<1>1. UNCHANGED <<users, sessions, owner, clock, states, tokens, redeemed>>
  BY DEF Exit, tables
<1>2. /\ pending' \in [Process -> SUBSET State]
      /\ pending'[p] = {} /\ \A q \in Process \ {p} : pending'[q] = pending[q]
  BY DEF Exit, IInv, TypeOK
<1>3. /\ given' \in [State -> PendingState]
      /\ \A s \in State : /\ given'[s].until = given[s].until
                          /\ given'[s].by = IF given[s].by = p THEN None ELSE given[s].by
  BY DEF Exit, IInv, TypeOK, PendingState
<1>4. Grown
  BY <1>1, <1>3 DEF IInv, TypeOK, Grown
<1>5. /\ thread' \in [Worker -> Thread]
      /\ \A w \in Worker : thread'[w] = Idle \/ thread'[w] = thread[w]
  BY IdleSound DEF Exit, IInv, TypeOK
<1>6. ThreadsSound'
  <2>1. ASSUME NEW w \in Worker PROVE SoundIn(thread'[w], states', given', clock', users')
    <3>1. CASE thread'[w] = Idle
      BY <3>1, IdleSound
    <3>2. CASE thread'[w] = thread[w]
      <4>1. thread[w] \in Thread /\ SoundIn(thread[w], states, given, clock, users)
        BY DEF IInv, TypeOK, ThreadsSound
      <4> QED
        BY <1>3, <1>4, <3>2, <4>1, StaysSound DEF IInv
    <3> QED
      BY <1>5, <3>1, <3>2
  <2> QED
    BY <2>1 DEF ThreadsSound
<1>7. TypeOK'
  BY <1>1, <1>2, <1>3, <1>5 DEF IInv, TypeOK
<1>8. StatesSound'
  <2>1. ASSUME NEW s \in State
        PROVE  /\ s > states' => redeemed'[s] = 0
               /\ redeemed'[s] > 0 => redeemed'[s] = 1
               /\ \A q \in Process :
                     /\ s \in pending'[q] => s <= states' /\ redeemed'[s] = 0 /\ given'[s].by = q
                     /\ s <= states' /\ given'[s].by = q =>
                            s \in pending'[q] \/ redeemed'[s] > 0 \/ given'[s].until < clock'
    <3>1. /\ s > states => redeemed[s] = 0
          /\ redeemed[s] > 0 => redeemed[s] = 1
          /\ \A q \in Process :
                /\ s \in pending[q] => s <= states /\ redeemed[s] = 0 /\ given[s].by = q
                /\ s <= states /\ given[s].by = q =>
                       s \in pending[q] \/ redeemed[s] > 0 \/ given[s].until < clock
      BY DEF IInv, StatesSound
    <3>2. None \notin Process
      BY SignInAssumption
    <3> QED
      BY <1>1, <1>2, <1>3, <3>1, <3>2
  <2> QED
    BY <2>1 DEF StatesSound
<1>9. SessionHasUser'
  BY <1>1 DEF IInv, SessionHasUser
<1>10. Earned'
  <2>1. InFlight' \in SUBSET InFlight
    BY <1>5, IdleSound DEF InFlight, Flying
  <2> QED
    BY <1>1, <2>1, EarnedKept DEF IInv
<1> QED
  BY <1>6, <1>7, <1>8, <1>9, <1>10 DEF IInv

LEMMA TickInv ==
    ASSUME IInv, Tick
    PROVE  IInv'
<1>1. /\ clock' = clock + 1 /\ clock \in Nat /\ clock' \in Nat
      /\ UNCHANGED <<pending, given, users, sessions, owner, thread, states, tokens, redeemed>>
  BY DEF Tick, tables, IInv, TypeOK
<1>2. Grown /\ given' \in [State -> PendingState]
  BY <1>1 DEF IInv, TypeOK, Grown
<1>3. ThreadsSound'
  <2>1. ASSUME NEW w \in Worker PROVE SoundIn(thread'[w], states', given', clock', users')
    <3>1. thread[w] \in Thread /\ SoundIn(thread[w], states, given, clock, users)
      BY DEF IInv, TypeOK, ThreadsSound
    <3>2. thread'[w] = thread[w]
      BY <1>1
    <3> QED
      BY <1>2, <3>1, <3>2, StaysSound DEF IInv
  <2> QED
    BY <2>1 DEF ThreadsSound
<1>4. TypeOK'
  BY <1>1 DEF IInv, TypeOK
<1>5. StatesSound'
  <2>1. \A s \in State : given[s].until \in Nat
    BY DEF IInv, TypeOK, PendingState
  <2>2. \A s \in State : given[s].until < clock => given[s].until < clock'
    BY <1>1, <2>1
  <2> QED
    BY <1>1, <2>2 DEF IInv, StatesSound
<1>6. SessionHasUser'
  BY <1>1 DEF IInv, SessionHasUser
<1>7. Earned'
  <2>1. InFlight' = InFlight
    BY <1>1 DEF InFlight
  <2> QED
    BY <1>1, <2>1, EarnedKept DEF IInv
<1> QED
  BY <1>3, <1>4, <1>5, <1>6, <1>7 DEF IInv

LEMMA StepInv == IInv /\ [Next]_vars => IInv'
<1> SUFFICES ASSUME IInv, [Next]_vars PROVE IInv'
  OBVIOUS
<1>1. ASSUME NEW w \in Worker, Login(w) PROVE IInv'
  BY <1>1, StartCleanupInv DEF Login
<1>2. ASSUME NEW w \in Worker, NEW s \in State, Callback(w, s) PROVE IInv'
  BY <1>2, StartCleanupInv DEF Callback
<1>3. ASSUME NEW w \in Worker, Step(w) PROVE IInv'
  BY <1>3, CleanupDeleteInv, IssueStateInv, CheckStateInv, RedeemStateInv, ExchangeInv,
     ExchangeFailsInv, StoreUserInv, CreateSessionInv, MigrateCommitInv DEF Step
<1>4. ASSUME NEW w \in Worker, NEW x \in sessions, NEW n \in Profile, MigrateGuest(w, x, n)
      PROVE  IInv'
  BY <1>4, MigrateGuestInv
<1>5. ASSUME NEW x \in sessions, Authenticate(x) \/ Logout(x) PROVE IInv'
  BY <1>5, SessionEndsInv
<1>6. ASSUME NEW p \in Process, Exit(p) PROVE IInv'
  BY <1>6, ExitInv
<1>7. CASE Tick
  BY <1>7, TickInv
<1>8. CASE UNCHANGED vars
  BY <1>8 DEF vars, IInv, TypeOK, ThreadsSound, StatesSound, SessionHasUser, Earned, InFlight,
              Redeemed
<1> QED
  BY <1>1, <1>2, <1>3, <1>4, <1>5, <1>6, <1>7, <1>8 DEF Next

LEMMA InvHolds == Spec => []IInv
  BY InitInv, StepInv, PTL DEF Spec

-----------------------------------------------------------------------------
(* Every state of every run is well typed, whatever overlaps and ends:     *)
(* what api/routers/auth.py stores always has the form its tables have.    *)
THEOREM TypeCorrect == Spec => []TypeOK
<1>1. IInv => TypeOK
  BY DEF IInv
<1> QED
  BY <1>1, InvHolds, PTL

(* google_callback lets a state through once, for any number of threads    *)
(* and processes: the test and the del are two statements, but only the    *)
(* first del finds the key, and no key is ever put back.                   *)
THEOREM StatesUsedOnce == Spec => []StateUsedOnce
<1>1. IInv => StateUsedOnce
  <2> SUFFICES ASSUME IInv, NEW s \in State PROVE redeemed[s] <= 1
    BY DEF StateUsedOnce
  <2>1. redeemed[s] \in Nat /\ (redeemed[s] > 0 => redeemed[s] = 1)
    BY DEF IInv, TypeOK, StatesSound
  <2> QED
    BY <2>1
<1> QED
  BY <1>1, InvHolds, PTL

(* Every session names an account that has a row, and there are never more *)
(* sessions than states that google_callback has let through: each         *)
(* callback on its way to a session, and each session, has one of its own. *)
THEOREM SessionsAreEarned == Spec => []SessionsEarned
<1>1. IInv => SessionsEarned
  <2> SUFFICES ASSUME IInv PROVE SessionsEarned
    OBVIOUS
  <2>1. Cardinality(InFlight) \in Nat /\ Cardinality(Redeemed) \in Nat /\ tokens \in Nat
    BY FiniteSets DEF InFlight, Redeemed, IInv, TypeOK
  <2>2. tokens <= Cardinality(Redeemed)
    BY <2>1 DEF IInv, Earned
  <2> QED
    BY <2>2 DEF IInv, SessionsEarned, OneSessionPerState, Redeemed
<1> QED
  BY <1>1, InvHolds, PTL

(* migrate_guest moves an owned profile only by a request that has read it *)
(* unowned: a request that read an owner writes no owner, since only the   *)
(* owner himself gets past the check, and his id is what the row has.      *)
THEOREM OwnersAreKept == Spec => OwnerKept
<1>1. IInv /\ [Next]_vars =>
         \A n \in Profile : owner[n] # None /\ owner'[n] # owner[n] =>
            \E w \in Worker : /\ thread[w].pc = "migrate" /\ thread[w].profile = n
                              /\ thread[w].loaded = None
  <2> SUFFICES ASSUME IInv, [Next]_vars, NEW n \in Profile, owner'[n] # owner[n]
               PROVE  \E w \in Worker : /\ thread[w].pc = "migrate" /\ thread[w].profile = n
                                        /\ thread[w].loaded = None
    OBVIOUS
  <2>1. PICK w \in Worker : MigrateCommit(w)
    BY DEF Next, Step, vars, tables, Login, Callback, CleanupDelete, IssueState, CheckState,
           RedeemState, Exchange, ExchangeFails, StoreUser, CreateSession, Authenticate, Logout,
           MigrateGuest, Exit, Tick
  <2>2. /\ thread[w].pc = "migrate" /\ thread[w].profile \in Profile
        /\ thread[w].loaded \in {None, thread[w].account}
    BY <2>1 DEF MigrateCommit, IInv, ThreadsSound, SoundIn
  <2>3. thread[w].loaded # thread[w].account /\ thread[w].profile = n
    BY <2>1, <2>2 DEF MigrateCommit, IInv, TypeOK
  <2> QED
    BY <2>2, <2>3
<1>2. IInv /\ [Next]_vars =>
         [\A n \in Profile : owner[n] # None /\ owner'[n] # owner[n] =>
            \E w \in Worker : /\ thread[w].pc = "migrate" /\ thread[w].profile = n
                              /\ thread[w].loaded = None]_vars
  BY <1>1
<1> QED
  BY <1>2, InvHolds, PTL DEF Spec, OwnerKept

(* google_callback refuses a state only if it was used, is past its time,  *)
(* or was not given out by this process since it started: _cleanup_states  *)
(* of another thread deletes no state that is still good.                  *)
THEOREM RefusalsHaveReasons == Spec => RefusedForAReason
<1>1. IInv /\ [Next]_vars =>
         \A w \in Worker :
            (/\ thread[w].pc = "cleanup" /\ thread[w].expired = {} /\ thread[w].state # None
             /\ thread'[w].pc = "idle") =>
            LET s == thread[w].state
            IN redeemed[s] > 0 \/ given'[s].by # ProcessOf[w] \/ given[s].until < clock
  <2> SUFFICES ASSUME IInv, [Next]_vars, NEW w \in Worker,
                      thread[w].pc = "cleanup", thread[w].expired = {}, thread[w].state # None,
                      thread'[w].pc = "idle",
                      given'[thread[w].state].by = ProcessOf[w],
                      redeemed[thread[w].state] = 0
               PROVE  given[thread[w].state].until < clock
    <3>1. ASSUME IInv, NEW v \in Worker, thread[v].state # None
          PROVE  redeemed[thread[v].state] \in Nat
      <4>1. thread[v] \in Thread /\ redeemed \in [State -> Nat]
        BY <3>1 DEF IInv, TypeOK
      <4>2. thread[v].state \in State
        BY <3>1, <4>1 DEF Thread
      <4> QED
        BY <4>1, <4>2
    <3>2. ASSUME NEW k \in Nat, ~(k > 0) PROVE k = 0
      BY <3>2
    <3> QED
      BY <3>1, <3>2
  <2> DEFINE s == thread[w].state
  <2>1. s \in State /\ s <= states /\ thread[w] \in Thread
    BY DEF IInv, TypeOK, Thread, ThreadsSound, SoundIn
  <2>2. ProcessOf[w] \in Process /\ None \notin Process
    BY SignInAssumption
  <2>3. (s \in PendingIn(w) \/ given[s].until < clock) \/ given[s].by # ProcessOf[w]
    BY <2>1, <2>2 DEF IInv, StatesSound, PendingIn
  <2>4. CASE \E p \in Process : Exit(p)
    <3>1. PICK p \in Process : Exit(p)
      BY <2>4
    <3>2. p = ProcessOf[w]
      BY <3>1 DEF Exit, IInv, TypeOK
    <3>3. given'[s].by # ProcessOf[w]
      BY <2>1, <2>2, <3>1, <3>2 DEF Exit, IInv, TypeOK, PendingState
    <3> QED
      BY <3>3
  <2>5. CASE CheckState(w)
    <3>1. thread \in [Worker -> Thread]
      BY DEF IInv, TypeOK
    <3>2. given' = given /\ given'[s].by = ProcessOf[w]
      BY <2>5 DEF CheckState
    <3>3. s \notin PendingIn(w)
      <4>1. SUFFICES ASSUME s \in PendingIn(w) PROVE thread'[w].pc = "redeem"
        OBVIOUS
      <4>2. thread' = [thread EXCEPT ![w].pc = "redeem"]
        BY <2>5, <4>1 DEF CheckState, Goto
      <4> QED
        BY <3>1, <4>2
    <3> QED
      BY <2>3, <3>2, <3>3
  <2>6. ~(thread'[w] = thread[w])
    OBVIOUS
  <2>7. \E p \in Process : Exit(p) \/ CheckState(w)
    <3>1. ASSUME NEW v \in Worker, Login(v) PROVE FALSE
      BY <2>6, <3>1 DEF Login, StartCleanup, IInv, TypeOK
    <3>2. ASSUME NEW v \in Worker, NEW x \in State, Callback(v, x) PROVE FALSE
      BY <2>6, <3>2 DEF Callback, StartCleanup, IInv, TypeOK
    <3>3. ASSUME NEW v \in Worker, Step(v) PROVE CheckState(w)
      <4>1. v = w
        BY <2>6, <3>3 DEF Step, CleanupDelete, IssueState, CheckState, RedeemState, Exchange,
           ExchangeFails, StoreUser, CreateSession, MigrateCommit, Goto, Return, IInv, TypeOK
      <4> QED
        BY <3>3, <4>1 DEF Step, CleanupDelete, IssueState, RedeemState, Exchange,
           ExchangeFails, StoreUser, CreateSession, MigrateCommit
    <3>4. ASSUME NEW v \in Worker, NEW x \in sessions, NEW n \in Profile, MigrateGuest(v, x, n)
          PROVE  FALSE
      BY <2>6, <3>4 DEF MigrateGuest, IInv, TypeOK
    <3>5. ASSUME NEW x \in sessions, Authenticate(x) \/ Logout(x) PROVE FALSE
      BY <2>6, <3>5 DEF Authenticate, Logout
    <3>6. ~Tick /\ ~UNCHANGED vars
      BY <2>6 DEF Tick, vars
    <3> QED
      BY <2>2, <3>1, <3>2, <3>3, <3>4, <3>5, <3>6 DEF Next
  <2> QED
    BY <2>4, <2>5, <2>7
<1>2. IInv /\ [Next]_vars =>
         [\A w \in Worker :
            (/\ thread[w].pc = "cleanup" /\ thread[w].expired = {} /\ thread[w].state # None
             /\ thread'[w].pc = "idle") =>
            LET s == thread[w].state
            IN redeemed[s] > 0 \/ given'[s].by # ProcessOf[w] \/ given[s].until < clock]_vars
  BY <1>1
<1> QED
  BY <1>2, InvHolds, PTL DEF Spec, RefusedForAReason

=============================================================================
