--------------------------- MODULE WorkspaceProofs ---------------------------
(***************************************************************************)
(* Theorems about Workspace, for any number of threads and NGOs, whatever  *)
(* the requests carry and the websites say, with and without a key in the  *)
(* environment.                                                            *)
(***************************************************************************)
EXTENDS Workspace, FiniteSetTheorems, WellFoundedInduction, TLAPS

(* Induction over the natural numbers, as a fact about sets.               *)
LEMMA Least ==
    ASSUME NEW T, T \subseteq Nat, T # {}
    PROVE  \E m \in T : \A n \in T : m <= n
<1> DEFINE R == OpToRel(<, Nat)
<1>1. IsWellFoundedOn(R, Nat)
  BY NatLessThanWellFounded
<1> HIDE DEF R
<1>2. PICK x \in T : \A y \in T : ~ (<<y, x>> \in R)
  BY <1>1, WFMin
<1>3. \A y \in T : ~ (y < x)
  BY <1>2 DEF R, OpToRel
<1> QED
  BY <1>3

-----------------------------------------------------------------------------
(* Merging two lists.                                                      *)

Increasing(order, n) == \A i, j \in 1..n : i < j => order[i] < order[j]

(* The members of a finite set of positions can be taken in their order:   *)
(* the least one, then the others.                                         *)
LEMMA OrderExists ==
    ASSUME NEW S \in SUBSET Nat, IsFiniteSet(S)
    PROVE  \E order \in [1..Cardinality(S) -> S] : Increasing(order, Cardinality(S))
<1> DEFINE Ordered(T) == \E order \in [1..Cardinality(T) -> T] : Increasing(order, Cardinality(T))
           Bad == {n \in Nat : \E T \in SUBSET Nat : /\ IsFiniteSet(T) /\ Cardinality(T) = n
                                                     /\ ~Ordered(T)}
<1> SUFFICES ASSUME Bad # {} PROVE FALSE
  <2>1. Cardinality(S) \in Nat
    BY FS_CardinalityType
  <2> QED
    BY <2>1
<1>1. PICK m \in Bad : \A n \in Bad : m <= n
  <2> HIDE DEF Bad
  <2>1. Bad \subseteq Nat
    BY DEF Bad
  <2> QED
    BY <2>1, Least
<1>2. PICK T \in SUBSET Nat : IsFiniteSet(T) /\ Cardinality(T) = m /\ ~Ordered(T)
  BY <1>1
<1>3. CASE m = 0
  <2>1. T = {}
    BY <1>2, <1>3, FS_EmptySet
  <2> DEFINE order == [i \in 1..0 |-> 0]
  <2>2. order \in [1..0 -> T] /\ Increasing(order, 0)
    BY DEF Increasing
  <2> QED
    BY <1>2, <1>3, <2>2
<1>4. CASE m # 0
  <2>1. T # {}
    BY <1>2, <1>4, FS_EmptySet
  <2>2. PICK x \in T : \A y \in T : x <= y
    BY <2>1, Least
  <2> DEFINE U == T \ {x}
  <2>3. U \in SUBSET Nat /\ IsFiniteSet(U) /\ Cardinality(U) = m - 1
    BY <1>2, <2>2, FS_RemoveElement
  <2>4. m - 1 \in Nat /\ m \in Nat /\ m - 1 \notin Bad
    BY <1>1, <1>4
  <2>5. Ordered(U)
    BY <2>3, <2>4
  <2>6. PICK g \in [1..(m - 1) -> U] : Increasing(g, m - 1)
    BY <2>3, <2>5
  <2> DEFINE order == [k \in 1..m |-> IF k = 1 THEN x ELSE g[k - 1]]
  <2>7. \A k \in 1..m : k # 1 => k - 1 \in 1..(m - 1) /\ g[k - 1] \in U
    BY <2>4, <2>6
  <2>8. order \in [1..m -> T]
    BY <2>2, <2>7
  <2>9. Increasing(order, m)
    <3> SUFFICES ASSUME NEW i \in 1..m, NEW j \in 1..m, i < j
                 PROVE  order[i] < order[j]
      BY DEF Increasing
    <3>1. j # 1 /\ order[j] = g[j - 1] /\ g[j - 1] \in U
      BY <2>7
    <3>2. CASE i = 1
      <4>1. order[i] = x /\ x <= g[j - 1] /\ x # g[j - 1]
        BY <2>2, <3>1, <3>2
      <4> HIDE DEF order, U
      <4>2. x \in Nat /\ g[j - 1] \in Nat
        BY <2>3, <3>1
      <4> QED
        BY <3>1, <4>1, <4>2
    <3>3. CASE i # 1
      <4>1. order[i] = g[i - 1] /\ i - 1 \in 1..(m - 1) /\ j - 1 \in 1..(m - 1) /\ i - 1 < j - 1
        BY <2>4, <2>7, <3>1, <3>3
      <4> QED
        BY <2>6, <3>1, <4>1 DEF Increasing
    <3> QED
      BY <3>2, <3>3
  <2> QED
    BY <1>2, <2>8, <2>9
<1> QED
  BY <1>3, <1>4

LEMMA InOrderFacts ==
    ASSUME NEW S \in SUBSET Nat, IsFiniteSet(S)
    PROVE  /\ InOrder(S) \in [1..Cardinality(S) -> S]
           /\ Increasing(InOrder(S), Cardinality(S))
           /\ Cardinality(S) \in Nat
  BY OrderExists, FS_CardinalityType DEF InOrder, Increasing

(* _merge keeps the list and its order, and the entries it appends are     *)
(* spelt like none of the list and like no other it appends.               *)
LEMMA MergeFacts ==
    ASSUME NEW S, NEW existing \in Seq(S), NEW new \in Seq(S)
    PROVE  /\ Merge(existing, new) \in Seq(S)
           /\ Len(existing) <= Len(Merge(existing, new))
           /\ \A i \in 1..Len(existing) : Merge(existing, new)[i] = existing[i]
           /\ \A i, j \in DOMAIN Merge(existing, new) :
                 (i < j /\ Lower(Merge(existing, new)[i]) = Lower(Merge(existing, new)[j])) =>
                     j <= Len(existing)
<1> DEFINE F == Fresh(existing, new)
           order == InOrder(F)
           c == Cardinality(F)
           n == Len(existing)
           tail == [k \in DOMAIN order |-> new[order[k]]]
           M == Merge(existing, new)
<1>1. F \subseteq 1..Len(new) /\ F \in SUBSET Nat
  BY DEF Fresh
<1>2. IsFiniteSet(F)
  BY <1>1, FS_Interval, FS_Subset
<1>3. order \in [1..c -> F] /\ Increasing(order, c) /\ c \in Nat
  BY <1>1, <1>2, InOrderFacts
<1>4. n \in Nat /\ DOMAIN existing = 1..n /\ \A i \in 1..n : existing[i] \in S
  OBVIOUS
<1>5. \A k \in 1..c : order[k] \in F /\ order[k] \in DOMAIN new /\ new[order[k]] \in S
  BY <1>1, <1>3
<1>6. /\ \A k \in 1..c : \A j \in 1..n : Lower(existing[j]) # Lower(new[order[k]])
      /\ \A k, l \in 1..c : k < l => Lower(new[order[k]]) # Lower(new[order[l]])
  <2>1. ASSUME NEW i \in F
        PROVE  /\ \A j \in 1..n : Lower(existing[j]) # Lower(new[i])
               /\ \A j \in 1..(i - 1) : Lower(new[j]) # Lower(new[i])
    BY <1>4 DEF Fresh
  <2>2. ASSUME NEW k \in 1..c, NEW l \in 1..c, k < l
        PROVE  Lower(new[order[k]]) # Lower(new[order[l]])
    <3>1. order[k] < order[l]
      BY <1>3, <2>2 DEF Increasing
    <3> DEFINE a == order[k]
               b == order[l]
    <3>2. a \in F /\ b \in F /\ a \in 1..Len(new) /\ b \in 1..Len(new) /\ a < b
      BY <1>1, <1>5, <3>1
    <3> HIDE DEF a, b, F, order
    <3>3. a \in 1..(b - 1)
      BY <3>2
    <3>4. Lower(new[a]) # Lower(new[b])
      BY <2>1, <3>2, <3>3
    <3> QED
      BY <3>4 DEF a, b
  <2> QED
    BY <1>5, <2>1, <2>2
<1>7. M = existing \o tail
  BY DEF Merge
<1> HIDE DEF F, order, M, n, c
<1>8. /\ tail \in Seq(S) /\ Len(tail) = c
      /\ \A k \in 1..c : tail[k] = new[order[k]]
  <2>1. tail = [k \in 1..c |-> new[order[k]]]
    BY <1>3
  <2> QED
    BY <1>3, <1>5, <2>1
<1> HIDE DEF tail
<1>9. /\ M \in Seq(S) /\ Len(M) = n + c /\ DOMAIN M = 1..(n + c)
      /\ \A i \in 1..n : M[i] = existing[i]
      /\ \A i \in (n + 1)..(n + c) : i - n \in 1..c /\ M[i] = new[order[i - n]]
  <2>1. M \in Seq(S) /\ Len(M) = n + c /\ DOMAIN M = 1..(n + c)
    <3>1. /\ existing \o tail \in Seq(S)
          /\ Len(existing \o tail) = Len(existing) + Len(tail)
      BY <1>8, SMTT(30)
    <3>2. \A s \in Seq(S) : DOMAIN s = 1..Len(s)
      OBVIOUS
    <3> QED
      BY <1>7, <1>8, <3>1, <3>2 DEF n
  <2>2. \A i \in 1..n : M[i] = existing[i]
    BY <1>3, <1>4, <1>7, <1>8 DEF n
  <2>3. ASSUME NEW i \in (n + 1)..(n + c) PROVE i - n \in 1..c /\ M[i] = new[order[i - n]]
    <3>1. i - n \in 1..c
      BY <1>3, <1>4, <2>3
    <3>2. M[i] = tail[i - n]
      BY <1>3, <1>4, <1>7, <1>8, <2>3 DEF n
    <3> QED
      BY <1>8, <3>1, <3>2
  <2> QED
    BY <2>1, <2>2, <2>3
<1>10. ASSUME NEW i \in 1..(n + c), NEW j \in 1..(n + c), i < j, Lower(M[i]) = Lower(M[j])
       PROVE  j <= n
  <2> SUFFICES ASSUME j > n PROVE FALSE
    BY <1>3, <1>4
  <2> DEFINE l == j - n
  <2>1. l \in 1..c /\ M[j] = new[order[l]]
    BY <1>3, <1>4, <1>9
  <2>2. CASE i <= n
    <3>1. i \in 1..n /\ M[i] = existing[i]
      BY <1>3, <1>4, <1>9, <2>2
    <3> HIDE DEF l
    <3> QED
      BY <1>6, <1>10, <2>1, <3>1
  <2>3. CASE i > n
    <3> DEFINE k == i - n
    <3>1. k \in 1..c /\ M[i] = new[order[k]] /\ k < l
      BY <1>3, <1>4, <1>9, <1>10, <2>3
    <3> HIDE DEF k, l
    <3> QED
      BY <1>6, <1>10, <2>1, <3>1
  <2> QED
    BY <1>4, <2>2, <2>3
<1>11. /\ M \in Seq(S) /\ n <= Len(M) /\ \A i \in 1..n : M[i] = existing[i]
       /\ \A i, j \in DOMAIN M : (i < j /\ Lower(M[i]) = Lower(M[j])) => j <= n
  BY <1>3, <1>4, <1>9, <1>10
<1> QED
  BY <1>11 DEF M, n

(* A list that was merged holds what it held, and no second spelling that  *)
(* it did not.                                                             *)
ListKept(loaded, new) ==
    /\ Entries(loaded) \subseteq Entries(new)
    /\ \A i, j \in DOMAIN new : i < j /\ Lower(new[i]) = Lower(new[j]) => j <= Len(loaded)

LEMMA MergeKeeps ==
    ASSUME NEW S, NEW existing \in Seq(S), NEW new \in Seq(S)
    PROVE  Merge(existing, new) \in Seq(S) /\ ListKept(existing, Merge(existing, new))
<1> DEFINE M == Merge(existing, new)
           n == Len(existing)
<1>1. /\ M \in Seq(S) /\ n <= Len(M) /\ \A i \in 1..n : M[i] = existing[i]
      /\ \A i, j \in DOMAIN M : (i < j /\ Lower(M[i]) = Lower(M[j])) => j <= n
  BY MergeFacts
<1> HIDE DEF M
<1>2. Entries(existing) \subseteq Entries(M)
  BY <1>1 DEF Entries
<1>3. M \in Seq(S) /\ ListKept(existing, M)
  BY <1>1, <1>2 DEF ListKept
<1> QED
  BY <1>3 DEF M

-----------------------------------------------------------------------------
(* What an UPDATE that names the changed columns leaves of a row.          *)

LEMMA WrittenProfile ==
    ASSUME NEW now \in NGOProfile, NEW loaded \in NGOProfile, NEW new \in NGOProfile
    PROVE  /\ Written(now, loaded, new) \in NGOProfile
           /\ \A f \in Field : Written(now, loaded, new)[f] =
                                   IF new[f] = loaded[f] THEN now[f] ELSE new[f]
  BY DEF Written, NGOProfile, Field

LEMMA WrittenConfig ==
    ASSUME NEW now \in AIProviderConfig, NEW loaded \in AIProviderConfig,
           NEW new \in AIProviderConfig
    PROVE  /\ Written(now, loaded, new) \in AIProviderConfig
           /\ Written(now, loaded, new).api_key =
                  IF new.api_key = loaded.api_key THEN now.api_key ELSE new.api_key
           /\ Written(now, loaded, new).last_test_status =
                  IF new.last_test_status = loaded.last_test_status THEN now.last_test_status
                  ELSE new.last_test_status
<1> DEFINE r == Written(now, loaded, new)
<1>1. /\ DOMAIN now = {"api_key", "is_enabled", "last_test_status", "last_test_message",
                       "last_tested_at"}
      /\ r = [c \in DOMAIN now |-> IF new[c] = loaded[c] THEN now[c] ELSE new[c]]
  BY DEF Written, AIProviderConfig
<1>2. r \in AIProviderConfig
  BY <1>1 DEF AIProviderConfig
<1>3. r["api_key"] = IF new["api_key"] = loaded["api_key"] THEN now["api_key"] ELSE new["api_key"]
  BY <1>1
<1>4. r["last_test_status"] = IF new["last_test_status"] = loaded["last_test_status"]
                              THEN now["last_test_status"] ELSE new["last_test_status"]
  BY <1>1
<1> QED
  BY <1>2, <1>3, <1>4

LEMMA WrittenSaved ==
    ASSUME NEW now \in SavedOpportunity, NEW loaded \in SavedOpportunity,
           NEW new \in SavedOpportunity
    PROVE  /\ Written(now, loaded, new) \in SavedOpportunity
           /\ Written(now, loaded, new).ngo = IF new.ngo = loaded.ngo THEN now.ngo ELSE new.ngo
           /\ Written(now, loaded, new).source =
                  IF new.source = loaded.source THEN now.source ELSE new.source
           /\ Written(now, loaded, new).ref = IF new.ref = loaded.ref THEN now.ref ELSE new.ref
           /\ Written(now, loaded, new).status =
                  IF new.status = loaded.status THEN now.status ELSE new.status
<1> DEFINE r == Written(now, loaded, new)
<1>1. /\ DOMAIN now = {"ngo", "source", "ref", "status", "notes"}
      /\ r = [c \in DOMAIN now |-> IF new[c] = loaded[c] THEN now[c] ELSE new[c]]
  BY DEF Written, SavedOpportunity
<1>2. r \in SavedOpportunity
  BY <1>1 DEF SavedOpportunity
<1>3. \A c \in {"ngo", "source", "ref", "status"} :
         r[c] = IF new[c] = loaded[c] THEN now[c] ELSE new[c]
  BY <1>1
<1> QED
  BY <1>2, <1>3

-----------------------------------------------------------------------------
(* The requests a thread may be in.                                        *)

MaybeConfig == AIProviderConfig \cup {None}

IdleThread == [pc : {"idle"}]

AIRequest ==
    [op : {"put", "patch", "delete", "test"},
     pc : {"crypt", "make", "use", "patch", "write", "delete"}, ngo : Ngo,
     loaded : MaybeConfig, new : MaybeConfig,
     api_key : ApiKey \cup {None}, is_enabled : BOOLEAN \cup {None}]

Analysis == [op : {"analyze"}, pc : {"crypt", "make", "use", "analyze"}, ngo : Ngo,
             url : DOMAIN Site, loaded : MaybeConfig, provider : BOOLEAN]

Creation == [pc : {"create"}, ngo : Ngo, new : NGOProfile]

Replacement == [pc : {"update"}, ngo : Ngo, loaded : NGOProfile, new : NGOProfile]

Application == [pc : {"apply"}, ngo : Ngo, analysis : Nat, loaded : NGOProfile, new : NGOProfile]

Saving == [pc : {"save"}, row : SavedOpportunity]

Editing == [pc : {"edit"}, id : Nat, loaded : SavedOpportunity, status : Status \cup {None},
            new : SavedOpportunity]

Removing == [pc : {"remove", "unhide"}, id : Nat]

Hiding == [pc : {"hide"}, row : OpportunityFeedback]

Thread == IdleThread \cup AIRequest \cup Analysis \cup Creation \cup Replacement
              \cup Application \cup Saving \cup Editing \cup Removing \cup Hiding

(* The step a thread is at tells its request. *)
LEMMA Kinds ==
    ASSUME NEW t \in Thread
    PROVE  /\ t.pc \in {"patch", "write", "delete"} => t \in AIRequest
           /\ t.pc \in {"crypt", "make", "use"} => t \in AIRequest \/ t \in Analysis
           /\ t.pc = "analyze" => t \in Analysis
           /\ t.pc = "create" => t \in Creation
           /\ t.pc = "update" => t \in Replacement
           /\ t.pc = "apply" => t \in Application
           /\ t.pc = "save" => t \in Saving
           /\ t.pc = "edit" => t \in Editing
           /\ t.pc \in {"remove", "unhide"} => t \in Removing
           /\ t.pc = "hide" => t \in Hiding
  BY DEF Thread, IdleThread, AIRequest, Analysis, Creation, Replacement, Application,
         Saving, Editing, Removing, Hiding

(* What a request to configure the provider holds.  It writes a row that   *)
(* is untested, the result of a test of the key it loaded, or the key and  *)
(* the result that it loaded.                                              *)
AIRequestOK(t) ==
    /\ t.op = "put" => t.api_key \in ApiKey /\ t.is_enabled \in BOOLEAN
    /\ t.op \in {"patch", "test"} => t.loaded # None
    /\ t.op = "patch" /\ t.pc \in {"crypt", "make", "use"} => t.api_key \in ApiKey
    /\ t.op = "delete" => t.pc = "delete"
    /\ t.pc = "patch" => t.op = "patch" /\ t.api_key = None
    /\ t.pc # "write" => t.new = t.loaded
    /\ t.pc = "write" => t.new # None
    /\ t.pc = "write" =>
           \/ t.new.last_test_status = "untested"
           \/ /\ t.loaded # None /\ t.new.api_key = t.loaded.api_key
              /\ t.op = "test" \/ t.new.last_test_status = t.loaded.last_test_status

(* The keys that exist so far. *)
MadeKeys ==
    IF EnvKey = TRUE THEN {FromEnvironment}
    ELSE {key \in Key : key.maker \in Process /\ 1 <= key.number /\ key.number <= keys[key.maker]}

(* The key of the process that runs a thread. *)
Held(w) == fernet[Home(w)]

(* What the request t of a thread holds while its process has the key f,   *)
(* k are the keys that exist, and the tables are p, s, b and a.  It loaded *)
(* rows that no other request deletes, and it never holds a cipher under a *)
(* key that does not exist.                                                *)
ThreadOK(t, f, k, p, s, b, a) ==
    /\ t.pc = "use" => f # None
    /\ t \in AIRequest =>
           /\ AIRequestOK(t)
           /\ t.loaded # None => t.loaded.api_key.under \in k
           /\ t.new # None => t.new.api_key.under \in k
    /\ t \in Analysis \cup Replacement \cup Application => p[t.ngo] # None
    /\ t.pc \in {"edit", "remove"} => t.id \in DOMAIN s
    /\ t.pc = "edit" => /\ t.new.ngo = t.loaded.ngo /\ t.new.source = t.loaded.source
                        /\ t.new.ref = t.loaded.ref
                        /\ t.new.status \in {t.loaded.status, t.status}
    /\ t.pc = "unhide" => t.id \in DOMAIN b
    /\ t.pc = "apply" =>
           /\ t.analysis \in DOMAIN a
           /\ \A c \in Field : t.new[c] = t.loaded[c] \/ ListKept(t.loaded[c], t.new[c])

ThreadsOK ==
    /\ thread \in [Worker -> Thread]
    /\ \A w \in Worker : ThreadOK(thread[w], Held(w), MadeKeys, profile, saved, feedback, analyses)

(* A process holds the key it made last, and the only one it made since it *)
(* started unless two first uses overlapped.                               *)
ProcessOK(p) ==
    /\ born[p] <= keys[p]
    /\ EnvKey = TRUE => fernet[p] \in {FromEnvironment, None}
    /\ EnvKey = FALSE => \/ fernet[p] = None
                         \/ fernet[p] = Generated(p, keys[p]) /\ 1 <= keys[p]
    /\ EnvKey = FALSE /\ raced[p] = FALSE =>
           /\ fernet[p] = None => keys[p] = born[p]
           /\ fernet[p] # None => /\ keys[p] = born[p] + 1
                                  /\ \A w \in Worker : Home(w) = p => thread[w].pc # "make"

KeysOK ==
    /\ deployment \in Deployments
    /\ keys \in [Process -> Nat] /\ born \in [Process -> Nat]
    /\ raced \in [Process -> BOOLEAN]
    /\ \A n \in Ngo : config[n] # None => config[n].api_key.under \in MadeKeys
    /\ \A p \in Process : ProcessOK(p)

(* An analysis is of an NGO that has a profile. *)
Analysed == \A a \in DOMAIN analyses : profile[analyses[a].ngo] # None

Targets == OneRowPerTarget /\ RemovedStaysRemoved

IInv == TypeOK /\ ThreadsOK /\ KeysOK /\ Analysed /\ Targets

-----------------------------------------------------------------------------
(* How a step moves a thread.                                              *)

(* Rows are not deleted from profiles, keys are not forgotten while a      *)
(* request runs, and the ids of the other tables are not reused.           *)
Grown ==
    /\ \A w \in Worker : Held(w) # None => Held(w)' # None
    /\ MadeKeys \subseteq MadeKeys'
    /\ \A n \in Ngo : profile[n] # None => profile'[n] # None
    /\ DOMAIN saved \subseteq DOMAIN saved' /\ DOMAIN feedback \subseteq DOMAIN feedback'
    /\ DOMAIN analyses \subseteq DOMAIN analyses'

(* What a thread holds stays as it should be while others take steps.      *)
LEMMA ThreadGrown ==
    ASSUME Grown, NEW w \in Worker, NEW t \in Thread,
           ThreadOK(t, Held(w), MadeKeys, profile, saved, feedback, analyses)
    PROVE  ThreadOK(t, Held(w)', MadeKeys', profile', saved', feedback', analyses')
<1>1. Held(w) # None => Held(w)' # None
  BY DEF Grown
<1>2. t \in AIRequest =>
         /\ t.loaded # None => t.loaded.api_key.under \in MadeKeys'
         /\ t.new # None => t.new.api_key.under \in MadeKeys'
  BY DEF ThreadOK, Grown
<1>3. t \in Analysis \cup Replacement \cup Application => t.ngo \in Ngo
  BY DEF Analysis, Replacement, Application
<1> QED
  BY <1>1, <1>2, <1>3 DEF ThreadOK, Grown

LEMMA ThreadMoves ==
    ASSUME ThreadsOK, Grown, NEW w \in Worker, NEW r \in Thread,
           thread' = [thread EXCEPT ![w] = r],
           ThreadOK(r, Held(w)', MadeKeys', profile', saved', feedback', analyses')
    PROVE  /\ ThreadsOK'
           /\ thread'[w] = r
           /\ \A v \in Worker \ {w} : thread'[v] = thread[v]
<1>1. /\ thread' \in [Worker -> Thread]
      /\ thread'[w] = r
      /\ \A v \in Worker \ {w} : thread'[v] = thread[v]
  BY DEF ThreadsOK
<1>2. ASSUME NEW v \in Worker
      PROVE  ThreadOK(thread'[v], Held(v)', MadeKeys', profile', saved', feedback', analyses')
  <2>1. CASE v = w
    BY <1>1, <2>1
  <2>2. CASE v # w
    BY <1>1, <2>2, ThreadGrown DEF ThreadsOK
  <2> QED
    BY <2>1, <2>2
<1> QED
  BY <1>1, <1>2 DEF ThreadsOK

LEMMA IdleOK ==
    /\ Idle \in Thread /\ Idle.pc = "idle"
    /\ \A f, k, p, s, b, a : ThreadOK(Idle, f, k, p, s, b, a)
<1>1. Idle \in IdleThread /\ Idle.pc = "idle"
  BY DEF Idle, IdleThread
<1>2. Idle \notin AIRequest \cup Analysis \cup Replacement \cup Application
  BY <1>1 DEF AIRequest, Analysis, Replacement, Application
<1> QED
  BY <1>1, <1>2 DEF Thread, ThreadOK

(* A request ends. *)
LEMMA EndMoves ==
    ASSUME ThreadsOK, Grown, NEW w \in Worker, End(w)
    PROVE  /\ ThreadsOK'
           /\ thread'[w].pc = "idle"
           /\ \A v \in Worker \ {w} : thread'[v] = thread[v]
<1>1. thread' = [thread EXCEPT ![w] = Idle]
  BY DEF End, Continue
<1> QED
  BY <1>1, IdleOK, ThreadMoves

LEMMA HomeFacts ==
    ASSUME KeysOK
    PROVE  EnvKey \in BOOLEAN /\ \A w \in Worker : Home(w) \in Process
  BY WorkspaceAssumption DEF KeysOK, EnvKey, Home

(* The keys are as they were, and nobody else is about to make one. *)
LEMMA KeysKept ==
    ASSUME KeysOK, NEW w \in Worker, UNCHANGED keyVars,
           \A n \in Ngo : config'[n] # None => config'[n].api_key.under \in MadeKeys,
           thread'[w].pc = "make" => Held(w) = None,
           \A v \in Worker \ {w} : thread'[v] = thread[v]
    PROVE  KeysOK'
<1>1. /\ deployment' = deployment /\ keys' = keys /\ born' = born /\ raced' = raced
      /\ fernet' = fernet /\ EnvKey' = EnvKey /\ MadeKeys' = MadeKeys
      /\ \A v \in Worker : Home(v)' = Home(v)
  BY DEF keyVars, EnvKey, MadeKeys, Home
<1>2. ASSUME NEW p \in Process PROVE ProcessOK(p)'
  <2>1. ProcessOK(p)
    BY DEF KeysOK
  <2>2. ASSUME fernet[p] # None, NEW v \in Worker, Home(v) = p, thread[v].pc # "make"
        PROVE  thread'[v].pc # "make"
    BY <2>2 DEF Held
  <2> QED
    BY <1>1, <2>1, <2>2 DEF ProcessOK
<1> QED
  BY <1>1, <1>2 DEF KeysOK

LEMMA KeysSame ==
    ASSUME UNCHANGED keyVars
    PROVE  MadeKeys' = MadeKeys /\ \A v \in Worker : Held(v)' = Held(v)
  BY DEF keyVars, MadeKeys, Held, EnvKey, Home

Tables == <<profile, aiVars, analyses, bookmarkVars>>

(* A step that changes one thread and no table. *)
LEMMA OnlyThread ==
    ASSUME IInv, NEW w \in Worker, NEW r \in Thread, thread' = [thread EXCEPT ![w] = r],
           UNCHANGED Tables,
           ThreadOK(r, Held(w), MadeKeys, profile, saved, feedback, analyses),
           r.pc = "make" => Held(w) = None
    PROVE  IInv'
<1>1. /\ profile' = profile /\ config' = config /\ fernet' = fernet /\ UNCHANGED keyVars
      /\ analyses' = analyses /\ saved' = saved
      /\ feedback' = feedback /\ removed' = removed
      /\ MadeKeys' = MadeKeys /\ \A v \in Worker : Held(v)' = Held(v)
  BY KeysSame DEF Tables, aiVars, keyVars, bookmarkVars
<1>2. Grown
  BY <1>1 DEF Grown
<1>3. /\ ThreadsOK' /\ thread'[w] = r
      /\ \A v \in Worker \ {w} : thread'[v] = thread[v]
  BY <1>1, <1>2, ThreadMoves DEF IInv
<1>4. KeysOK'
  BY <1>1, <1>3, KeysKept DEF IInv, KeysOK
<1> QED
  BY <1>1, <1>3, <1>4 DEF IInv, TypeOK, Analysed, Targets, OneRowPerTarget,
     RemovedStaysRemoved, Rows, SameTarget

(* What a thread holds, of the conjuncts of the invariant. *)
LEMMA ThreadFacts ==
    ASSUME IInv, NEW w \in Worker
    PROVE  /\ thread[w] \in Thread
           /\ ThreadOK(thread[w], Held(w), MadeKeys, profile, saved, feedback, analyses)
  BY DEF IInv, ThreadsOK

-----------------------------------------------------------------------------
(* The initial state.                                                      *)
LEMMA InitInv == Init => IInv
<1> SUFFICES ASSUME Init PROVE IInv
  OBVIOUS
<1> USE DEF Init, AIConfigInit, NgoProfilesInit, BookmarksInit
<1>1. TypeOK
  BY WorkspaceAssumption DEF TypeOK
<1>2. ThreadsOK
  BY IdleOK DEF ThreadsOK
<1>3. KeysOK
  <2>1. /\ \A p \in Process : raced[p] = FALSE /\ fernet[p] = None /\ keys[p] = 0 /\ born[p] = 0
        /\ deployment \in Deployments
        /\ keys \in [Process -> Nat] /\ born \in [Process -> Nat]
    OBVIOUS
  <2>2. raced \in [Process -> BOOLEAN]
    BY Zenon
  <2>3. \A n \in Ngo : config[n] = None
    OBVIOUS
  <2>4. \A p \in Process : ProcessOK(p)
    BY <2>1 DEF ProcessOK
  <2> QED
    BY <2>1, <2>2, <2>3, <2>4, Zenon DEF KeysOK
<1>4. Analysed /\ Targets
  BY DEF Analysed, Targets, OneRowPerTarget, RemovedStaysRemoved, Rows
<1> QED
  BY <1>1, <1>2, <1>3, <1>4 DEF IInv

-----------------------------------------------------------------------------
(* The steps of the provider's configuration that change one thread.       *)

(* A request, before and after it has loaded its row. *)
Asked == [op : {"put", "patch", "delete", "test"}, pc : {"crypt", "patch", "delete"},
          ngo : Ngo \cup {None}, loaded : MaybeConfig, new : MaybeConfig,
          api_key : ApiKey \cup {None}, is_enabled : BOOLEAN \cup {None}]

LEMMA RequestAsked ==
    ASSUME NEW op \in {"put", "patch", "delete", "test"}, NEW pc \in {"crypt", "patch", "delete"}
    PROVE  Request(op, pc) \in Asked /\ Request(op, pc).op = op /\ Request(op, pc).pc = pc
  BY DEF Request, Asked, MaybeConfig

LEMMA LoadStep ==
    ASSUME IInv, NEW w \in Worker, NEW n \in Ngo, NEW q \in Asked,
           q.op = "put" => q.api_key \in ApiKey /\ q.is_enabled \in BOOLEAN,
           q.op \in {"patch", "test"} => config[n] # None,
           q.op = "patch" /\ q.pc = "crypt" => q.api_key \in ApiKey,
           q.op = "delete" => q.pc = "delete",
           q.pc = "patch" => q.op = "patch" /\ q.api_key = None,
           Load(w, n, q), UNCHANGED <<analyses, bookmarkVars>>
    PROVE  IInv'
<1> DEFINE r == [q EXCEPT !.ngo = n, !.loaded = config[n], !.new = config[n]]
<1>1. config[n] \in MaybeConfig
  BY DEF IInv, TypeOK, MaybeConfig
<1>2. /\ r \in AIRequest
      /\ r.op = q.op /\ r.pc = q.pc /\ r.loaded = config[n] /\ r.new = config[n]
      /\ r.api_key = q.api_key /\ r.is_enabled = q.is_enabled
  BY <1>1 DEF Asked, AIRequest
<1>3. thread' = [thread EXCEPT ![w] = r] /\ UNCHANGED Tables
  BY DEF Load, Begin, Tables
<1>4. q.pc \in {"crypt", "patch", "delete"}
  BY DEF Asked
<1> HIDE DEF r
<1>5. r \in Thread /\ r \notin Analysis \cup Replacement \cup Application
  BY <1>2 DEF Thread, AIRequest, Analysis, Replacement, Application
<1>6. config[n] # None => config[n].api_key.under \in MadeKeys
  BY DEF IInv, KeysOK
<1>7. AIRequestOK(r)
  BY <1>2, <1>4 DEF AIRequestOK
<1>8. ThreadOK(r, Held(w), MadeKeys, profile, saved, feedback, analyses)
  BY <1>2, <1>4, <1>5, <1>6, <1>7 DEF ThreadOK
<1> QED
  BY <1>2, <1>3, <1>4, <1>5, <1>8, OnlyThread

LEMMA SetStep ==
    ASSUME IInv, NEW w \in Worker, NEW n \in Ngo, NEW k \in ApiKey, NEW e \in BOOLEAN,
           SetAIConfig(w, n, k, e), UNCHANGED <<analyses, bookmarkVars>>
    PROVE  IInv'
<1> DEFINE q == [Request("put", "crypt") EXCEPT !.api_key = k, !.is_enabled = e]
<1> DEFINE q0 == Request("put", "crypt")
<1>0. q0 \in Asked /\ q0.op = "put" /\ q0.pc = "crypt"
  BY RequestAsked
<1>1. /\ q \in Asked /\ q.op = "put" /\ q.pc = "crypt" /\ q.api_key = k /\ q.is_enabled = e
  <2>1. q = [q0 EXCEPT !.api_key = k, !.is_enabled = e]
    OBVIOUS
  <2> HIDE DEF q, q0
  <2> QED
    BY <1>0, <2>1 DEF Asked
<1>2. Load(w, n, q)
  BY DEF SetAIConfig
<1> HIDE DEF q
<1> QED
  BY <1>1, <1>2, LoadStep

LEMMA UpdateStep ==
    ASSUME IInv, NEW w \in Worker, NEW n \in Ngo, NEW k \in ApiKey \cup {None},
           NEW e \in BOOLEAN \cup {None},
           UpdateAIConfig(w, n, k, e), UNCHANGED <<analyses, bookmarkVars>>
    PROVE  IInv'
<1> DEFINE pc == IF k = None THEN "patch" ELSE "crypt"
           q == [Request("patch", pc) EXCEPT !.api_key = k, !.is_enabled = e]
<1>1. pc \in {"crypt", "patch"} /\ (pc = "patch" => k = None) /\ (pc = "crypt" => k \in ApiKey)
  OBVIOUS
<1>2. Load(w, n, q) /\ config[n] # None
  BY DEF UpdateAIConfig
<1> HIDE DEF pc
<1> DEFINE q0 == Request("patch", pc)
<1>3. q0 \in Asked /\ q0.op = "patch" /\ q0.pc = pc
  BY <1>1, RequestAsked
<1>4. q \in Asked /\ q.op = "patch" /\ q.pc = pc /\ q.api_key = k
  <2>1. q = [q0 EXCEPT !.api_key = k, !.is_enabled = e]
    OBVIOUS
  <2> HIDE DEF q, q0
  <2> QED
    BY <1>3, <2>1 DEF Asked
<1> HIDE DEF q
<1> QED
  BY <1>1, <1>2, <1>4, LoadStep

LEMMA DeleteStep ==
    ASSUME IInv, NEW w \in Worker, NEW n \in Ngo,
           DeleteAIConfig(w, n), UNCHANGED <<analyses, bookmarkVars>>
    PROVE  IInv'
<1> DEFINE q == Request("delete", "delete")
<1>1. q \in Asked /\ q.op = "delete" /\ q.pc = "delete"
  BY RequestAsked
<1>2. Load(w, n, q)
  BY DEF DeleteAIConfig
<1> HIDE DEF q
<1> QED
  BY <1>1, <1>2, LoadStep

LEMMA TestStep ==
    ASSUME IInv, NEW w \in Worker, NEW n \in Ngo,
           TestAIConfig(w, n), UNCHANGED <<analyses, bookmarkVars>>
    PROVE  IInv'
<1> DEFINE q == Request("test", "crypt")
<1>1. q \in Asked /\ q.op = "test" /\ q.pc = "crypt"
  BY RequestAsked
<1>2. Load(w, n, q) /\ config[n] # None
  BY DEF TestAIConfig
<1> HIDE DEF q
<1> QED
  BY <1>1, <1>2, LoadStep

-----------------------------------------------------------------------------
(* The other steps of a provider's configuration that change one thread.   *)

(* The steps at which the kinds of requests are. *)
LEMMA Steps ==
    ASSUME NEW t
    PROVE  /\ t \in AIRequest => t.pc \in {"crypt", "make", "use", "patch", "write", "delete"}
           /\ t \in Analysis => t.pc \in {"crypt", "make", "use", "analyze"}
           /\ t \in Replacement => t.pc = "update"
           /\ t \in Application => t.pc = "apply"
           /\ t \in AIRequest => t.op # "analyze"
           /\ t \in Analysis => t.op = "analyze"
  BY DEF AIRequest, Analysis, Replacement, Application

(* A request gets on to the encryption key. *)
LEMMA Advances ==
    ASSUME NEW t \in Thread, t.pc \in {"crypt", "make"}, NEW pc \in {"make", "use"},
           NEW r, r = [t EXCEPT !.pc = pc], NEW f, NEW k, NEW p, NEW s, NEW b, NEW a,
           ThreadOK(t, f, k, p, s, b, a), pc = "use" => f # None
    PROVE  r \in Thread /\ r.pc = pc /\ ThreadOK(r, f, k, p, s, b, a)
<1>2. t \in AIRequest \/ t \in Analysis
  BY Kinds
<1>3. CASE t \in AIRequest
  <2>1. /\ r \in AIRequest /\ r.pc = pc /\ r.op = t.op /\ r.loaded = t.loaded
        /\ r.new = t.new /\ r.api_key = t.api_key /\ r.is_enabled = t.is_enabled
    BY <1>3 DEF AIRequest
  <2>2. r \notin Analysis \cup Replacement \cup Application
    BY <2>1, Steps
  <2>3. AIRequestOK(r)
    BY <1>3, <2>1 DEF ThreadOK, AIRequestOK
  <2> QED
    BY <1>3, <2>1, <2>2, <2>3 DEF ThreadOK, Thread
<1>4. CASE t \in Analysis
  <2>1. r \in Analysis /\ r.pc = pc /\ r.ngo = t.ngo
    BY <1>4 DEF Analysis
  <2>2. r \notin AIRequest
    BY <2>1, Steps
  <2> QED
    BY <1>4, <2>1, <2>2 DEF ThreadOK, Thread
<1> QED
  BY <1>2, <1>3, <1>4

LEMMA LookStep ==
    ASSUME IInv, NEW w \in Worker, LookForKey(w), UNCHANGED <<analyses, bookmarkVars>>
    PROVE  IInv'
<1> DEFINE t == thread[w]
           pc == IF Held(w) = None THEN "make" ELSE "use"
           r == [t EXCEPT !.pc = pc]
<1>1. t \in Thread /\ t.pc = "crypt" /\ ThreadOK(t, Held(w), MadeKeys, profile, saved, feedback, analyses)
  BY ThreadFacts DEF LookForKey
<1>2. thread' = [thread EXCEPT ![w] = r] /\ UNCHANGED Tables
  BY DEF LookForKey, Continue, Tables, Held
<1>3. /\ pc \in {"make", "use"} /\ (pc = "use" => Held(w) # None) /\ (pc = "make" => Held(w) = None)
  OBVIOUS
<1> HIDE DEF t, pc
<1>4. r \in Thread /\ r.pc = pc /\ ThreadOK(r, Held(w), MadeKeys, profile, saved, feedback, analyses)
  BY <1>1, <1>3, Advances
<1> HIDE DEF r
<1> QED
  BY <1>2, <1>3, <1>4, OnlyThread

(* What a request may write. *)
Writes(t, row) ==
    \/ row.last_test_status = "untested"
    \/ /\ t.loaded # None /\ row.api_key = t.loaded.api_key
       /\ t.op = "test" \/ row.last_test_status = t.loaded.last_test_status

(* A request has its new row, and is about to write it. *)
LEMMA WriteStep ==
    ASSUME IInv, NEW w \in Worker, NEW row \in AIProviderConfig,
           thread[w] \in AIRequest,
           row.api_key.under \in MadeKeys,
           Writes(thread[w], row),
           thread[w].op # "delete",
           thread' = [thread EXCEPT ![w] = [thread[w] EXCEPT !.pc = "write", !.new = row]],
           UNCHANGED Tables
    PROVE  IInv'
<1> DEFINE t == thread[w]
           r == [t EXCEPT !.pc = "write", !.new = row]
<1>1. t \in AIRequest /\ ThreadOK(t, Held(w), MadeKeys, profile, saved, feedback, analyses)
  BY ThreadFacts
<1>2. thread' = [thread EXCEPT ![w] = r]
  OBVIOUS
<1>3. /\ t.op # "delete"
      /\ Writes(t, row)
  OBVIOUS
<1> HIDE DEF t
<1>4. /\ r \in AIRequest /\ r.pc = "write" /\ r.op = t.op /\ r.loaded = t.loaded
      /\ r.new = row /\ r.api_key = t.api_key /\ r.is_enabled = t.is_enabled
  BY <1>1 DEF AIRequest, MaybeConfig
<1> HIDE DEF r
<1>5. r.new # None
  BY <1>4, WorkspaceAssumption
<1>6. AIRequestOK(r)
  BY <1>1, <1>3, <1>4, <1>5 DEF ThreadOK, AIRequestOK, Writes
<1>7. r \notin Analysis \cup Replacement \cup Application
  BY <1>4, Steps
<1>8. r \in Thread /\ ThreadOK(r, Held(w), MadeKeys, profile, saved, feedback, analyses)
  BY <1>1, <1>4, <1>6, <1>7 DEF ThreadOK, Thread
<1> QED
  BY <1>2, <1>4, <1>8, OnlyThread

(* A key is encrypted once the process has its own. *)
LEMMA CipherFacts ==
    ASSUME IInv, calls \in Nat, NEW w \in Worker, Held(w) # None, NEW k \in ApiKey
    PROVE  Cipher(w, k) \in Ciphertext /\ Cipher(w, k).under \in MadeKeys
<1>1. Home(w) \in Process /\ EnvKey \in BOOLEAN
  BY HomeFacts DEF IInv
<1>2. Held(w) \in Key
  BY <1>1 DEF IInv, TypeOK, Held
<1>3. Held(w) \in MadeKeys
  <2>1. ProcessOK(Home(w)) /\ keys[Home(w)] \in Nat
    BY <1>1 DEF IInv, KeysOK
  <2>2. CASE EnvKey = TRUE
    BY <2>1, <2>2 DEF ProcessOK, Held, MadeKeys
  <2>3. CASE EnvKey = FALSE
    <3>1. Held(w) = Generated(Home(w), keys[Home(w)]) /\ 1 <= keys[Home(w)]
      BY <2>1, <2>3 DEF ProcessOK, Held
    <3>2. Held(w).maker = Home(w) /\ Held(w).number = keys[Home(w)]
      BY <3>1 DEF Generated
    <3> QED
      BY <1>1, <1>2, <2>1, <2>3, <3>1, <3>2 DEF MadeKeys
  <2> QED
    BY <1>1, <2>2, <2>3
<1>4. Cipher(w, k) = [under |-> Held(w), text |-> k, nonce |-> <<w, calls>>]
  BY DEF Cipher, Held
<1> QED
  BY <1>2, <1>3, <1>4 DEF Ciphertext

LEMMA PutStep ==
    ASSUME IInv, calls \in Nat, NEW w \in Worker, PutRow(w), UNCHANGED <<analyses, bookmarkVars>>
    PROVE  IInv'
<1> DEFINE t == thread[w]
           c == Cipher(w, t.api_key)
           row == [api_key |-> c, is_enabled |-> t.is_enabled, last_test_status |-> "untested",
                   last_test_message |-> None, last_tested_at |-> FALSE]
<1>1. t \in Thread /\ t.pc = "use" /\ t.op = "put"
      /\ ThreadOK(t, Held(w), MadeKeys, profile, saved, feedback, analyses)
  BY ThreadFacts DEF PutRow
<1>2. thread' = [thread EXCEPT ![w] = [t EXCEPT !.pc = "write", !.new = row]] /\ UNCHANGED Tables
  BY DEF PutRow, Continue, Tables
<1>3. t \in AIRequest
  BY <1>1, Kinds, Steps
<1>4. t.api_key \in ApiKey /\ t.is_enabled \in BOOLEAN /\ Held(w) # None
  BY <1>1, <1>3 DEF ThreadOK, AIRequestOK
<1>5. c \in Ciphertext /\ c.under \in MadeKeys
  BY <1>4, CipherFacts
<1> HIDE DEF t, c
<1>6. row \in AIProviderConfig /\ row.api_key = c /\ row.last_test_status = "untested"
  BY <1>4, <1>5 DEF AIProviderConfig
<1> HIDE DEF row
<1>7. /\ t = thread[w]
      /\ row.api_key.under \in MadeKeys /\ Writes(t, row)
  BY <1>5, <1>6 DEF t, Writes
<1> QED
  BY <1>1, <1>2, <1>3, <1>6, <1>7, WriteStep

LEMMA PatchStep ==
    ASSUME IInv, calls \in Nat, NEW w \in Worker, PatchRow(w), UNCHANGED <<analyses, bookmarkVars>>
    PROVE  IInv'
<1> DEFINE t == thread[w]
           c == Cipher(w, t.api_key)
           e == Enabled(w)
           row == IF t.api_key = None THEN [t.new EXCEPT !.is_enabled = e]
                  ELSE [t.new EXCEPT !.is_enabled = e, !.api_key = c,
                                     !.last_test_status = "untested"]
<1>1. /\ t \in Thread /\ ((t.pc = "use" /\ t.op = "patch") \/ t.pc = "patch")
      /\ ThreadOK(t, Held(w), MadeKeys, profile, saved, feedback, analyses)
  BY ThreadFacts DEF PatchRow
<1>3. t \in AIRequest
  BY <1>1, Kinds, Steps
<1>2. thread' = [thread EXCEPT ![w] = [t EXCEPT !.pc = "write", !.new = row]] /\ UNCHANGED Tables
  BY <1>3 DEF PatchRow, Continue, Tables, AIRequest
<1>4. /\ t.op = "patch" /\ t.new = t.loaded /\ t.loaded # None /\ t.loaded.api_key.under \in MadeKeys
      /\ t.api_key = None \/ (t.api_key \in ApiKey /\ Held(w) # None)
  BY <1>1, <1>3 DEF ThreadOK, AIRequestOK
<1>5. t.new \in AIProviderConfig /\ t.is_enabled \in BOOLEAN \cup {None}
  BY <1>3, <1>4 DEF AIRequest, MaybeConfig
<1>6. t.api_key # None => c \in Ciphertext /\ c.under \in MadeKeys
  BY <1>4, CipherFacts
<1>7. e \in BOOLEAN
  BY <1>4, <1>5 DEF Enabled, AIProviderConfig
<1> HIDE DEF t, c, e
<1>8. /\ row \in AIProviderConfig
      /\ row.api_key = IF t.api_key = None THEN t.loaded.api_key ELSE c
      /\ \/ row.last_test_status = "untested"
         \/ t.api_key = None /\ row.last_test_status = t.loaded.last_test_status
  <2> DEFINE new == t.new
  <2>1. new \in AIProviderConfig /\ new = t.loaded
    BY <1>4, <1>5
  <2> HIDE DEF new
  <2>2. CASE t.api_key = None
    <3>1. row = [new EXCEPT !.is_enabled = e]
      BY <2>2 DEF new
    <3> HIDE DEF row
    <3> QED
      BY <1>7, <2>1, <2>2, <3>1 DEF AIProviderConfig
  <2>3. CASE t.api_key # None
    <3>1. row = [new EXCEPT !.is_enabled = e, !.api_key = c, !.last_test_status = "untested"]
      BY <2>3 DEF new
    <3> HIDE DEF row
    <3> QED
      BY <1>6, <1>7, <2>1, <2>3, <3>1 DEF AIProviderConfig
  <2> QED
    BY <2>2, <2>3
<1> HIDE DEF row
<1>9. /\ t = thread[w]
      /\ row.api_key.under \in MadeKeys
      /\ Writes(t, row) /\ t.op # "delete"
  BY <1>4, <1>6, <1>8 DEF t, Writes
<1> QED
  BY <1>2, <1>3, <1>4, <1>8, <1>9, WriteStep

LEMMA CallStep ==
    ASSUME IInv, NEW w \in Worker, NEW ok \in BOOLEAN, CallProvider(w, ok),
           UNCHANGED <<analyses, bookmarkVars>>
    PROVE  IInv'
<1> DEFINE t == thread[w]
           row == IF Opens(Home(w), t.new.api_key)
                  THEN [t.new EXCEPT !.last_test_status = IF ok THEN "ok" ELSE "failed",
                                 !.last_test_message = IF ok THEN "connected" ELSE "refused",
                                 !.last_tested_at = TRUE]
                  ELSE [t.new EXCEPT !.last_test_status = "failed",
                                 !.last_test_message = "undecryptable"]
<1>1. /\ t \in Thread /\ t.pc = "use" /\ t.op = "test"
      /\ ThreadOK(t, Held(w), MadeKeys, profile, saved, feedback, analyses)
  BY ThreadFacts DEF CallProvider
<1>3. t \in AIRequest
  BY <1>1, Kinds, Steps
<1>2. thread' = [thread EXCEPT ![w] = [t EXCEPT !.pc = "write", !.new = row]] /\ UNCHANGED Tables
  BY <1>3 DEF CallProvider, Continue, Tables, AIRequest
<1>4. t.new = t.loaded /\ t.loaded # None /\ t.loaded.api_key.under \in MadeKeys
  BY <1>1, <1>3 DEF ThreadOK, AIRequestOK
<1>5. t.new \in AIProviderConfig
  BY <1>3, <1>4 DEF AIRequest, MaybeConfig
<1> HIDE DEF t
<1>6. row \in AIProviderConfig /\ row.api_key = t.new.api_key
  <2> DEFINE new == t.new
             s == IF ok THEN "ok" ELSE "failed"
             m == IF ok THEN "connected" ELSE "refused"
  <2>1. new \in AIProviderConfig
    BY <1>5
  <2>2. s \in {"ok", "failed"} /\ m \in {"connected", "refused"}
    OBVIOUS
  <2> HIDE DEF new, s, m
  <2>3. \/ row = [new EXCEPT !.last_test_status = s, !.last_test_message = m,
                             !.last_tested_at = TRUE]
        \/ row = [new EXCEPT !.last_test_status = "failed", !.last_test_message = "undecryptable"]
    BY DEF new, s, m
  <2> HIDE DEF row
  <2>4. row \in AIProviderConfig /\ row.api_key = new.api_key
    BY <2>1, <2>2, <2>3 DEF AIProviderConfig
  <2> QED
    BY <2>4 DEF new
<1> HIDE DEF row
<1>7. t = thread[w] /\ Writes(t, row)
  BY <1>1, <1>4, <1>6 DEF t, Writes
<1> QED
  BY <1>1, <1>2, <1>3, <1>4, <1>6, <1>7, WriteStep

-----------------------------------------------------------------------------
(* The steps of profiles and analyses that change one thread.              *)

LEMMA CreateStep ==
    ASSUME IInv, NEW w \in Worker, NEW n \in Ngo, NEW p \in Payload,
           CreateNgoProfile(w, n, p), UNCHANGED bookmarkVars
    PROVE  IInv'
<1> DEFINE r == [pc |-> "create", ngo |-> n, new |-> p]
<1>1. thread' = [thread EXCEPT ![w] = r] /\ UNCHANGED Tables
  BY DEF CreateNgoProfile, Begin, Tables
<1>2. r \in Creation /\ r.pc = "create"
  BY WorkspaceAssumption DEF Creation
<1> HIDE DEF r
<1>3. r \in Thread /\ ThreadOK(r, Held(w), MadeKeys, profile, saved, feedback, analyses)
  BY <1>2, Steps DEF Thread, ThreadOK
<1> QED
  BY <1>1, <1>2, <1>3, OnlyThread

LEMMA ReplaceStep ==
    ASSUME IInv, NEW w \in Worker, NEW n \in Ngo, NEW p \in Payload,
           UpdateNgoProfile(w, n, p), UNCHANGED bookmarkVars
    PROVE  IInv'
<1> DEFINE r == [pc |-> "update", ngo |-> n, loaded |-> profile[n], new |-> p]
<1>1. thread' = [thread EXCEPT ![w] = r] /\ UNCHANGED Tables /\ profile[n] # None
  BY DEF UpdateNgoProfile, Begin, Tables
<1>2. profile[n] \in NGOProfile
  BY <1>1 DEF IInv, TypeOK
<1>3. r \in Replacement /\ r.pc = "update" /\ r.ngo = n
  BY <1>2, WorkspaceAssumption DEF Replacement
<1> HIDE DEF r
<1>4. r \in Thread /\ ThreadOK(r, Held(w), MadeKeys, profile, saved, feedback, analyses)
  BY <1>1, <1>3, Steps DEF Thread, ThreadOK
<1> QED
  BY <1>1, <1>3, <1>4, OnlyThread

LEMMA AnalyzeStep ==
    ASSUME IInv, NEW w \in Worker, NEW n \in Ngo, AnalyzeWebsite(w, n), UNCHANGED bookmarkVars
    PROVE  IInv'
<1> DEFINE pc == IF config[n] # None /\ config[n].is_enabled THEN "crypt" ELSE "analyze"
           r == [op |-> "analyze", ngo |-> n, url |-> profile[n].website_url, loaded |-> config[n],
                 pc |-> pc, provider |-> FALSE]
<1>1. /\ thread' = [thread EXCEPT ![w] = r] /\ UNCHANGED Tables
      /\ profile[n] # None /\ profile[n].website_url # None
  BY DEF AnalyzeWebsite, Begin, Tables
<1>2. profile[n].website_url \in DOMAIN Site
  <2>1. profile[n] \in NGOProfile
    BY <1>1 DEF IInv, TypeOK
  <2> QED
    BY <1>1, <2>1 DEF NGOProfile
<1>3. pc \in {"crypt", "analyze"} /\ config[n] \in MaybeConfig
  BY DEF IInv, TypeOK, MaybeConfig
<1> HIDE DEF pc
<1>4. r \in Analysis /\ r.pc = pc /\ r.ngo = n
  BY <1>2, <1>3 DEF Analysis
<1> HIDE DEF r
<1>5. r \in Thread /\ ThreadOK(r, Held(w), MadeKeys, profile, saved, feedback, analyses)
  BY <1>1, <1>3, <1>4, Steps DEF Thread, ThreadOK
<1> QED
  BY <1>1, <1>3, <1>4, <1>5, OnlyThread

LEMMA ProviderStep ==
    ASSUME IInv, NEW w \in Worker, GetProvider(w), UNCHANGED bookmarkVars
    PROVE  IInv'
<1> DEFINE t == thread[w]
           p == Opens(Home(w), t.loaded.api_key)
           r == [t EXCEPT !.pc = "analyze", !.provider = p]
<1>1. /\ t \in Thread /\ t.pc = "use" /\ t.op = "analyze"
      /\ ThreadOK(t, Held(w), MadeKeys, profile, saved, feedback, analyses)
  BY ThreadFacts DEF GetProvider
<1>2. t \in Analysis
  BY <1>1, Kinds, Steps
<1>3. thread' = [thread EXCEPT ![w] = r] /\ UNCHANGED Tables
  BY DEF GetProvider, Continue, Tables
<1>4. p \in BOOLEAN
  BY DEF Opens
<1> HIDE DEF t, p
<1>5. r \in Analysis /\ r.pc = "analyze" /\ r.ngo = t.ngo
  BY <1>2, <1>4 DEF Analysis
<1> HIDE DEF r
<1>6. r \in Thread /\ ThreadOK(r, Held(w), MadeKeys, profile, saved, feedback, analyses)
  BY <1>1, <1>2, <1>5, Steps DEF Thread, ThreadOK
<1> QED
  BY <1>3, <1>5, <1>6, OnlyThread

LEMMA ApplyStep ==
    ASSUME IInv, NEW w \in Worker, NEW a \in DOMAIN analyses, NEW fields \in SUBSET Field,
           ApplyWebsiteAnalysis(w, a, fields), UNCHANGED bookmarkVars
    PROVE  IInv'
<1> DEFINE n == analyses[a].ngo
           old == profile[n]
           found == analyses[a].detected
           new == [c \in DOMAIN old |-> IF c \in fields THEN Merge(old[c], found[c]) ELSE old[c]]
           r == [pc |-> "apply", ngo |-> n, analysis |-> a, loaded |-> old, new |-> new]
<1>1. thread' = [thread EXCEPT ![w] = r] /\ UNCHANGED Tables
  BY DEF ApplyWebsiteAnalysis, Begin, Tables
<1>2. /\ a \in Nat /\ n \in Ngo /\ found \in [Field -> Seq(Word)] /\ old \in NGOProfile
  <2>1. a \in 1..Len(analyses) /\ analyses[a] \in WebsiteAnalysis
    BY DEF IInv, TypeOK
  <2>2. n \in Ngo /\ found \in [Field -> Seq(Word)]
    BY <2>1 DEF WebsiteAnalysis
  <2>3. old # None
    BY DEF IInv, Analysed
  <2> QED
    BY <2>1, <2>2, <2>3 DEF IInv, TypeOK
<1>3. old # None
  BY DEF IInv, Analysed
<1> HIDE DEF n, old, found
<1>4. ASSUME NEW c \in Field
      PROVE  /\ old[c] \in Seq(Word) /\ found[c] \in Seq(Word)
             /\ Merge(old[c], found[c]) \in Seq(Word)
             /\ ListKept(old[c], Merge(old[c], found[c]))
  <2>1. old[c] \in Seq(Word) /\ found[c] \in Seq(Word)
    BY <1>2 DEF NGOProfile, Field
  <2> QED
    BY <2>1, MergeKeeps
<1>5. new \in NGOProfile /\ \A c \in Field : new[c] = old[c] \/ ListKept(old[c], new[c])
  <2>1. /\ DOMAIN old = {"website_url", "focus_areas", "locations", "beneficiaries"}
        /\ old.website_url \in DOMAIN Site \cup {None}
    BY <1>2 DEF NGOProfile
  <2>2. new["website_url"] = old["website_url"]
    BY <2>1 DEF Field
  <2>3. ASSUME NEW c \in Field
        PROVE  new[c] \in Seq(Word) /\ (new[c] = old[c] \/ ListKept(old[c], new[c]))
    BY <1>4, <2>1 DEF Field
  <2>4. new \in NGOProfile
    BY <2>1, <2>2, <2>3 DEF NGOProfile, Field
  <2> QED
    BY <2>3, <2>4
<1> HIDE DEF new
<1>6. /\ r \in Application /\ r.pc = "apply" /\ r.ngo = n /\ r.analysis = a
      /\ r.loaded = old /\ r.new = new
  BY <1>2, <1>5 DEF Application
<1> HIDE DEF r
<1>7. profile[n] # None
  BY <1>3 DEF old
<1>8. r \in Thread /\ ThreadOK(r, Held(w), MadeKeys, profile, saved, feedback, analyses)
  BY <1>5, <1>6, <1>7, Steps DEF Thread, ThreadOK
<1> QED
  BY <1>1, <1>6, <1>8, OnlyThread

-----------------------------------------------------------------------------
(* The steps of saved and hidden opportunities that change one thread.     *)

LEMMA SaveStep ==
    ASSUME IInv, NEW w \in Worker, NEW n \in Ngo, NEW p \in SavePayload,
           SaveOpportunity(w, n, p), UNCHANGED <<profile, aiVars, analyses>>
    PROVE  IInv'
<1> DEFINE row == NewSaved(n, p)
           r == [pc |-> "save", row |-> row]
<1>1. thread' = [thread EXCEPT ![w] = r] /\ UNCHANGED Tables /\ Acceptable(p)
  BY DEF SaveOpportunity, Begin, Tables
<1>2. /\ p.source \in {"historical", "imported"} /\ p.opp \in Corpus \cup {None}
      /\ p.ref \in Imported \cup Corpus \cup {None}
  BY WorkspaceAssumption
<1>3. Ref(p) \in Imported \cup Corpus
  BY <1>1, <1>2 DEF Ref, Acceptable
<1>4. row \in SavedOpportunity
  BY <1>2, <1>3, WorkspaceAssumption DEF NewSaved, SavedOpportunity
<1> HIDE DEF row
<1>5. r \in Saving /\ r.pc = "save"
  BY <1>4 DEF Saving
<1> HIDE DEF r
<1>6. r \in Thread /\ ThreadOK(r, Held(w), MadeKeys, profile, saved, feedback, analyses)
  BY <1>5, Steps DEF Thread, ThreadOK
<1> QED
  BY <1>1, <1>5, <1>6, OnlyThread

LEMMA EditStep ==
    ASSUME IInv, NEW w \in Worker, NEW i \in DOMAIN saved, NEW s \in Status \cup {None},
           NEW m \in Note \cup {None},
           UpdateSavedOpportunity(w, i, s, m), UNCHANGED <<profile, aiVars, analyses>>
    PROVE  IInv'
<1> DEFINE old == saved[i]
           st == IF s = None THEN old.status ELSE s
           no == IF m = None THEN old.notes ELSE m
           new == [old EXCEPT !.status = st, !.notes = no]
           r == [pc |-> "edit", id |-> i, loaded |-> old, status |-> s, new |-> new]
<1>1. i \in Nat /\ old \in SavedOpportunity
  <2>1. i \in Rows(saved)
    BY DEF UpdateSavedOpportunity
  <2> QED
    BY <2>1 DEF IInv, TypeOK, Rows
<1>2. thread' = [thread EXCEPT ![w] = r] /\ UNCHANGED Tables
  BY <1>1 DEF UpdateSavedOpportunity, Begin, Tables, SavedOpportunity
<1> HIDE DEF old
<1>3. st \in Status /\ no \in Note \cup {None} /\ st \in {old.status, s}
  BY <1>1 DEF SavedOpportunity
<1> HIDE DEF st, no
<1>4. /\ new \in SavedOpportunity /\ new.ngo = old.ngo /\ new.source = old.source
      /\ new.ref = old.ref /\ new.status = st
  BY <1>1, <1>3 DEF SavedOpportunity
<1> HIDE DEF new
<1>5. /\ r \in Editing /\ r.pc = "edit" /\ r.id = i /\ r.loaded = old /\ r.new = new
      /\ r.status = s
  BY <1>1, <1>4 DEF Editing
<1> HIDE DEF r
<1>6. r \in Thread /\ ThreadOK(r, Held(w), MadeKeys, profile, saved, feedback, analyses)
  BY <1>3, <1>4, <1>5, Steps DEF Thread, ThreadOK
<1> QED
  BY <1>2, <1>5, <1>6, OnlyThread

LEMMA RemoveStep ==
    ASSUME IInv, NEW w \in Worker, NEW i \in DOMAIN saved,
           RemoveSavedOpportunity(w, i), UNCHANGED <<profile, aiVars, analyses>>
    PROVE  IInv'
<1> DEFINE r == [pc |-> "remove", id |-> i]
<1>1. thread' = [thread EXCEPT ![w] = r] /\ UNCHANGED Tables
  BY DEF RemoveSavedOpportunity, Begin, Tables
<1>2. r \in Removing /\ r.pc = "remove" /\ r.id = i
  BY DEF IInv, TypeOK, Removing
<1> HIDE DEF r
<1>3. r \in Thread /\ ThreadOK(r, Held(w), MadeKeys, profile, saved, feedback, analyses)
  BY <1>2, Steps DEF Thread, ThreadOK
<1> QED
  BY <1>1, <1>2, <1>3, OnlyThread

LEMMA HideStep ==
    ASSUME IInv, NEW w \in Worker, NEW n \in Ngo, NEW p \in FeedbackPayload,
           SubmitFeedback(w, n, p), UNCHANGED <<profile, aiVars, analyses>>
    PROVE  IInv'
<1> DEFINE row == NewFeedback(n, p)
           r == [pc |-> "hide", row |-> row]
<1>1. thread' = [thread EXCEPT ![w] = r] /\ UNCHANGED Tables
  BY DEF SubmitFeedback, Begin, Tables
<1>2. row \in OpportunityFeedback
  BY WorkspaceAssumption DEF NewFeedback, OpportunityFeedback
<1> HIDE DEF row
<1>3. r \in Hiding /\ r.pc = "hide"
  BY <1>2 DEF Hiding
<1> HIDE DEF r
<1>4. r \in Thread /\ ThreadOK(r, Held(w), MadeKeys, profile, saved, feedback, analyses)
  BY <1>3, Steps DEF Thread, ThreadOK
<1> QED
  BY <1>1, <1>3, <1>4, OnlyThread

LEMMA UnhideStep ==
    ASSUME IInv, NEW w \in Worker, NEW i \in DOMAIN feedback,
           RemoveFeedback(w, i), UNCHANGED <<profile, aiVars, analyses>>
    PROVE  IInv'
<1> DEFINE r == [pc |-> "unhide", id |-> i]
<1>1. thread' = [thread EXCEPT ![w] = r] /\ UNCHANGED Tables
  BY DEF RemoveFeedback, Begin, Tables
<1>2. r \in Removing /\ r.pc = "unhide" /\ r.id = i
  BY DEF IInv, TypeOK, Removing
<1> HIDE DEF r
<1>3. r \in Thread /\ ThreadOK(r, Held(w), MadeKeys, profile, saved, feedback, analyses)
  BY <1>2, Steps DEF Thread, ThreadOK
<1> QED
  BY <1>1, <1>2, <1>3, OnlyThread

-----------------------------------------------------------------------------
(* The steps that change the keys and the configurations.                  *)

LEMMA MakeStep ==
    ASSUME IInv, NEW w \in Worker, MakeKey(w), UNCHANGED <<analyses, bookmarkVars>>
    PROVE  IInv'
<1> DEFINE t == thread[w]
           r == [t EXCEPT !.pc = "use"]
           p == Home(w)
           made == IF EnvKey THEN FromEnvironment ELSE Generated(p, keys[p] + 1)
<1>1. /\ profile' = profile /\ config' = config /\ born' = born /\ analyses' = analyses
      /\ deployment' = deployment
      /\ saved' = saved /\ feedback' = feedback /\ removed' = removed
      /\ keys' = (IF EnvKey THEN keys ELSE [keys EXCEPT ![p] = keys[p] + 1])
      /\ fernet' = [fernet EXCEPT ![p] = made]
      /\ raced' = [raced EXCEPT ![p] =
             raced[p] \/ \E v \in Worker \ {w} : thread[v].pc = "make" /\ Home(v) = p]
      /\ thread[w].pc = "make"
      /\ thread' = [thread EXCEPT ![w] = r]
  BY DEF MakeKey, Continue, bookmarkVars, IInv, KeysOK
<1>2. /\ p \in Process /\ EnvKey \in BOOLEAN /\ EnvKey' = EnvKey
      /\ \A v \in Worker : Home(v)' = Home(v) /\ Home(v) \in Process
  BY <1>1, HomeFacts DEF IInv, EnvKey, Home
<1>3. /\ keys \in [Process -> Nat] /\ born \in [Process -> Nat] /\ raced \in [Process -> BOOLEAN]
      /\ fernet \in [Process -> Key \cup {None}] /\ deployment \in Deployments
      /\ \A q \in Process : ProcessOK(q)
  BY DEF IInv, KeysOK, TypeOK
<1>4. made \in Key /\ made # None
  <2>1. made \in Key
    BY <1>2, <1>3 DEF FromEnvironment, Generated, Key
  <2> QED
    BY <2>1, WorkspaceAssumption
<1>5. /\ keys' \in [Process -> Nat]
      /\ \A q \in Process : q # p => keys'[q] = keys[q] /\ fernet'[q] = fernet[q]
                                      /\ raced'[q] = raced[q]
      /\ keys'[p] = (IF EnvKey THEN keys[p] ELSE keys[p] + 1) /\ fernet'[p] = made
      /\ keys[p] \in Nat
      /\ fernet' \in [Process -> Key \cup {None}]
  BY <1>1, <1>2, <1>3, <1>4
<1> HIDE DEF made, p, r, t
<1>6. MadeKeys \subseteq MadeKeys'
  <2>1. \A q \in Process : keys[q] \in Nat /\ keys'[q] \in Nat /\ keys[q] <= keys'[q]
    BY <1>2, <1>3, <1>5
  <2>2. CASE EnvKey = TRUE
    BY <1>2, <2>2 DEF MadeKeys, FromEnvironment
  <2>3. CASE EnvKey = FALSE
    <3> SUFFICES ASSUME NEW key \in Key, key.maker \in Process, 1 <= key.number,
                        key.number <= keys[key.maker]
                 PROVE  key.number <= keys'[key.maker]
      BY <1>2, <2>3 DEF MadeKeys
    <3>1. key.number \in Nat
      BY DEF Key
    <3> QED
      BY <2>1, <3>1
  <2> QED
    BY <1>2, <2>2, <2>3
<1>7. Grown
  <2>1. \A v \in Worker : Held(v) # None => Held(v)' # None
    BY <1>2, <1>4, <1>5 DEF Held
  <2> QED
    BY <1>1, <1>6, <2>1 DEF Grown
<1>8. /\ t \in Thread /\ t.pc = "make"
      /\ ThreadOK(t, Held(w), MadeKeys, profile, saved, feedback, analyses)
  BY <1>1, ThreadFacts DEF t
<1>9. ThreadOK(t, Held(w)', MadeKeys', profile', saved', feedback', analyses')
  BY <1>7, <1>8, ThreadGrown
<1>10. Held(w)' # None
  BY <1>2, <1>4, <1>5 DEF Held, p
<1>11. /\ r \in Thread /\ r.pc = "use"
       /\ ThreadOK(r, Held(w)', MadeKeys', profile', saved', feedback', analyses')
  BY <1>8, <1>9, <1>10, Advances DEF r
<1>12. /\ ThreadsOK' /\ thread'[w] = r
       /\ \A v \in Worker \ {w} : thread'[v] = thread[v]
  BY <1>1, <1>7, <1>11, ThreadMoves DEF IInv
<1>13. ASSUME NEW q \in Process PROVE ProcessOK(q)'
  <2>1. ProcessOK(q) /\ keys[q] \in Nat /\ born[q] \in Nat
    BY <1>3
  <2>2. CASE q # p
    <3>1. /\ keys'[q] = keys[q] /\ fernet'[q] = fernet[q] /\ raced'[q] = raced[q]
          /\ born'[q] = born[q] /\ Generated(q, keys[q])' = Generated(q, keys[q])
          /\ FromEnvironment' = FromEnvironment
      BY <1>1, <1>5, <2>2 DEF Generated, FromEnvironment
    <3>2. ASSUME NEW v \in Worker, Home(v) = q, thread[v].pc # "make"
          PROVE  thread'[v].pc # "make"
      BY <1>11, <1>12, <3>2
    <3> QED
      BY <1>2, <2>1, <3>1, <3>2 DEF ProcessOK
  <2>3. CASE q = p
    <3>1. /\ keys'[q] = (IF EnvKey THEN keys[q] ELSE keys[q] + 1) /\ fernet'[q] = made
          /\ born'[q] = born[q]
      BY <1>1, <1>5, <2>3
    <3>2. born'[q] <= keys'[q]
      BY <1>2, <2>1, <3>1 DEF ProcessOK
    <3>3. EnvKey = TRUE => made = FromEnvironment
      BY DEF made
    <3>4. EnvKey = FALSE => made = Generated(q, keys'[q]) /\ 1 <= keys'[q]
      BY <2>1, <2>3, <3>1 DEF made, p
    <3>5. ASSUME EnvKey = FALSE, raced'[q] = FALSE
          PROVE  /\ keys'[q] = born'[q] + 1
                 /\ \A v \in Worker : Home(v) = q => thread'[v].pc # "make"
      <4>1. raced'[q] = (raced[q] \/ \E v \in Worker \ {w} : thread[v].pc = "make" /\ Home(v) = q)
        BY <1>1, <1>2, <1>3, <2>3
      <4>2. raced[q] = FALSE /\ \A v \in Worker \ {w} : Home(v) = q => thread[v].pc # "make"
        <5>1. raced[q] \in BOOLEAN
          BY <1>3
        <5> QED
          BY <3>5, <4>1, <5>1, Zenon
      <4>3. fernet[q] = None
        BY <1>1, <2>1, <2>3, <3>5, <4>2 DEF ProcessOK, p
      <4>4. keys[q] = born[q]
        BY <2>1, <3>5, <4>2, <4>3 DEF ProcessOK
      <4>5. \A v \in Worker : Home(v) = q => thread'[v].pc # "make"
        BY <1>11, <1>12, <4>2
      <4> QED
        BY <3>1, <3>5, <4>4, <4>5
    <3>6. FromEnvironment' = FromEnvironment /\ Generated(q, keys[q])' = Generated(q, keys'[q])
      BY DEF FromEnvironment, Generated
    <3> QED
      BY <1>2, <1>4, <3>1, <3>2, <3>3, <3>4, <3>5, <3>6 DEF ProcessOK
  <2> QED
    BY <2>2, <2>3
<1>14. KeysOK'
  <2>1. raced' \in [Process -> BOOLEAN]
    BY <1>1, <1>3
  <2>2. \A n \in Ngo : config'[n] # None => config'[n].api_key.under \in MadeKeys'
    BY <1>1, <1>6 DEF IInv, KeysOK
  <2> QED
    BY <1>1, <1>3, <1>5, <1>13, <2>1, <2>2 DEF KeysOK
<1>15. TypeOK' /\ Analysed' /\ Targets'
  BY <1>1, <1>5 DEF IInv, TypeOK, Analysed, Targets, OneRowPerTarget, RemovedStaysRemoved, Rows,
     SameTarget
<1> QED
  BY <1>12, <1>14, <1>15 DEF IInv

(* A request ends that changes configurations and nothing else. *)
LEMMA ConfigEnds ==
    ASSUME IInv, NEW w \in Worker, End(w),
           UNCHANGED <<profile, keyVars, analyses, bookmarkVars>>,
           config' \in [Ngo -> AIProviderConfig \cup {None}],
           \A n \in Ngo : config'[n] # None => config'[n].api_key.under \in MadeKeys
    PROVE  IInv'
<1>1. /\ profile' = profile /\ fernet' = fernet /\ UNCHANGED keyVars
      /\ analyses' = analyses /\ saved' = saved
      /\ feedback' = feedback /\ removed' = removed
      /\ MadeKeys' = MadeKeys /\ \A v \in Worker : Held(v)' = Held(v)
  BY KeysSame DEF bookmarkVars, keyVars
<1>2. Grown
  BY <1>1 DEF Grown
<1>3. /\ ThreadsOK' /\ thread'[w].pc = "idle"
      /\ \A v \in Worker \ {w} : thread'[v] = thread[v]
  BY <1>2, EndMoves DEF IInv
<1>4. KeysOK'
  BY <1>1, <1>3, KeysKept DEF IInv
<1> QED
  BY <1>1, <1>3, <1>4 DEF IInv, TypeOK, Analysed, Targets, OneRowPerTarget,
     RemovedStaysRemoved, Rows, SameTarget

(* What a request that writes its row holds. *)
LEMMA WriterFacts ==
    ASSUME IInv, NEW w \in Worker, thread[w].pc = "write"
    PROVE  /\ thread[w].ngo \in Ngo
           /\ thread[w].new \in AIProviderConfig /\ thread[w].new.api_key.under \in MadeKeys
           /\ thread[w].loaded = None \/ thread[w].loaded \in AIProviderConfig
           /\ Writes(thread[w], thread[w].new)
<1> DEFINE t == thread[w]
<1>1. /\ t \in Thread /\ t.pc = "write"
      /\ ThreadOK(t, Held(w), MadeKeys, profile, saved, feedback, analyses)
  BY ThreadFacts
<1> HIDE DEF t
<1>2. t \in AIRequest
  BY <1>1, Kinds
<1>3. /\ t.ngo \in Ngo /\ t.new \in MaybeConfig /\ t.loaded \in MaybeConfig
  BY <1>2 DEF AIRequest
<1>4. t.new # None /\ t.new.api_key.under \in MadeKeys /\ Writes(t, t.new)
  BY <1>1, <1>2 DEF ThreadOK, AIRequestOK, Writes
<1> QED
  BY <1>3, <1>4 DEF MaybeConfig, t

LEMMA CommitStep ==
    ASSUME IInv, NEW w \in Worker, Commit(w), UNCHANGED <<analyses, bookmarkVars>>
    PROVE  IInv'
<1> DEFINE n == thread[w].ngo
           loaded == thread[w].loaded
           new == thread[w].new
           row == IF loaded # None /\ config[n] # None THEN Written(config[n], loaded, new)
                  ELSE IF loaded = None /\ config[n] = None THEN new
                  ELSE config[n]
<1>1. /\ n \in Ngo /\ new \in AIProviderConfig /\ new.api_key.under \in MadeKeys
      /\ loaded = None \/ loaded \in AIProviderConfig
  BY WriterFacts DEF Commit
<1>2. config \in [Ngo -> AIProviderConfig \cup {None}]
  BY DEF IInv, TypeOK
<1>3. config' = [config EXCEPT ![n] = row] /\ End(w)
  BY <1>1, <1>2 DEF Commit
<1>4. \A m \in Ngo : config[m] # None => config[m].api_key.under \in MadeKeys
  BY DEF IInv, KeysOK
<1> HIDE DEF n, loaded, new
<1>5. /\ row \in AIProviderConfig \cup {None}
      /\ row # None => row.api_key.under \in MadeKeys
  <2>1. CASE loaded # None /\ config[n] # None
    <3>1. config[n] \in AIProviderConfig /\ loaded \in AIProviderConfig
      BY <1>1, <1>2, <2>1
    <3>2. row = Written(config[n], loaded, new)
      BY <2>1
    <3> HIDE DEF row
    <3>3. row \in AIProviderConfig /\ row.api_key \in {config[n].api_key, new.api_key}
      BY <1>1, <3>1, <3>2, WrittenConfig
    <3> QED
      BY <1>1, <1>4, <2>1, <3>3
  <2>2. CASE loaded = None \/ config[n] = None
    BY <1>1, <1>2, <1>4, <2>2
  <2> QED
    BY <2>1, <2>2
<1> HIDE DEF row
<1>6. /\ config' \in [Ngo -> AIProviderConfig \cup {None}]
      /\ \A m \in Ngo : config'[m] # None => config'[m].api_key.under \in MadeKeys
  BY <1>1, <1>2, <1>3, <1>4, <1>5
<1> QED
  BY <1>3, <1>6, ConfigEnds DEF Commit

LEMMA DeleteCommitStep ==
    ASSUME IInv, NEW w \in Worker, DeleteCommit(w), UNCHANGED <<analyses, bookmarkVars>>
    PROVE  IInv'
<1>1. config \in [Ngo -> AIProviderConfig \cup {None}]
  BY DEF IInv, TypeOK
<1>2. \A m \in Ngo : config[m] # None => config[m].api_key.under \in MadeKeys
  BY DEF IInv, KeysOK
<1>3. /\ config' \in [Ngo -> AIProviderConfig \cup {None}]
      /\ \A m \in Ngo : config'[m] # None => config'[m].api_key.under \in MadeKeys
  BY <1>1, <1>2 DEF DeleteCommit
<1> QED
  BY <1>3, ConfigEnds DEF DeleteCommit

LEMMA RestartStep ==
    ASSUME IInv, NEW p \in Process, Restart(p), UNCHANGED <<analyses, bookmarkVars>>
    PROVE  IInv'
<1>1. /\ profile' = profile /\ config' = config /\ keys' = keys /\ deployment' = deployment
      /\ analyses' = analyses /\ saved' = saved /\ feedback' = feedback /\ removed' = removed
      /\ fernet' = [fernet EXCEPT ![p] = None] /\ born' = [born EXCEPT ![p] = keys[p]]
      /\ raced' = [raced EXCEPT ![p] = FALSE]
      /\ thread' = [w \in Worker |-> IF Home(w) = p THEN Idle ELSE thread[w]]
  BY DEF Restart, bookmarkVars
<1>2. /\ keys \in [Process -> Nat] /\ born \in [Process -> Nat] /\ raced \in [Process -> BOOLEAN]
      /\ fernet \in [Process -> Key \cup {None}] /\ deployment \in Deployments
      /\ \A q \in Process : ProcessOK(q)
  BY DEF IInv, KeysOK, TypeOK
<1>3. EnvKey' = EnvKey /\ MadeKeys' = MadeKeys /\ \A w \in Worker : Home(w)' = Home(w)
  BY <1>1 DEF EnvKey, MadeKeys, Home, FromEnvironment
<1>4. ThreadsOK'
  <2>1. ASSUME NEW w \in Worker
        PROVE  /\ thread'[w] \in Thread
               /\ ThreadOK(thread'[w], Held(w)', MadeKeys', profile', saved', feedback', analyses')
    <3>1. CASE Home(w) = p
      <4>1. thread'[w] = Idle
        BY <1>1, <3>1
      <4> QED
        BY <4>1, IdleOK
    <3>2. CASE Home(w) # p
      <4>1. thread'[w] = thread[w]
        BY <1>1, <3>2
      <4>2. Held(w)' = Held(w)
        BY <1>1, <1>2, <1>3, <3>2 DEF Held
      <4> QED
        BY <1>1, <1>3, <4>1, <4>2, ThreadFacts
    <3> QED
      BY <3>1, <3>2
  <2>2. thread' \in [Worker -> Thread]
    BY <1>1, <2>1
  <2> QED
    BY <2>1, <2>2 DEF ThreadsOK
<1>5. ASSUME NEW q \in Process PROVE ProcessOK(q)'
  <2>1. ProcessOK(q) /\ keys[q] \in Nat /\ keys'[q] = keys[q]
    BY <1>1, <1>2
  <2>2. CASE q = p
    <3>1. fernet'[q] = None /\ born'[q] = keys[q]
      BY <1>1, <1>2, <2>2
    <3> QED
      BY <2>1, <3>1 DEF ProcessOK
  <2>3. CASE q # p
    <3>1. fernet'[q] = fernet[q] /\ born'[q] = born[q] /\ raced'[q] = raced[q]
      BY <1>1, <1>2, <2>3
    <3>2. \A w \in Worker : Home(w) = q => thread'[w] = thread[w]
      BY <1>1, <2>3
    <3>3. Generated(q, keys[q])' = Generated(q, keys[q]) /\ FromEnvironment' = FromEnvironment
      BY <1>1 DEF Generated, FromEnvironment
    <3> QED
      BY <1>3, <2>1, <3>1, <3>2, <3>3 DEF ProcessOK
  <2> QED
    BY <2>2, <2>3
<1>6. KeysOK'
  <2>1. raced' \in [Process -> BOOLEAN]
    BY <1>1, <1>2
  <2>2. \A n \in Ngo : config'[n] # None => config'[n].api_key.under \in MadeKeys'
    BY <1>1, <1>3 DEF IInv, KeysOK
  <2> QED
    BY <1>1, <1>2, <1>5, <2>1, <2>2 DEF KeysOK
<1> QED
  BY <1>1, <1>2, <1>4, <1>6 DEF IInv, TypeOK, Analysed, Targets, OneRowPerTarget,
     RemovedStaysRemoved, Rows, SameTarget

-----------------------------------------------------------------------------
(* The steps that change the other tables.                                 *)

(* A request ends that leaves the keys and the configurations alone. *)
LEMMA EndKeeps ==
    ASSUME IInv, NEW w \in Worker, End(w), UNCHANGED aiVars,
           \A n \in Ngo : profile[n] # None => profile'[n] # None,
           DOMAIN saved \subseteq DOMAIN saved', DOMAIN feedback \subseteq DOMAIN feedback',
           DOMAIN analyses \subseteq DOMAIN analyses'
    PROVE  ThreadsOK' /\ KeysOK'
<1>1. /\ config' = config /\ UNCHANGED keyVars
      /\ MadeKeys' = MadeKeys /\ \A v \in Worker : Held(v)' = Held(v)
  BY KeysSame DEF aiVars
<1>2. Grown
  BY <1>1 DEF Grown
<1>3. /\ ThreadsOK' /\ thread'[w].pc = "idle"
      /\ \A v \in Worker \ {w} : thread'[v] = thread[v]
  BY <1>2, EndMoves DEF IInv
<1>4. KeysOK'
  BY <1>1, <1>3, KeysKept DEF IInv, KeysOK
<1> QED
  BY <1>3, <1>4

(* A request ends that changes the profile of one NGO. *)
LEMMA ProfileEnds ==
    ASSUME IInv, NEW w \in Worker, NEW n \in Ngo, NEW row \in NGOProfile,
           End(w), profile' = [profile EXCEPT ![n] = row],
           UNCHANGED <<aiVars, bookmarkVars>>,
           analyses' \in Seq(WebsiteAnalysis), DOMAIN analyses' = DOMAIN analyses,
           \A a \in DOMAIN analyses : analyses'[a].ngo = analyses[a].ngo
    PROVE  IInv'
<1>1. /\ config' = config /\ fernet' = fernet /\ saved' = saved
      /\ feedback' = feedback /\ removed' = removed
  BY DEF aiVars, keyVars, bookmarkVars
<1>2. /\ profile' \in [Ngo -> NGOProfile \cup {None}]
      /\ \A m \in Ngo : profile[m] # None => profile'[m] # None
  BY WorkspaceAssumption DEF IInv, TypeOK
<1>3. ThreadsOK' /\ KeysOK'
  BY <1>1, <1>2, EndKeeps
<1>4. Analysed'
  <2> SUFFICES ASSUME NEW a \in DOMAIN analyses PROVE profile'[analyses'[a].ngo] # None
    BY DEF Analysed
  <2>1. analyses'[a].ngo = analyses[a].ngo /\ analyses[a].ngo \in Ngo
    <3>1. analyses[a] \in WebsiteAnalysis
      BY DEF IInv, TypeOK
    <3> QED
      BY <3>1 DEF WebsiteAnalysis
  <2>2. profile[analyses[a].ngo] # None
    BY DEF IInv, Analysed
  <2> QED
    BY <1>2, <2>1, <2>2
<1> QED
  BY <1>1, <1>2, <1>3, <1>4 DEF IInv, TypeOK, Targets, OneRowPerTarget,
     RemovedStaysRemoved, Rows, SameTarget

LEMMA CreateCommitStep ==
    ASSUME IInv, NEW w \in Worker, CreateCommit(w), UNCHANGED bookmarkVars
    PROVE  IInv'
<1> DEFINE n == thread[w].ngo
           row == IF profile[n] = None THEN thread[w].new ELSE profile[n]
<1>1. thread[w] \in Creation
  BY ThreadFacts, Kinds DEF CreateCommit
<1>2. n \in Ngo /\ thread[w].new \in NGOProfile
  BY <1>1 DEF Creation
<1>3. profile \in [Ngo -> NGOProfile \cup {None}] /\ analyses \in Seq(WebsiteAnalysis)
  BY DEF IInv, TypeOK
<1>4. row \in NGOProfile
  BY <1>2, <1>3
<1>5. /\ End(w) /\ profile' = [profile EXCEPT ![n] = row]
      /\ UNCHANGED <<aiVars, bookmarkVars>> /\ analyses' = analyses
  BY <1>2, <1>3 DEF CreateCommit
<1> HIDE DEF n, row
<1>6. n \in Ngo
  BY <1>2
<1> QED
  BY <1>3, <1>4, <1>5, <1>6, ProfileEnds

(* What a request that writes a profile holds. *)
LEMMA ProfileWriterFacts ==
    ASSUME IInv, NEW w \in Worker, thread[w].pc \in {"update", "apply"}
    PROVE  /\ thread[w].ngo \in Ngo /\ thread[w].loaded \in NGOProfile
           /\ thread[w].new \in NGOProfile /\ profile[thread[w].ngo] \in NGOProfile
           /\ thread[w].pc = "apply" =>
                 /\ thread[w].analysis \in DOMAIN analyses
                 /\ \A c \in Field : \/ thread[w].new[c] = thread[w].loaded[c]
                                     \/ ListKept(thread[w].loaded[c], thread[w].new[c])
<1> DEFINE t == thread[w]
<1>1. /\ t \in Thread /\ t.pc \in {"update", "apply"}
      /\ ThreadOK(t, Held(w), MadeKeys, profile, saved, feedback, analyses)
  BY ThreadFacts
<1> HIDE DEF t
<1>2. t \in Replacement \cup Application
  BY <1>1, Kinds
<1>3. t.ngo \in Ngo /\ t.loaded \in NGOProfile /\ t.new \in NGOProfile
  BY <1>2 DEF Replacement, Application
<1>4. /\ profile[t.ngo] # None
      /\ t.pc = "apply" =>
            /\ t.analysis \in DOMAIN analyses
            /\ \A c \in Field : t.new[c] = t.loaded[c] \/ ListKept(t.loaded[c], t.new[c])
  BY <1>1, <1>2 DEF ThreadOK
<1>5. profile[t.ngo] \in NGOProfile
  BY <1>3, <1>4 DEF IInv, TypeOK
<1> QED
  BY <1>3, <1>4, <1>5 DEF t

LEMMA UpdateCommitStep ==
    ASSUME IInv, NEW w \in Worker, UpdateCommit(w), UNCHANGED bookmarkVars
    PROVE  IInv'
<1> DEFINE n == thread[w].ngo
           row == Written(profile[n], thread[w].loaded, thread[w].new)
<1>1. n \in Ngo /\ row \in NGOProfile
  BY ProfileWriterFacts, WrittenProfile DEF UpdateCommit
<1>2. profile \in [Ngo -> NGOProfile \cup {None}] /\ analyses \in Seq(WebsiteAnalysis)
  BY DEF IInv, TypeOK
<1>3. /\ End(w) /\ profile' = [profile EXCEPT ![n] = row]
      /\ UNCHANGED <<aiVars, bookmarkVars>> /\ analyses' = analyses
  BY <1>1, <1>2 DEF UpdateCommit
<1> HIDE DEF n, row
<1> QED
  BY <1>1, <1>2, <1>3, ProfileEnds

LEMMA ApplyCommitStep ==
    ASSUME IInv, NEW w \in Worker, ApplyCommit(w), UNCHANGED bookmarkVars
    PROVE  IInv'
<1> DEFINE n == thread[w].ngo
           i == thread[w].analysis
           row == Written(profile[n], thread[w].loaded, thread[w].new)
<1>1. n \in Ngo /\ row \in NGOProfile /\ i \in DOMAIN analyses
  BY ProfileWriterFacts, WrittenProfile DEF ApplyCommit
<1>2. profile \in [Ngo -> NGOProfile \cup {None}] /\ analyses \in Seq(WebsiteAnalysis)
  BY DEF IInv, TypeOK
<1>3. /\ End(w) /\ profile' = [profile EXCEPT ![n] = row]
      /\ UNCHANGED <<aiVars, bookmarkVars>>
      /\ analyses' = [analyses EXCEPT ![i].status = "applied"]
  BY <1>1, <1>2 DEF ApplyCommit
<1> HIDE DEF n, i, row
<1>4. /\ analyses' \in Seq(WebsiteAnalysis) /\ DOMAIN analyses' = DOMAIN analyses
      /\ \A a \in DOMAIN analyses : analyses'[a].ngo = analyses[a].ngo
  <2> DEFINE new == [analyses[i] EXCEPT !.status = "applied"]
  <2>1. analyses[i] \in WebsiteAnalysis
    BY <1>1, <1>2
  <2>2. new \in WebsiteAnalysis /\ new.ngo = analyses[i].ngo
    BY <2>1 DEF WebsiteAnalysis
  <2>3. analyses' = [analyses EXCEPT ![i] = new]
    BY <1>3
  <2> HIDE DEF new
  <2> QED
    BY <1>1, <1>2, <2>2, <2>3
<1> QED
  BY <1>1, <1>2, <1>3, <1>4, ProfileEnds

LEMMA AnalyzeCommitStep ==
    ASSUME IInv, NEW w \in Worker, NEW pages \in {{}, {"home"}}, NEW answered \in BOOLEAN,
           AnalyzeCommit(w, pages, answered), UNCHANGED bookmarkVars
    PROVE  IInv'
<1> DEFINE t == thread[w]
           ai == t.provider /\ answered
           found == Finding(Site[t.url], pages, ai)
           row == [ngo |-> t.ngo, detected |-> found.lists, method |-> found.method,
                   status |-> IF found.error THEN "dismissed" ELSE "pending_review"]
<1>1. t \in Analysis /\ ThreadOK(t, Held(w), MadeKeys, profile, saved, feedback, analyses)
  BY ThreadFacts, Kinds DEF AnalyzeCommit
<1>2. /\ profile' = profile /\ config' = config /\ fernet' = fernet /\ saved' = saved
      /\ feedback' = feedback /\ removed' = removed
      /\ UNCHANGED aiVars /\ End(w) /\ analyses' = Append(analyses, row)
  BY DEF AnalyzeCommit, aiVars, keyVars, bookmarkVars
<1> HIDE DEF t, ai
<1>3. t.ngo \in Ngo /\ profile[t.ngo] # None /\ Site[t.url] \in [Field -> Seq(Word)]
  BY <1>1, WorkspaceAssumption DEF Analysis, ThreadOK
<1>4. found.lists \in [Field -> Seq(Word)] /\ found.method \in {"ai", "rule_based"}
  BY <1>3 DEF Finding
<1> HIDE DEF found
<1>5. row \in WebsiteAnalysis /\ row.ngo = t.ngo
  BY <1>3, <1>4 DEF WebsiteAnalysis
<1> HIDE DEF row
<1>6. /\ analyses' \in Seq(WebsiteAnalysis) /\ DOMAIN analyses \subseteq DOMAIN analyses'
      /\ \A a \in DOMAIN analyses' : \/ a \in DOMAIN analyses /\ analyses'[a] = analyses[a]
                                     \/ analyses'[a] = row
  BY <1>2, <1>5 DEF IInv, TypeOK
<1>7. ThreadsOK' /\ KeysOK'
  BY <1>2, <1>6, EndKeeps
<1>8. Analysed'
  BY <1>2, <1>3, <1>5, <1>6 DEF IInv, Analysed
<1> QED
  BY <1>2, <1>6, <1>7, <1>8 DEF IInv, TypeOK, Targets, OneRowPerTarget, RemovedStaysRemoved, Rows,
     SameTarget

-----------------------------------------------------------------------------
(* Saved and hidden opportunities.                                         *)

(* A request ends that changes one of their tables. *)
LEMMA TableEnds ==
    ASSUME IInv, NEW w \in Worker, End(w), UNCHANGED <<profile, aiVars, analyses>>,
           saved' \in Seq(SavedOpportunity \cup {None}), DOMAIN saved \subseteq DOMAIN saved',
           feedback' \in Seq(OpportunityFeedback \cup {None}),
           DOMAIN feedback \subseteq DOMAIN feedback',
           removed' \subseteq DOMAIN saved', Targets'
    PROVE  IInv'
<1>1. ThreadsOK' /\ KeysOK'
  BY EndKeeps
<1>2. config' = config /\ fernet' = fernet
  BY DEF aiVars, keyVars
<1> QED
  BY <1>1, <1>2 DEF IInv, TypeOK, Analysed

LEMMA SaveCommitStep ==
    ASSUME IInv, NEW w \in Worker, SaveCommit(w), UNCHANGED <<profile, aiVars, analyses>>
    PROVE  IInv'
<1> DEFINE row == thread[w].row
<1>1. thread[w] \in Saving
  BY ThreadFacts, Kinds DEF SaveCommit
<1>2. row \in SavedOpportunity /\ row # None
  BY <1>1, WorkspaceAssumption DEF Saving
<1>3. /\ End(w) /\ feedback' = feedback /\ removed' = removed
      /\ saved' = IF \E i \in Rows(saved) : SameTarget(saved[i], row) THEN saved
                  ELSE Append(saved, row)
  BY DEF SaveCommit
<1> HIDE DEF row
<1>4. /\ saved \in Seq(SavedOpportunity \cup {None}) /\ removed \subseteq DOMAIN saved
      /\ feedback \in Seq(OpportunityFeedback \cup {None})
      /\ OneRowPerTarget /\ RemovedStaysRemoved
  BY DEF IInv, TypeOK, Targets
<1>5. /\ saved' \in Seq(SavedOpportunity \cup {None}) /\ DOMAIN saved \subseteq DOMAIN saved'
      /\ Targets'
  <2>1. CASE \E i \in Rows(saved) : SameTarget(saved[i], row)
    BY <1>3, <1>4, <2>1 DEF Targets, OneRowPerTarget, RemovedStaysRemoved, Rows, SameTarget
  <2>2. CASE ~ \E i \in Rows(saved) : SameTarget(saved[i], row)
    <3> DEFINE new == Len(saved) + 1
    <3>1. /\ saved' = Append(saved, row)
          /\ saved' \in Seq(SavedOpportunity \cup {None}) /\ DOMAIN saved \subseteq DOMAIN saved'
          /\ DOMAIN saved' = DOMAIN saved \cup {new} /\ new \notin DOMAIN saved
          /\ saved'[new] = row /\ \A i \in DOMAIN saved : saved'[i] = saved[i]
      BY <1>2, <1>3, <1>4, <2>2
    <3> HIDE DEF new
    <3>2. /\ new \in Rows(saved') /\ \A i \in Rows(saved') : i = new \/ i \in Rows(saved)
      BY <1>2, <3>1 DEF Rows
    <3>3. RemovedStaysRemoved'
      BY <1>3, <1>4, <3>1, <3>2 DEF RemovedStaysRemoved
    <3>4. \A i \in Rows(saved) : i \in DOMAIN saved /\ ~SameTarget(saved[i], row)
      BY <2>2 DEF Rows
    <3>5. ASSUME NEW i \in Rows(saved'), NEW j \in Rows(saved'), SameTarget(saved'[i], saved'[j])
          PROVE  i = j
      <4>1. CASE i = new /\ j # new
        <5>1. j \in Rows(saved) /\ saved'[j] = saved[j] /\ saved'[i] = row
          BY <3>1, <3>2, <3>4, <4>1
        <5>2. SameTarget(saved[j], row)
          BY <3>5, <5>1 DEF SameTarget
        <5> QED
          BY <3>4, <5>1, <5>2
      <4>2. CASE i # new /\ j = new
        <5>1. i \in Rows(saved) /\ saved'[i] = saved[i] /\ saved'[j] = row
          BY <3>1, <3>2, <3>4, <4>2
        <5> QED
          BY <3>4, <3>5, <5>1
      <4>3. CASE i # new /\ j # new
        <5>1. /\ i \in Rows(saved) /\ saved'[i] = saved[i]
              /\ j \in Rows(saved) /\ saved'[j] = saved[j]
          BY <3>1, <3>2, <3>4, <4>3
        <5> QED
          BY <1>4, <3>5, <5>1 DEF OneRowPerTarget
      <4> QED
        BY <4>1, <4>2, <4>3
    <3>6. OneRowPerTarget'
      BY <1>3, <1>4, <3>5 DEF OneRowPerTarget
    <3> QED
      BY <3>1, <3>3, <3>6 DEF Targets
  <2> QED
    BY <2>1, <2>2
<1> QED
  BY <1>3, <1>4, <1>5, TableEnds

(* One row of saved_opportunities is replaced by one of its target, or by  *)
(* none.                                                                   *)
LEMMA RowReplaced ==
    ASSUME IInv, NEW i \in DOMAIN saved, NEW row \in SavedOpportunity \cup {None},
           saved' = [saved EXCEPT ![i] = row], feedback' = feedback,
           removed' = removed \/ (row = None /\ removed' = removed \cup {i}),
           row # None => saved[i] # None /\ SameTarget(row, saved[i])
    PROVE  /\ saved' \in Seq(SavedOpportunity \cup {None}) /\ DOMAIN saved' = DOMAIN saved
           /\ removed' \subseteq DOMAIN saved' /\ Targets'
<1>1. /\ saved \in Seq(SavedOpportunity \cup {None}) /\ removed \subseteq DOMAIN saved
      /\ OneRowPerTarget /\ RemovedStaysRemoved
  BY DEF IInv, TypeOK, Targets
<1>2. /\ saved' \in Seq(SavedOpportunity \cup {None}) /\ DOMAIN saved' = DOMAIN saved
      /\ saved'[i] = row /\ \A j \in DOMAIN saved : j # i => saved'[j] = saved[j]
  BY <1>1
<1>3. \A j \in Rows(saved') : j \in Rows(saved) /\ SameTarget(saved'[j], saved[j])
  BY <1>2 DEF Rows, SameTarget
<1>4. ASSUME NEW j \in Rows(saved'), NEW k \in Rows(saved'), SameTarget(saved'[j], saved'[k])
      PROVE  j = k
  <2>1. SameTarget(saved[j], saved[k])
    BY <1>3, <1>4 DEF SameTarget
  <2> QED
    BY <1>1, <1>3, <2>1 DEF OneRowPerTarget
<1>5. OneRowPerTarget'
  BY <1>1, <1>4 DEF OneRowPerTarget
<1>6. RemovedStaysRemoved'
  BY <1>1, <1>2, <1>3 DEF RemovedStaysRemoved, Rows
<1> QED
  BY <1>1, <1>2, <1>5, <1>6 DEF Targets

(* What a request that edits a saved opportunity holds. *)
LEMMA EditorFacts ==
    ASSUME IInv, NEW w \in Worker, thread[w].pc = "edit"
    PROVE  /\ thread[w].id \in DOMAIN saved
           /\ thread[w].loaded \in SavedOpportunity /\ thread[w].new \in SavedOpportunity
           /\ thread[w].new.ngo = thread[w].loaded.ngo
           /\ thread[w].new.source = thread[w].loaded.source
           /\ thread[w].new.ref = thread[w].loaded.ref
           /\ thread[w].new.status \in {thread[w].loaded.status, thread[w].status}
<1> DEFINE t == thread[w]
<1>1. /\ t \in Thread /\ t.pc = "edit"
      /\ ThreadOK(t, Held(w), MadeKeys, profile, saved, feedback, analyses)
  BY ThreadFacts
<1> HIDE DEF t
<1>2. t \in Editing
  BY <1>1, Kinds
<1>3. t.loaded \in SavedOpportunity /\ t.new \in SavedOpportunity
  BY <1>2 DEF Editing
<1> QED
  BY <1>1, <1>3 DEF ThreadOK, t

LEMMA UpdateSavedCommitStep ==
    ASSUME IInv, NEW w \in Worker, UpdateSavedCommit(w), UNCHANGED <<profile, aiVars, analyses>>
    PROVE  IInv'
<1> DEFINE i == thread[w].id
           loaded == thread[w].loaded
           new == thread[w].new
           row == Written(saved[i], loaded, new)
<1>1. /\ saved \in Seq(SavedOpportunity \cup {None}) /\ removed \subseteq DOMAIN saved
      /\ feedback \in Seq(OpportunityFeedback \cup {None}) /\ Targets
  BY DEF IInv, TypeOK
<1>2. /\ i \in DOMAIN saved /\ loaded \in SavedOpportunity /\ new \in SavedOpportunity
      /\ new.ngo = loaded.ngo /\ new.source = loaded.source /\ new.ref = loaded.ref
  BY EditorFacts DEF UpdateSavedCommit
<1>3. /\ End(w) /\ feedback' = feedback /\ removed' = removed
      /\ saved' = IF saved[i] = None THEN saved ELSE [saved EXCEPT ![i] = row]
  BY <1>1, <1>2 DEF UpdateSavedCommit
<1> HIDE DEF i, loaded, new
<1>4. CASE saved[i] = None
  <2>1. Targets'
    BY <1>1, <1>3, <1>4 DEF Targets, OneRowPerTarget, RemovedStaysRemoved, Rows, SameTarget
  <2> QED
    BY <1>1, <1>3, <1>4, <2>1, TableEnds
<1>5. CASE saved[i] # None
  <2>1. saved[i] \in SavedOpportunity
    BY <1>1, <1>2, <1>5
  <2>2. row \in SavedOpportunity /\ SameTarget(row, saved[i])
    BY <1>2, <2>1, WrittenSaved DEF SameTarget
  <2> HIDE DEF row
  <2>3. saved' = [saved EXCEPT ![i] = row]
    BY <1>3, <1>5
  <2>4. row # None
    BY <2>2, WorkspaceAssumption
  <2>5. /\ saved' \in Seq(SavedOpportunity \cup {None}) /\ DOMAIN saved' = DOMAIN saved
        /\ removed' \subseteq DOMAIN saved' /\ Targets'
    BY <1>2, <1>3, <1>5, <2>2, <2>3, <2>4, RowReplaced
  <2> QED
    BY <1>1, <1>3, <2>5, TableEnds
<1> QED
  BY <1>4, <1>5

LEMMA RemoveSavedCommitStep ==
    ASSUME IInv, NEW w \in Worker, RemoveSavedCommit(w), UNCHANGED <<profile, aiVars, analyses>>
    PROVE  IInv'
<1> DEFINE i == thread[w].id
<1>1. i \in DOMAIN saved
  BY ThreadFacts DEF RemoveSavedCommit, ThreadOK
<1>2. /\ End(w) /\ feedback' = feedback /\ removed' = removed \cup {i}
      /\ saved' = [saved EXCEPT ![i] = None]
  BY DEF RemoveSavedCommit
<1> HIDE DEF i
<1>3. /\ saved' \in Seq(SavedOpportunity \cup {None}) /\ DOMAIN saved' = DOMAIN saved
      /\ removed' \subseteq DOMAIN saved' /\ Targets'
  <2> DEFINE row == None
  <2>1. /\ row \in SavedOpportunity \cup {None} /\ row = None
        /\ saved' = [saved EXCEPT ![i] = row]
    BY <1>2
  <2> HIDE DEF row
  <2> QED
    BY <1>1, <1>2, <2>1, RowReplaced
<1>4. feedback \in Seq(OpportunityFeedback \cup {None})
  BY DEF IInv, TypeOK
<1> QED
  BY <1>2, <1>3, <1>4, TableEnds

LEMMA FeedbackCommitStep ==
    ASSUME IInv, NEW w \in Worker, FeedbackCommit(w), UNCHANGED <<profile, aiVars, analyses>>
    PROVE  IInv'
<1> DEFINE row == thread[w].row
<1>1. thread[w] \in Hiding
  BY ThreadFacts, Kinds DEF FeedbackCommit
<1>2. row \in OpportunityFeedback /\ row # None
  BY <1>1, WorkspaceAssumption DEF Hiding
<1>3. /\ End(w) /\ saved' = saved /\ removed' = removed
      /\ feedback' = IF \E i \in Rows(feedback) : feedback[i] = row THEN feedback
                     ELSE Append(feedback, row)
  BY DEF FeedbackCommit
<1> HIDE DEF row
<1>4. /\ saved \in Seq(SavedOpportunity \cup {None}) /\ removed \subseteq DOMAIN saved
      /\ feedback \in Seq(OpportunityFeedback \cup {None})
      /\ OneRowPerTarget /\ RemovedStaysRemoved
  BY DEF IInv, TypeOK, Targets
<1>5. /\ feedback' \in Seq(OpportunityFeedback \cup {None})
      /\ DOMAIN feedback \subseteq DOMAIN feedback'
      /\ \A i, j \in Rows(feedback') : feedback'[i] = feedback'[j] => i = j
  <2>1. CASE \E i \in Rows(feedback) : feedback[i] = row
    BY <1>3, <1>4, <2>1 DEF OneRowPerTarget
  <2>2. CASE ~ \E i \in Rows(feedback) : feedback[i] = row
    BY <1>2, <1>3, <1>4, <2>2 DEF OneRowPerTarget, Rows
  <2> QED
    BY <2>1, <2>2
<1>6. Targets'
  BY <1>3, <1>4, <1>5 DEF Targets, OneRowPerTarget, RemovedStaysRemoved, Rows, SameTarget
<1> QED
  BY <1>3, <1>4, <1>5, <1>6, TableEnds

LEMMA RemoveFeedbackCommitStep ==
    ASSUME IInv, NEW w \in Worker, RemoveFeedbackCommit(w),
           UNCHANGED <<profile, aiVars, analyses>>
    PROVE  IInv'
<1> DEFINE i == thread[w].id
<1>1. i \in DOMAIN feedback
  BY ThreadFacts DEF RemoveFeedbackCommit, ThreadOK
<1>2. /\ End(w) /\ saved' = saved /\ removed' = removed
      /\ feedback' = [feedback EXCEPT ![i] = None]
  BY DEF RemoveFeedbackCommit
<1> HIDE DEF i
<1>3. /\ saved \in Seq(SavedOpportunity \cup {None}) /\ removed \subseteq DOMAIN saved
      /\ feedback \in Seq(OpportunityFeedback \cup {None})
      /\ OneRowPerTarget /\ RemovedStaysRemoved
  BY DEF IInv, TypeOK, Targets
<1>4. /\ feedback' \in Seq(OpportunityFeedback \cup {None}) /\ DOMAIN feedback' = DOMAIN feedback
      /\ \A j \in Rows(feedback') : j \in Rows(feedback) /\ feedback'[j] = feedback[j]
  BY <1>1, <1>2, <1>3 DEF Rows
<1>5. Targets'
  BY <1>2, <1>3, <1>4 DEF Targets, OneRowPerTarget, RemovedStaysRemoved, Rows, SameTarget
<1> QED
  BY <1>2, <1>3, <1>4, <1>5, TableEnds

-----------------------------------------------------------------------------
(* The invariant holds in every behavior.                                  *)

LEMMA StutterInv ==
    ASSUME IInv, UNCHANGED vars
    PROVE  IInv'
<1>1. /\ thread' = thread /\ profile' = profile /\ config' = config /\ fernet' = fernet
      /\ analyses' = analyses /\ UNCHANGED keyVars
      /\ saved' = saved /\ feedback' = feedback /\ removed' = removed
  BY DEF vars, aiVars, keyVars, bookmarkVars
<1>2. MadeKeys' = MadeKeys /\ \A w \in Worker : Held(w)' = Held(w) /\ Home(w)' = Home(w)
  BY <1>1, KeysSame DEF keyVars, Home
<1>3. ThreadsOK'
  BY <1>1, <1>2 DEF IInv, ThreadsOK
<1>4. KeysOK'
  <2>1. \A p \in Process : ProcessOK(p)' = ProcessOK(p)
    BY <1>1, <1>2 DEF ProcessOK, keyVars, EnvKey, Generated, FromEnvironment
  <2> QED
    BY <1>1, <1>2, <2>1 DEF IInv, KeysOK, keyVars
<1> QED
  BY <1>1, <1>3, <1>4 DEF IInv, TypeOK, Analysed, Targets, OneRowPerTarget, RemovedStaysRemoved, Rows,
     SameTarget

LEMMA NextInv ==
    ASSUME IInv, calls \in Nat, [Next]_vars
    PROVE  IInv'
<1>1. CASE AIConfigNext /\ UNCHANGED <<analyses, bookmarkVars>>
  <2>1. ASSUME NEW w \in Worker, NEW n \in Ngo, NEW k \in ApiKey, NEW e \in BOOLEAN,
               SetAIConfig(w, n, k, e)
        PROVE  IInv'
    BY <1>1, <2>1, SetStep
  <2>2. ASSUME NEW w \in Worker, NEW n \in Ngo, NEW k \in ApiKey \cup {None},
               NEW e \in BOOLEAN \cup {None}, UpdateAIConfig(w, n, k, e)
        PROVE  IInv'
    BY <1>1, <2>2, UpdateStep
  <2>3. ASSUME NEW w \in Worker, NEW n \in Ngo, DeleteAIConfig(w, n) \/ TestAIConfig(w, n)
        PROVE  IInv'
    BY <1>1, <2>3, DeleteStep, TestStep
  <2>4. ASSUME NEW w \in Worker,
               \/ LookForKey(w) \/ MakeKey(w) \/ PutRow(w) \/ PatchRow(w)
               \/ Commit(w) \/ DeleteCommit(w)
        PROVE  IInv'
    BY <1>1, <2>4, LookStep, MakeStep, PutStep, PatchStep, CommitStep, DeleteCommitStep
  <2>5. ASSUME NEW w \in Worker, NEW ok \in BOOLEAN, CallProvider(w, ok)
        PROVE  IInv'
    BY <1>1, <2>5, CallStep
  <2>6. ASSUME NEW p \in Process, Restart(p)
        PROVE  IInv'
    BY <1>1, <2>6, RestartStep
  <2> QED
    BY <1>1, <2>1, <2>2, <2>3, <2>4, <2>5, <2>6 DEF AIConfigNext
<1>2. CASE NgoProfilesNext /\ UNCHANGED bookmarkVars
  <2>1. ASSUME NEW w \in Worker, NEW n \in Ngo, NEW p \in Payload,
               CreateNgoProfile(w, n, p) \/ UpdateNgoProfile(w, n, p)
        PROVE  IInv'
    BY <1>2, <2>1, CreateStep, ReplaceStep
  <2>2. ASSUME NEW w \in Worker,
               CreateCommit(w) \/ UpdateCommit(w) \/ GetProvider(w) \/ ApplyCommit(w)
        PROVE  IInv'
    BY <1>2, <2>2, CreateCommitStep, UpdateCommitStep, ProviderStep, ApplyCommitStep
  <2>3. ASSUME NEW w \in Worker, NEW n \in Ngo, AnalyzeWebsite(w, n)
        PROVE  IInv'
    BY <1>2, <2>3, AnalyzeStep
  <2>4. ASSUME NEW w \in Worker, NEW pages \in {{}, {"home"}}, NEW answered \in BOOLEAN,
               AnalyzeCommit(w, pages, answered)
        PROVE  IInv'
    BY <1>2, <2>4, AnalyzeCommitStep
  <2>5. ASSUME NEW w \in Worker, NEW a \in DOMAIN analyses, NEW fields \in SUBSET Field,
               ApplyWebsiteAnalysis(w, a, fields)
        PROVE  IInv'
    BY <1>2, <2>5, ApplyStep
  <2> QED
    BY <1>2, <2>1, <2>2, <2>3, <2>4, <2>5 DEF NgoProfilesNext
<1>3. CASE BookmarksNext /\ UNCHANGED <<aiVars, analyses>>
  <2>0. UNCHANGED <<profile, aiVars, analyses>>
    BY <1>3 DEF BookmarksNext
  <2>1. ASSUME NEW w \in Worker, NEW n \in Ngo, NEW p \in SavePayload, SaveOpportunity(w, n, p)
        PROVE  IInv'
    BY <2>0, <2>1, SaveStep
  <2>2. ASSUME NEW w \in Worker, NEW n \in Ngo, NEW p \in FeedbackPayload, SubmitFeedback(w, n, p)
        PROVE  IInv'
    BY <2>0, <2>2, HideStep
  <2>3. ASSUME NEW w \in Worker, NEW i \in DOMAIN saved, NEW s \in Status \cup {None},
               NEW m \in Note \cup {None}, UpdateSavedOpportunity(w, i, s, m)
        PROVE  IInv'
    BY <2>0, <2>3, EditStep
  <2>4. ASSUME NEW w \in Worker, NEW i \in DOMAIN saved, RemoveSavedOpportunity(w, i)
        PROVE  IInv'
    BY <2>0, <2>4, RemoveStep
  <2>5. ASSUME NEW w \in Worker, NEW i \in DOMAIN feedback, RemoveFeedback(w, i)
        PROVE  IInv'
    BY <2>0, <2>5, UnhideStep
  <2>6. ASSUME NEW w \in Worker,
               \/ SaveCommit(w) \/ UpdateSavedCommit(w) \/ RemoveSavedCommit(w)
               \/ FeedbackCommit(w) \/ RemoveFeedbackCommit(w)
        PROVE  IInv'
    BY <2>0, <2>6, SaveCommitStep, UpdateSavedCommitStep, RemoveSavedCommitStep,
       FeedbackCommitStep, RemoveFeedbackCommitStep
  <2> QED
    BY <1>3, <2>1, <2>2, <2>3, <2>4, <2>5, <2>6 DEF BookmarksNext
<1>4. CASE UNCHANGED vars
  BY <1>4, StutterInv
<1> QED
  BY <1>1, <1>2, <1>3, <1>4 DEF Next

LEMMA CallsStep ==
    ASSUME calls \in Nat, [Next]_vars
    PROVE  calls' \in Nat
<1> DEFINE Counted == calls' = calls \/ calls' = calls + 1
<1>1. \A w, r : Begin(w, r) => Counted
  BY DEF Begin
<1>2. \A w, r : Continue(w, r) => Counted
  BY DEF Continue
<1>3. \A w : End(w) => Counted
  BY DEF End, Continue
<1>4. Counted => calls' \in Nat
  OBVIOUS
<1> HIDE DEF Counted
<1>5. CASE AIConfigNext
  <2>1. \A w, n, q : Load(w, n, q) => Counted
    BY <1>1, Zenon DEF Load
  <2>2. ASSUME NEW p \in Process, Restart(p) PROVE calls' \in Nat
    BY <2>2 DEF Restart
  <2>3. ASSUME NEW w, NEW n,
               \/ \E k, e : SetAIConfig(w, n, k, e) \/ UpdateAIConfig(w, n, k, e)
               \/ DeleteAIConfig(w, n) \/ TestAIConfig(w, n)
        PROVE  Counted
    BY <2>1, <2>3, Zenon DEF SetAIConfig, UpdateAIConfig, DeleteAIConfig, TestAIConfig
  <2>4. ASSUME NEW w, \/ LookForKey(w) \/ MakeKey(w) \/ PutRow(w) \/ PatchRow(w)
                      \/ Commit(w) \/ DeleteCommit(w) \/ \E ok : CallProvider(w, ok)
        PROVE  Counted
    BY <1>2, <1>3, <2>4, Zenon DEF LookForKey, MakeKey, PutRow, PatchRow, Commit, DeleteCommit,
       CallProvider
  <2> QED
    BY <1>4, <1>5, <2>2, <2>3, <2>4 DEF AIConfigNext
<1>6. CASE NgoProfilesNext
  <2>1. ASSUME NEW w,
               \/ \E n, p : CreateNgoProfile(w, n, p) \/ UpdateNgoProfile(w, n, p)
               \/ \E n : AnalyzeWebsite(w, n)
               \/ \E a, fields : ApplyWebsiteAnalysis(w, a, fields)
        PROVE  Counted
    BY <1>1, <2>1, Zenon DEF CreateNgoProfile, UpdateNgoProfile, AnalyzeWebsite,
       ApplyWebsiteAnalysis
  <2>2. ASSUME NEW w, \/ CreateCommit(w) \/ UpdateCommit(w) \/ GetProvider(w) \/ ApplyCommit(w)
                      \/ \E pages, answered : AnalyzeCommit(w, pages, answered)
        PROVE  Counted
    BY <1>2, <1>3, <2>2, Zenon DEF CreateCommit, UpdateCommit, GetProvider, ApplyCommit,
       AnalyzeCommit
  <2> QED
    BY <1>4, <1>6, <2>1, <2>2 DEF NgoProfilesNext
<1>7. CASE BookmarksNext
  <2>1. ASSUME NEW w,
               \/ \E n, p : SaveOpportunity(w, n, p) \/ SubmitFeedback(w, n, p)
               \/ \E i, s, m : UpdateSavedOpportunity(w, i, s, m)
               \/ \E i : RemoveSavedOpportunity(w, i) \/ RemoveFeedback(w, i)
        PROVE  Counted
    BY <1>1, <2>1, Zenon DEF SaveOpportunity, SubmitFeedback, UpdateSavedOpportunity,
       RemoveSavedOpportunity, RemoveFeedback
  <2>2. ASSUME NEW w, \/ SaveCommit(w) \/ UpdateSavedCommit(w) \/ RemoveSavedCommit(w)
                      \/ FeedbackCommit(w) \/ RemoveFeedbackCommit(w)
        PROVE  Counted
    BY <1>3, <2>2, Zenon DEF SaveCommit, UpdateSavedCommit, RemoveSavedCommit, FeedbackCommit,
       RemoveFeedbackCommit
  <2> QED
    BY <1>4, <1>7, <2>1, <2>2 DEF BookmarksNext
<1>8. CASE UNCHANGED vars
  BY <1>8 DEF vars
<1> QED
  BY <1>5, <1>6, <1>7, <1>8 DEF Next

LEMMA InvHolds == Spec => []IInv
<1> DEFINE Inv == IInv /\ calls \in Nat
<1>1. Init => Inv
  BY InitInv DEF Init
<1>2. Inv /\ [Next]_vars => Inv'
  BY NextInv, CallsStep
<1>3. Inv => IInv
  OBVIOUS
<1> QED
  BY <1>1, <1>2, <1>3, PTL DEF Spec

-----------------------------------------------------------------------------
(* Whatever overlaps, the tables hold rows of their types, one for each    *)
(* opportunity that is saved or hidden, and none that was removed.         *)
THEOREM TablesStaySound == Spec => []RowsSound
<1>1. IInv => RowsSound
  BY DEF IInv, Targets, RowsSound
<1> QED
  BY <1>1, InvHolds, PTL

(* A stored API key can be decrypted by a process, but for the reasons     *)
(* StoredKeyOpens names: no key is in the environment, and the process is  *)
(* not the one that stored it, or was restarted since, or two of its first *)
(* uses each made a key.                                                   *)
THEOREM StoredKeysOpen == Spec => []StoredKeyOpens
<1>1. IInv => StoredKeyOpens
  <2> SUFFICES ASSUME IInv, NEW n \in Ngo, NEW p \in Process,
                      config[n] # None, fernet[p] # None
               PROVE  \/ Opens(p, config[n].api_key)
                      \/ /\ ~EnvKey
                         /\ \/ config[n].api_key.under.maker # p
                            \/ config[n].api_key.under.number <= born[p]
                            \/ raced[p]
    BY DEF StoredKeyOpens
  <2> DEFINE under == config[n].api_key.under
  <2>1. /\ under \in MadeKeys /\ ProcessOK(p) /\ keys[p] \in Nat /\ born[p] \in Nat
        /\ raced[p] \in BOOLEAN
    BY DEF IInv, KeysOK
  <2>2. EnvKey \in BOOLEAN
    BY HomeFacts DEF IInv
  <2> HIDE DEF under
  <2>3. CASE EnvKey = TRUE
    BY <2>1, <2>3 DEF MadeKeys, ProcessOK, Opens, under
  <2>4. CASE EnvKey = FALSE
    <3> SUFFICES ASSUME under.maker = p, ~ (under.number <= born[p]), raced[p] = FALSE
                 PROVE  under = fernet[p]
      BY <2>1, <2>4 DEF under, Opens
    <3>1. under \in Key /\ under.number <= keys[p]
      BY <2>1, <2>4 DEF MadeKeys
    <3>2. keys[p] = born[p] + 1 /\ fernet[p] = Generated(p, keys[p])
      BY <2>1, <2>4 DEF ProcessOK
    <3>3. under.number = keys[p]
      <4>1. under.number \in Nat
        BY <3>1 DEF Key
      <4> QED
        BY <2>1, <3>1, <3>2, <4>1
    <3> QED
      BY <3>1, <3>2, <3>3 DEF Key, Generated
  <2> QED
    BY <2>2, <2>3, <2>4
<1> QED
  BY <1>1, InvHolds, PTL

-----------------------------------------------------------------------------
(* The stage of an application moves only as a request asks, although      *)
(* every request writes a row that it loaded before others committed.      *)

LEMMA SavedSame ==
    ASSUME IInv, [Next]_vars,
           ~ \E w \in Worker : SaveCommit(w) \/ UpdateSavedCommit(w) \/ RemoveSavedCommit(w)
    PROVE  saved' = saved
  BY DEF Next, BookmarksNext, SaveOpportunity, UpdateSavedOpportunity, RemoveSavedOpportunity,
         SubmitFeedback, FeedbackCommit, RemoveFeedback, RemoveFeedbackCommit, vars, bookmarkVars

LEMMA StageStep ==
    ASSUME IInv, [Next]_vars, NEW i \in DOMAIN saved, saved[i] # None, saved'[i] # None
    PROVE  \/ saved'[i].status = saved[i].status
           \/ \E w \in Worker : /\ thread[w].pc = "edit" /\ thread[w].id = i
                                /\ thread[w].status = saved'[i].status
<1>1. saved \in Seq(SavedOpportunity \cup {None})
  BY DEF IInv, TypeOK
<1>2. ASSUME NEW w \in Worker, SaveCommit(w) PROVE saved'[i].status = saved[i].status
  <2>1. saved' = saved \/ saved' = Append(saved, thread[w].row)
    BY <1>2 DEF SaveCommit
  <2>2. thread[w].row \in SavedOpportunity \cup {None}
    BY <1>2, ThreadFacts, Kinds DEF SaveCommit, Saving
  <2> QED
    BY <1>1, <2>1, <2>2
<1>3. ASSUME NEW w \in Worker, RemoveSavedCommit(w) PROVE saved'[i].status = saved[i].status
  BY <1>1, <1>3 DEF RemoveSavedCommit
<1>4. ASSUME NEW w \in Worker, UpdateSavedCommit(w), saved'[i].status # saved[i].status
      PROVE  /\ thread[w].pc = "edit" /\ thread[w].id = i
             /\ thread[w].status = saved'[i].status
  <2> DEFINE t == thread[w]
             row == Written(saved[t.id], t.loaded, t.new)
  <2>1. /\ t.pc = "edit" /\ t.id \in DOMAIN saved
        /\ t.loaded \in SavedOpportunity /\ t.new \in SavedOpportunity
        /\ t.new.status \in {t.loaded.status, t.status}
    BY <1>4, EditorFacts DEF UpdateSavedCommit
  <2>2. saved' = saved \/ saved' = [saved EXCEPT ![t.id] = row]
    BY <1>1, <1>4, <2>1 DEF UpdateSavedCommit
  <2> HIDE DEF row
  <2>3. t.id = i /\ saved'[i] = row
    BY <1>1, <1>4, <2>1, <2>2
  <2>4. saved[i] \in SavedOpportunity
    BY <1>1
  <2>5. row.status = IF t.new.status = t.loaded.status THEN saved[i].status ELSE t.new.status
    BY <2>1, <2>3, <2>4, WrittenSaved DEF row
  <2> QED
    BY <1>4, <2>1, <2>3, <2>5
<1> QED
  BY <1>2, <1>3, <1>4, SavedSame

(* StageMovesOnRequest: an edit writes the stage only if it asked for one. *)
THEOREM StagesMoveOnRequest == Spec => StageMovesOnRequest
<1>1. IInv /\ [Next]_vars =>
         [\A i \in DOMAIN saved : (saved[i] # None /\ saved'[i] # None) =>
             \/ saved'[i].status = saved[i].status
             \/ \E w \in Worker : /\ thread[w].pc = "edit" /\ thread[w].id = i
                                  /\ thread[w].status = saved'[i].status]_<<saved, thread>>
  BY StageStep
<1> QED
  BY <1>1, InvHolds, PTL DEF Spec, StageMovesOnRequest

-----------------------------------------------------------------------------
(* Applying a proposal only adds to the lists, and no second spelling:     *)
(* what it merged was the list it loaded, and it writes only lists that    *)
(* grew.                                                                   *)

LEMMA ProfileMoves ==
    ASSUME IInv, [Next]_vars, NEW n \in Ngo, profile[n] # None, profile'[n] # profile[n]
    PROVE  \E w \in Worker :
              /\ thread[w].pc \in {"update", "apply"} /\ thread[w].ngo = n /\ thread'[w] = Idle
              /\ profile'[n] = Written(profile[n], thread[w].loaded, thread[w].new)
<1>1. /\ profile \in [Ngo -> NGOProfile \cup {None}]
      /\ thread \in [Worker -> Thread]
  BY DEF IInv, TypeOK, ThreadsOK
<1>2. \E w \in Worker : CreateCommit(w) \/ UpdateCommit(w) \/ ApplyCommit(w)
  <2>1. CASE AIConfigNext
    BY <2>1 DEF AIConfigNext, SetAIConfig, UpdateAIConfig, DeleteAIConfig, TestAIConfig, Load,
       LookForKey, MakeKey, PutRow, PatchRow, CallProvider, Commit, DeleteCommit, Restart
  <2>2. CASE NgoProfilesNext
    BY <2>2 DEF NgoProfilesNext, CreateNgoProfile, UpdateNgoProfile, AnalyzeWebsite, GetProvider,
       AnalyzeCommit, ApplyWebsiteAnalysis
  <2>3. CASE BookmarksNext
    BY <2>3 DEF BookmarksNext
  <2>4. CASE UNCHANGED vars
    BY <2>4 DEF vars
  <2> QED
    BY <2>1, <2>2, <2>3, <2>4 DEF Next
<1>3. PICK w \in Worker : CreateCommit(w) \/ UpdateCommit(w) \/ ApplyCommit(w)
  BY <1>2
<1>4. thread'[w] = Idle
  BY <1>1, <1>3 DEF CreateCommit, UpdateCommit, ApplyCommit, End, Continue
<1>5. CASE CreateCommit(w)
  BY <1>1, <1>5 DEF CreateCommit
<1>6. CASE UpdateCommit(w) \/ ApplyCommit(w)
  BY <1>1, <1>4, <1>6 DEF UpdateCommit, ApplyCommit
<1> QED
  BY <1>3, <1>5, <1>6

LEMMA ListMoves ==
    ASSUME IInv, [Next]_vars, NEW n \in Ngo, NEW f \in Field,
           profile[n] # None, profile'[n] # profile[n]
    PROVE  \E w \in Worker :
              /\ thread[w].ngo = n /\ thread'[w] = Idle
              /\ \/ thread[w].pc = "update"
                 \/ thread[w].pc = "apply" /\ profile'[n][f] = profile[n][f]
                 \/ /\ thread[w].pc = "apply" /\ profile'[n][f] = thread[w].new[f]
                    /\ thread[w].new[f] # thread[w].loaded[f]
                    /\ ListKept(thread[w].loaded[f], thread[w].new[f])
<1>1. PICK w \in Worker :
              /\ thread[w].pc \in {"update", "apply"} /\ thread[w].ngo = n /\ thread'[w] = Idle
              /\ profile'[n] = Written(profile[n], thread[w].loaded, thread[w].new)
  BY ProfileMoves
<1>2. /\ thread[w].loaded \in NGOProfile /\ thread[w].new \in NGOProfile
      /\ profile[n] \in NGOProfile
      /\ thread[w].pc = "apply" => \/ thread[w].new[f] = thread[w].loaded[f]
                                   \/ ListKept(thread[w].loaded[f], thread[w].new[f])
  BY <1>1, ProfileWriterFacts
<1>3. profile'[n][f] = IF thread[w].new[f] = thread[w].loaded[f] THEN profile[n][f]
                       ELSE thread[w].new[f]
  BY <1>1, <1>2, WrittenProfile
<1> QED
  BY <1>1, <1>2, <1>3

LEMMA KeptStep ==
    ASSUME IInv, [Next]_vars, NEW n \in Ngo, NEW f \in Field,
           profile[n] # None, profile'[n] # profile[n],
           NEW e \in Entries(profile[n][f]) \ Entries(profile'[n][f])
    PROVE  \E w \in Worker :
              /\ thread[w].pc \in {"update", "apply"} /\ thread[w].ngo = n
              /\ thread'[w] = Idle
              /\ \/ thread[w].pc = "update"
                 \/ e \notin Entries(thread[w].loaded[f]) /\ thread[w].new[f] # thread[w].loaded[f]
  BY ListMoves DEF ListKept

LEMMA SpellingStep ==
    ASSUME IInv, [Next]_vars, NEW n \in Ngo, NEW f \in Field,
           profile[n] # None, profile'[n][f] # profile[n][f]
    PROVE  \/ \E w \in Worker : thread[w].pc = "update" /\ thread[w].ngo = n /\ thread'[w] = Idle
           \/ \A i, j \in DOMAIN profile'[n][f] :
                 (i < j /\ Lower(profile'[n][f][i]) = Lower(profile'[n][f][j])) =>
                 \E w \in Worker : /\ thread[w].pc = "apply" /\ thread[w].ngo = n
                                   /\ j <= Len(thread[w].loaded[f])
<1>1. profile'[n] # profile[n]
  OBVIOUS
<1>2. PICK w \in Worker :
              /\ thread[w].ngo = n /\ thread'[w] = Idle
              /\ \/ thread[w].pc = "update"
                 \/ thread[w].pc = "apply" /\ profile'[n][f] = profile[n][f]
                 \/ /\ thread[w].pc = "apply" /\ profile'[n][f] = thread[w].new[f]
                    /\ thread[w].new[f] # thread[w].loaded[f]
                    /\ ListKept(thread[w].loaded[f], thread[w].new[f])
  BY <1>1, ListMoves
<1> QED
  BY <1>2 DEF ListKept

(* EntriesKept and NoSecondSpelling, of every application of a proposal.  *)
THEOREM MergesAreSound == Spec => MergeSound
<1>1. IInv /\ [Next]_vars =>
    [\A n \in Ngo, f \in Field : (profile[n] # None /\ profile'[n] # profile[n]) =>
          \A e \in Entries(profile[n][f]) \ Entries(profile'[n][f]) :
             \E w \in Worker :
                /\ thread[w].pc \in {"update", "apply"} /\ thread[w].ngo = n
                /\ thread'[w] = Idle
                /\ \/ thread[w].pc = "update"
                   \/ e \notin Entries(thread[w].loaded[f]) /\ thread[w].new[f] # thread[w].loaded[f]
      ]_<<profile, thread>>
  BY KeptStep
<1>2. IInv /\ [Next]_vars =>
    [\A n \in Ngo, f \in Field : (profile[n] # None /\ profile'[n][f] # profile[n][f]) =>
          \/ \E w \in Worker : thread[w].pc = "update" /\ thread[w].ngo = n /\ thread'[w] = Idle
          \/ \A i, j \in DOMAIN profile'[n][f] :
                (i < j /\ Lower(profile'[n][f][i]) = Lower(profile'[n][f][j])) =>
                \E w \in Worker : /\ thread[w].pc = "apply" /\ thread[w].ngo = n
                                  /\ j <= Len(thread[w].loaded[f])
      ]_<<profile, thread>>
  BY SpellingStep
<1> QED
  BY <1>1, <1>2, InvHolds, PTL DEF Spec, MergeSound, EntriesKept, NoSecondSpelling

-----------------------------------------------------------------------------
(* The result of a test is of the key that is stored, but for the commits  *)
(* that ResultOfStoredKey excepts.                                         *)

ResultInv ==
    /\ DOMAIN tested = Ngo /\ crossed \in [Ngo -> BOOLEAN]
    /\ ResultOfStoredKey

LEMMA ConfigMoves ==
    ASSUME [Next]_vars
    PROVE  \/ UNCHANGED <<config, tested, crossed>>
           \/ \E w \in Worker : Commit(w) \/ DeleteCommit(w)
<1>1. CASE AIConfigNext
  BY <1>1 DEF AIConfigNext, SetAIConfig, UpdateAIConfig, DeleteAIConfig, TestAIConfig, Load,
     LookForKey, MakeKey, PutRow, PatchRow, CallProvider, Restart, aiVars
<1>2. CASE NgoProfilesNext
  BY <1>2, ZenonT(60) DEF NgoProfilesNext, CreateNgoProfile, UpdateNgoProfile, AnalyzeWebsite, GetProvider,
     AnalyzeCommit, ApplyWebsiteAnalysis, CreateCommit, UpdateCommit, ApplyCommit, aiVars
<1>3. CASE BookmarksNext /\ UNCHANGED <<aiVars, analyses>>
  BY <1>3 DEF aiVars
<1>4. CASE UNCHANGED vars
  BY <1>4 DEF vars, aiVars
<1> QED
  BY <1>1, <1>2, <1>3, <1>4 DEF Next

(* A commit that finds the key and the result as it had loaded them leaves *)
(* a result of the key it leaves, or none.                                 *)
LEMMA CommitTells ==
    ASSUME IInv, ResultInv, NEW w \in Worker, Commit(w)
    PROVE  ResultInv'
<1> DEFINE n == thread[w].ngo
           loaded == thread[w].loaded
           new == thread[w].new
           now == config[n]
           updates == loaded # None /\ now # None
           row == IF updates THEN Written(now, loaded, new)
                  ELSE IF loaded = None /\ now = None THEN new ELSE now
           tells == IF /\ updates /\ thread[w].op = "test"
                       /\ new.last_test_status # loaded.last_test_status
                    THEN loaded.api_key ELSE tested[n]
           crosses == IF updates /\ Result(new) # Result(loaded)
                      THEN Result(now) # Result(loaded) ELSE crossed[n]
<1>1. /\ n \in Ngo /\ new \in AIProviderConfig
      /\ loaded = None \/ loaded \in AIProviderConfig
      /\ Writes(thread[w], new)
  BY WriterFacts DEF Commit
<1>2. /\ config \in [Ngo -> AIProviderConfig \cup {None}]
      /\ DOMAIN tested = Ngo /\ crossed \in [Ngo -> BOOLEAN]
  BY DEF IInv, TypeOK, ResultInv
<1>3. /\ config' = [config EXCEPT ![n] = row] /\ tested' = [tested EXCEPT ![n] = tells]
      /\ crossed' = [crossed EXCEPT ![n] = crosses]
  BY <1>1, <1>2 DEF Commit
<1>4. crosses \in BOOLEAN
  BY <1>1, <1>2
<1>5. \A m \in Ngo : Shown(m) => tested[m] = config[m].api_key \/ crossed[m]
  BY DEF ResultInv, ResultOfStoredKey
<1>6. (row # None /\ row.last_test_status # "untested") => tells = row.api_key \/ crosses
  <2>1. CASE ~updates
    <3>1. /\ row = now \/ (row = new /\ loaded = None)
          /\ tells = tested[n] /\ crosses = crossed[n]
      BY <2>1
    <3> HIDE DEF row, tells, crosses
    <3> QED
      BY <1>1, <1>5, <3>1 DEF Writes, Shown
  <2>2. CASE updates /\ Result(new) = Result(loaded)
    <3>1. /\ row = Written(now, loaded, new) /\ tells = tested[n] /\ crosses = crossed[n]
          /\ now \in AIProviderConfig /\ loaded \in AIProviderConfig
          /\ new.api_key = loaded.api_key /\ new.last_test_status = loaded.last_test_status
      BY <1>1, <1>2, <2>2 DEF Result
    <3> HIDE DEF row, tells, crosses, loaded, new
    <3>2. row.api_key = now.api_key /\ row.last_test_status = now.last_test_status
      BY <1>1, <3>1, WrittenConfig
    <3> QED
      BY <1>1, <1>5, <2>2, <3>1, <3>2 DEF Shown
  <2>3. CASE updates /\ Result(new) # Result(loaded) /\ Result(now) # Result(loaded)
    BY <2>3
  <2>4. CASE updates /\ Result(new) # Result(loaded) /\ Result(now) = Result(loaded)
    <3>1. /\ row = Written(now, loaded, new)
          /\ now \in AIProviderConfig /\ loaded \in AIProviderConfig
          /\ now.api_key = loaded.api_key /\ now.last_test_status = loaded.last_test_status
          /\ \/ new.api_key # loaded.api_key
             \/ new.last_test_status # loaded.last_test_status
          /\ (thread[w].op = "test" /\ new.last_test_status # loaded.last_test_status) =>
                 tells = loaded.api_key
      BY <1>1, <1>2, <2>4 DEF Result
    <3> HIDE DEF row, tells, crosses, loaded, new
    <3>2. row.api_key = new.api_key /\ row.last_test_status = new.last_test_status
      BY <1>1, <3>1, WrittenConfig
    <3> QED
      BY <1>1, <3>1, <3>2 DEF Writes, loaded
  <2> QED
    BY <2>1, <2>2, <2>3, <2>4
<1> HIDE DEF n, row, tells, crosses
<1>7. DOMAIN tested' = Ngo /\ crossed' \in [Ngo -> BOOLEAN]
  BY <1>1, <1>2, <1>3, <1>4
<1>8. ASSUME NEW m \in Ngo, Shown(m)' PROVE tested'[m] = config'[m].api_key \/ crossed'[m]
  <2>1. CASE m = n
    BY <1>2, <1>3, <1>6, <1>8, <2>1 DEF Shown
  <2>2. CASE m # n
    BY <1>2, <1>3, <1>5, <1>8, <2>2 DEF Shown
  <2> QED
    BY <2>1, <2>2
<1> QED
  BY <1>7, <1>8 DEF ResultInv, ResultOfStoredKey

LEMMA DeleteTells ==
    ASSUME IInv, ResultInv, NEW w \in Worker, DeleteCommit(w)
    PROVE  ResultInv'
<1>1. /\ config' = [config EXCEPT ![thread[w].ngo] = None]
      /\ tested' = tested /\ crossed' = crossed
  BY DEF DeleteCommit
<1>2. config \in [Ngo -> AIProviderConfig \cup {None}]
  BY DEF IInv, TypeOK
<1> QED
  BY <1>1, <1>2 DEF ResultInv, ResultOfStoredKey, Shown

(* The result shown is of the stored key, whatever overlaps, unless the    *)
(* commit that wrote one of the two found the row changed.                 *)
THEOREM ResultsAreOfStoredKeys == Spec => []ResultOfStoredKey
<1>1. Init => ResultInv
  BY DEF Init, AIConfigInit, ResultInv, ResultOfStoredKey, Shown
<1>2. IInv /\ ResultInv /\ [Next]_vars => ResultInv'
  <2> SUFFICES ASSUME IInv, ResultInv, [Next]_vars PROVE ResultInv'
    OBVIOUS
  <2>1. CASE UNCHANGED <<config, tested, crossed>>
    BY <2>1 DEF ResultInv, ResultOfStoredKey, Shown
  <2> QED
    BY <2>1, ConfigMoves, CommitTells, DeleteTells
<1>3. ResultInv => ResultOfStoredKey
  BY DEF ResultInv
<1> QED
  BY <1>1, <1>2, <1>3, InvHolds, PTL DEF Spec

=============================================================================
