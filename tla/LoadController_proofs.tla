------------------------ MODULE LoadController_proofs ------------------------
(***************************************************************************)
(* Proofs about LoadController, for any names, goroutines, limits, callers *)
(* and faults.                                                             *)
(***************************************************************************)
EXTENDS LoadController, SequenceTheorems, FiniteSetTheorems, SumTheorems, TLAPS

(* No element occurs twice: the second half of LRUMatchesEntries. *)
DupFree(s) == \A i, k \in DOMAIN s : s[i] = s[k] => i = k

(* RemoveAt closes the gap: the elements behind position i move up by one. *)
LEMMA RemoveAtFacts ==
  ASSUME NEW S, NEW s \in Seq(S), NEW i \in 1..Len(s)
  PROVE  /\ RemoveAt(s, i) \in Seq(S)
         /\ Len(RemoveAt(s, i)) = Len(s) - 1
         /\ \A k \in 1..(Len(s) - 1) : RemoveAt(s, i)[k] = IF k < i THEN s[k] ELSE s[k + 1]
  <1> DEFINE a == SubSeq(s, 1, i - 1)
             b == SubSeq(s, i + 1, Len(s))
  <1>1. a \in Seq(S) /\ Len(a) = i - 1 /\ \A k \in 1..(i - 1) : a[k] = s[k]
    OBVIOUS
  <1>2. b \in Seq(S) /\ Len(b) = Len(s) - i /\ \A k \in 1..(Len(s) - i) : b[k] = s[k + i]
    OBVIOUS
  <1> DEFINE c == a \o b
  <1>3. RemoveAt(s, i) = c
    BY DEF RemoveAt
  <1> HIDE DEF a, b
  <1>4. /\ c \in Seq(S)
        /\ Len(c) = Len(a) + Len(b)
        /\ \A k \in 1..(Len(a) + Len(b)) : c[k] = IF k <= Len(a) THEN a[k] ELSE b[k - Len(a)]
    BY <1>1, <1>2, ConcatProperties
  <1> HIDE DEF c
  <1>5. Len(s) \in Nat
    OBVIOUS
  <1>6. ASSUME NEW k \in 1..(Len(s) - 1)
        PROVE  c[k] = IF k < i THEN s[k] ELSE s[k + 1]
    <2>1. CASE k < i
      <3>1. k \in 1..(i - 1) /\ k \in 1..(Len(a) + Len(b)) /\ k <= Len(a)
        BY <1>1, <1>2, <1>5, <2>1
      <3>2. c[k] = a[k]
        BY <1>4, <3>1
      <3>3. a[k] = s[k]
        BY <1>1, <3>1
      <3> QED
        BY <2>1, <3>2, <3>3
    <2>2. CASE ~(k < i)
      <3>1. c[k] = b[k - (i - 1)]
        BY <1>1, <1>2, <1>4, <1>5, <2>2
      <3>2. k - (i - 1) \in 1..(Len(s) - i) /\ (k - (i - 1)) + i = k + 1
        BY <1>5, <2>2
      <3>3. b[k - (i - 1)] = s[(k - (i - 1)) + i]
        BY <1>2, <3>2
      <3> QED
        BY <2>2, <3>1, <3>2, <3>3
    <2> QED
      BY <2>1, <2>2
  <1> QED
    BY <1>1, <1>2, <1>3, <1>4, <1>5, <1>6

(* Of a list without duplicates removeLRU removes the name, and nothing else. *)
LEMMA RemoveFirstFacts ==
  ASSUME NEW S, NEW s \in Seq(S), NEW e, DupFree(s)
  PROVE  /\ RemoveFirst(s, e) \in Seq(S)
         /\ ToSet(RemoveFirst(s, e)) = ToSet(s) \ {e}
         /\ DupFree(RemoveFirst(s, e))
  <1>1. CASE ~ \E i \in 1..Len(s) : s[i] = e
    <2>1. RemoveFirst(s, e) = s
      BY <1>1 DEF RemoveFirst
    <2>2. e \notin ToSet(s)
      BY <1>1 DEF ToSet
    <2> QED
      BY <2>1, <2>2
  <1>2. CASE \E i \in 1..Len(s) : s[i] = e
    <2>1. PICK i \in 1..Len(s) : s[i] = e
      BY <1>2
    <2>2. {k \in 1..Len(s) : s[k] = e} = {i}
      BY <2>1 DEF DupFree
    <2>3. Min({i}) = i
      BY DEF Min
    <2>4. SelectInSeq(s, LAMBDA v : v = e) = i
      BY <2>2, <2>3 DEF SelectInSeq
    <2>5. RemoveFirst(s, e) = RemoveAt(s, i)
      BY <1>2, <2>4 DEF RemoveFirst
    <2> DEFINE r == RemoveAt(s, i)
    <2>6. /\ r \in Seq(S) /\ Len(r) = Len(s) - 1
          /\ \A k \in 1..(Len(s) - 1) : r[k] = IF k < i THEN s[k] ELSE s[k + 1]
      BY RemoveAtFacts
    <2> HIDE DEF r
    <2>7. DupFree(r)
      <3>1. SUFFICES ASSUME NEW k \in 1..Len(r), NEW l \in 1..Len(r), r[k] = r[l]
                     PROVE  k = l
        BY <2>6 DEF DupFree
      <3> DEFINE f(n) == IF n < i THEN n ELSE n + 1
      <3>2. r[k] = s[f(k)] /\ r[l] = s[f(l)]
        BY <2>6
      <3>3. f(k) \in DOMAIN s /\ f(l) \in DOMAIN s
        BY <2>6
      <3>4. f(k) = f(l)
        BY <3>1, <3>2, <3>3 DEF DupFree
      <3> QED
        BY <2>6, <3>4
    <2>8. ToSet(r) \subseteq ToSet(s) \ {e}
      BY <2>1, <2>6 DEF DupFree, ToSet
    <2>9. ASSUME NEW x \in ToSet(s) \ {e} PROVE x \in ToSet(r)
      <3>1. PICK k \in 1..Len(s) : s[k] = x
        BY DEF ToSet
      <3>2. k # i
        BY <2>1, <3>1
      <3>3. CASE k < i
        BY <3>1, <3>3, <2>6 DEF ToSet
      <3>4. CASE k > i
        <4>1. k - 1 \in 1..(Len(s) - 1) /\ r[k - 1] = x
          BY <3>1, <3>4, <2>6
        <4> QED
          BY <4>1, <2>6 DEF ToSet
      <3> QED
        BY <3>2, <3>3, <3>4
    <2> QED
      BY <2>5, <2>6, <2>7, <2>8, <2>9 DEF r
  <1> QED
    BY <1>1, <1>2

(* Appending a new name keeps a list without duplicates so. *)
LEMMA AppendFacts ==
  ASSUME NEW S, NEW s \in Seq(S), NEW e \in S, DupFree(s), e \notin ToSet(s)
  PROVE  /\ Append(s, e) \in Seq(S)
         /\ ToSet(Append(s, e)) = ToSet(s) \cup {e}
         /\ DupFree(Append(s, e))
  BY DEF DupFree, ToSet

-----------------------------------------------------------------------------
CacheType ==
    /\ entries \subseteq Names
    /\ lruOrder \in Seq(Names)
    /\ estMem \in [Names -> Nat]
    /\ inFlight \in [Names -> Nat]
    /\ pinned \subseteq Names
    /\ expired \subseteq Names

LockType ==
    /\ mu \in Threads \cup {NoThread}
    /\ loadLock \in [Names -> Threads \cup {NoThread}]

ReqType ==
    /\ pc \in [Threads -> Labels]
    /\ job \in [Threads -> AllJobs \cup {"none"}]
    /\ arg \in [Threads -> Names \cup {NoName}]
    /\ \A t \in Threads : pc[t] # "idle" => arg[t] \in Names
    /\ est \in [Threads -> Nat]

RestType ==
    /\ toRelease \subseteq Names
    /\ sweeping \in Names \cup {NoName}
    /\ milvus \subseteq Names
    /\ phys \in [Names -> PhysStates]

(* The type invariant, by the part of the state each conjunct is about. *)
LEMMA TypeParts == TypeOK <=> CacheType /\ LockType /\ ReqType /\ RestType
  BY DEF TypeOK, CacheType, LockType, ReqType, RestType

(* Where a goroutine holds a load lock. *)
Busy == {"recheck", "evict", "load", "insert"}

(* Going on to another label, or returning, keeps the goroutines' types. *)
LEMMA GotoType ==
  ASSUME ReqType, NEW t \in Threads, pc[t] # "idle", NEW l \in Labels, Goto(t, l)
  PROVE  ReqType'
  BY DEF ReqType, Goto, reqVars

(* So does the end of a request. *)
LEMMA ReturnType ==
  ASSUME ReqType, NEW t \in Threads, Return(t)
  PROVE  ReqType'
  BY DEF ReqType, Return, Labels

(* A step outside EnsureLoaded's locked part that adds no entry keeps LoadsExclusive. *)
LEMMA QuietGoto ==
  ASSUME ReqType, LoadsExclusive, NEW t \in Threads, NEW l \in Labels \ Busy, Goto(t, l),
         pc[t] \notin Busy, entries' \subseteq entries, UNCHANGED <<mu, loadLock>>
  PROVE  LoadsExclusive'
  BY DEF ReqType, LoadsExclusive, Goto, reqVars, Busy

(* The same for a request that ends. *)
LEMMA QuietReturn ==
  ASSUME ReqType, LoadsExclusive, NEW t \in Threads, Return(t),
         pc[t] \notin Busy, entries' \subseteq entries, UNCHANGED <<mu, loadLock>>
  PROVE  LoadsExclusive'
  BY DEF ReqType, LoadsExclusive, Return, Busy

(* So does one that moves no goroutine. *)
LEMMA QuietSweep ==
  ASSUME LoadsExclusive, entries' \subseteq entries, UNCHANGED <<mu, loadLock, pc, reqVars>>
  PROVE  LoadsExclusive'
  BY DEF LoadsExclusive, reqVars

(* Access, Forget and Insert keep the map and the LRU list in step. *)
LEMMA AccessOK ==
  ASSUME CacheType, LRUMatchesEntries, NEW n \in entries, Access(n)
  PROVE  CacheType' /\ LRUMatchesEntries' /\ entries' = entries
  <1> DEFINE r == RemoveFirst(lruOrder, n)
  <1>1. r \in Seq(Names) /\ ToSet(r) = entries \ {n} /\ DupFree(r)
    BY RemoveFirstFacts DEF CacheType, LRUMatchesEntries, DupFree
  <1>2. lruOrder' = Append(r, n)
    BY DEF Access, moveLRUToBack, removeLRU
  <1> HIDE DEF r
  <1>3. n \in Names
    BY DEF CacheType
  <1>4. Append(r, n) \in Seq(Names) /\ ToSet(Append(r, n)) = ToSet(r) \cup {n}
        /\ DupFree(Append(r, n))
    BY <1>1, <1>3, AppendFacts
  <1>5. entries' = entries /\ CacheType'
    BY <1>2, <1>4 DEF Access, CacheType
  <1>6. ToSet(lruOrder') = entries'
    BY <1>1, <1>2, <1>4, <1>5
  <1> QED
    BY <1>2, <1>4, <1>5, <1>6 DEF LRUMatchesEntries, DupFree

(* Removing an entry removes it from both. *)
LEMMA ForgetOK ==
  ASSUME CacheType, LRUMatchesEntries, NEW n \in Names, Forget(n)
  PROVE  CacheType' /\ LRUMatchesEntries' /\ entries' = entries \ {n}
  <1> DEFINE r == RemoveFirst(lruOrder, n)
  <1>1. r \in Seq(Names) /\ ToSet(r) = entries \ {n} /\ DupFree(r)
    BY RemoveFirstFacts DEF CacheType, LRUMatchesEntries, DupFree
  <1>2. lruOrder' = r /\ entries' = entries \ {n}
    BY DEF Forget, removeLRU
  <1> HIDE DEF r
  <1>3. CacheType'
    BY <1>1, <1>2 DEF Forget, CacheType
  <1>4. LRUMatchesEntries'
    BY <1>1, <1>2 DEF LRUMatchesEntries, DupFree
  <1> QED
    BY <1>2, <1>3, <1>4

(* A new name, which has no entry yet, is entered in both. *)
LEMMA InsertOK ==
  ASSUME CacheType, LRUMatchesEntries, NEW n \in Names \ entries, NEW mb \in Nat, Insert(n, mb)
  PROVE  CacheType' /\ LRUMatchesEntries' /\ entries' = entries \cup {n}
  <1>1. Append(lruOrder, n) \in Seq(Names) /\ ToSet(Append(lruOrder, n)) = ToSet(lruOrder) \cup {n}
        /\ DupFree(Append(lruOrder, n))
    BY AppendFacts DEF CacheType, LRUMatchesEntries, DupFree
  <1>2. lruOrder' = Append(lruOrder, n) /\ entries' = entries \cup {n}
    BY DEF Insert
  <1>3. CacheType'
    BY <1>1, <1>2 DEF Insert, CacheType
  <1>4. LRUMatchesEntries'
    BY <1>1, <1>2 DEF LRUMatchesEntries, DupFree
  <1> QED
    BY <1>2, <1>3, <1>4

(* A step that leaves the cache alone keeps what is said of it. *)
LEMMA CacheUnchanged ==
  ASSUME CacheType, LRUMatchesEntries, UNCHANGED cacheVars
  PROVE  CacheType' /\ LRUMatchesEntries' /\ entries' = entries
  BY DEF CacheType, LRUMatchesEntries, cacheVars

-----------------------------------------------------------------------------
(***************************************************************************)
(* The inductive invariant.  LRUMatchesEntries is not inductive alone:     *)
(* EnsureLoaded appends the name to the list without looking for it, and   *)
(* it is LoadsExclusive that says the name is not there.                   *)
(***************************************************************************)
IInv == CacheType /\ LockType /\ ReqType /\ RestType /\ LRUMatchesEntries /\ LoadsExclusive

(* It holds when the gateway starts. *)
LEMMA InitIInv == Init => IInv
  <1> SUFFICES ASSUME Init PROVE IInv
    OBVIOUS
  <1>1. TypeOK
    BY NamesAssumption, SubsetsAssumption, ThreadsAssumption, LimitsAssumption, OptionsAssumption
       DEF Init, TypeOK, AllJobs, Labels, PhysStates
  <1>2. LRUMatchesEntries
    BY DEF Init, LRUMatchesEntries, ToSet
  <1>3. LoadsExclusive
    BY ThreadsAssumption DEF Init, LoadsExclusive
  <1> QED
    BY <1>1, <1>2, <1>3, TypeParts DEF IInv

(* Every step preserves it. *)
LEMMA StepIInv == IInv /\ [Next]_vars => IInv'
  <1> SUFFICES ASSUME IInv, [Next]_vars PROVE IInv'
    OBVIOUS
  <1>1. CacheType /\ LockType /\ ReqType /\ RestType /\ LRUMatchesEntries /\ LoadsExclusive
    BY DEF IInv
  <1> USE <1>1
  <1>2. ASSUME NEW t \in Threads, NEW j \in Jobs \ {"sweep"}, NEW n \in Names, NEW mb \in Ests,
               Begin(t, j, n, mb)
        PROVE  IInv'
    <2>1. CacheType' /\ LRUMatchesEntries' /\ LockType' /\ entries' = entries
      BY <1>2, CacheUnchanged DEF Begin, LockType
    <2>2. RestType'
      BY <1>2 DEF Begin, RestType, sweepVars, PhysStates
    <2>3. First(j) \in {"ensure", "release", "mark"} /\ j \in AllJobs /\ mb \in Nat
      BY <1>2, OptionsAssumption, LimitsAssumption DEF First, AllJobs
    <2>4. ReqType'
      BY <1>2, <2>3 DEF Begin, ReqType, Labels
    <2>5. LoadsExclusive'
      BY <1>2, <2>1, <2>3 DEF Begin, At, LoadsExclusive, ReqType
    <2> QED
      BY <2>1, <2>2, <2>4, <2>5 DEF IInv
  <1>3. ASSUME NEW t \in Threads, EnsureCheck(t)
        PROVE  IInv'
    <2>1. CacheType' /\ LRUMatchesEntries' /\ entries' \subseteq entries
      <3>1. CASE arg[t] \in entries
        BY <1>3, <3>1, AccessOK DEF EnsureCheck
      <3>2. CASE arg[t] \notin entries
        BY <1>3, <3>2, CacheUnchanged DEF EnsureCheck
      <3> QED
        BY <3>1, <3>2
    <2>2. LockType' /\ RestType'
      BY <1>3 DEF EnsureCheck, sweepVars, extVars, LockType, RestType
    <2>3. ReqType'
      BY <1>3, GotoType DEF EnsureCheck, At, Labels, AfterEnsure
    <2>4. LoadsExclusive'
      BY <1>3, <2>1, QuietGoto DEF EnsureCheck, At, Labels, Busy, AfterEnsure
    <2> QED
      BY <2>1, <2>2, <2>3, <2>4 DEF IInv
  <1>4. ASSUME NEW t \in Threads, EnsureLock(t)
        PROVE  IInv'
    <2>1. CacheType' /\ LRUMatchesEntries' /\ entries' \subseteq entries
      BY <1>4, CacheUnchanged DEF EnsureLock
    <2>2. LockType' /\ RestType'
      BY <1>4 DEF EnsureLock, sweepVars, extVars, LockType, RestType
    <2>3. ReqType'
      BY <1>4, GotoType DEF EnsureLock, At, Labels
    <2>4. LoadsExclusive'
      BY <1>4, <2>1, ThreadsAssumption DEF EnsureLock, At, Goto, reqVars, LoadsExclusive, ReqType, LockType
    <2> QED
      BY <2>1, <2>2, <2>3, <2>4 DEF IInv
  <1>5. ASSUME NEW t \in Threads, EnsureRecheck(t)
        PROVE  IInv'
    <2>1. CacheType' /\ LRUMatchesEntries' /\ entries' \subseteq entries
      <3>1. CASE arg[t] \in entries
        BY <1>5, <3>1, AccessOK DEF EnsureRecheck
      <3>2. CASE arg[t] \notin entries
        BY <1>5, <3>2, CacheUnchanged DEF EnsureRecheck
      <3> QED
        BY <3>1, <3>2
    <2>2. LockType' /\ RestType'
      BY <1>5 DEF EnsureRecheck, Unlock, sweepVars, extVars, LockType, RestType
    <2>3. ReqType'
      BY <1>5, GotoType DEF EnsureRecheck, At, Labels, AfterEnsure
    <2>4. LoadsExclusive'
      <3>1. CASE arg[t] \in entries
        BY <1>5, <2>1, <3>1, ThreadsAssumption
           DEF EnsureRecheck, AfterEnsure, Unlock, At, Goto, reqVars, LoadsExclusive, ReqType, LockType
      <3>2. CASE arg[t] \notin entries
        BY <1>5, <2>1, <3>2, ThreadsAssumption
           DEF EnsureRecheck, At, Goto, reqVars, LoadsExclusive, ReqType, LockType
      <3> QED
        BY <3>1, <3>2
    <2> QED
      BY <2>1, <2>2, <2>3, <2>4 DEF IInv
  <1>6. ASSUME NEW t \in Threads, EvictDone(t)
        PROVE  IInv'
    <2>1. CacheType' /\ LRUMatchesEntries' /\ entries' \subseteq entries
      BY <1>6, CacheUnchanged DEF EvictDone
    <2>2. LockType' /\ RestType'
      BY <1>6 DEF EvictDone, sweepVars, extVars, LockType, RestType
    <2>3. ReqType'
      BY <1>6, GotoType DEF EvictDone, At, Labels
    <2>4. LoadsExclusive'
      BY <1>6, <2>1, ThreadsAssumption DEF EvictDone, At, Goto, reqVars, LoadsExclusive, ReqType, LockType
    <2> QED
      BY <2>1, <2>2, <2>3, <2>4 DEF IInv
  <1>7. ASSUME NEW t \in Threads, NEW n \in Names, EvictOne(t, n)
        PROVE  IInv'
    <2>1. CacheType' /\ LRUMatchesEntries' /\ entries' \subseteq entries
      BY <1>7, ForgetOK DEF EvictOne
    <2>2. LockType' /\ ReqType'
      BY <1>7 DEF EvictOne, LockType, ReqType, reqVars
    <2>3. RestType'
      BY <1>7 DEF EvictOne, ReleaseOK, RestType, sweepVars
    <2>4. LoadsExclusive'
      BY <1>7, <2>1, QuietSweep DEF EvictOne
    <2> QED
      BY <2>1, <2>2, <2>3, <2>4 DEF IInv
  <1>8. ASSUME NEW t \in Threads, EvictFail(t)
        PROVE  IInv'
    <2>1. CacheType' /\ LRUMatchesEntries' /\ entries' \subseteq entries
      BY <1>8, CacheUnchanged DEF EvictFail
    <2>2. LockType' /\ RestType'
      BY <1>8 DEF EvictFail, Unlock, ReleaseErr, sweepVars, LockType, RestType
    <2>3. ReqType'
      BY <1>8, ReturnType DEF EvictFail
    <2>4. LoadsExclusive'
      BY <1>8, <2>1, ThreadsAssumption DEF EvictFail, Unlock, At, Return, LoadsExclusive, ReqType, LockType
    <2> QED
      BY <2>1, <2>2, <2>3, <2>4 DEF IInv
  <1>9. ASSUME NEW t \in Threads, EnsureLoad(t)
        PROVE  IInv'
    <2>1. CacheType' /\ LRUMatchesEntries' /\ entries' \subseteq entries
      BY <1>9, CacheUnchanged DEF EnsureLoad
    <2>2. LockType' /\ RestType'
      BY <1>9 DEF EnsureLoad, Unlock, At, LoadOK, LoadErr, ReqType, sweepVars, LockType, RestType
    <2>3. ReqType'
      BY <1>9, GotoType, ReturnType DEF EnsureLoad, At, Labels
    <2>4. LoadsExclusive'
      <3>1. CASE Goto(t, "insert") /\ UNCHANGED loadLock
        BY <1>9, <2>1, <3>1, ThreadsAssumption DEF EnsureLoad, At, Goto, reqVars, LoadsExclusive, ReqType, LockType
      <3>2. CASE Unlock(t) /\ Return(t)
        BY <1>9, <2>1, <3>2, ThreadsAssumption DEF EnsureLoad, Unlock, At, Return, LoadsExclusive, ReqType, LockType
      <3> QED
        BY <1>9, <3>1, <3>2 DEF EnsureLoad
    <2> QED
      BY <2>1, <2>2, <2>3, <2>4 DEF IInv
  <1>10. ASSUME NEW t \in Threads, EnsureInsert(t)
        PROVE  IInv'
    <2>1. arg[t] \in Names \ entries /\ est[t] \in Nat
      BY <1>10 DEF EnsureInsert, At, LoadsExclusive, ReqType
    <2>2. CacheType' /\ LRUMatchesEntries' /\ entries' = entries \cup {arg[t]}
      BY <1>10, <2>1, InsertOK DEF EnsureInsert
    <2>3. LockType'
      BY <1>10 DEF EnsureInsert, Unlock, LockType
    <2>4. RestType'
      BY <1>10 DEF EnsureInsert, RestType, sweepVars, extVars
    <2>5. ReqType'
      BY <1>10, GotoType DEF EnsureInsert, At, Labels, AfterEnsure
    <2>6. LoadsExclusive'
      BY <1>10, <2>2, ThreadsAssumption
         DEF EnsureInsert, AfterEnsure, Unlock, At, Goto, reqVars, LoadsExclusive, ReqType, LockType
    <2> QED
      BY <2>2, <2>3, <2>4, <2>5, <2>6 DEF IInv
  <1>11. ASSUME NEW t \in Threads, InFlightInc(t)
        PROVE  IInv'
    <2>1. CacheType' /\ LRUMatchesEntries' /\ entries' \subseteq entries
      BY <1>11 DEF InFlightInc, At, CacheType, LRUMatchesEntries, ReqType
    <2>2. LockType' /\ RestType'
      BY <1>11 DEF InFlightInc, sweepVars, extVars, LockType, RestType
    <2>3. ReqType'
      BY <1>11, GotoType DEF InFlightInc, At, Labels
    <2>4. LoadsExclusive'
      BY <1>11, <2>1, QuietGoto DEF InFlightInc, At, Labels, Busy
    <2> QED
      BY <2>1, <2>2, <2>3, <2>4 DEF IInv
  <1>12. ASSUME NEW t \in Threads, Touch(t)
        PROVE  IInv'
    <2>1. CacheType' /\ LRUMatchesEntries' /\ entries' \subseteq entries
      <3>1. CASE arg[t] \in entries
        BY <1>12, <3>1, AccessOK DEF Touch
      <3>2. CASE arg[t] \notin entries
        BY <1>12, <3>2, CacheUnchanged DEF Touch
      <3> QED
        BY <3>1, <3>2
    <2>2. LockType' /\ RestType'
      BY <1>12 DEF Touch, sweepVars, extVars, LockType, RestType
    <2>3. ReqType'
      BY <1>12, GotoType DEF Touch, At, Labels
    <2>4. LoadsExclusive'
      BY <1>12, <2>1, QuietGoto DEF Touch, At, Labels, Busy
    <2> QED
      BY <2>1, <2>2, <2>3, <2>4 DEF IInv
  <1>13. ASSUME NEW t \in Threads, Search(t)
        PROVE  IInv'
    <2>1. CacheType' /\ LRUMatchesEntries' /\ entries' \subseteq entries
      BY <1>13, CacheUnchanged DEF Search
    <2>2. LockType' /\ RestType'
      BY <1>13 DEF Search, sweepVars, extVars, LockType, RestType
    <2>3. ReqType'
      BY <1>13, GotoType DEF Search, At, Labels
    <2>4. LoadsExclusive'
      BY <1>13, <2>1, QuietGoto DEF Search, At, Labels, Busy
    <2> QED
      BY <2>1, <2>2, <2>3, <2>4 DEF IInv
  <1>14. ASSUME NEW t \in Threads, InFlightDec(t)
        PROVE  IInv'
    <2>1. CacheType' /\ LRUMatchesEntries' /\ entries' \subseteq entries
      BY <1>14 DEF InFlightDec, At, CacheType, LRUMatchesEntries, ReqType
    <2>2. LockType' /\ RestType'
      BY <1>14 DEF InFlightDec, sweepVars, extVars, LockType, RestType
    <2>3. ReqType'
      BY <1>14, ReturnType DEF InFlightDec
    <2>4. LoadsExclusive'
      BY <1>14, <2>1, QuietReturn DEF InFlightDec, At, Busy
    <2> QED
      BY <2>1, <2>2, <2>3, <2>4 DEF IInv
  <1>15. ASSUME NEW t \in Threads, Pin(t)
        PROVE  IInv'
    <2>1. CacheType' /\ LRUMatchesEntries' /\ entries' \subseteq entries
      BY <1>15 DEF Pin, At, CacheType, LRUMatchesEntries, ReqType
    <2>2. LockType' /\ RestType'
      BY <1>15 DEF Pin, sweepVars, extVars, LockType, RestType
    <2>3. ReqType'
      BY <1>15, ReturnType DEF Pin
    <2>4. LoadsExclusive'
      BY <1>15, <2>1, QuietReturn DEF Pin, At, Busy
    <2> QED
      BY <2>1, <2>2, <2>3, <2>4 DEF IInv
  <1>16. ASSUME NEW t \in Threads, Unpin(t)
        PROVE  IInv'
    <2>1. CacheType' /\ LRUMatchesEntries' /\ entries' \subseteq entries
      BY <1>16 DEF Unpin, At, CacheType, LRUMatchesEntries, ReqType
    <2>2. LockType' /\ RestType'
      BY <1>16 DEF Unpin, sweepVars, extVars, LockType, RestType
    <2>3. ReqType'
      BY <1>16, GotoType DEF Unpin, At, Labels, AfterUnpin
    <2>4. LoadsExclusive'
      BY <1>16, <2>1, QuietGoto DEF Unpin, At, Labels, Busy, AfterUnpin
    <2> QED
      BY <2>1, <2>2, <2>3, <2>4 DEF IInv
  <1>17. ASSUME NEW t \in Threads, ReleaseCheck(t)
        PROVE  IInv'
    <2>1. CacheType' /\ LRUMatchesEntries' /\ entries' \subseteq entries
      BY <1>17, CacheUnchanged DEF ReleaseCheck
    <2>2. LockType' /\ RestType'
      BY <1>17 DEF ReleaseCheck, sweepVars, extVars, LockType, RestType
    <2>3. ReqType'
      BY <1>17, GotoType DEF ReleaseCheck, At, Labels, AfterRelease
    <2>4. LoadsExclusive'
      BY <1>17, <2>1, QuietGoto DEF ReleaseCheck, At, Labels, Busy, AfterRelease
    <2> QED
      BY <2>1, <2>2, <2>3, <2>4 DEF IInv
  <1>18. ASSUME NEW t \in Threads, ReleaseCall(t)
        PROVE  IInv'
    <2>1. CacheType' /\ LRUMatchesEntries' /\ entries' \subseteq entries
      BY <1>18, CacheUnchanged DEF ReleaseCall
    <2>2. LockType' /\ RestType'
      BY <1>18 DEF ReleaseCall, ReleaseOK, ReleaseErr, sweepVars, LockType, RestType
    <2>3. ReqType'
      BY <1>18, GotoType, ReturnType DEF ReleaseCall, At, Labels, AfterRelease
    <2>4. LoadsExclusive'
      BY <1>18, <2>1, QuietGoto, QuietReturn DEF ReleaseCall, At, Labels, Busy, AfterRelease
    <2> QED
      BY <2>1, <2>2, <2>3, <2>4 DEF IInv
  <1>19. ASSUME NEW t \in Threads, ReleaseDone(t)
        PROVE  IInv'
    <2>1. CacheType' /\ LRUMatchesEntries' /\ entries' \subseteq entries
      BY <1>19, ForgetOK DEF ReleaseDone, At, ReqType
    <2>2. LockType' /\ RestType'
      BY <1>19 DEF ReleaseDone, sweepVars, extVars, LockType, RestType
    <2>3. ReqType'
      BY <1>19, GotoType DEF ReleaseDone, At, Labels, AfterRelease
    <2>4. LoadsExclusive'
      BY <1>19, <2>1, QuietGoto DEF ReleaseDone, At, Labels, Busy, AfterRelease
    <2> QED
      BY <2>1, <2>2, <2>3, <2>4 DEF IInv
  <1>20. ASSUME NEW t \in Threads, Scan(t)
        PROVE  IInv'
    <2>1. CacheType' /\ LRUMatchesEntries' /\ entries' \subseteq entries
      BY <1>20, CacheUnchanged DEF Scan
    <2>2. LockType' /\ RestType'
      BY <1>20 DEF Scan, sweepVars, extVars, LockType, RestType
    <2>3. ReqType'
      BY <1>20, GotoType, ReturnType DEF Scan, At, Labels, UnpinOrSkip
    <2>4. LoadsExclusive'
      BY <1>20, <2>1, QuietGoto, QuietReturn DEF Scan, At, Labels, Busy, UnpinOrSkip
    <2> QED
      BY <2>1, <2>2, <2>3, <2>4 DEF IInv
  <1>21. ASSUME NEW t \in Threads, Mark(t)
        PROVE  IInv'
    <2>1. CacheType' /\ LRUMatchesEntries' /\ entries' \subseteq entries
      BY <1>21, CacheUnchanged DEF Mark
    <2>2. LockType' /\ RestType'
      BY <1>21 DEF Mark, sweepVars, PhysStates, LockType, RestType
    <2>3. ReqType'
      BY <1>21, GotoType, ReturnType DEF Mark, At, Labels, UnpinOrSkip
    <2>4. LoadsExclusive'
      BY <1>21, <2>1, QuietGoto, QuietReturn DEF Mark, At, Labels, Busy, UnpinOrSkip
    <2> QED
      BY <2>1, <2>2, <2>3, <2>4 DEF IInv
  <1>22. ASSUME NEW t \in Threads, RawRelease(t)
        PROVE  IInv'
    <2>1. CacheType' /\ LRUMatchesEntries' /\ entries' \subseteq entries
      BY <1>22, CacheUnchanged DEF RawRelease
    <2>2. LockType' /\ RestType'
      BY <1>22 DEF RawRelease, ReleaseOK, ReleaseErr, sweepVars, LockType, RestType
    <2>3. ReqType'
      BY <1>22, GotoType DEF RawRelease, At, Labels
    <2>4. LoadsExclusive'
      BY <1>22, <2>1, QuietGoto DEF RawRelease, At, Labels, Busy
    <2> QED
      BY <2>1, <2>2, <2>3, <2>4 DEF IInv
  <1>23. ASSUME NEW t \in Threads, Drop(t)
        PROVE  IInv'
    <2>1. CacheType' /\ LRUMatchesEntries' /\ entries' \subseteq entries
      BY <1>23, CacheUnchanged DEF Drop
    <2>2. LockType' /\ RestType'
      BY <1>23 DEF Drop, sweepVars, extVars, PhysStates, LockType, RestType
    <2>3. ReqType'
      BY <1>23, ReturnType DEF Drop
    <2>4. LoadsExclusive'
      BY <1>23, <2>1, QuietReturn DEF Drop, At, Busy
    <2> QED
      BY <2>1, <2>2, <2>3, <2>4 DEF IInv
  <1>24. ASSUME SweepSelect
        PROVE  IInv'
    <2>1. CacheType' /\ LRUMatchesEntries' /\ entries' \subseteq entries
      BY <1>24, CacheUnchanged DEF SweepSelect
    <2>2. LockType' /\ ReqType'
      BY <1>24 DEF SweepSelect, LockType, ReqType, reqVars
    <2>3. RestType'
      BY <1>24 DEF SweepSelect, RestType, CacheType, extVars
    <2>4. LoadsExclusive'
      BY <1>24, <2>1, QuietSweep DEF SweepSelect
    <2> QED
      BY <2>1, <2>2, <2>3, <2>4 DEF IInv
  <1>25. ASSUME NEW n \in Names, SweepCall(n)
        PROVE  IInv'
    <2>1. CacheType' /\ LRUMatchesEntries' /\ entries' \subseteq entries
      BY <1>25, CacheUnchanged DEF SweepCall
    <2>2. LockType' /\ ReqType'
      BY <1>25 DEF SweepCall, LockType, ReqType, reqVars
    <2>3. RestType'
      BY <1>25 DEF SweepCall, ReleaseOK, ReleaseErr, RestType
    <2>4. LoadsExclusive'
      BY <1>25, <2>1, QuietSweep DEF SweepCall
    <2> QED
      BY <2>1, <2>2, <2>3, <2>4 DEF IInv
  <1>26. ASSUME SweepForget
        PROVE  IInv'
    <2>1. CacheType' /\ LRUMatchesEntries' /\ entries' \subseteq entries
      BY <1>26, ForgetOK DEF SweepForget, RestType
    <2>2. LockType' /\ ReqType'
      BY <1>26 DEF SweepForget, LockType, ReqType, reqVars
    <2>3. RestType'
      BY <1>26 DEF SweepForget, RestType, extVars
    <2>4. LoadsExclusive'
      BY <1>26, <2>1, QuietSweep DEF SweepForget
    <2> QED
      BY <2>1, <2>2, <2>3, <2>4 DEF IInv
  <1>27. ASSUME NEW n \in Names, Expire(n)
        PROVE  IInv'
    <2>1. CacheType' /\ LRUMatchesEntries' /\ entries' \subseteq entries
      BY <1>27 DEF Expire, CacheType, LRUMatchesEntries
    <2>2. LockType' /\ ReqType'
      BY <1>27 DEF Expire, LockType, ReqType, reqVars
    <2>3. RestType'
      BY <1>27 DEF Expire, RestType, sweepVars, extVars
    <2>4. LoadsExclusive'
      BY <1>27, <2>1, QuietSweep DEF Expire
    <2> QED
      BY <2>1, <2>2, <2>3, <2>4 DEF IInv
  <1>28. ASSUME UNCHANGED vars
        PROVE  IInv'
    BY <1>28, CacheUnchanged
       DEF vars, cacheVars, reqVars, sweepVars, extVars, CacheType, LockType, ReqType, RestType, LRUMatchesEntries, LoadsExclusive, IInv
  <1> QED
    BY <1>2, <1>3, <1>4, <1>5, <1>6, <1>7, <1>8, <1>9, <1>10, <1>11, <1>12, <1>13, <1>14, <1>15,
       <1>16, <1>17, <1>18, <1>19, <1>20, <1>21, <1>22, <1>23, <1>24, <1>25, <1>26, <1>27, <1>28
       DEF Next, Step, SweepStep

(***************************************************************************)
(* The controller's state and every goroutine's stay well typed.           *)
(***************************************************************************)
THEOREM TypeCorrect == Spec => []TypeOK
  <1>1. IInv => TypeOK
    BY TypeParts DEF IInv
  <1> QED
    BY <1>1, InitIInv, StepIInv, PTL DEF Spec

(***************************************************************************)
(* The LRU list and the map of entries always name the same collections.   *)
(***************************************************************************)
LEMMA LRUMatches == Spec => []LRUMatchesEntries
  <1>1. IInv => LRUMatchesEntries
    BY DEF IInv
  <1> QED
    BY <1>1, InitIInv, StepIInv, PTL DEF Spec

(***************************************************************************)
(* Between the second check and the insertion EnsureLoaded holds the load  *)
(* lock and no other goroutine makes an entry for the name.                *)
(***************************************************************************)
LEMMA LoadExclusion == Spec => []LoadsExclusive
  <1>1. IInv => LoadsExclusive
    BY DEF IInv
  <1> QED
    BY <1>1, InitIInv, StepIInv, PTL DEF Spec

-----------------------------------------------------------------------------
(* What an entry holds; the rest of the cache is order and time. *)
EntryVars == <<entries, estMem, inFlight, pinned>>

(* Five actions change what an entry holds, and Forget, which removes it. *)
LEMMA CacheSteps ==
  ASSUME IInv, [Next]_vars
  PROVE  \/ UNCHANGED EntryVars
         \/ \E n \in Names : Forget(n)
         \/ \E t \in Threads : EnsureInsert(t) \/ InFlightInc(t) \/ InFlightDec(t) \/ Pin(t) \/ Unpin(t)
  <1> DEFINE Goal == \/ UNCHANGED EntryVars
                     \/ \E n \in Names : Forget(n)
                     \/ \E t \in Threads : \/ EnsureInsert(t) \/ InFlightInc(t) \/ InFlightDec(t)
                                           \/ Pin(t) \/ Unpin(t)
  <1>1. ASSUME NEW t \in Threads, NEW j \in Jobs \ {"sweep"}, NEW n \in Names, NEW mb \in Ests,
               Begin(t, j, n, mb)
        PROVE  Goal
    BY <1>1 DEF Begin, cacheVars, EntryVars
  <1>2. ASSUME NEW t \in Threads, EnsureCheck(t) \/ EnsureRecheck(t) \/ Touch(t)
        PROVE  Goal
    BY <1>2 DEF EnsureCheck, EnsureRecheck, Touch, Access, cacheVars, EntryVars
  <1>3. ASSUME NEW t \in Threads,
               EnsureLock(t) \/ EvictDone(t) \/ EvictFail(t) \/ EnsureLoad(t) \/ Search(t)
        PROVE  Goal
    BY <1>3 DEF EnsureLock, EvictDone, EvictFail, EnsureLoad, Search, cacheVars, EntryVars
  <1>4. ASSUME NEW t \in Threads,
               ReleaseCheck(t) \/ ReleaseCall(t) \/ Scan(t) \/ Mark(t) \/ RawRelease(t) \/ Drop(t)
        PROVE  Goal
    BY <1>4 DEF ReleaseCheck, ReleaseCall, Scan, Mark, RawRelease, Drop, cacheVars, EntryVars
  <1>5. ASSUME NEW t \in Threads, NEW n \in Names, EvictOne(t, n)
        PROVE  Goal
    BY <1>5 DEF EvictOne
  <1>6. ASSUME NEW t \in Threads, ReleaseDone(t)
        PROVE  Goal
    BY <1>6 DEF ReleaseDone, At, IInv, ReqType
  <1>7. ASSUME SweepStep
        PROVE  Goal
    <2>1. CASE SweepForget
      BY <2>1 DEF SweepForget, IInv, RestType
    <2>2. CASE SweepSelect \/ \E n \in Names : SweepCall(n)
      BY <2>2 DEF SweepSelect, SweepCall, cacheVars, EntryVars
    <2> QED
      BY <1>7, <2>1, <2>2 DEF SweepStep
  <1>8. ASSUME NEW n \in Names, Expire(n)
        PROVE  Goal
    BY <1>8 DEF Expire, EntryVars
  <1>9. ASSUME UNCHANGED vars
        PROVE  Goal
    BY <1>9 DEF vars, cacheVars, EntryVars
  <1> HIDE DEF Goal
  <1>10. Goal
    <2>1. ASSUME NEW t \in Threads, Step(t) PROVE Goal
      <3>1. CASE EnsureInsert(t) \/ InFlightInc(t) \/ InFlightDec(t) \/ Pin(t) \/ Unpin(t)
        BY <3>1 DEF Goal
      <3> QED
        BY <1>2, <1>3, <1>4, <1>5, <1>6, <2>1, <3>1 DEF Step
    <2> QED
      BY <1>1, <1>7, <1>8, <1>9, <2>1 DEF Next
  <1> QED
    BY <1>10 DEF Goal

(* No step replaces a live entry. *)
LEMMA StepKeepsEntries ==
  ASSUME IInv, [Next]_vars
  PROVE  EntriesKept
  <1> SUFFICES ASSUME NEW n \in entries, n \in entries' PROVE EntryKept(n)
    BY DEF EntriesKept
  <1>1. n \in Names /\ inFlight \in [Names -> Nat] /\ estMem \in [Names -> Nat]
    BY DEF IInv, CacheType
  <1>2. CASE UNCHANGED EntryVars
    BY <1>1, <1>2 DEF EntryVars, EntryKept
  <1>3. ASSUME NEW m \in Names, Forget(m) PROVE EntryKept(n)
    BY <1>1, <1>3 DEF Forget, EntryKept
  <1>4. ASSUME NEW t \in Threads, EnsureInsert(t) PROVE EntryKept(n)
    BY <1>1, <1>4 DEF EnsureInsert, Insert, At, EntryKept, IInv, LoadsExclusive
  <1>5. ASSUME NEW t \in Threads, InFlightInc(t) PROVE EntryKept(n)
    BY <1>1, <1>5 DEF InFlightInc, EntryKept
  <1>6. ASSUME NEW t \in Threads, InFlightDec(t) PROVE EntryKept(n)
    BY <1>1, <1>6 DEF InFlightDec, Return, Completes, At, EntryKept, IInv, ReqType
  <1>7. ASSUME NEW t \in Threads, Pin(t) PROVE EntryKept(n)
    BY <1>1, <1>7 DEF Pin, EntryKept
  <1>8. ASSUME NEW t \in Threads, Unpin(t) PROVE EntryKept(n)
    BY <1>1, <1>8 DEF Unpin, Goto, AfterUnpin, Completes, At, EntryKept, IInv, ReqType
  <1> QED
    BY <1>2, <1>3, <1>4, <1>5, <1>6, <1>7, <1>8, CacheSteps

(***************************************************************************)
(* While a collection stays cached no step resets its entry: the count     *)
(* falls only by an InFlightDec, the pin goes only by an Unpin.            *)
(***************************************************************************)
THEOREM EntriesNeverReplaced == Spec => EntryNotReplaced
  <1>1. IInv /\ [Next]_vars => [EntriesKept]_vars
    BY StepKeepsEntries
  <1> QED
    BY <1>1, InitIInv, StepIInv, PTL DEF Spec, EntryNotReplaced

-----------------------------------------------------------------------------
(* The goroutines between InFlightInc and InFlightDec, and the admitted ones. *)
CountedLabels == {"touch", "search", "dec"}
AdmittedLabels == {"load", "insert"}

(* Goroutine t moves without entering or leaving CountedLabels, or being admitted. *)
Unnoticed(t) ==
    /\ \A u \in Threads \ {t} : pc'[u] = pc[u] /\ arg'[u] = arg[u]
    /\ pc[t] \in CountedLabels <=> pc'[t] \in CountedLabels
    /\ pc[t] \in CountedLabels => arg'[t] = arg[t]
    /\ pc'[t] \in AdmittedLabels => pc[t] \in AdmittedLabels

(* A goroutine that goes on within or outside these labels is unnoticed. *)
LEMMA UnnoticedGoto ==
  ASSUME ReqType, NEW t \in Threads, NEW l \in Labels, Goto(t, l),
         pc[t] \in CountedLabels <=> l \in CountedLabels,
         l \in AdmittedLabels => pc[t] \in AdmittedLabels
  PROVE  Unnoticed(t)
  BY DEF ReqType, Goto, reqVars, Unnoticed

(* So is one that ends its request from outside them. *)
LEMMA UnnoticedReturn ==
  ASSUME ReqType, NEW t \in Threads, Return(t), pc[t] \notin CountedLabels
  PROVE  Unnoticed(t)
  BY DEF ReqType, Return, Unnoticed, CountedLabels, AdmittedLabels

(* Every step but four moves at most one goroutine, unnoticed. *)
LEMMA PcSteps ==
  ASSUME IInv, [Next]_vars
  PROVE  \/ \E t \in Threads : \/ InFlightInc(t) \/ InFlightDec(t) \/ EvictDone(t) \/ EnsureInsert(t)
                               \/ Unnoticed(t)
         \/ UNCHANGED <<pc, arg>>
  <1> DEFINE Goal == \/ \E t \in Threads : \/ InFlightInc(t) \/ InFlightDec(t) \/ EvictDone(t)
                                           \/ EnsureInsert(t) \/ Unnoticed(t)
                     \/ UNCHANGED <<pc, arg>>
  <1>1. ReqType
    BY DEF IInv
  <1>2. ASSUME NEW t \in Threads, NEW j \in Jobs \ {"sweep"}, NEW n \in Names, NEW mb \in Ests,
               Begin(t, j, n, mb)
        PROVE  Unnoticed(t)
    <2>1. First(j) \in {"ensure", "release", "mark"}
      BY OptionsAssumption DEF First, AllJobs
    <2> QED
      BY <1>1, <1>2, <2>1 DEF Begin, At, ReqType, Unnoticed, CountedLabels, AdmittedLabels
  <1>3. ASSUME NEW t \in Threads, EnsureCheck(t) \/ EnsureLock(t) \/ EnsureRecheck(t)
        PROVE  Unnoticed(t)
    <2>1. AfterEnsure(job[t]) \in Labels \ (CountedLabels \cup AdmittedLabels)
      BY DEF AfterEnsure, Labels, CountedLabels, AdmittedLabels
    <2>2. PICK l \in Labels \ (CountedLabels \cup AdmittedLabels) : Goto(t, l)
      BY <1>3, <2>1
         DEF EnsureCheck, EnsureLock, EnsureRecheck, Labels, CountedLabels, AdmittedLabels
    <2>3. pc[t] \notin CountedLabels
      BY <1>3 DEF EnsureCheck, EnsureLock, EnsureRecheck, At, CountedLabels
    <2> QED
      BY <1>1, <2>2, <2>3, UnnoticedGoto
  <1>4. ASSUME NEW t \in Threads, EvictFail(t) \/ Drop(t) \/ Pin(t)
        PROVE  Unnoticed(t)
    BY <1>1, <1>4, UnnoticedReturn DEF EvictFail, Drop, Pin, At, CountedLabels
  <1>5. ASSUME NEW t \in Threads, EnsureLoad(t)
        PROVE  Unnoticed(t)
    BY <1>1, <1>5, UnnoticedReturn, UnnoticedGoto
       DEF EnsureLoad, At, CountedLabels, AdmittedLabels, Labels
  <1>6. ASSUME NEW t \in Threads, Touch(t) \/ Search(t)
        PROVE  Unnoticed(t)
    BY <1>1, <1>6, UnnoticedGoto DEF Touch, Search, At, CountedLabels, AdmittedLabels, Labels
  <1>7. ASSUME NEW t \in Threads, Unpin(t) \/ ReleaseCheck(t) \/ ReleaseDone(t) \/ RawRelease(t)
        PROVE  Unnoticed(t)
    BY <1>1, <1>7, UnnoticedGoto
       DEF Unpin, ReleaseCheck, ReleaseDone, RawRelease, AfterUnpin, AfterRelease,
           At, CountedLabels, AdmittedLabels, Labels
  <1>8. ASSUME NEW t \in Threads, ReleaseCall(t) \/ Scan(t) \/ Mark(t)
        PROVE  Unnoticed(t)
    BY <1>1, <1>8, UnnoticedGoto, UnnoticedReturn
       DEF ReleaseCall, Scan, Mark, AfterRelease, UnpinOrSkip, At, CountedLabels, AdmittedLabels, Labels
  <1>9. ASSUME NEW t \in Threads, NEW n \in Names, EvictOne(t, n)
        PROVE  UNCHANGED <<pc, arg>>
    BY <1>9 DEF EvictOne, reqVars
  <1>10. ASSUME SweepStep \/ (\E n \in Names : Expire(n)) \/ UNCHANGED vars
         PROVE  UNCHANGED <<pc, arg>>
    BY <1>10 DEF SweepStep, SweepSelect, SweepCall, SweepForget, Expire, vars, reqVars
  <1>11. ASSUME NEW t \in Threads, Step(t) PROVE Goal
    BY <1>3, <1>4, <1>5, <1>6, <1>7, <1>8, <1>9, <1>11 DEF Step
  <1> HIDE DEF Goal
  <1>12. Goal
    <2>1. ASSUME NEW t \in Threads, Unnoticed(t) PROVE Goal
      BY <2>1 DEF Goal
    <2>2. ASSUME UNCHANGED <<pc, arg>> PROVE Goal
      BY <2>2 DEF Goal
    <2> QED
      BY <1>2, <1>10, <1>11, <2>1, <2>2 DEF Next
  <1> QED
    BY <1>12 DEF Goal

-----------------------------------------------------------------------------
(* A name without an entry has no count; InFlightDec would leave one there. *)
Neutral == \A n \in Names : n \notin entries => inFlight[n] = 0

(* No step leaves a count behind when the entry goes. *)
LEMMA NeutralStep ==
  ASSUME IInv, Neutral, [Next]_vars
  PROVE  Neutral'
  <1>1. CacheType /\ ReqType
    BY DEF IInv
  <1>2. CASE UNCHANGED EntryVars
    BY <1>2 DEF EntryVars, Neutral
  <1>3. ASSUME NEW m \in Names, Forget(m) PROVE Neutral'
    BY <1>1, <1>3 DEF Forget, Neutral, CacheType
  <1>4. ASSUME NEW t \in Threads, EnsureInsert(t) PROVE Neutral'
    BY <1>1, <1>4 DEF EnsureInsert, Insert, Neutral, CacheType
  <1>5. ASSUME NEW t \in Threads, InFlightInc(t) \/ InFlightDec(t) PROVE Neutral'
    BY <1>1, <1>5 DEF InFlightInc, InFlightDec, Neutral, CacheType
  <1>6. ASSUME NEW t \in Threads, Pin(t) \/ Unpin(t) PROVE Neutral'
    BY <1>6 DEF Pin, Unpin, Neutral
  <1> QED
    BY <1>2, <1>3, <1>4, <1>5, <1>6, CacheSteps

(* Sets of goroutines are finite. *)
LEMMA ThreadSets ==
  ASSUME NEW S \in SUBSET Threads
  PROVE  /\ IsFiniteSet(S) /\ Cardinality(S) \in Nat /\ Cardinality(Threads) \in Nat
         /\ Cardinality(S) <= Cardinality(Threads)
         /\ \A t \in Threads \ S : Cardinality(S \cup {t}) = Cardinality(S) + 1
         /\ \A t \in S : Cardinality(S \ {t}) = Cardinality(S) - 1
  <1>1. IsFiniteSet(S) /\ Cardinality(S) <= Cardinality(Threads)
    BY ThreadsAssumption, FS_Subset
  <1>2. Cardinality(S) \in Nat /\ Cardinality(Threads) \in Nat
    BY <1>1, ThreadsAssumption, FS_CardinalityType
  <1>3. \A t \in Threads \ S : Cardinality(S \cup {t}) = Cardinality(S) + 1
    BY <1>1, FS_AddElement
  <1>4. \A t \in S : Cardinality(S \ {t}) = Cardinality(S) - 1
    BY <1>1, FS_RemoveElement
  <1> QED
    BY <1>1, <1>2, <1>3, <1>4

(* An unnoticed step keeps the running queries and admits no goroutine. *)
LEMMA UnnoticedSets ==
  ASSUME \/ \E t \in Threads : Unnoticed(t)
         \/ UNCHANGED <<pc, arg>>
  PROVE  (\A n \in Names : Counted(n)' = Counted(n)) /\ Admitted' \subseteq Admitted
  BY DEF Unnoticed, Counted, Admitted, CountedLabels, AdmittedLabels

(* Every step keeps each count at or below the number of running queries. *)
LEMMA CountedStep ==
  ASSUME IInv, Neutral, InFlightNeverOvercounts, [Next]_vars
  PROVE  InFlightNeverOvercounts'
  <1> SUFFICES ASSUME NEW n \in Names PROVE inFlight'[n] <= Cardinality(Counted(n)')
    BY DEF InFlightNeverOvercounts, Counted
  <1>1. inFlight \in [Names -> Nat] /\ inFlight[n] \in Nat /\ inFlight[n] <= Cardinality(Counted(n))
        /\ ReqType /\ CacheType
    BY DEF IInv, CacheType, InFlightNeverOvercounts
  <1>2. Counted(n) \in SUBSET Threads
    BY DEF Counted
  <1>3. Cardinality(Counted(n)) \in Nat
    BY <1>2, ThreadSets
  <1>4. ASSUME NEW t \in Threads, InFlightInc(t) PROVE inFlight'[n] <= Cardinality(Counted(n)')
    <2>1. CASE arg[t] = n
      <3>1. Counted(n)' = Counted(n) \cup {t} /\ t \notin Counted(n)
        BY <1>1, <1>4, <2>1 DEF InFlightInc, At, Goto, reqVars, Counted, ReqType
      <3>2. Cardinality(Counted(n)') = Cardinality(Counted(n)) + 1
        BY <1>2, <3>1, ThreadSets
      <3>3. inFlight'[n] <= inFlight[n] + 1
        BY <1>1, <1>4 DEF InFlightInc
      <3>4. inFlight'[n] \in Nat
        BY <1>1, <1>4 DEF InFlightInc
      <3> QED
        BY <1>1, <1>3, <3>2, <3>3, <3>4
    <2>2. CASE arg[t] # n
      <3>1. Counted(n)' = Counted(n)
        BY <1>1, <1>4, <2>2 DEF InFlightInc, Goto, reqVars, Counted, ReqType
      <3>2. inFlight'[n] = inFlight[n]
        BY <1>1, <1>4, <2>2 DEF InFlightInc
      <3> QED
        BY <1>1, <3>1, <3>2
    <2> QED
      BY <2>1, <2>2
  <1>5. ASSUME NEW t \in Threads, InFlightDec(t) PROVE inFlight'[n] <= Cardinality(Counted(n)')
    <2>1. CASE arg[t] = n
      <3>1. Counted(n)' = Counted(n) \ {t} /\ t \in Counted(n)
        BY <1>1, <1>5, <2>1 DEF InFlightDec, At, Return, Counted, ReqType
      <3>2. Cardinality(Counted(n)') = Cardinality(Counted(n)) - 1
        BY <1>2, <3>1, ThreadSets
      <3>3. inFlight'[n] = IF inFlight[n] > 0 THEN inFlight[n] - 1 ELSE 0
        BY <1>1, <1>5, <2>1 DEF InFlightDec, Neutral
      <3>4. Cardinality(Counted(n)') \in Nat
        <4>1. Counted(n)' \in SUBSET Threads
          BY <1>2, <3>1
        <4> QED
          BY <4>1, ThreadSets
      <3> QED
        BY <1>1, <1>3, <3>2, <3>3, <3>4
    <2>2. CASE arg[t] # n
      <3>1. Counted(n)' = Counted(n)
        BY <1>1, <1>5, <2>2 DEF InFlightDec, Return, Counted, ReqType
      <3>2. inFlight'[n] = inFlight[n]
        BY <1>1, <1>5, <2>2 DEF InFlightDec
      <3> QED
        BY <1>1, <3>1, <3>2
    <2> QED
      BY <2>1, <2>2
  <1>6. ASSUME ~ \E t \in Threads : InFlightInc(t) \/ InFlightDec(t)
        PROVE  inFlight'[n] <= Cardinality(Counted(n)')
    <2>1. inFlight'[n] = inFlight[n] \/ inFlight'[n] = 0
      BY <1>1, <1>6, CacheSteps
         DEF EntryVars, Forget, EnsureInsert, Insert, Pin, Unpin, CacheType
    <2>2. Counted(n)' = Counted(n)
      <3>1. ASSUME NEW t \in Threads, EvictDone(t) \/ EnsureInsert(t) PROVE Counted(n)' = Counted(n)
        BY <1>1, <3>1
           DEF EvictDone, EnsureInsert, AfterEnsure, At, Goto, reqVars, Counted, ReqType
      <3> QED
        BY <1>6, <3>1, PcSteps, UnnoticedSets
    <2> QED
      BY <1>1, <1>3, <2>1, <2>2
  <1> QED
    BY <1>4, <1>5, <1>6

(***************************************************************************)
(* However entries come and go between a query's InFlightInc and its       *)
(* InFlightDec, InFlightCount never exceeds the number of running queries, *)
(* so that no count left behind keeps a collection loaded for ever.        *)
(***************************************************************************)
THEOREM InFlightSound == Spec => []InFlightNeverOvercounts
  <1>1. Init => Neutral /\ InFlightNeverOvercounts
    <2> SUFFICES ASSUME Init, NEW n \in Names PROVE inFlight[n] = 0 /\ 0 <= Cardinality(Counted(n))
      BY DEF Neutral, InFlightNeverOvercounts
    <2>1. Counted(n) \in SUBSET Threads
      BY DEF Counted
    <2> QED
      BY <2>1, ThreadSets DEF Init
  <1>2. IInv /\ Neutral /\ InFlightNeverOvercounts /\ [Next]_vars
           => Neutral' /\ InFlightNeverOvercounts'
    BY NeutralStep, CountedStep
  <1> QED
    BY <1>1, <1>2, InitIInv, StepIInv, PTL DEF Spec

-----------------------------------------------------------------------------
(* Every step keeps the number of entries and admitted goroutines in its bound. *)
LEMMA OvershootStep ==
  ASSUME IInv, CountOvershootBounded, [Next]_vars
  PROVE  CountOvershootBounded'
  <1> SUFFICES ASSUME MaxLoaded > 0
               PROVE  Cardinality(entries') + Cardinality(Admitted')
                          <= MaxLoaded + (Cardinality(Threads) - 1)
    BY DEF CountOvershootBounded
  <1>1. ReqType /\ CacheType /\ LoadsExclusive /\ IsFiniteSet(entries) /\ Cardinality(entries) \in Nat
    BY NamesAssumption, FS_Subset, FS_CardinalityType DEF IInv, CacheType
  <1>2. Admitted \in SUBSET Threads /\ Admitted' \in SUBSET Threads
    BY DEF Admitted
  <1>3. /\ Cardinality(Admitted) \in Nat /\ Cardinality(Admitted') \in Nat
        /\ Cardinality(Admitted') <= Cardinality(Threads) /\ Cardinality(Threads) \in Nat
        /\ MaxLoaded \in Nat
    BY <1>2, ThreadSets, LimitsAssumption
  <1>4. Cardinality(entries) + Cardinality(Admitted) <= MaxLoaded + (Cardinality(Threads) - 1)
    BY DEF CountOvershootBounded
  <1>5. ASSUME NEW t \in Threads, EvictDone(t)
        PROVE  Cardinality(entries') + Cardinality(Admitted') <= MaxLoaded + (Cardinality(Threads) - 1)
    <2>1. entries' = entries /\ Cardinality(entries) < MaxLoaded
      BY <1>1, <1>3, <1>5 DEF EvictDone, OverLimit, cacheVars
    <2> QED
      BY <1>1, <1>3, <2>1
  <1>6. ASSUME NEW t \in Threads, EnsureInsert(t)
        PROVE  Cardinality(entries') + Cardinality(Admitted') <= MaxLoaded + (Cardinality(Threads) - 1)
    <2>1. arg[t] \notin entries /\ entries' = entries \cup {arg[t]}
      BY <1>1, <1>6 DEF EnsureInsert, Insert, At, LoadsExclusive
    <2>2. Cardinality(entries') = Cardinality(entries) + 1
      BY <1>1, <2>1, FS_AddElement
    <2>3. Admitted' = Admitted \ {t} /\ t \in Admitted
      BY <1>1, <1>6 DEF EnsureInsert, AfterEnsure, At, Goto, Admitted, ReqType
    <2>4. Cardinality(Admitted') = Cardinality(Admitted) - 1
      BY <1>2, <2>3, ThreadSets
    <2> QED
      BY <1>1, <1>3, <1>4, <2>2, <2>4
  <1>7. ASSUME ~ \E t \in Threads : EvictDone(t) \/ EnsureInsert(t)
        PROVE  Cardinality(entries') + Cardinality(Admitted') <= MaxLoaded + (Cardinality(Threads) - 1)
    <2>1. entries' \subseteq entries
      BY <1>7, CacheSteps DEF EntryVars, Forget, InFlightInc, InFlightDec, Pin, Unpin
    <2>2. Cardinality(entries') \in Nat /\ Cardinality(entries') <= Cardinality(entries)
      BY <1>1, <2>1, FS_Subset, FS_CardinalityType
    <2>3. Admitted' \subseteq Admitted
      <3>1. ASSUME NEW t \in Threads, InFlightInc(t) \/ InFlightDec(t) PROVE Admitted' \subseteq Admitted
        BY <1>1, <3>1 DEF InFlightInc, InFlightDec, Goto, Return, Admitted, ReqType
      <3> QED
        BY <1>7, <3>1, PcSteps, UnnoticedSets
    <2>4. Cardinality(Admitted') <= Cardinality(Admitted)
      BY <1>2, <2>3, ThreadSets, FS_Subset
    <2> QED
      BY <1>1, <1>3, <1>4, <2>2, <2>4
  <1> QED
    BY <1>5, <1>6, <1>7

(***************************************************************************)
(* The entries and the loads that were admitted exceed maxLoaded by fewer  *)
(* than there are goroutines, whatever they do.                            *)
(***************************************************************************)
LEMMA CountBound == Spec => []CountOvershootBounded
  <1>1. Init => CountOvershootBounded
    <2> SUFFICES ASSUME Init, MaxLoaded > 0
                 PROVE  Cardinality(entries) + Cardinality(Admitted)
                            <= MaxLoaded + (Cardinality(Threads) - 1)
      BY DEF CountOvershootBounded
    <2>1. entries = {} /\ Admitted = {}
      BY DEF Init, Admitted
    <2>2. Cardinality({}) = 0
      BY FS_EmptySet
    <2>3. Cardinality(Threads) \in Nat /\ MaxLoaded \in Nat
      BY ThreadSets, LimitsAssumption
    <2> QED
      BY <2>1, <2>2, <2>3
  <1>2. IInv /\ CountOvershootBounded /\ [Next]_vars => CountOvershootBounded'
    BY OvershootStep
  <1> QED
    BY <1>1, <1>2, InitIInv, StepIInv, PTL DEF Spec

-----------------------------------------------------------------------------
(***************************************************************************)
(* The order of the list and the time of the last access, which the code   *)
(* keeps apart: five operations change one or the other.                   *)
(***************************************************************************)
(* removeLRU keeps the order of the names it leaves. *)
LEMMA RemoveFirstOrder ==
  ASSUME NEW S, NEW s \in Seq(S), NEW e, DupFree(s)
  PROVE  \A i, k \in DOMAIN RemoveFirst(s, e) : k < i =>
            \E j, l \in DOMAIN s : l < j /\ s[j] = RemoveFirst(s, e)[i] /\ s[l] = RemoveFirst(s, e)[k]
  <1>1. CASE ~ \E i \in 1..Len(s) : s[i] = e
    <2>1. RemoveFirst(s, e) = s
      BY <1>1 DEF RemoveFirst
    <2> QED
      BY <2>1
  <1>2. CASE \E i \in 1..Len(s) : s[i] = e
    <2>1. PICK m \in 1..Len(s) : s[m] = e
      BY <1>2
    <2>2. {k \in 1..Len(s) : s[k] = e} = {m}
      BY <2>1 DEF DupFree
    <2>3. Min({m}) = m
      BY DEF Min
    <2>4. SelectInSeq(s, LAMBDA v : v = e) = m
      BY <2>2, <2>3 DEF SelectInSeq
    <2>5. RemoveFirst(s, e) = RemoveAt(s, m)
      BY <1>2, <2>4 DEF RemoveFirst
    <2> DEFINE r == RemoveAt(s, m)
    <2>6. /\ r \in Seq(S) /\ Len(r) = Len(s) - 1
          /\ \A k \in 1..(Len(s) - 1) : r[k] = IF k < m THEN s[k] ELSE s[k + 1]
      BY RemoveAtFacts
    <2> HIDE DEF r
    <2>7. ASSUME NEW i \in DOMAIN r, NEW k \in DOMAIN r, k < i
          PROVE  \E j, l \in DOMAIN s : l < j /\ s[j] = r[i] /\ s[l] = r[k]
      <3> DEFINE f(n) == IF n < m THEN n ELSE n + 1
      <3>1. r[k] = s[f(k)] /\ r[i] = s[f(i)]
        BY <2>6
      <3>2. f(k) \in DOMAIN s /\ f(i) \in DOMAIN s /\ f(k) < f(i)
        BY <2>6, <2>7
      <3> QED
        BY <3>1, <3>2
    <2> QED
      BY <2>5, <2>7 DEF r
  <1> QED
    BY <1>1, <1>2

(* Every step is one of these for the list and the times. *)
LEMMA OrderSteps ==
  ASSUME IInv, [Next]_vars
  PROVE  \/ UNCHANGED <<lruOrder, expired>>
         \/ \E n \in entries : Access(n)
         \/ \E n \in Names : Forget(n)
         \/ \E n \in Names \ entries, mb \in Nat : Insert(n, mb)
         \/ \E n \in Names : Expire(n)
  <1> DEFINE Goal == \/ UNCHANGED <<lruOrder, expired>>
                     \/ \E n \in entries : Access(n)
                     \/ \E n \in Names : Forget(n)
                     \/ \E n \in Names \ entries, mb \in Nat : Insert(n, mb)
                     \/ \E n \in Names : Expire(n)
  <1> USE DEF cacheVars
  <1>1. ASSUME NEW t \in Threads, NEW j \in Jobs \ {"sweep"}, NEW n \in Names, NEW mb \in Ests,
               Begin(t, j, n, mb)
        PROVE  Goal
    BY <1>1 DEF Begin
  <1>2. ASSUME NEW t \in Threads, EnsureCheck(t) \/ EnsureRecheck(t) \/ Touch(t)
        PROVE  Goal
    BY <1>2 DEF EnsureCheck, EnsureRecheck, Touch
  <1>3. ASSUME NEW t \in Threads,
               EnsureLock(t) \/ EvictDone(t) \/ EvictFail(t) \/ EnsureLoad(t) \/ Search(t)
        PROVE  Goal
    BY <1>3 DEF EnsureLock, EvictDone, EvictFail, EnsureLoad, Search
  <1>4. ASSUME NEW t \in Threads,
               ReleaseCheck(t) \/ ReleaseCall(t) \/ Scan(t) \/ Mark(t) \/ RawRelease(t) \/ Drop(t)
        PROVE  Goal
    BY <1>4 DEF ReleaseCheck, ReleaseCall, Scan, Mark, RawRelease, Drop
  <1>5. ASSUME NEW t \in Threads, NEW n \in Names, EvictOne(t, n)
        PROVE  Goal
    BY <1>5 DEF EvictOne
  <1>6. ASSUME NEW t \in Threads, ReleaseDone(t)
        PROVE  Goal
    BY <1>6 DEF ReleaseDone, At, IInv, ReqType
  <1>7. ASSUME NEW t \in Threads, EnsureInsert(t)
        PROVE  Goal
    BY <1>7 DEF EnsureInsert, At, IInv, ReqType, LoadsExclusive
  <1>8. ASSUME NEW t \in Threads, InFlightInc(t) \/ InFlightDec(t) \/ Pin(t) \/ Unpin(t)
        PROVE  Goal
    BY <1>8 DEF InFlightInc, InFlightDec, Pin, Unpin
  <1>9. ASSUME SweepStep
        PROVE  Goal
    <2>1. CASE SweepForget
      BY <2>1 DEF SweepForget, IInv, RestType
    <2>2. CASE SweepSelect \/ \E n \in Names : SweepCall(n)
      BY <2>2 DEF SweepSelect, SweepCall
    <2> QED
      BY <1>9, <2>1, <2>2 DEF SweepStep
  <1>10. ASSUME NEW n \in Names, Expire(n)
        PROVE  Goal
    BY <1>10
  <1>11. ASSUME UNCHANGED vars
        PROVE  Goal
    BY <1>11 DEF vars
  <1> HIDE DEF Goal
  <1>12. ASSUME NEW t \in Threads, Step(t) PROVE Goal
    BY <1>2, <1>3, <1>4, <1>5, <1>6, <1>7, <1>8, <1>12 DEF Step
  <1>13. Goal
    BY <1>1, <1>9, <1>10, <1>11, <1>12 DEF Next
  <1> QED
    BY <1>13 DEF Goal

(* The names in e, without n, stay in front when n is taken from the list. *)
LEMMA OrderAfterRemove ==
  ASSUME CacheType, LRUMatchesEntries, LRUAgreesWithLastAccess, NEW n
  PROVE  /\ removeLRU(n) \in Seq(Names)
         /\ \A i \in DOMAIN removeLRU(n) : removeLRU(n)[i] # n
         /\ \A i, k \in DOMAIN removeLRU(n) :
               k < i /\ removeLRU(n)[i] \in expired => removeLRU(n)[k] \in expired
  <1> DEFINE r == RemoveFirst(lruOrder, n)
  <1>1. lruOrder \in Seq(Names) /\ DupFree(lruOrder)
    BY DEF CacheType, LRUMatchesEntries, DupFree
  <1>2. r \in Seq(Names) /\ ToSet(r) = ToSet(lruOrder) \ {n}
    BY <1>1, RemoveFirstFacts
  <1>3. \A i, k \in DOMAIN r : k < i =>
            \E j, l \in DOMAIN lruOrder : l < j /\ lruOrder[j] = r[i] /\ lruOrder[l] = r[k]
    BY <1>1, RemoveFirstOrder
  <1>4. removeLRU(n) = r
    BY DEF removeLRU
  <1> HIDE DEF r
  <1>5. \A i \in DOMAIN r : r[i] # n
    BY <1>2 DEF ToSet
  <1>6. ASSUME NEW i \in DOMAIN r, NEW k \in DOMAIN r, k < i, r[i] \in expired PROVE r[k] \in expired
    <2>1. PICK j, l \in DOMAIN lruOrder : l < j /\ lruOrder[j] = r[i] /\ lruOrder[l] = r[k]
      BY <1>3, <1>6
    <2> QED
      BY <1>6, <2>1 DEF LRUAgreesWithLastAccess
  <1> QED
    BY <1>2, <1>4, <1>5, <1>6

(* The expired entries stay in front of the list. *)
LEMMA AccessOrderStep ==
  ASSUME IInv, LRUAgreesWithLastAccess, [Next]_vars
  PROVE  LRUAgreesWithLastAccess'
  <1>1. CacheType /\ LRUMatchesEntries /\ lruOrder \in Seq(Names)
    BY DEF IInv, CacheType
  <1>2. CASE UNCHANGED <<lruOrder, expired>>
    BY <1>2 DEF LRUAgreesWithLastAccess
  <1>3. ASSUME NEW r \in Seq(Names), NEW n \in Names, \A i \in DOMAIN r : r[i] # n,
               \A i, k \in DOMAIN r : k < i /\ r[i] \in expired => r[k] \in expired,
               lruOrder' = Append(r, n), expired' = expired \ {n}
        PROVE  LRUAgreesWithLastAccess'
    <2> SUFFICES ASSUME NEW i \in DOMAIN lruOrder', NEW k \in DOMAIN lruOrder', k < i,
                        lruOrder'[i] \in expired'
                 PROVE  lruOrder'[k] \in expired'
      BY DEF LRUAgreesWithLastAccess
    <2>1. /\ DOMAIN r = 1..Len(r) /\ Len(r) \in Nat /\ DOMAIN lruOrder' = 1..(Len(r) + 1)
          /\ \A j \in 1..Len(r) : lruOrder'[j] = r[j]
          /\ lruOrder'[Len(r) + 1] = n
      BY <1>3
    <2>2. i # Len(r) + 1
      BY <1>3, <2>1
    <2>3. i \in 1..Len(r) /\ k \in 1..Len(r)
      BY <2>1, <2>2
    <2> QED
      BY <1>3, <2>1, <2>3
  <1>4. ASSUME NEW n \in entries, Access(n) PROVE LRUAgreesWithLastAccess'
    <2>1. n \in Names /\ lruOrder' = Append(removeLRU(n), n) /\ expired' = expired \ {n}
      BY <1>1, <1>4 DEF CacheType, Access, moveLRUToBack
    <2> QED
      BY <1>1, <1>3, <2>1, OrderAfterRemove
  <1>5. ASSUME NEW n \in Names, Forget(n) PROVE LRUAgreesWithLastAccess'
    <2>1. lruOrder' = removeLRU(n) /\ expired' = expired \ {n}
      BY <1>5 DEF Forget
    <2> QED
      BY <1>1, <2>1, OrderAfterRemove DEF LRUAgreesWithLastAccess
  <1>6. ASSUME NEW n \in Names \ entries, NEW mb \in Nat, Insert(n, mb) PROVE LRUAgreesWithLastAccess'
    <2>1. lruOrder' = Append(lruOrder, n) /\ expired' = expired \ {n}
      BY <1>6 DEF Insert
    <2>2. \A i \in DOMAIN lruOrder : lruOrder[i] # n
      BY <1>1 DEF LRUMatchesEntries, ToSet
    <2> QED
      BY <1>1, <1>3, <2>1, <2>2 DEF LRUAgreesWithLastAccess
  <1>7. ASSUME NEW n \in Names, Expire(n) PROVE LRUAgreesWithLastAccess'
    <2>1. lruOrder' = lruOrder /\ expired' = expired \cup {n}
      BY <1>7 DEF Expire
    <2>2. PICK m \in DOMAIN lruOrder : lruOrder[m] = n /\ \A k \in 1..(m - 1) : lruOrder[k] \in expired
      BY <1>7 DEF Expire
    <2> SUFFICES ASSUME NEW i \in DOMAIN lruOrder, NEW k \in DOMAIN lruOrder, k < i,
                        lruOrder[i] \in expired \cup {n}
                 PROVE  lruOrder[k] \in expired \cup {n}
      BY <2>1 DEF LRUAgreesWithLastAccess
    <2>3. CASE lruOrder[i] = n
      <3>1. i = m
        BY <1>1, <2>2, <2>3 DEF LRUMatchesEntries
      <3>2. k \in 1..(m - 1)
        BY <1>1, <3>1
      <3> QED
        BY <2>2, <3>2
    <2>4. CASE lruOrder[i] \in expired
      BY <2>4 DEF LRUAgreesWithLastAccess
    <2> QED
      BY <2>3, <2>4
  <1> QED
    BY <1>2, <1>4, <1>5, <1>6, <1>7, OrderSteps

(* The entries older than ttl are always the first ones of the list. *)
LEMMA AccessOrder == Spec => []LRUAgreesWithLastAccess
  <1>1. Init => LRUAgreesWithLastAccess
    BY DEF Init, LRUAgreesWithLastAccess
  <1>2. IInv /\ LRUAgreesWithLastAccess /\ [Next]_vars => LRUAgreesWithLastAccess'
    BY AccessOrderStep
  <1> QED
    BY <1>1, <1>2, InitIInv, StepIInv, PTL DEF Spec

(***************************************************************************)
(* The LRU list names the entries of the map, each once, in the order of   *)
(* the last access, whatever paths refresh, insert and remove entries: the *)
(* order in which eviction picks its victims is that of the ttl.           *)
(***************************************************************************)
THEOREM LRUCorrect == Spec => []LRUOrdersEntries
  BY LRUMatches, AccessOrder, PTL DEF LRUOrdersEntries

-----------------------------------------------------------------------------
(***************************************************************************)
(* The cache and Milvus, with queries and creations only: no goroutine is  *)
(* at a call that releases outside EnsureLoaded, and a collection that is  *)
(* about to be entered is loaded.                                          *)
(***************************************************************************)
ServedLabels == {"idle", "ensure", "lock", "recheck", "evict", "load", "insert",
                 "inc", "touch", "search", "dec", "pin"}

Served ==
    /\ toRelease = {} /\ sweeping = NoName
    /\ \A t \in Threads : /\ pc[t] \in ServedLabels
                          /\ job[t] \in {"query", "create", "none"}
                          /\ pc[t] = "insert" => arg[t] \in milvus

(* What changes when no entry does, and no goroutine leaves an insertion. *)
LEMMA MirrorQuiet ==
  ASSUME IInv, Served, CacheMirrorsMilvus, entries' = entries, milvus' = milvus,
         toRelease' = {}, sweeping' = NoName, NEW t \in Threads,
         pc'[t] \in ServedLabels \ {"insert"}, job'[t] \in {"query", "create", "none"}, pc[t] # "insert",
         \A u \in Threads \ {t} : pc'[u] = pc[u] /\ job'[u] = job[u] /\ arg'[u] = arg[u]
  PROVE  Served' /\ CacheMirrorsMilvus'
  <1>1. Served'
    BY DEF Served
  <1>2. \A u \in Threads : At(u, "insert") => At(u, "insert")' /\ arg'[u] = arg[u]
    BY DEF At
  <1>3. CacheMirrorsMilvus'
    BY <1>2 DEF CacheMirrorsMilvus, At
  <1> QED
    BY <1>1, <1>3

(* A goroutine that goes on or ends moves alone. *)
LEMMA MoveAlone ==
  ASSUME ReqType, NEW t \in Threads
  PROVE  /\ \A l \in Labels : Goto(t, l) =>
               /\ pc'[t] = l /\ job'[t] = job[t] /\ arg'[t] = arg[t]
               /\ \A u \in Threads \ {t} : pc'[u] = pc[u] /\ job'[u] = job[u] /\ arg'[u] = arg[u]
         /\ Return(t) =>
               /\ pc'[t] = "idle" /\ job'[t] = "none"
               /\ \A u \in Threads \ {t} : pc'[u] = pc[u] /\ job'[u] = job[u] /\ arg'[u] = arg[u]
  BY DEF ReqType, Goto, Return, reqVars

(* Every step keeps the cache and Milvus in agreement. *)
LEMMA MirrorStep ==
  ASSUME Jobs \subseteq {"query", "create"}, "late" \notin Faults,
         IInv, Served, CacheMirrorsMilvus, [Next]_vars
  PROVE  Served' /\ CacheMirrorsMilvus'
  <1> USE DEF cacheVars, sweepVars, extVars
  <1>1. ReqType /\ CacheType /\ LoadsExclusive /\ milvus \subseteq Names
    BY DEF IInv, RestType
  <1>2. toRelease = {} /\ sweeping = NoName
    BY DEF Served
  <1>3. ASSUME NEW t \in Threads, NEW j \in Jobs \ {"sweep"}, NEW n \in Names, NEW mb \in Ests,
               Begin(t, j, n, mb)
        PROVE  Served' /\ CacheMirrorsMilvus'
    <2>1. First(j) = "ensure" /\ j \in {"query", "create"}
      BY DEF First
    <2>2. /\ pc'[t] = "ensure" /\ job'[t] = j /\ pc[t] = "idle"
          /\ \A u \in Threads \ {t} : pc'[u] = pc[u] /\ job'[u] = job[u] /\ arg'[u] = arg[u]
      BY <1>1, <1>3, <2>1 DEF Begin, At, ReqType
    <2>3. entries' = entries /\ milvus' = milvus /\ toRelease' = {} /\ sweeping' = NoName
      BY <1>2, <1>3 DEF Begin
    <2>4. pc'[t] \in ServedLabels \ {"insert"}
      BY <2>2 DEF ServedLabels
    <2> QED
      BY <2>1, <2>2, <2>3, <2>4, MirrorQuiet
  <1>4. ASSUME NEW t \in Threads, NEW l \in ServedLabels \ {"insert"}, Goto(t, l) \/ Return(t),
               pc[t] # "insert", entries' = entries, milvus' = milvus,
               toRelease' = toRelease, sweeping' = sweeping
        PROVE  Served' /\ CacheMirrorsMilvus'
    <2>1. l \in Labels /\ "idle" \in ServedLabels \ {"insert"} /\ job[t] \in {"query", "create", "none"}
      BY DEF ServedLabels, Labels, Served
    <2>2. /\ pc'[t] \in ServedLabels \ {"insert"} /\ job'[t] \in {"query", "create", "none"}
          /\ \A u \in Threads \ {t} : pc'[u] = pc[u] /\ job'[u] = job[u] /\ arg'[u] = arg[u]
      BY <1>1, <1>4, <2>1, MoveAlone
    <2> QED
      BY <1>2, <1>4, <2>2, MirrorQuiet
  <1>5. ASSUME NEW t \in Threads PROVE AfterEnsure(job[t]) \in ServedLabels \ {"insert"}
    BY DEF AfterEnsure, Served, ServedLabels
  <1>6. ASSUME NEW t \in Threads, EnsureCheck(t) \/ EnsureRecheck(t)
        PROVE  Served' /\ CacheMirrorsMilvus'
    <2>1. /\ pc[t] # "insert" /\ entries' = entries /\ milvus' = milvus
          /\ toRelease' = toRelease /\ sweeping' = sweeping
      BY <1>6 DEF EnsureCheck, EnsureRecheck, At, Access
    <2>2. Goto(t, AfterEnsure(job[t])) \/ Goto(t, "lock") \/ Goto(t, "evict")
      BY <1>6 DEF EnsureCheck, EnsureRecheck
    <2>3. "lock" \in ServedLabels \ {"insert"} /\ "evict" \in ServedLabels \ {"insert"}
      BY DEF ServedLabels
    <2> QED
      BY <1>4, <1>5, <2>1, <2>2, <2>3
  <1>7. ASSUME NEW t \in Threads, EnsureLock(t) \/ EvictDone(t) \/ InFlightInc(t) \/ Touch(t) \/ Search(t)
        PROVE  Served' /\ CacheMirrorsMilvus'
    <2>1. /\ pc[t] # "insert" /\ entries' = entries /\ milvus' = milvus
          /\ toRelease' = toRelease /\ sweeping' = sweeping
      BY <1>7 DEF EnsureLock, EvictDone, InFlightInc, Touch, Search, At, Access
    <2>2. \E l \in {"recheck", "load", "touch", "search", "dec"} : Goto(t, l)
      BY <1>7 DEF EnsureLock, EvictDone, InFlightInc, Touch, Search
    <2>3. {"recheck", "load", "touch", "search", "dec"} \subseteq ServedLabels \ {"insert"}
      BY DEF ServedLabels
    <2> QED
      BY <1>4, <2>1, <2>2, <2>3
  <1>8. ASSUME NEW t \in Threads, InFlightDec(t) \/ Pin(t) \/ EvictFail(t)
        PROVE  Served' /\ CacheMirrorsMilvus'
    <2>1. /\ pc[t] # "insert" /\ entries' = entries /\ milvus' = milvus /\ Return(t)
          /\ toRelease' = toRelease /\ sweeping' = sweeping
      BY <1>8 DEF InFlightDec, Pin, EvictFail, ReleaseErr, At
    <2>2. "idle" \in ServedLabels \ {"insert"}
      BY DEF ServedLabels
    <2> QED
      BY <1>4, <2>1, <2>2
  <1>9. ASSUME NEW t \in Threads, EnsureLoad(t)
        PROVE  Served' /\ CacheMirrorsMilvus'
    <2>1. CASE LoadErr(arg[t]) /\ Return(t)
      <3>1. /\ pc[t] # "insert" /\ entries' = entries /\ milvus' = milvus
            /\ toRelease' = toRelease /\ sweeping' = sweeping
        BY <1>9, <2>1 DEF EnsureLoad, LoadErr, At
      <3>2. "idle" \in ServedLabels \ {"insert"}
        BY DEF ServedLabels
      <3> QED
        BY <1>4, <2>1, <3>1, <3>2
    <2>2. CASE LoadOK(arg[t]) /\ Goto(t, "insert")
      <3>1. /\ entries' = entries /\ milvus' = milvus \cup {arg[t]} /\ pc[t] = "load"
            /\ toRelease' = {} /\ sweeping' = NoName
        BY <1>2, <1>9, <2>2 DEF EnsureLoad, LoadOK, At
      <3>2. "insert" \in Labels /\ "insert" \in ServedLabels
        BY DEF Labels, ServedLabels
      <3>3. /\ pc'[t] = "insert" /\ job'[t] = job[t] /\ arg'[t] = arg[t]
            /\ \A u \in Threads \ {t} : pc'[u] = pc[u] /\ job'[u] = job[u] /\ arg'[u] = arg[u]
        BY <1>1, <2>2, <3>2, MoveAlone
      <3>4. Served'
        BY <3>1, <3>2, <3>3 DEF Served
      <3>5. \A u \in Threads : At(u, "insert") => At(u, "insert")' /\ arg'[u] = arg[u]
        BY <3>3 DEF At
      <3>6. At(t, "insert")' /\ arg'[t] = arg[t]
        BY <3>3 DEF At
      <3>7. CacheMirrorsMilvus'
        BY <3>1, <3>5, <3>6 DEF CacheMirrorsMilvus, At
      <3> QED
        BY <3>4, <3>7
    <2> QED
      BY <1>9, <2>1, <2>2 DEF EnsureLoad
  <1>10. ASSUME NEW t \in Threads, EnsureInsert(t)
         PROVE  Served' /\ CacheMirrorsMilvus'
    <2>1. /\ entries' = entries \cup {arg[t]} /\ milvus' = milvus /\ pc[t] = "insert"
          /\ toRelease' = {} /\ sweeping' = NoName /\ Goto(t, AfterEnsure(job[t]))
      BY <1>2, <1>10 DEF EnsureInsert, Insert, At
    <2>2. AfterEnsure(job[t]) \in ServedLabels \ {"insert"} /\ AfterEnsure(job[t]) \in Labels
      BY <1>5 DEF ServedLabels, Labels
    <2>3. /\ pc'[t] \in ServedLabels \ {"insert"} /\ job'[t] = job[t]
          /\ \A u \in Threads \ {t} : pc'[u] = pc[u] /\ job'[u] = job[u] /\ arg'[u] = arg[u]
      BY <1>1, <2>1, <2>2, MoveAlone
    <2>4. Served'
      BY <2>1, <2>3 DEF Served
    <2>5. \A u \in Threads \ {t} : At(u, "insert") => At(u, "insert")' /\ arg'[u] = arg[u]
      BY <2>3 DEF At
    <2>6. arg[t] \in milvus
      BY <2>1 DEF Served
    <2>7. CacheMirrorsMilvus'
      BY <2>1, <2>5, <2>6 DEF CacheMirrorsMilvus, At
    <2> QED
      BY <2>4, <2>7
  <1>11. ASSUME NEW t \in Threads, NEW n \in Names, EvictOne(t, n)
         PROVE  Served' /\ CacheMirrorsMilvus'
    <2>1. /\ entries' = entries \ {n} /\ milvus' = milvus \ {n} /\ n \in entries
          /\ UNCHANGED <<pc, job, arg, toRelease, sweeping>>
      BY <1>11 DEF EvictOne, ReleaseOK, Forget, Candidate, Evictable, reqVars
    <2>2. \A u \in Threads : pc[u] = "insert" => arg[u] # n
      BY <1>1, <2>1 DEF LoadsExclusive
    <2>3. Served'
      BY <2>1, <2>2 DEF Served
    <2>4. CacheMirrorsMilvus'
      BY <2>1 DEF CacheMirrorsMilvus, At
    <2> QED
      BY <2>3, <2>4
  <1>12. ASSUME NEW t \in Threads,
                \/ Unpin(t) \/ ReleaseCheck(t) \/ ReleaseCall(t) \/ ReleaseDone(t)
                \/ Scan(t) \/ Mark(t) \/ RawRelease(t) \/ Drop(t)
         PROVE  FALSE
    <2>1. pc[t] \in ServedLabels
      BY DEF Served
    <2> QED
      BY <1>12, <2>1 DEF ServedLabels, Unpin, ReleaseCheck, ReleaseCall, ReleaseDone, Scan, Mark,
                         RawRelease, Drop, At
  <1>13. ASSUME SweepStep \/ \E n \in Names : Expire(n) PROVE FALSE
    BY <1>2, <1>13 DEF SweepStep, SweepSelect, SweepCall, SweepForget, Expire
  <1>14. ASSUME UNCHANGED vars PROVE Served' /\ CacheMirrorsMilvus'
    <2>1. UNCHANGED <<entries, milvus, pc, job, arg, toRelease, sweeping>>
      BY <1>14 DEF vars, reqVars
    <2> QED
      BY <2>1 DEF Served, CacheMirrorsMilvus, At
  <1>15. ASSUME NEW t \in Threads, Step(t) PROVE Served' /\ CacheMirrorsMilvus'
    BY <1>6, <1>7, <1>8, <1>9, <1>10, <1>11, <1>12, <1>15 DEF Step
  <1> QED
    BY <1>3, <1>13, <1>14, <1>15 DEF Next

(***************************************************************************)
(* While only queries and creations run, and a Milvus call that returns an *)
(* error has had no effect, the cache mirrors Milvus: eviction and loading *)
(* change both, with failures in between too.  The hypotheses are needed:  *)
(* the sweep, a refresh and a migration release first and remove the entry *)
(* later, a deletion does not remove it at all, and a late effect of a     *)
(* failed release leaves an entry that is not loaded.                      *)
(***************************************************************************)
THEOREM CacheMirror ==
  ASSUME Jobs \subseteq {"query", "create"}, "late" \notin Faults
  PROVE  Spec => []CacheMirrorsMilvus
  <1>1. Init => Served /\ CacheMirrorsMilvus
    BY DEF Init, Served, ServedLabels, CacheMirrorsMilvus
  <1>2. IInv /\ Served /\ CacheMirrorsMilvus /\ [Next]_vars => Served' /\ CacheMirrorsMilvus'
    BY MirrorStep
  <1> QED
    BY <1>1, <1>2, InitIInv, StepIInv, PTL DEF Spec

-----------------------------------------------------------------------------
(***************************************************************************)
(* The memory budget.  A request keeps its estimate from Begin to Return.  *)
(***************************************************************************)
Estimated == \A t \in Threads : pc[t] # "idle" => est[t] \in Ests

(* Goroutine t begins a request with estimate mb, and is not admitted yet. *)
Starts(t, mb) ==
    /\ pc[t] = "idle"
    /\ \E l \in Labels \ AdmittedLabels : pc' = [pc EXCEPT ![t] = l]
    /\ est' = [est EXCEPT ![t] = mb]

(* A step leaves the estimates and the idle goroutines as they are. *)
KeepsEst == UNCHANGED est /\ \A u \in Threads : pc[u] = "idle" => pc'[u] = "idle"

(* A goroutine that goes on keeps its estimate. *)
LEMMA GotoKeepsEst ==
  ASSUME ReqType, NEW t \in Threads, pc[t] # "idle", NEW l \in Labels, Goto(t, l)
  PROVE  KeepsEst
  BY DEF ReqType, Goto, reqVars, KeepsEst

(* Only the beginning and the end of a request change its estimate. *)
LEMMA EstSteps ==
  ASSUME IInv, [Next]_vars
  PROVE  \/ KeepsEst
         \/ \E t \in Threads : Return(t)
         \/ \E t \in Threads, mb \in Ests : Starts(t, mb)
  <1> DEFINE Goal == \/ KeepsEst
                     \/ \E t \in Threads : Return(t)
                     \/ \E t \in Threads, mb \in Ests : Starts(t, mb)
  <1>1. ReqType
    BY DEF IInv
  <1>2. ASSUME NEW t \in Threads, NEW j \in Jobs \ {"sweep"}, NEW n \in Names, NEW mb \in Ests,
               Begin(t, j, n, mb)
        PROVE  Starts(t, mb)
    <2>1. First(j) \in Labels \ AdmittedLabels
      BY OptionsAssumption DEF First, AllJobs, Labels, AdmittedLabels
    <2> QED
      BY <1>2, <2>1 DEF Begin, At, Starts
  <1>3. ASSUME NEW t \in Threads, EnsureCheck(t) \/ EnsureLock(t) \/ EnsureRecheck(t) \/ EnsureInsert(t)
        PROVE  KeepsEst
    <2>1. AfterEnsure(job[t]) \in Labels
      BY DEF AfterEnsure, Labels
    <2>2. PICK l \in Labels : Goto(t, l)
      BY <1>3, <2>1 DEF EnsureCheck, EnsureLock, EnsureRecheck, EnsureInsert, Labels
    <2>3. pc[t] # "idle"
      BY <1>3 DEF EnsureCheck, EnsureLock, EnsureRecheck, EnsureInsert, At
    <2> QED
      BY <1>1, <2>2, <2>3, GotoKeepsEst
  <1>4. ASSUME NEW t \in Threads, EvictFail(t) \/ Drop(t) \/ Pin(t) \/ InFlightDec(t)
        PROVE  Return(t)
    BY <1>4 DEF EvictFail, Drop, Pin, InFlightDec
  <1>5. ASSUME NEW t \in Threads, EnsureLoad(t) \/ ReleaseCall(t) \/ Scan(t) \/ Mark(t)
        PROVE  KeepsEst \/ Return(t)
    <2>1. pc[t] # "idle"
      BY <1>5 DEF EnsureLoad, ReleaseCall, Scan, Mark, At
    <2>2. UnpinOrSkip(t) \in Labels /\ AfterRelease(job[t]) \in Labels
      BY DEF UnpinOrSkip, AfterRelease, Labels
    <2>3. (\E l \in Labels : Goto(t, l)) \/ Return(t)
      BY <1>5, <2>2 DEF EnsureLoad, ReleaseCall, Scan, Mark, Labels
    <2> QED
      BY <1>1, <2>1, <2>3, GotoKeepsEst
  <1>6. ASSUME NEW t \in Threads,
               EvictDone(t) \/ InFlightInc(t) \/ Touch(t) \/ Search(t) \/ RawRelease(t)
        PROVE  KeepsEst
    <2>1. pc[t] # "idle" /\ \E l \in Labels : Goto(t, l)
      BY <1>6 DEF EvictDone, InFlightInc, Touch, Search, RawRelease, At, Labels
    <2> QED
      BY <1>1, <2>1, GotoKeepsEst
  <1>7. ASSUME NEW t \in Threads, Unpin(t) \/ ReleaseCheck(t) \/ ReleaseDone(t)
        PROVE  KeepsEst
    <2>1. pc[t] # "idle" /\ \E l \in Labels : Goto(t, l)
      BY <1>7 DEF Unpin, ReleaseCheck, ReleaseDone, AfterUnpin, AfterRelease, At, Labels
    <2> QED
      BY <1>1, <2>1, GotoKeepsEst
  <1>8. ASSUME NEW t \in Threads, NEW n \in Names, EvictOne(t, n)
        PROVE  KeepsEst
    BY <1>8 DEF EvictOne, reqVars, KeepsEst
  <1>9. ASSUME SweepStep \/ (\E n \in Names : Expire(n)) \/ UNCHANGED vars
        PROVE  KeepsEst
    BY <1>9 DEF SweepStep, SweepSelect, SweepCall, SweepForget, Expire, vars, reqVars, KeepsEst
  <1>10. ASSUME NEW t \in Threads, Step(t) PROVE Goal
    BY <1>3, <1>4, <1>5, <1>6, <1>7, <1>8, <1>10 DEF Step
  <1> HIDE DEF Goal
  <1>11. Goal
    <2>1. ASSUME KeepsEst \/ \E t \in Threads, mb \in Ests : Starts(t, mb) PROVE Goal
      BY <2>1 DEF Goal
    <2> QED
      BY <1>2, <1>9, <1>10, <2>1 DEF Next
  <1> QED
    BY <1>11 DEF Goal

(* Every request works with one of the estimates. *)
LEMMA EstimatedStep ==
  ASSUME IInv, Estimated, [Next]_vars
  PROVE  Estimated'
  <1>1. ReqType
    BY DEF IInv
  <1>2. CASE KeepsEst
    BY <1>2 DEF KeepsEst, Estimated
  <1>3. ASSUME NEW t \in Threads, Return(t) PROVE Estimated'
    BY <1>1, <1>3 DEF Return, Estimated, ReqType
  <1>4. ASSUME NEW t \in Threads, NEW mb \in Ests, Starts(t, mb) PROVE Estimated'
    BY <1>1, <1>4 DEF Starts, Estimated, ReqType
  <1> QED
    BY <1>2, <1>3, <1>4, EstSteps

(* Apart from an admission and an insertion, terms of the two sums only go away. *)
LEMMA TermSteps ==
  ASSUME IInv, [Next]_vars, ~ \E t \in Threads : EvictDone(t) \/ EnsureInsert(t)
  PROVE  /\ entries' \subseteq entries /\ \A n \in entries' : estMem'[n] = estMem[n]
         /\ Admitted' \subseteq Admitted /\ \A t \in Admitted' : est'[t] = est[t]
  <1>1. ReqType /\ CacheType
    BY DEF IInv
  <1>2. entries' \subseteq entries /\ \A n \in entries' : estMem'[n] = estMem[n]
    BY <1>1, CacheSteps DEF EntryVars, Forget, InFlightInc, InFlightDec, Pin, Unpin, CacheType
  <1>3. Admitted' \subseteq Admitted
    <2>1. ASSUME NEW t \in Threads, InFlightInc(t) \/ InFlightDec(t) PROVE Admitted' \subseteq Admitted
      BY <1>1, <2>1 DEF InFlightInc, InFlightDec, Goto, Return, Admitted, ReqType
    <2> QED
      BY <2>1, PcSteps, UnnoticedSets
  <1>4. ASSUME NEW t \in Admitted' PROVE est'[t] = est[t]
    BY <1>1, EstSteps DEF KeepsEst, Return, Starts, Admitted, AdmittedLabels, ReqType
  <1> QED
    BY <1>2, <1>3, <1>4

(* The memory accounted for, and what the admitted goroutines will add. *)
Promised == Sum(est, Admitted)

MemBound == usedMB + Promised <= Budget + (Cardinality(Threads) - 1) * Max(Ests)

(* MemOvershootBounded with its sum named. *)
LEMMA MemBoundNamed == MemOvershootBounded <=> MemBound
  BY DEF MemOvershootBounded, MemBound, Promised, Sum

MemType ==
    /\ IsFiniteSet(entries) /\ IsFiniteSet(Admitted)
    /\ \A n \in entries : estMem[n] \in Nat
    /\ \A t \in Threads : est[t] \in Nat
    /\ usedMB = Sum(estMem, entries) /\ usedMB \in Nat /\ Promised \in Nat

(* Sums over the entries and over the admitted goroutines are natural numbers. *)
LEMMA MemTypes == IInv => MemType
  <1> SUFFICES ASSUME IInv PROVE MemType
    OBVIOUS
  <1>1. IsFiniteSet(entries) /\ IsFiniteSet(Admitted)
    BY NamesAssumption, ThreadsAssumption, FS_Subset DEF IInv, CacheType, Admitted
  <1>2. (\A n \in entries : estMem[n] \in Nat) /\ (\A t \in Threads : est[t] \in Nat)
    BY DEF IInv, CacheType, ReqType
  <1>3. usedMB = Sum(estMem, entries)
    BY DEF usedMB, Sum
  <1> QED
    BY <1>1, <1>2, <1>3, SumIsCount DEF MemType, Promised, Admitted

(* Every step keeps the accounted and the promised memory in the bound. *)
LEMMA MemStep ==
  ASSUME MemType, MemType', IInv, Estimated, MemBound, [Next]_vars
  PROVE  MemBound'
  <1> DEFINE M == Max(Ests)
             N == Cardinality(Threads)
  <1>1. M \in Nat /\ \A mb \in Ests : mb <= M
    BY EstsAssumption, LimitsAssumption, MaxExists
  <1>2. N \in Nat /\ N >= 1
    BY EstsAssumption, ThreadsAssumption, FS_CardinalityType, FS_EmptySet
  <1>3. /\ usedMB \in Nat /\ Promised \in Nat
        /\ usedMB' = Sum(estMem', entries') /\ usedMB' \in Nat /\ Promised' \in Nat
    BY DEF MemType
  <1>4. usedMB + Promised <= Budget + (N - 1) * M
    BY DEF MemBound
  <1> SUFFICES usedMB' + Promised' <= Budget + (N - 1) * M
    BY DEF MemBound
  <1> HIDE DEF M, N
  <1>5. ASSUME NEW t \in Threads, EvictDone(t)
        PROVE  usedMB' + Promised' <= Budget + (N - 1) * M
    <2>1. ReqType /\ entries' = entries /\ estMem' = estMem /\ est' = est
      BY <1>5 DEF EvictDone, cacheVars, Goto, reqVars, IInv
    <2>2. usedMB' = usedMB
      BY <2>1, <1>3 DEF MemType
    <2>3. usedMB + est[t] <= Budget
      BY <1>3, <1>5, LimitsAssumption DEF EvictDone, OverLimit, MemType
    <2>4. Admitted' = Admitted \cup {t} /\ t \notin Admitted
      BY <1>5, <2>1 DEF EvictDone, At, Goto, Admitted, ReqType
    <2>5. Promised' = Promised + est[t]
      <3>1. \A u \in Admitted \cup {t} : est[u] \in Nat
        BY DEF Admitted, MemType
      <3> QED
        BY <2>1, <2>4, <3>1, SumAdd DEF Promised, MemType
    <2>6. Promised <= (N - 1) * M
      <3>1. Admitted \in SUBSET (Threads \ {t}) /\ IsFiniteSet(Threads \ {t})
            /\ Cardinality(Threads \ {t}) = N - 1
        BY <2>4, ThreadsAssumption, FS_RemoveElement DEF Admitted, N
      <3>2. Cardinality(Admitted) <= N - 1 /\ Cardinality(Admitted) \in Nat
        BY <3>1, FS_Subset, FS_CardinalityType
      <3>3. \A u \in Admitted : est[u] \in 0..M
        BY <1>1 DEF Admitted, Estimated, MemType
      <3>4. Promised <= Cardinality(Admitted) * M
        BY <1>1, <3>3, SumBound DEF Promised, MemType
      <3>5. Cardinality(Admitted) * M <= (N - 1) * M
        BY <1>1, <1>2, <3>2, MulMonotone
      <3>6. Cardinality(Admitted) * M \in Nat /\ (N - 1) * M \in Nat
        BY <1>1, <1>2, <3>2, MulMonotone
      <3> QED
        BY <1>3, <3>4, <3>5, <3>6
    <2>7. est[t] \in Nat /\ (N - 1) * M \in Nat /\ Budget \in Nat
      BY <1>1, <1>2, LimitsAssumption, MulMonotone DEF MemType
    <2> QED
      BY <1>3, <2>2, <2>3, <2>5, <2>6, <2>7
  <1>6. ASSUME NEW t \in Threads, EnsureInsert(t)
        PROVE  usedMB' + Promised' <= Budget + (N - 1) * M
    <2>1. /\ ReqType /\ CacheType /\ est' = est /\ arg[t] \in Names /\ arg[t] \notin entries
          /\ entries' = entries \cup {arg[t]} /\ estMem' = [estMem EXCEPT ![arg[t]] = est[t]]
      BY <1>6 DEF EnsureInsert, Insert, Goto, reqVars, At, IInv, ReqType, LoadsExclusive
    <2>2. Admitted' = Admitted \ {t} /\ t \in Admitted
      BY <1>6, <2>1 DEF EnsureInsert, AfterEnsure, At, Goto, Admitted, ReqType
    <2>3. usedMB' = usedMB + est[t]
      <3>1. /\ \A n \in entries : estMem'[n] = estMem[n] /\ estMem[n] \in Nat
            /\ estMem'[arg[t]] = est[t] /\ est[t] \in Nat
        BY <2>1 DEF CacheType, MemType
      <3>2. Sum(estMem', entries) = Sum(estMem, entries)
        BY <3>1, SumSame DEF MemType
      <3>3. Sum(estMem', entries \cup {arg[t]}) = Sum(estMem', entries) + estMem'[arg[t]]
        <4>1. IsFiniteSet(entries) /\ \A n \in entries \cup {arg[t]} : estMem'[n] \in Nat
          BY <3>1 DEF MemType
        <4> QED
          BY <2>1, <4>1, SumAdd
      <3> QED
        BY <1>3, <2>1, <3>1, <3>2, <3>3 DEF MemType
    <2>4. Promised = Promised' + est[t]
      <3>1. /\ IsFiniteSet(Admitted \ {t}) /\ t \notin Admitted \ {t} /\ (Admitted \ {t}) \cup {t} = Admitted
            /\ \A u \in (Admitted \ {t}) \cup {t} : est[u] \in Nat
        BY <2>2, FS_RemoveElement DEF Admitted, MemType
      <3>2. Sum(est, (Admitted \ {t}) \cup {t}) = Sum(est, Admitted \ {t}) + est[t]
        BY <3>1, SumAdd
      <3> QED
        BY <2>1, <2>2, <3>1, <3>2 DEF Promised
    <2>5. est[t] \in Nat
      BY DEF MemType
    <2> QED
      BY <1>3, <1>4, <2>3, <2>4, <2>5
  <1>7. ASSUME ~ \E t \in Threads : EvictDone(t) \/ EnsureInsert(t)
        PROVE  usedMB' + Promised' <= Budget + (N - 1) * M
    <2>1. /\ entries' \subseteq entries /\ \A n \in entries' : estMem'[n] = estMem[n]
          /\ Admitted' \subseteq Admitted /\ \A t \in Admitted' : est'[t] = est[t]
      BY <1>7, TermSteps
    <2>2. usedMB' <= usedMB
      BY <1>3, <2>1, SumSubset DEF MemType
    <2>3. Promised' <= Promised
      <3>1. \A t \in Admitted : est[t] \in Nat
        BY DEF Admitted, MemType
      <3> QED
        BY <2>1, <3>1, SumSubset DEF Promised, MemType
    <2>4. Budget + (N - 1) * M \in Int
      BY <1>1, <1>2, LimitsAssumption, MulMonotone
    <2> QED
      BY <1>3, <1>4, <2>2, <2>3, <2>4
  <1> QED
    BY <1>5, <1>6, <1>7

(* The memory of the entries and of the admitted loads is bounded in the same way. *)
LEMMA MemoryBound == Spec => []MemOvershootBounded
  <1>1. Init => Estimated /\ MemBound
    <2> SUFFICES ASSUME Init PROVE Estimated /\ MemBound
      OBVIOUS
    <2>1. Estimated /\ entries = {} /\ Admitted = {}
      BY DEF Init, Estimated, Admitted
    <2>2. usedMB = 0 /\ Promised = 0
      <3>1. usedMB = Sum(estMem, entries)
        BY DEF usedMB, Sum
      <3> QED
        BY <2>1, <3>1, SumEmpty DEF Promised
    <2>3. Max(Ests) \in Nat /\ Cardinality(Threads) \in Nat /\ Cardinality(Threads) >= 1
      <3>1. Max(Ests) \in Nat
        BY EstsAssumption, LimitsAssumption, MaxExists
      <3>2. Cardinality(Threads) \in Nat /\ Cardinality(Threads) # 0
        BY EstsAssumption, ThreadsAssumption, FS_CardinalityType, FS_EmptySet
      <3> QED
        BY <3>1, <3>2
    <2>4. (Cardinality(Threads) - 1) * Max(Ests) \in Nat /\ Budget \in Nat
      BY <2>3, LimitsAssumption, MulMonotone
    <2> QED
      BY <2>1, <2>2, <2>4 DEF MemBound
  <1>2. MemType /\ MemType' /\ IInv /\ Estimated /\ MemBound /\ [Next]_vars => Estimated' /\ MemBound'
    BY EstimatedStep, MemStep
  <1> QED
    BY <1>1, <1>2, InitIInv, StepIInv, MemTypes, MemBoundNamed, PTL DEF Spec

(***************************************************************************)
(* EnsureLoaded checks the limits under mu and enters the collection long  *)
(* after: the entries, and the collections whose load was admitted, exceed *)
(* maxLoaded by fewer than there are goroutines, and their memory exceeds  *)
(* budgetMB by no more than the largest estimate for each other goroutine. *)
(***************************************************************************)
THEOREM OvershootBound == Spec => []LimitsOvershootBounded
  BY CountBound, MemoryBound, PTL DEF LimitsOvershootBounded

-----------------------------------------------------------------------------
(***************************************************************************)
(* The load locks.  What a step does to them and to the goroutines that    *)
(* hold one: nothing, an EnsureLock, or the end of EnsureLoaded.           *)
(***************************************************************************)
KeepsLocks ==
    /\ UNCHANGED loadLock
    /\ \A u \in Threads : pc[u] \in Busy => pc'[u] \in Busy /\ arg'[u] = arg[u]

(* The other goroutines stay where they are. *)
OthersStay(t) == \A u \in Threads \ {t} : pc'[u] = pc[u] /\ arg'[u] = arg[u]

(* Goroutine t leaves EnsureLoaded and unlocks the load lock it holds. *)
Unlocks(t) == pc[t] \in Busy /\ Unlock(t) /\ OthersStay(t)

(* A goroutine that holds no load lock may go anywhere. *)
LEMMA FreeKeepsLocks ==
  ASSUME ReqType, NEW t \in Threads, pc[t] \notin Busy, UNCHANGED loadLock,
         (\E l \in Labels : Goto(t, l)) \/ Return(t)
  PROVE  KeepsLocks
  BY DEF ReqType, Goto, Return, reqVars, KeepsLocks

(* Between two steps of EnsureLoaded the lock stays. *)
LEMMA BusyKeepsLocks ==
  ASSUME ReqType, NEW t \in Threads, NEW l \in Busy, Goto(t, l), UNCHANGED loadLock
  PROVE  KeepsLocks
  BY DEF ReqType, Goto, reqVars, KeepsLocks

(* Every step is one of the three. *)
LEMMA LockSteps ==
  ASSUME IInv, [Next]_vars
  PROVE  \/ KeepsLocks
         \/ \E t \in Threads : EnsureLock(t)
         \/ \E t \in Threads : Unlocks(t)
  <1>1. ReqType
    BY DEF IInv
  <1>2. ASSUME NEW t \in Threads, NEW j \in Jobs \ {"sweep"}, NEW n \in Names, NEW mb \in Ests,
               Begin(t, j, n, mb)
        PROVE  KeepsLocks
    BY <1>1, <1>2 DEF Begin, At, KeepsLocks, Busy, ReqType
  <1>3. ASSUME NEW t \in Threads, EnsureCheck(t) PROVE KeepsLocks
    <2>1. pc[t] \notin Busy /\ UNCHANGED loadLock /\ \E l \in Labels : Goto(t, l)
      BY <1>3 DEF EnsureCheck, At, Busy, AfterEnsure, Labels
    <2> QED
      BY <1>1, <2>1, FreeKeepsLocks
  <1>4. ASSUME NEW t \in Threads, EnsureRecheck(t) PROVE KeepsLocks \/ Unlocks(t)
    <2>1. CASE arg[t] \in entries
      <3>1. PICK l \in Labels : Goto(t, l)
        BY <1>4, <2>1 DEF EnsureRecheck, AfterEnsure, Labels
      <3> QED
        BY <1>1, <1>4, <2>1, <3>1 DEF EnsureRecheck, At, Busy, Goto, reqVars, Unlocks, OthersStay, ReqType
    <2>2. CASE arg[t] \notin entries
      BY <1>1, <1>4, <2>2, BusyKeepsLocks DEF EnsureRecheck, Busy
    <2> QED
      BY <2>1, <2>2
  <1>5. ASSUME NEW t \in Threads, EvictDone(t) PROVE KeepsLocks
    BY <1>1, <1>5, BusyKeepsLocks DEF EvictDone, Busy
  <1>6. ASSUME NEW t \in Threads, EvictFail(t) PROVE Unlocks(t)
    BY <1>1, <1>6 DEF EvictFail, At, Busy, Return, Unlocks, OthersStay, ReqType
  <1>7. ASSUME NEW t \in Threads, EnsureLoad(t) PROVE KeepsLocks \/ Unlocks(t)
    <2>1. CASE Goto(t, "insert") /\ UNCHANGED loadLock
      BY <1>1, <2>1, BusyKeepsLocks DEF Busy
    <2>2. CASE Unlock(t) /\ Return(t)
      BY <1>1, <1>7, <2>2 DEF EnsureLoad, At, Busy, Return, Unlocks, OthersStay, ReqType
    <2> QED
      BY <1>7, <2>1, <2>2 DEF EnsureLoad
  <1>8. ASSUME NEW t \in Threads, EnsureInsert(t) PROVE Unlocks(t)
    <2>1. PICK l \in Labels : Goto(t, l)
      BY <1>8 DEF EnsureInsert, AfterEnsure, Labels
    <2> QED
      BY <1>1, <1>8, <2>1 DEF EnsureInsert, At, Busy, Goto, reqVars, Unlocks, OthersStay, ReqType
  <1>9. ASSUME NEW t \in Threads,
               InFlightInc(t) \/ Touch(t) \/ Search(t) \/ InFlightDec(t) \/ Pin(t) \/ Unpin(t)
        PROVE  KeepsLocks
    <2>1. pc[t] \notin Busy /\ UNCHANGED loadLock
      BY <1>9 DEF InFlightInc, Touch, Search, InFlightDec, Pin, Unpin, At, Busy
    <2>2. (\E l \in Labels : Goto(t, l)) \/ Return(t)
      BY <1>9 DEF InFlightInc, Touch, Search, InFlightDec, Pin, Unpin, AfterUnpin, Labels
    <2> QED
      BY <1>1, <2>1, <2>2, FreeKeepsLocks
  <1>10. ASSUME NEW t \in Threads, ReleaseCheck(t) \/ ReleaseCall(t) \/ ReleaseDone(t)
         PROVE  KeepsLocks
    <2>1. pc[t] \notin Busy /\ UNCHANGED loadLock
      BY <1>10 DEF ReleaseCheck, ReleaseCall, ReleaseDone, At, Busy
    <2>2. (\E l \in Labels : Goto(t, l)) \/ Return(t)
      BY <1>10 DEF ReleaseCheck, ReleaseCall, ReleaseDone, AfterRelease, Labels
    <2> QED
      BY <1>1, <2>1, <2>2, FreeKeepsLocks
  <1>11. ASSUME NEW t \in Threads, Scan(t) \/ Mark(t) \/ RawRelease(t) \/ Drop(t)
         PROVE  KeepsLocks
    <2>1. pc[t] \notin Busy /\ UNCHANGED loadLock
      BY <1>11 DEF Scan, Mark, RawRelease, Drop, At, Busy
    <2>2. UnpinOrSkip(t) \in Labels /\ "drop" \in Labels
      BY DEF UnpinOrSkip, Labels
    <2>3. (\E l \in Labels : Goto(t, l)) \/ Return(t)
      BY <1>11, <2>2 DEF Scan, Mark, RawRelease, Drop
    <2> QED
      BY <1>1, <2>1, <2>3, FreeKeepsLocks
  <1>12. ASSUME NEW t \in Threads, NEW n \in Names, EvictOne(t, n)
         PROVE  KeepsLocks
    BY <1>12 DEF EvictOne, reqVars, KeepsLocks
  <1>13. ASSUME SweepStep \/ (\E n \in Names : Expire(n)) \/ UNCHANGED vars
         PROVE  KeepsLocks
    BY <1>13 DEF SweepStep, SweepSelect, SweepCall, SweepForget, Expire, vars, reqVars, KeepsLocks
  <1>14. ASSUME NEW t \in Threads, Step(t) PROVE KeepsLocks \/ EnsureLock(t) \/ Unlocks(t)
    BY <1>3, <1>4, <1>5, <1>6, <1>7, <1>8, <1>9, <1>10, <1>11, <1>12, <1>14 DEF Step
  <1> QED
    BY <1>2, <1>13, <1>14 DEF Next

(* No step leaves a load lock without its holder. *)
LEMMA AttendedStep ==
  ASSUME IInv, LoadLocksAttended, [Next]_vars
  PROVE  LoadLocksAttended'
  <1>1. ReqType /\ LockType /\ LoadsExclusive
    BY DEF IInv
  <1>2. CASE KeepsLocks
    BY <1>1, <1>2 DEF KeepsLocks, LoadLocksAttended, LockType, Busy
  <1>3. ASSUME NEW t \in Threads, EnsureLock(t) PROVE LoadLocksAttended'
    <2>1. pc' = [pc EXCEPT ![t] = "recheck"] /\ UNCHANGED arg
      BY <1>3 DEF EnsureLock, Goto, reqVars
    <2>2. pc[t] = "lock" /\ loadLock' = [loadLock EXCEPT ![arg[t]] = t]
      BY <1>3 DEF EnsureLock, At
    <2> QED
      BY <1>1, <2>1, <2>2, ThreadsAssumption DEF LoadLocksAttended, LockType, ReqType
  <1>4. ASSUME NEW t \in Threads, Unlocks(t) PROVE LoadLocksAttended'
    <2>1. ASSUME NEW n \in Names, loadLock'[n] # NoThread
          PROVE  n # arg[t] /\ loadLock'[n] = loadLock[n]
      BY <1>1, <1>4, <2>1 DEF Unlocks, Unlock, LockType
    <2>2. ASSUME NEW n \in Names, loadLock'[n] # NoThread
          PROVE  loadLock[n] \in Threads \ {t}
      BY <1>1, <2>1, <2>2 DEF LoadLocksAttended, LockType
    <2> QED
      BY <1>4, <2>1, <2>2 DEF Unlocks, OthersStay, LoadLocksAttended
  <1> QED
    BY <1>2, <1>3, <1>4, LockSteps

(* A load lock that is taken has its holder inside EnsureLoaded for the same name. *)
LEMMA LoadLocksNotLeaked == Spec => []LoadLocksAttended
  <1>1. Init => LoadLocksAttended
    BY DEF Init, LoadLocksAttended
  <1>2. IInv /\ LoadLocksAttended /\ [Next]_vars => LoadLocksAttended'
    BY AttendedStep
  <1> QED
    BY <1>1, <1>2, InitIInv, StepIInv, PTL DEF Spec

(***************************************************************************)
(* Between the second check and the insertion EnsureLoaded holds the load  *)
(* lock and no other goroutine makes an entry for the name.  Whatever      *)
(* fails, a load lock that is taken has its holder at work inside          *)
(* EnsureLoaded for the same name: none is leaked, and a goroutine waiting *)
(* for one waits for a goroutine that waits for mu or Milvus only.  This   *)
(* is the part of EveryRequestReturns that does not depend on the          *)
(* scheduler.                                                              *)
(***************************************************************************)
THEOREM LocksCorrect == Spec => []LocksExact
  BY LoadExclusion, LoadLocksNotLeaked, PTL DEF LocksExact

=============================================================================
