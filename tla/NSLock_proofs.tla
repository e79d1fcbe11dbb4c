----------------------------- MODULE NSLock_proofs -----------------------------
(***************************************************************************)
(* Proofs about NSLock, for any number of processes, goroutines and lock   *)
(* objects, any modes and faults: the type invariant, exclusion between    *)
(* processes and on one lock object, and that it implements LeaseLock.     *)
(***************************************************************************)
EXTENDS NSLock, TLAPS

Locking == {"flock", "held", "unlocked"}

(* A goroutine that uses a lock object uses one of its own process. *)
OwnLocker ==
    \A t \in Threads :
        /\ pc[t] = "idle" => lk[t] = NoLocker
        /\ pc[t] \in {"local", "flock", "unlocked"} => lk[t] \in Lockers
        /\ lk[t] \in Lockers => LockerProc[lk[t]] = ProcOf[t]

(* localLock is held exactly from TryLocal to LocalUnlock. *)
LocalExact ==
    \A l \in Lockers, t \in Threads : t \in local[l] <=> lk[t] = l /\ pc[t] \in Locking

(* An RWMutex has one writer or readers. *)
LocalExclusive ==
    \A l \in Lockers, t, u \in Threads :
        t \in local[l] /\ u \in local[l] /\ t # u => mode[t] = "R" /\ mode[u] = "R"

(* So has the lock table. *)
TableExclusive ==
    \A p, q \in Procs : p # q /\ flock[p] = "W" => flock[q] = "none"

(* An unexposed hold is covered by the entry of its session. *)
Covered(t) == flock[ProcOf[t]] = "W" \/ (flock[ProcOf[t]] = "R" /\ mode[t] = "R")

HoldsCovered == \A t \in Threads : pc[t] = "held" /\ t \notin exposed => Covered(t)

(* A lock object that locks nothing leaves its holder exposed. *)
VoidExposed == \A t \in Threads : pc[t] = "held" /\ lk[t] = NoLocker => t \in exposed

(* A process that stopped has no goroutines. *)
DeadIdle == \A t \in Threads : ProcOf[t] \notin alive => pc[t] = "idle"

LocalInv == OwnLocker /\ LocalExact /\ LocalExclusive
TableInv == TableExclusive /\ HoldsCovered /\ VoidExposed /\ DeadIdle

(* The inductive invariant. *)
IInv == TypeOK /\ LocalInv /\ TableInv

USE ThreadAssumption, LockerAssumption, ChoiceAssumption

(* The initial states satisfy the invariant. *)
LEMMA InitIInv == Init => IInv
  BY DEF Init, IInv, TypeOK, LocalInv, TableInv, OwnLocker, LocalExact, LocalExclusive,
         TableExclusive, HoldsCovered, Covered, VoidExposed, DeadIdle, Labels, AllModes, Locking

-----------------------------------------------------------------------------
(* Every step preserves the types. *)
LEMMA TypeStep == TypeOK /\ LocalInv /\ [Next]_vars => TypeOK'
  <1> SUFFICES ASSUME TypeOK, LocalInv, [Next]_vars PROVE TypeOK'
    OBVIOUS
  <1> USE DEF TypeOK, Labels, AllModes
  <1>1. CASE \E t \in Threads, l \in Lockers, m \in Modes : GetLock(t, l, m)
    BY <1>1 DEF GetLock
  <1>2. CASE \E t \in Threads, m \in Modes : GetVoidLock(t, m)
    BY <1>2 DEF GetVoidLock
  <1>3. ASSUME NEW t \in Threads, Step(t) PROVE TypeOK'
    <2>1. CASE TryLocal(t)
      BY <2>1 DEF TryLocal, Goto, At
    <2>2. CASE LocalTimeout(t)
      BY <2>2 DEF LocalTimeout, Return
    <2>3. CASE TryFlock(t)
      BY <2>3 DEF TryFlock, Goto, Downgraded, Holders
    <2>4. CASE FlockTimeout(t)
      BY <2>4 DEF FlockTimeout, Return
    <2>5. CASE Unlock(t)
      BY <2>5 DEF Unlock, Goto, Holders
    <2>6. CASE LocalUnlock(t)
      BY <2>6 DEF LocalUnlock, Return
    <2>7. CASE VoidUnlock(t)
      BY <2>7 DEF VoidUnlock, Return
    <2> QED BY <1>3, <2>1, <2>2, <2>3, <2>4, <2>5, <2>6, <2>7 DEF Step
  <1>4. CASE \E p \in Procs : CleanDead(p)
    BY <1>4 DEF CleanDead, DropEntry, thread
  <1>5. CASE \E p \in Procs : CleanStalled(p)
    BY <1>5 DEF CleanStalled, DropEntry, thread, Holders
  <1>6. CASE \E p \in Procs : Crash(p)
    BY <1>6 DEF Crash
  <1>7. CASE UNCHANGED vars
    BY <1>7 DEF vars, thread
  <1> QED BY <1>1, <1>2, <1>3, <1>4, <1>5, <1>6, <1>7 DEF Next

(* Every step keeps each localLock with the goroutines that took it. *)
LEMMA LocalStep == TypeOK /\ LocalInv /\ [Next]_vars => LocalInv'
  <1> SUFFICES ASSUME TypeOK, LocalInv, [Next]_vars PROVE LocalInv'
    OBVIOUS
  <1> USE DEF TypeOK, LocalInv, OwnLocker, LocalExact, LocalExclusive, Locking
  <1>1. CASE \E t \in Threads, l \in Lockers, m \in Modes : GetLock(t, l, m)
    BY <1>1 DEF GetLock, At
  <1>2. CASE \E t \in Threads, m \in Modes : GetVoidLock(t, m)
    BY <1>2 DEF GetVoidLock, At
  <1>3. ASSUME NEW t \in Threads, Step(t) PROVE LocalInv'
    <2>1. CASE TryLocal(t)
      BY <2>1 DEF TryLocal, Goto, At, CanLockLocally
    <2>2. CASE LocalTimeout(t)
      BY <2>2 DEF LocalTimeout, Return, At
    <2>3. CASE TryFlock(t)
      BY <2>3 DEF TryFlock, Goto, At
    <2>4. CASE FlockTimeout(t)
      BY <2>4 DEF FlockTimeout, Return, At
    <2>5. CASE Unlock(t)
      BY <2>5 DEF Unlock, Goto, At
    <2>6. CASE LocalUnlock(t)
      BY <2>6 DEF LocalUnlock, Return, At
    <2>7. CASE VoidUnlock(t)
      BY <2>7 DEF VoidUnlock, Return, At
    <2> QED BY <1>3, <2>1, <2>2, <2>3, <2>4, <2>5, <2>6, <2>7 DEF Step
  <1>4. CASE \E p \in Procs : CleanDead(p) \/ CleanStalled(p)
    BY <1>4 DEF CleanDead, CleanStalled, DropEntry, thread
  <1>5. CASE \E p \in Procs : Crash(p)
    BY <1>5 DEF Crash
  <1>6. CASE UNCHANGED vars
    BY <1>6 DEF vars, thread
  <1> QED BY <1>1, <1>2, <1>3, <1>4, <1>5, <1>6 DEF Next

(* Every step keeps the lock table exclusive and unexposed holds covered. *)
LEMMA TableStep == IInv /\ [Next]_vars => TableInv'
  <1> SUFFICES ASSUME IInv, [Next]_vars PROVE TableInv'
    OBVIOUS
  <1> USE DEF IInv, TypeOK, TableInv, TableExclusive, HoldsCovered, Covered, VoidExposed, DeadIdle
  <1>1. CASE \E t \in Threads, l \in Lockers, m \in Modes : GetLock(t, l, m)
    BY <1>1 DEF GetLock, At
  <1>2. CASE \E t \in Threads, m \in Modes : GetVoidLock(t, m)
    BY <1>2 DEF GetVoidLock, At
  <1>3. ASSUME NEW t \in Threads, Step(t) PROVE TableInv'
    <2>1. CASE TryLocal(t)
      BY <2>1 DEF TryLocal, Goto, At
    <2>2. CASE LocalTimeout(t)
      BY <2>2 DEF LocalTimeout, Return, At
    <2>3. CASE TryFlock(t)
      <3> USE <2>3 DEF TryFlock, Goto, At
      <3>1. TableExclusive'
        BY DEF CanFlock, AllModes
      <3>2. HoldsCovered'
        BY DEF Downgraded, Holders, AllModes
      <3>3. VoidExposed' /\ DeadIdle'
        BY DEF LocalInv, OwnLocker
      <3> QED BY <3>1, <3>2, <3>3
    <2>4. CASE FlockTimeout(t)
      BY <2>4 DEF FlockTimeout, Return, At
    <2>5. CASE Unlock(t)
      BY <2>5 DEF Unlock, Goto, At, Holders
    <2>6. CASE LocalUnlock(t)
      BY <2>6 DEF LocalUnlock, Return, At
    <2>7. CASE VoidUnlock(t)
      BY <2>7 DEF VoidUnlock, Return, At
    <2> QED BY <1>3, <2>1, <2>2, <2>3, <2>4, <2>5, <2>6, <2>7 DEF Step
  <1>4. CASE \E p \in Procs : CleanDead(p)
    BY <1>4 DEF CleanDead, DropEntry, thread
  <1>5. CASE \E p \in Procs : CleanStalled(p)
    BY <1>5 DEF CleanStalled, DropEntry, thread, Holders
  <1>6. CASE \E p \in Procs : Crash(p)
    BY <1>6 DEF Crash
  <1>7. CASE UNCHANGED vars
    BY <1>7 DEF vars, thread
  <1> QED BY <1>1, <1>2, <1>3, <1>4, <1>5, <1>6, <1>7 DEF Next

(* The invariant holds in every reachable state. *)
LEMMA Inductive == Spec => []IInv
  <1>1. IInv /\ [Next]_vars => IInv'
    BY TypeStep, LocalStep, TableStep DEF IInv
  <1> QED BY InitIInv, <1>1, PTL DEF Spec

(* The types of TypeOK hold for any processes, goroutines and lock objects. *)
THEOREM TypeCorrect == Spec => []TypeOK
  <1>1. IInv => TypeOK
    BY DEF IInv
  <1> QED BY Inductive, <1>1, PTL

(***************************************************************************)
(* Clashing critical sections in two processes: one of the holds is        *)
(* exposed, whatever time-outs, stale sessions, crashes and failures of    *)
(* the metadata engine there are.                                          *)
(***************************************************************************)
THEOREM Exclusion == Spec => []ExclusionUnlessExposed
  <1>1. IInv => ExclusionUnlessExposed
    BY DEF IInv, TypeOK, TableInv, TableExclusive, HoldsCovered, Covered, ExclusionUnlessExposed
  <1> QED BY Inductive, <1>1, PTL

(* One jfsFLock never has a writer beside another holder. *)
THEOREM ObjectExclusion == Spec => []ObjectExcludes
  <1>1. IInv => ObjectExcludes
    BY DEF IInv, TypeOK, LocalInv, LocalExact, LocalExclusive, Locking, ObjectExcludes
  <1> QED BY Inductive, <1>1, PTL

-----------------------------------------------------------------------------
(* A step that changes no hold and no exposure is a stutter of LeaseLock. *)
LEMMA Stutter ==
    ASSUME UNCHANGED <<holdsOf, viaOf, exposed>>
    PROVE  [LL!ANext]_(LL!absVars)
  BY DEF LL!absVars

(* The transaction of meta.Flock is a grant. *)
LEMMA TryFlockGrants ==
    ASSUME IInv, NEW t \in Threads, TryFlock(t)
    PROVE  LL!Grant(t, lk[t], mode[t])
  <1> USE DEF IInv, TypeOK, TryFlock, Goto, At
  <1>1. holdsOf[t] = "none"
    BY DEF holdsOf
  <1>2. ASSUME NEW u \in Threads, viaOf[u] = lk[t], holdsOf[u] # "none"
        PROVE  ~LL!Clash(mode[t], holdsOf[u])
    BY <1>2 DEF viaOf, holdsOf, LL!Clash, LocalInv, OwnLocker, LocalExact, LocalExclusive, Locking
  <1>3. ASSUME NEW u \in Threads, ProcOf[u] # ProcOf[t], holdsOf[u] # "none", u \notin exposed
        PROVE  ~LL!Clash(mode[t], holdsOf[u])
    BY <1>3 DEF holdsOf, LL!Clash, TableInv, HoldsCovered, Covered, CanFlock
  <1>4. holdsOf' = [holdsOf EXCEPT ![t] = mode[t]]
    BY DEF holdsOf
  <1>5. viaOf' = [viaOf EXCEPT ![t] = lk[t]]
    BY DEF viaOf
  <1>6. exposed' = exposed \cup LL!Downgraded(t, mode[t])
    BY DEF LL!Downgraded, LL!HoldersOf, Downgraded, Holders, holdsOf, AllModes
  <1> QED BY <1>1, <1>2, <1>3, <1>4, <1>5, <1>6 DEF LL!Grant

(* Giving up a lock, of either kind, is a withdrawal. *)
LEMMA UnlockWithdraws ==
    ASSUME IInv, NEW t \in Threads, Unlock(t) \/ VoidUnlock(t)
    PROVE  LL!Withdraw(t)
  <1> USE DEF IInv, TypeOK, Unlock, VoidUnlock, Goto, Return, At
  <1>1. holdsOf[t] # "none"
    BY DEF holdsOf, AllModes
  <1>2. holdsOf' = [holdsOf EXCEPT ![t] = "none"]
    BY DEF holdsOf
  <1>3. viaOf' = [viaOf EXCEPT ![t] = NoLocker]
    BY DEF viaOf
  <1>4. LL!HoldersOf(ProcOf[t]) = Holders(ProcOf[t])
    BY DEF LL!HoldersOf, Holders, holdsOf, AllModes
  <1> QED BY <1>1, <1>2, <1>3, <1>4 DEF LL!Withdraw

(* A hold through an object that locks nothing. *)
LEMMA GetVoidLockGrants ==
    ASSUME IInv, NEW t \in Threads, NEW m \in Modes, GetVoidLock(t, m)
    PROVE  LL!GrantVoid(t, m)
  <1> USE DEF IInv, TypeOK, GetVoidLock, At
  <1>1. holdsOf[t] = "none"
    BY DEF holdsOf
  <1>2. holdsOf' = [holdsOf EXCEPT ![t] = m]
    BY DEF holdsOf
  <1>3. viaOf' = viaOf
    BY DEF viaOf, LocalInv, OwnLocker
  <1> QED BY <1>1, <1>2, <1>3 DEF LL!GrantVoid

(* The clean-up of a session that is not dead ends its protection. *)
LEMMA CleanStalledLapses ==
    ASSUME IInv, NEW p \in Procs, CleanStalled(p)
    PROVE  LL!Lapse(p)
  <1> USE DEF IInv, TypeOK, CleanStalled, DropEntry, thread
  <1>1. LL!HoldersOf(p) = Holders(p)
    BY DEF LL!HoldersOf, Holders, holdsOf, AllModes
  <1>2. holdsOf' = holdsOf /\ viaOf' = viaOf
    BY DEF holdsOf, viaOf
  <1> QED BY <1>1, <1>2 DEF LL!Lapse

(* A crash ends the holds of its process. *)
LEMMA CrashDies ==
    ASSUME IInv, NEW p \in Procs, Crash(p)
    PROVE  LL!Die(p)
  <1> USE DEF IInv, TypeOK, Crash
  <1>1. holdsOf' = [t \in Threads |-> IF ProcOf[t] = p THEN "none" ELSE holdsOf[t]]
    BY DEF holdsOf
  <1>2. viaOf' = [t \in Threads |-> IF ProcOf[t] = p THEN NoLocker ELSE viaOf[t]]
    BY DEF viaOf
  <1> QED BY <1>1, <1>2 DEF LL!Die

(* Every step is one of LeaseLock's, or leaves its state as it is. *)
LEMMA StepRefines == IInv /\ [Next]_vars => [LL!ANext]_(LL!absVars)
  <1> SUFFICES ASSUME IInv, [Next]_vars PROVE [LL!ANext]_(LL!absVars)
    OBVIOUS
  <1>1. CASE \E t \in Threads, l \in Lockers, m \in Modes : GetLock(t, l, m)
    <2>1. holdsOf' = holdsOf /\ viaOf' = viaOf /\ exposed' = exposed
      BY <1>1 DEF GetLock, At, holdsOf, viaOf, IInv, TypeOK
    <2> QED BY <2>1, Stutter
  <1>2. CASE \E t \in Threads, m \in Modes : GetVoidLock(t, m)
    BY <1>2, GetVoidLockGrants DEF LL!ANext, AllModes
  <1>3. ASSUME NEW t \in Threads, Step(t) PROVE [LL!ANext]_(LL!absVars)
    <2>1. CASE TryLocal(t) \/ LocalTimeout(t) \/ FlockTimeout(t) \/ LocalUnlock(t)
      <3>1. holdsOf' = holdsOf /\ viaOf' = viaOf /\ exposed' = exposed
        BY <2>1 DEF TryLocal, LocalTimeout, FlockTimeout, LocalUnlock, Goto, Return, At,
                    holdsOf, viaOf, IInv, TypeOK
      <3> QED BY <3>1, Stutter
    <2>2. CASE TryFlock(t)
      <3>1. LL!Grant(t, lk[t], mode[t])
        BY <2>2, TryFlockGrants
      <3>2. lk[t] \in Lockers /\ mode[t] \in {"R", "W"}
        BY <2>2 DEF TryFlock, At, IInv, TypeOK, LocalInv, OwnLocker, AllModes
      <3> QED BY <3>1, <3>2 DEF LL!ANext
    <2>3. CASE Unlock(t) \/ VoidUnlock(t)
      BY <2>3, UnlockWithdraws DEF LL!ANext
    <2> QED BY <1>3, <2>1, <2>2, <2>3 DEF Step
  <1>4. CASE \E p \in Procs : CleanDead(p)
    <2>1. holdsOf' = holdsOf /\ viaOf' = viaOf /\ exposed' = exposed
      BY <1>4 DEF CleanDead, DropEntry, thread, holdsOf, viaOf
    <2> QED BY <2>1, Stutter
  <1>5. CASE \E p \in Procs : CleanStalled(p)
    BY <1>5, CleanStalledLapses DEF LL!ANext
  <1>6. CASE \E p \in Procs : Crash(p)
    BY <1>6, CrashDies DEF LL!ANext
  <1>7. CASE UNCHANGED vars
    <2>1. holdsOf' = holdsOf /\ viaOf' = viaOf /\ exposed' = exposed
      BY <1>7 DEF vars, thread, holdsOf, viaOf
    <2> QED BY <2>1, Stutter
  <1> QED BY <1>1, <1>2, <1>3, <1>4, <1>5, <1>6, <1>7 DEF Next

(***************************************************************************)
(* The namespace lock, with its local locks, lock table, time-outs and     *)
(* clean-up of sessions, implements LeaseLock.                             *)
(***************************************************************************)
THEOREM Refinement == Spec => ImplementsLeaseLock
  <1>1. Init => LL!AInit
    BY DEF Init, LL!AInit, holdsOf, viaOf
  <1> QED BY <1>1, Inductive, StepRefines, PTL DEF Spec, ImplementsLeaseLock, LL!ASpec

-----------------------------------------------------------------------------
(***************************************************************************)
(* The entries of running processes.  Only a grant, an unlock and a        *)
(* clean-up change one, and only an unlock or a crash ends a hold.         *)
(***************************************************************************)
LEMMA UpheldStep ==
    ASSUME IInv, [Next]_vars, NEW p \in alive, p \in alive', Upheld(p), ~UnlockFails(p)
    PROVE  Upheld(p)'
  <1> USE DEF IInv, TypeOK, Upheld, Holders
  <1>1. CASE \E t \in Threads, l \in Lockers, m \in Modes : GetLock(t, l, m)
    BY <1>1 DEF GetLock, At
  <1>2. CASE \E t \in Threads, m \in Modes : GetVoidLock(t, m)
    BY <1>2 DEF GetVoidLock, At
  <1>3. ASSUME NEW t \in Threads, Step(t) PROVE Upheld(p)'
    <2>1. CASE TryLocal(t)
      BY <2>1 DEF TryLocal, Goto, At
    <2>2. CASE LocalTimeout(t)
      BY <2>2 DEF LocalTimeout, Return, At
    <2>3. CASE TryFlock(t)
      BY <2>3 DEF TryFlock, Goto, At, LocalInv, OwnLocker
    <2>4. CASE FlockTimeout(t)
      BY <2>4 DEF FlockTimeout, Return, At
    <2>5. CASE Unlock(t)
      BY <2>5 DEF Unlock, Goto, At, UnlockFails
    <2>6. CASE LocalUnlock(t)
      BY <2>6 DEF LocalUnlock, Return, At
    <2>7. CASE VoidUnlock(t)
      BY <2>7 DEF VoidUnlock, Return, At
    <2> QED BY <1>3, <2>1, <2>2, <2>3, <2>4, <2>5, <2>6, <2>7 DEF Step
  <1>4. CASE \E q \in Procs : CleanDead(q) \/ CleanStalled(q)
    BY <1>4 DEF CleanDead, CleanStalled, DropEntry, thread
  <1>5. CASE \E q \in Procs : Crash(q)
    BY <1>5 DEF Crash
  <1>6. CASE UNCHANGED vars
    BY <1>6 DEF vars, thread
  <1> QED BY <1>1, <1>2, <1>3, <1>4, <1>5, <1>6 DEF Next

(***************************************************************************)
(* With any processes, goroutines, lock objects and faults, the entry of a *)
(* running process has a goroutine of it in its critical section until an  *)
(* F_UNLCK fails, whose error Unlock and RUnlock log and forget.           *)
(***************************************************************************)
THEOREM NoEntryLeftOver == Spec => EntriesUpheld
  <1>1. IInv /\ [Next]_vars =>
          [\A p \in alive \cap alive' : Upheld(p) /\ ~UnlockFails(p) => Upheld(p)']_vars
    BY UpheldStep
  <1> QED BY <1>1, Inductive, PTL DEF Spec, EntriesUpheld

==============================================================================
