-------------------------------- MODULE NSLock --------------------------------
(***************************************************************************)
(* The namespace lock of the JuiceFS gateway (jfsFLock): every lock object *)
(* has a local RWMutex and, below it, a BSD lock on one lock file in the   *)
(* metadata engine, whose owner is the session of the process.  Lock       *)
(* objects of one process therefore share one entry of the lock table.     *)
(*                                                                         *)
(* Callers (the IAM store, the start of the server and of IAM, the health  *)
(* handler) lock, work and unlock; a time-out ends an attempt, and a       *)
(* caller that tries again is a new attempt.                               *)
(***************************************************************************)
EXTENDS FiniteSets

CONSTANTS
    Procs,               \* gateway processes; each has one metadata session
    Threads,             \* goroutines
    ProcOf,              \* the process of each goroutine
    Lockers,             \* lock objects
    LockerProc,          \* the process of each lock object
    NoLocker,            \* none, or a jfsFLock without inode
    Modes,               \* the modes asked for, a subset of AllModes
    Faults               \* what may go wrong, a subset of AllFaults

AllModes == {"R", "W"}

(* "open": the lock file cannot be opened; "meta": a call that locks or unlocks   *)
(* fails; "stall": a session is taken for stale while its process is alive;       *)
(* "crash": a process may stop.                                                   *)
AllFaults == {"open", "meta", "stall", "crash"}

ASSUME ThreadAssumption == ProcOf \in [Threads -> Procs]
ASSUME LockerAssumption == LockerProc \in [Lockers -> Procs] /\ NoLocker \notin Lockers
ASSUME ChoiceAssumption == Modes \subseteq AllModes /\ Faults \subseteq AllFaults

VARIABLES
    pc, mode, lk,        \* each goroutine: position, mode, lock object
    local,               \* the goroutines that hold each object's localLock
    flock,               \* the lock table of the lock file, by session
    alive,               \* the processes that run
    exposed              \* history: see LeaseLock

thread == <<pc, mode, lk>>
vars == <<thread, local, flock, alive, exposed>>

Labels == {"idle", "local", "flock", "held", "unlocked"}

TypeOK ==
    /\ pc \in [Threads -> Labels]
    /\ mode \in [Threads -> AllModes]
    /\ lk \in [Threads -> Lockers \cup {NoLocker}]
    /\ local \in [Lockers -> SUBSET Threads]
    /\ flock \in [Procs -> {"none", "R", "W"}]
    /\ alive \subseteq Procs
    /\ exposed \subseteq Threads

Init ==
    /\ pc = [t \in Threads |-> "idle"]
    /\ mode = [t \in Threads |-> "W"]
    /\ lk = [t \in Threads |-> NoLocker]
    /\ local = [l \in Lockers |-> {}]
    /\ flock = [p \in Procs |-> "none"]
    /\ alive = Procs
    /\ exposed = {}

At(t, label) == pc[t] = label /\ ProcOf[t] \in alive

Goto(t, label) == pc' = [pc EXCEPT ![t] = label] /\ UNCHANGED <<mode, lk>>

Return(t) ==
    /\ pc' = [pc EXCEPT ![t] = "idle"]
    /\ lk' = [lk EXCEPT ![t] = NoLocker]
    /\ UNCHANGED mode

Holders(p) == {t \in Threads : ProcOf[t] = p /\ pc[t] = "held"}

(* Writers beside which t takes a read lock: the entry they share becomes "R". *)
Downgraded(t) == {u \in Holders(ProcOf[t]) : mode[t] = "R" /\ mode[u] = "W"}

(* GetLock or GetRLock on lock object l of t's process. *)
GetLock(t, l, m) ==
    /\ At(t, "idle")
    /\ LockerProc[l] = ProcOf[t]
    /\ pc' = [pc EXCEPT ![t] = "local"]
    /\ mode' = [mode EXCEPT ![t] = m]
    /\ lk' = [lk EXCEPT ![t] = l]
    /\ UNCHANGED <<local, flock, alive, exposed>>

(***************************************************************************)
(* The lock file could not be opened or created: NewNSLock returns an      *)
(* object with inode 0, whose GetLock succeeds and whose Unlock does       *)
(* nothing.                                                                *)
(***************************************************************************)
GetVoidLock(t, m) ==
    /\ "open" \in Faults
    /\ At(t, "idle")
    /\ pc' = [pc EXCEPT ![t] = "held"]
    /\ mode' = [mode EXCEPT ![t] = m]
    /\ exposed' = exposed \cup {t}
    /\ UNCHANGED <<lk, local, flock, alive>>

VoidUnlock(t) ==
    /\ At(t, "held")
    /\ lk[t] = NoLocker
    /\ Return(t)
    /\ exposed' = exposed \ {t}
    /\ UNCHANGED <<local, flock, alive>>

(* Mutant: a reader does not look at the writer. *)
CanLockLocally_Shared(t) == \A u \in local[lk[t]] : mode[t] = "R"

(* sync.RWMutex: TryRLock next to other readers, TryLock alone. *)
CanLockLocally(t) == \A u \in local[lk[t]] : mode[t] = "R" /\ mode[u] = "R"

TryLocal(t) ==
    /\ At(t, "local")
    /\ CanLockLocally(t)
    /\ local' = [local EXCEPT ![lk[t]] = @ \cup {t}]
    /\ Goto(t, "flock")
    /\ UNCHANGED <<flock, alive, exposed>>

LocalTimeout(t) ==
    /\ At(t, "local")
    /\ ~CanLockLocally(t)
    /\ Return(t)
    /\ UNCHANGED <<local, flock, alive, exposed>>

(* Mutant: a read lock looks at nobody else. *)
CanFlock_ReadAnyway(p, m) == \A q \in Procs \ {p} : flock[q] = "none" \/ m = "R"

(***************************************************************************)
(* meta.Flock, not blocking, in one transaction: a read lock next to no    *)
(* writer, a write lock next to nobody, the owner's own entry left out.    *)
(***************************************************************************)
CanFlock(p, m) == \A q \in Procs \ {p} : flock[q] = "none" \/ (m = "R" /\ flock[q] = "R")

TryFlock(t) ==
    /\ At(t, "flock")
    /\ CanFlock(ProcOf[t], mode[t])
    /\ flock' = [flock EXCEPT ![ProcOf[t]] = mode[t]]
    /\ exposed' = exposed \cup Downgraded(t)
    /\ Goto(t, "held")
    /\ UNCHANGED <<local, alive>>

(* Mutant: the attempt succeeds as the time is up, and is reported as a time-out. *)
FlockTimeout_KeepsEntry(t) ==
    /\ At(t, "flock")
    /\ flock' = IF CanFlock(ProcOf[t], mode[t]) THEN [flock EXCEPT ![ProcOf[t]] = mode[t]] ELSE flock
    /\ local' = [local EXCEPT ![lk[t]] = @ \ {t}]
    /\ Return(t)
    /\ UNCHANGED <<alive, exposed>>

(* EAGAIN, or another error, at the deadline: the local lock is given back. *)
FlockTimeout(t) ==
    /\ At(t, "flock")
    /\ ~CanFlock(ProcOf[t], mode[t]) \/ "meta" \in Faults
    /\ local' = [local EXCEPT ![lk[t]] = @ \ {t}]
    /\ Return(t)
    /\ UNCHANGED <<flock, alive, exposed>>

(* F_UNLCK deletes the entry of the session; an error is logged, no more. *)
Unlock(t) ==
    /\ At(t, "held")
    /\ lk[t] # NoLocker
    /\ \/ /\ flock' = [flock EXCEPT ![ProcOf[t]] = "none"]
          /\ exposed' = (exposed \cup Holders(ProcOf[t])) \ {t}
       \/ /\ "meta" \in Faults
          /\ exposed' = exposed \ {t}
          /\ UNCHANGED flock
    /\ Goto(t, "unlocked")
    /\ UNCHANGED <<local, alive>>

LocalUnlock(t) ==
    /\ At(t, "unlocked")
    /\ local' = [local EXCEPT ![lk[t]] = @ \ {t}]
    /\ Return(t)
    /\ UNCHANGED <<flock, alive, exposed>>

-----------------------------------------------------------------------------
(* Mutant: the session disappears from the table. *)
DropEntry_Session(p) ==
    /\ alive \ {p} # {}
    /\ flock' = [q \in DOMAIN flock \ {p} |-> flock[q]]
    /\ UNCHANGED <<thread, local, alive>>

(***************************************************************************)
(* The entry of a session is deleted by the clean-up that the refresh loop *)
(* of another process runs; a process that refreshes in time finds its own *)
(* session fresh.                                                          *)
(***************************************************************************)
DropEntry(p) ==
    /\ alive \ {p} # {}
    /\ flock' = [flock EXCEPT ![p] = "none"]
    /\ UNCHANGED <<thread, local, alive>>


(* doCleanStaleSession for a process that stopped. *)
CleanDead(p) ==
    /\ p \notin alive
    /\ flock[p] # "none"
    /\ DropEntry(p)
    /\ UNCHANGED exposed

(* The same for a process that only missed its heartbeats, and comes back. *)
CleanStalled(p) ==
    /\ "stall" \in Faults
    /\ p \in alive
    /\ flock[p] # "none"
    /\ DropEntry(p)
    /\ exposed' = exposed \cup Holders(p)

(* A process stops; one that is started again has a session of its own. *)
Crash(p) ==
    /\ "crash" \in Faults
    /\ p \in alive
    /\ alive' = alive \ {p}
    /\ pc' = [t \in Threads |-> IF ProcOf[t] = p THEN "idle" ELSE pc[t]]
    /\ lk' = [t \in Threads |-> IF ProcOf[t] = p THEN NoLocker ELSE lk[t]]
    /\ local' = [l \in Lockers |-> IF LockerProc[l] = p THEN {} ELSE local[l]]
    /\ exposed' = {t \in exposed : ProcOf[t] # p}
    /\ UNCHANGED <<mode, flock>>

Step(t) ==
    \/ TryLocal(t) \/ LocalTimeout(t) \/ TryFlock(t) \/ FlockTimeout(t)
    \/ Unlock(t) \/ LocalUnlock(t) \/ VoidUnlock(t)

Next ==
    \/ \E t \in Threads, l \in Lockers, m \in Modes : GetLock(t, l, m)
    \/ \E t \in Threads, m \in Modes : GetVoidLock(t, m)
    \/ \E t \in Threads : Step(t)
    \/ \E p \in Procs : CleanDead(p) \/ CleanStalled(p) \/ Crash(p)

Spec == Init /\ [][Next]_vars

(***************************************************************************)
(* Goroutines run on, critical sections end, and as long as a process runs *)
(* its refresh loop cleans up stale sessions (once per heartbeat).         *)
(***************************************************************************)
Fairness ==
    /\ \A t \in Threads : WF_vars(Step(t))
    /\ \A p \in Procs : WF_vars(CleanDead(p))

FairSpec == Spec /\ Fairness

-----------------------------------------------------------------------------
(***************************************************************************)
(* The namespace lock implements its promise: locks are granted as         *)
(* LeaseLock says.  A grant is the transaction that enters the lock in the *)
(* table, a withdrawal the one that deletes the session's entry.           *)
(***************************************************************************)
holdsOf == [t \in Threads |-> IF pc[t] = "held" THEN mode[t] ELSE "none"]
viaOf == [t \in Threads |-> IF pc[t] = "held" THEN lk[t] ELSE NoLocker]

LL == INSTANCE LeaseLock WITH holds <- holdsOf, via <- viaOf

ImplementsLeaseLock == LL!ASpec

(***************************************************************************)
(* Two goroutines of different processes are in clashing critical sections *)
(* only if one of their holds is exposed: another goroutine of its process *)
(* unlocked or took a read lock meanwhile, or the session was taken for    *)
(* stale, or the lock file could not be opened.                            *)
(***************************************************************************)
ExclusionUnlessExposed ==
    \A t, u \in Threads :
        /\ ProcOf[t] # ProcOf[u]
        /\ pc[t] = "held" /\ pc[u] = "held"
        /\ mode[t] = "W" \/ mode[u] = "W"
        => t \in exposed \/ u \in exposed

(* One lock object never has a writer beside another holder, whatever fails and *)
(* whatever the other processes do: the local RWMutex is below every grant.     *)
ObjectExcludes ==
    \A t, u \in Threads :
        /\ t # u /\ pc[t] = "held" /\ pc[u] = "held"
        /\ lk[t] = lk[u] /\ lk[t] # NoLocker
        => mode[t] = "R" /\ mode[u] = "R"

(* The entry of p is that of a goroutine of p in its critical section. *)
Upheld(p) ==
    flock[p] # "none" => \E t \in Holders(p) : mode[t] = flock[p] /\ lk[t] # NoLocker

(* A goroutine of p gives its lock back, and the entry stays: F_UNLCK failed. *)
UnlockFails(p) ==
    /\ flock[p] # "none" /\ flock'[p] = flock[p]
    /\ \E t \in Threads : ProcOf[t] = p /\ At(t, "held") /\ pc'[t] = "unlocked"

(***************************************************************************)
(* Nobody waits for nothing: the entry of a running process belongs to a   *)
(* goroutine of it that is in its critical section, in the mode the entry  *)
(* says, and nothing ends that but a failed F_UNLCK, which Unlock logs and *)
(* forgets.  The goroutines of one process overwrite and delete each       *)
(* other's entry, but whatever the order of their time-outs, locks and     *)
(* unlocks none is left over, for which the other gateways would wait      *)
(* until the process stops.                                                *)
(***************************************************************************)
EntriesUpheld ==
    [][\A p \in alive \cap alive' : Upheld(p) /\ ~UnlockFails(p) => Upheld(p)']_vars


==============================================================================
