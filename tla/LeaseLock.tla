------------------------------ MODULE LeaseLock ------------------------------
(***************************************************************************)
(* What the namespace lock of the gateway promises its callers, without    *)
(* lock tables, lock files and time-outs: who holds which lock object in   *)
(* which mode, and whose hold is exposed, that is, no longer protected     *)
(* against other processes.  A hold becomes exposed when another goroutine *)
(* of its process gives up a lock, when one takes a read lock beside a     *)
(* writer, when the process' session expires, and it is exposed from the   *)
(* start when the lock object locks nothing.  Goroutines of one process    *)
(* exclude each other only if they use the same lock object.               *)
(***************************************************************************)
CONSTANTS
    Procs,               \* gateway processes, by their metadata session
    Threads,             \* goroutines that use the lock
    ProcOf,              \* the process of each goroutine
    Lockers,             \* lock objects made by NewNSLock
    NoLocker             \* a lock object that locks nothing

VARIABLES
    holds,               \* the mode in which each goroutine holds a lock, or "none"
    via,                 \* the lock object through which it holds
    exposed              \* the goroutines whose hold is exposed

absVars == <<holds, via, exposed>>

(* Goroutines of p that hold a lock. *)
HoldersOf(p) == {t \in Threads : ProcOf[t] = p /\ holds[t] # "none"}

Clash(m, n) == m = "W" \/ n = "W"

AInit ==
    /\ holds = [t \in Threads |-> "none"]
    /\ via = [t \in Threads |-> NoLocker]
    /\ exposed = {}

(* Writers of t's process lose their protection to a reader beside them. *)
Downgraded(t, m) == {u \in HoldersOf(ProcOf[t]) : m = "R" /\ holds[u] = "W"}

(***************************************************************************)
(* A lock is granted if no other goroutine holds it through the same       *)
(* object, and none of another process holds it unexposed, in a mode that  *)
(* clashes.                                                                *)
(***************************************************************************)
Grant(t, l, m) ==
    /\ holds[t] = "none"
    /\ \A u \in Threads : via[u] = l /\ holds[u] # "none" => ~Clash(m, holds[u])
    /\ \A u \in Threads :
          ProcOf[u] # ProcOf[t] /\ holds[u] # "none" /\ u \notin exposed => ~Clash(m, holds[u])
    /\ holds' = [holds EXCEPT ![t] = m]
    /\ via' = [via EXCEPT ![t] = l]
    /\ exposed' = exposed \cup Downgraded(t, m)

(* A lock object that locks nothing is granted to everyone. *)
GrantVoid(t, m) ==
    /\ holds[t] = "none"
    /\ holds' = [holds EXCEPT ![t] = m]
    /\ UNCHANGED via
    /\ exposed' = exposed \cup {t}

(* A lock is given up, and with it, it may be, the protection of the whole process. *)
Withdraw(t) ==
    /\ holds[t] # "none"
    /\ holds' = [holds EXCEPT ![t] = "none"]
    /\ via' = [via EXCEPT ![t] = NoLocker]
    /\ exposed' \in {exposed \ {t}, (exposed \cup HoldersOf(ProcOf[t])) \ {t}}

Lapse(p) ==
    /\ exposed' = exposed \cup HoldersOf(p)
    /\ UNCHANGED <<holds, via>>

(* The process dies. *)
Die(p) ==
    /\ holds' = [t \in Threads |-> IF ProcOf[t] = p THEN "none" ELSE holds[t]]
    /\ via' = [t \in Threads |-> IF ProcOf[t] = p THEN NoLocker ELSE via[t]]
    /\ exposed' = {t \in exposed : ProcOf[t] # p}

ANext ==
    \/ \E t \in Threads, l \in Lockers, m \in {"R", "W"} : Grant(t, l, m)
    \/ \E t \in Threads, m \in {"R", "W"} : GrantVoid(t, m)
    \/ \E t \in Threads : Withdraw(t)
    \/ \E p \in Procs : Lapse(p) \/ Die(p)

ASpec == AInit /\ [][ANext]_absVars

==============================================================================
