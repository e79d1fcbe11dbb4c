--------------------------- MODULE LoadController ---------------------------
(***************************************************************************)
(* The load controller of the vector bucket gateway, and the goroutines    *)
(* that call it.                                                           *)
(*                                                                         *)
(* The controller caches which Milvus collections are loaded.  A mutex mu  *)
(* guards its maps, a mutex per collection name serialises loading it, and *)
(* the Milvus calls are made outside mu, except while evicting.  A request *)
(* is a sequence of controller calls (see First and the After... operators)*)
(* and every critical section of mu is one action: between two of them any *)
(* other goroutine may run.                                                *)
(*                                                                         *)
(* A cached entry (LoadEntry) is spread over entries, estMem, inFlight,    *)
(* pinned and expired; a name that has no entry has the neutral values.    *)
(***************************************************************************)
EXTENDS Integers, FiniteSets, Sequences, SequencesExt, FiniteSetsExt

CONSTANTS
    Names,        \* physical collection names (each a fresh uuid, never reused)
    PinnedNames,  \* those whose metadata row says pinned (index type hnsw)
    Existing,     \* those, not pinned, that exist in Milvus when the gateway starts
    Threads,      \* request goroutines and the migration goroutine
    Jobs,         \* which callers are active, a subset of AllJobs
    Ests,         \* memory estimates in MB a caller may pass
    Budget,       \* budgetMB
    MaxLoaded,    \* maxLoaded, 0 for no limit
    Faults,       \* which Milvus calls may fail, a subset of AllFaults
    NoThread, NoName

AllJobs == {"query", "refresh", "create", "migrate", "delete", "sweep"}

(***************************************************************************)
(* "load", "release", "drop": the call may return an error.  "late": a     *)
(* call that returned an error (a deadline, a closed connection) may have  *)
(* taken effect all the same.  "store": the SQL write that retires a name   *)
(* may fail, or change no row.                                             *)
(***************************************************************************)
AllFaults == {"load", "release", "drop", "late", "store"}

ASSUME NamesAssumption == IsFiniteSet(Names) /\ NoName \notin Names
ASSUME SubsetsAssumption == PinnedNames \subseteq Names /\ Existing \subseteq Names \ PinnedNames
ASSUME ThreadsAssumption == IsFiniteSet(Threads) /\ NoThread \notin Threads
ASSUME LimitsAssumption == Ests \subseteq Nat /\ Budget \in Nat /\ MaxLoaded \in Nat
ASSUME EstsAssumption == IsFiniteSet(Ests) /\ Ests # {} /\ Threads # {}
ASSUME OptionsAssumption == Jobs \subseteq AllJobs /\ Faults \subseteq AllFaults

VARIABLES
    entries,    \* the names that have a LoadEntry
    lruOrder,   \* least recently used first
    estMem,     \* LoadEntry.EstMemMB
    inFlight,   \* LoadEntry.InFlightCount
    pinned,     \* the names whose LoadEntry.Pinned is set
    expired,    \* the names whose LastAccessAt is more than ttl ago
    mu,         \* the goroutine that holds mu between two actions
    loadLock,   \* the holder of each name's load lock
    pc, job, arg, est,      \* each goroutine: position, request, name, estimate
    toRelease, sweeping,    \* RunTTLSweep: names left, name between call and delete
    milvus,     \* the collections Milvus has loaded
    phys        \* life of each physical collection

cacheVars == <<entries, lruOrder, estMem, inFlight, pinned, expired>>
reqVars   == <<job, arg, est>>
sweepVars == <<toRelease, sweeping>>
extVars   == <<milvus, phys>>
vars == <<cacheVars, mu, loadLock, pc, reqVars, sweepVars, extVars>>

Labels == {"idle", "ensure", "lock", "recheck", "evict", "load", "insert",
           "inc", "touch", "search", "dec", "pin", "scan", "unpin",
           "release", "releaseCall", "releaseDone", "mark", "rawRelease", "drop"}

(***************************************************************************)
(* "absent": not created yet; "ready": the router resolves an index to it; *)
(* "retired": exists in Milvus but no index resolves to it any more;       *)
(* "dropped": gone.                                                        *)
(***************************************************************************)
PhysStates == {"absent", "ready", "retired", "dropped"}

TypeOK ==
    /\ entries \subseteq Names
    /\ lruOrder \in Seq(Names)
    /\ estMem \in [Names -> Nat]
    /\ inFlight \in [Names -> Nat]
    /\ pinned \subseteq Names
    /\ expired \subseteq Names
    /\ mu \in Threads \cup {NoThread}
    /\ loadLock \in [Names -> Threads \cup {NoThread}]
    /\ pc \in [Threads -> Labels]
    /\ job \in [Threads -> AllJobs \cup {"none"}]
    /\ arg \in [Threads -> Names \cup {NoName}]
    /\ \A t \in Threads : pc[t] # "idle" => arg[t] \in Names
    /\ est \in [Threads -> Nat]
    /\ toRelease \subseteq Names
    /\ sweeping \in Names \cup {NoName}
    /\ milvus \subseteq Names
    /\ phys \in [Names -> PhysStates]

(***************************************************************************)
(* A gateway that has just started: the controller is empty, whatever the  *)
(* previous process had loaded is still loaded in Milvus.  The calls of a  *)
(* "create" are also those that restore a pinned collection at a start and *)
(* those the migration makes for a pinned target.                          *)
(***************************************************************************)
Init ==
    /\ entries = {}
    /\ lruOrder = <<>>
    /\ estMem = [n \in Names |-> 0]
    /\ inFlight = [n \in Names |-> 0]
    /\ pinned = {}
    /\ expired = {}
    /\ mu = NoThread
    /\ loadLock = [n \in Names |-> NoThread]
    /\ pc = [t \in Threads |-> "idle"]
    /\ job = [t \in Threads |-> "none"]
    /\ arg = [t \in Threads |-> NoName]
    /\ est = [t \in Threads |-> 0]
    /\ toRelease = {}
    /\ sweeping = NoName
    /\ milvus \in SUBSET Existing
    /\ phys = [n \in Names |-> IF n \in Existing THEN "ready" ELSE "absent"]

-----------------------------------------------------------------------------
(***************************************************************************)
(* Milvus, as the adapter uses it.  Loading or releasing a collection that *)
(* does not exist is an error; releasing one that is not loaded is not;    *)
(* dropping one that does not exist is not.                                *)
(***************************************************************************)
Exists(n) == phys[n] \in {"ready", "retired"}

LoadOK(n) == Exists(n) /\ milvus' = milvus \cup {n}

LoadErr(n) ==
    /\ ~Exists(n) \/ "load" \in Faults
    /\ \/ milvus' = milvus
       \/ "late" \in Faults /\ Exists(n) /\ milvus' = milvus \cup {n}

ReleaseOK(n) == Exists(n) /\ milvus' = milvus \ {n}

ReleaseErr(n) ==
    /\ ~Exists(n) \/ "release" \in Faults
    /\ \/ milvus' = milvus
       \/ "late" \in Faults /\ Exists(n) /\ milvus' = milvus \ {n}

-----------------------------------------------------------------------------
(***************************************************************************)
(* The callers: which controller call follows which.                       *)
(***************************************************************************)
First(j) ==
    CASE j \in {"query", "create", "migrate"} -> "ensure"
      [] j = "refresh" -> "release"
      [] j = "delete"  -> "mark"

AfterEnsure(j) ==
    CASE j = "query"   -> "inc"
      [] j = "migrate" -> "scan"
      [] OTHER         -> "pin"

AfterRelease(j) == IF j = "refresh" THEN "ensure" ELSE "mark"

AfterUnpin(j) == IF j = "delete" THEN "rawRelease" ELSE "release"

(* Unpin is called only for a collection whose row is pinned. *)
UnpinOrSkip(t) ==
    IF arg[t] \in PinnedNames THEN "unpin"
    ELSE IF job[t] = "delete" THEN "rawRelease" ELSE "mark"

At(t, label) == pc[t] = label

Goto(t, label) == pc' = [pc EXCEPT ![t] = label] /\ UNCHANGED reqVars

(* The request is over, with or without an error. *)
Return(t) ==
    /\ pc'  = [pc  EXCEPT ![t] = "idle"]
    /\ job' = [job EXCEPT ![t] = "none"]
    /\ arg' = [arg EXCEPT ![t] = NoName]
    /\ est' = [est EXCEPT ![t] = 0]

(***************************************************************************)
(* A request arrives for a name the router resolves.  A refresh follows a  *)
(* PutVectors on a pinned collection; a create is the end of CreateIndex   *)
(* for a pinned type, on a collection made for it; the migration goroutine *)
(* works on one collection at a time.                                      *)
(***************************************************************************)
Begin(t, j, n, mb) ==
    /\ At(t, "idle")
    /\ j \in {"refresh", "create"} => n \in PinnedNames
    /\ IF j = "create"
       THEN phys[n] = "absent" /\ phys' = [phys EXCEPT ![n] = "ready"]
       ELSE phys[n] = "ready" /\ UNCHANGED phys
    /\ j = "migrate" => \A u \in Threads : job[u] # "migrate"
    /\ pc'  = [pc  EXCEPT ![t] = First(j)]
    /\ job' = [job EXCEPT ![t] = j]
    /\ arg' = [arg EXCEPT ![t] = n]
    /\ est' = [est EXCEPT ![t] = mb]
    /\ UNCHANGED <<cacheVars, mu, loadLock, sweepVars, milvus>>

-----------------------------------------------------------------------------
(***************************************************************************)
(* The controller's data structure.                                        *)
(***************************************************************************)
removeLRU(n) == RemoveFirst(lruOrder, n)

(* Mutant: an access does not reorder the list. *)
moveLRUToBack_Noop(n) == lruOrder

moveLRUToBack(n) == Append(removeLRU(n), n)

usedMB == MapThenSumSet(LAMBDA n : estMem[n], entries)

(* LastAccessAt = now, and the name becomes the most recently used one. *)
Access(n) ==
    /\ lruOrder' = moveLRUToBack(n)
    /\ expired' = expired \ {n}
    /\ UNCHANGED <<entries, estMem, inFlight, pinned>>

(* delete(c.entries, name); c.removeLRU(name) *)
Forget(n) ==
    /\ entries' = entries \ {n}
    /\ lruOrder' = removeLRU(n)
    /\ estMem' = [estMem EXCEPT ![n] = 0]
    /\ inFlight' = [inFlight EXCEPT ![n] = 0]
    /\ pinned' = pinned \ {n}
    /\ expired' = expired \ {n}

(* A new LoadEntry with zero InFlightCount and Pinned false replaces any other. *)
Insert(n, mb) ==
    /\ entries' = entries \cup {n}
    /\ lruOrder' = Append(lruOrder, n)
    /\ estMem' = [estMem EXCEPT ![n] = mb]
    /\ inFlight' = [inFlight EXCEPT ![n] = 0]
    /\ pinned' = pinned \ {n}
    /\ expired' = expired \ {n}

-----------------------------------------------------------------------------
(***************************************************************************)
(* EnsureLoaded                                                            *)
(***************************************************************************)
EnsureCheck(t) ==
    /\ At(t, "ensure")
    /\ mu = NoThread
    /\ IF arg[t] \in entries
       THEN Access(arg[t]) /\ Goto(t, AfterEnsure(job[t]))
       ELSE Goto(t, "lock") /\ UNCHANGED cacheVars
    /\ UNCHANGED <<mu, loadLock, sweepVars, extVars>>

EnsureLock(t) ==
    /\ At(t, "lock")
    /\ loadLock[arg[t]] = NoThread
    /\ loadLock' = [loadLock EXCEPT ![arg[t]] = t]
    /\ Goto(t, "recheck")
    /\ UNCHANGED <<cacheVars, mu, sweepVars, extVars>>

(* defer lock.Unlock() *)
Unlock(t) == loadLock' = [loadLock EXCEPT ![arg[t]] = NoThread]

(* Mutant: the cache is not checked again under the load lock. *)
EnsureRecheck_Skipped(t) ==
    /\ At(t, "recheck")
    /\ mu = NoThread
    /\ mu' = t
    /\ Goto(t, "evict")
    /\ UNCHANGED <<cacheVars, loadLock, sweepVars, extVars>>

EnsureRecheck(t) ==
    /\ At(t, "recheck")
    /\ mu = NoThread
    /\ IF arg[t] \in entries
       THEN Access(arg[t]) /\ Unlock(t) /\ UNCHANGED mu /\ Goto(t, AfterEnsure(job[t]))
       ELSE mu' = t /\ Goto(t, "evict") /\ UNCHANGED <<cacheVars, loadLock>>
    /\ UNCHANGED <<sweepVars, extVars>>

(***************************************************************************)
(* evictIfNeededLocked, with mu held from one iteration to the next: the   *)
(* least recently used entry that is neither pinned nor in flight goes.    *)
(***************************************************************************)
(* Mutant: the new collection's own estimate is not added. *)
OverLimit_IgnoresNeed(mb) ==
    \/ usedMB > Budget
    \/ MaxLoaded > 0 /\ Cardinality(entries) >= MaxLoaded

OverLimit(mb) ==
    \/ usedMB + mb > Budget
    \/ MaxLoaded > 0 /\ Cardinality(entries) >= MaxLoaded

Evictable(n) == n \in entries /\ n \notin pinned /\ inFlight[n] = 0

Candidate(n) ==
    \E i \in DOMAIN lruOrder :
        /\ lruOrder[i] = n
        /\ Evictable(n)
        /\ \A k \in 1..(i - 1) : ~Evictable(lruOrder[k])

EvictDone(t) ==
    /\ At(t, "evict")
    /\ ~OverLimit(est[t])
    /\ mu' = NoThread
    /\ Goto(t, "load")
    /\ UNCHANGED <<cacheVars, loadLock, sweepVars, extVars>>

EvictOne(t, n) ==
    /\ At(t, "evict")
    /\ OverLimit(est[t])
    /\ Candidate(n)
    /\ ReleaseOK(n)
    /\ Forget(n)
    /\ UNCHANGED <<mu, loadLock, pc, reqVars, sweepVars, phys>>

(* Mutant: the error path of a refused release leaves mu locked. *)
EvictFail_KeepsMu(t) ==
    /\ At(t, "evict")
    /\ OverLimit(est[t])
    /\ \/ ~(\E n \in Names : Candidate(n)) /\ mu' = NoThread /\ UNCHANGED milvus
       \/ \E n \in Names : Candidate(n) /\ ReleaseErr(n) /\ UNCHANGED mu
    /\ Unlock(t)
    /\ Return(t)
    /\ UNCHANGED <<cacheVars, sweepVars, phys>>

(* Nothing to evict, or Milvus refuses the release: EnsureLoaded fails. *)
EvictFail(t) ==
    /\ At(t, "evict")
    /\ OverLimit(est[t])
    /\ \/ ~(\E n \in Names : Candidate(n)) /\ UNCHANGED milvus
       \/ \E n \in Names : Candidate(n) /\ ReleaseErr(n)
    /\ mu' = NoThread
    /\ Unlock(t)
    /\ Return(t)
    /\ UNCHANGED <<cacheVars, sweepVars, phys>>

(* Mutant: the error of LoadCollection is not returned. *)
EnsureLoad_IgnoresError(t) ==
    /\ At(t, "load")
    /\ LoadOK(arg[t]) \/ LoadErr(arg[t])
    /\ Goto(t, "insert")
    /\ UNCHANGED <<cacheVars, mu, loadLock, sweepVars, phys>>

(* Mutant: a failed load returns without unlocking the name's load lock. *)
EnsureLoad_KeepsLock(t) ==
    /\ At(t, "load")
    /\ \/ LoadOK(arg[t]) /\ Goto(t, "insert")
       \/ LoadErr(arg[t]) /\ Return(t)
    /\ UNCHANGED <<cacheVars, mu, loadLock, sweepVars, phys>>

EnsureLoad(t) ==
    /\ At(t, "load")
    /\ \/ LoadOK(arg[t]) /\ Goto(t, "insert") /\ UNCHANGED loadLock
       \/ LoadErr(arg[t]) /\ Unlock(t) /\ Return(t)
    /\ UNCHANGED <<cacheVars, mu, sweepVars, phys>>

EnsureInsert(t) ==
    /\ At(t, "insert")
    /\ mu = NoThread
    /\ Insert(arg[t], est[t])
    /\ Unlock(t)
    /\ Goto(t, AfterEnsure(job[t]))
    /\ UNCHANGED <<mu, sweepVars, extVars>>

-----------------------------------------------------------------------------
(***************************************************************************)
(* InFlightInc, Touch, Search and InFlightDec of QueryVectors.  Each looks *)
(* the entry up by name again and does nothing when it is not there.       *)
(***************************************************************************)
InFlightInc(t) ==
    /\ At(t, "inc")
    /\ mu = NoThread
    /\ inFlight' = [inFlight EXCEPT ![arg[t]] = IF arg[t] \in entries THEN @ + 1 ELSE @]
    /\ Goto(t, "touch")
    /\ UNCHANGED <<entries, lruOrder, estMem, pinned, expired>>
    /\ UNCHANGED <<mu, loadLock, sweepVars, extVars>>

Touch(t) ==
    /\ At(t, "touch")
    /\ mu = NoThread
    /\ IF arg[t] \in entries THEN Access(arg[t]) ELSE UNCHANGED cacheVars
    /\ Goto(t, "search")
    /\ UNCHANGED <<mu, loadLock, sweepVars, extVars>>

(* Mutant: InFlightDec is not deferred, and a failed search returns before it. *)
Search_ReturnsEarly(t) ==
    /\ At(t, "search")
    /\ IF arg[t] \in milvus THEN Goto(t, "dec") ELSE Return(t)
    /\ UNCHANGED <<cacheVars, mu, loadLock, sweepVars, extVars>>

(* Answered from a loaded collection, an error from one that is not: then Dec. *)
Search(t) ==
    /\ At(t, "search")
    /\ Goto(t, "dec")
    /\ UNCHANGED <<cacheVars, mu, loadLock, sweepVars, extVars>>

(* Mutant: the count may drop below zero. *)
InFlightDec_NoFloor(t) ==
    /\ At(t, "dec")
    /\ mu = NoThread
    /\ inFlight' = [inFlight EXCEPT ![arg[t]] = IF arg[t] \in entries THEN @ - 1 ELSE @]
    /\ Return(t)
    /\ UNCHANGED <<entries, lruOrder, estMem, pinned, expired>>
    /\ UNCHANGED <<mu, loadLock, sweepVars, extVars>>

InFlightDec(t) ==
    /\ At(t, "dec")
    /\ mu = NoThread
    /\ inFlight' = [inFlight EXCEPT ![arg[t]] =
                        IF arg[t] \in entries /\ @ > 0 THEN @ - 1 ELSE @]
    /\ Return(t)
    /\ UNCHANGED <<entries, lruOrder, estMem, pinned, expired>>
    /\ UNCHANGED <<mu, loadLock, sweepVars, extVars>>

-----------------------------------------------------------------------------
(***************************************************************************)
(* Pin, Unpin and Release                                                  *)
(***************************************************************************)
Pin(t) ==
    /\ At(t, "pin")
    /\ mu = NoThread
    /\ pinned' = IF arg[t] \in entries THEN pinned \cup {arg[t]} ELSE pinned
    /\ Return(t)
    /\ UNCHANGED <<entries, lruOrder, estMem, inFlight, expired>>
    /\ UNCHANGED <<mu, loadLock, sweepVars, extVars>>

Unpin(t) ==
    /\ At(t, "unpin")
    /\ mu = NoThread
    /\ pinned' = pinned \ {arg[t]}
    /\ Goto(t, AfterUnpin(job[t]))
    /\ UNCHANGED <<entries, lruOrder, estMem, inFlight, expired>>
    /\ UNCHANGED <<mu, loadLock, sweepVars, extVars>>

ReleaseCheck(t) ==
    /\ At(t, "release")
    /\ mu = NoThread
    /\ Goto(t, IF arg[t] \in entries THEN "releaseCall" ELSE AfterRelease(job[t]))
    /\ UNCHANGED <<cacheVars, mu, loadLock, sweepVars, extVars>>

(* PutVectors returns the error of Release, the migration ignores it. *)
ReleaseCall(t) ==
    /\ At(t, "releaseCall")
    /\ \/ ReleaseOK(arg[t]) /\ Goto(t, "releaseDone")
       \/ ReleaseErr(arg[t]) /\ job[t] = "refresh" /\ Return(t)
       \/ ReleaseErr(arg[t]) /\ job[t] # "refresh" /\ Goto(t, AfterRelease(job[t]))
    /\ UNCHANGED <<cacheVars, mu, loadLock, sweepVars, phys>>

ReleaseDone(t) ==
    /\ At(t, "releaseDone")
    /\ mu = NoThread
    /\ Forget(arg[t])
    /\ Goto(t, AfterRelease(job[t]))
    /\ UNCHANGED <<mu, loadLock, sweepVars, extVars>>

-----------------------------------------------------------------------------
(***************************************************************************)
(* What the migration and DeleteIndex do besides controller calls.  The    *)
(* migration creates the target, scans the source, which must be loaded,   *)
(* and compares the counts; it fails when one of these does.               *)
(***************************************************************************)
Scan(t) ==
    /\ At(t, "scan")
    /\ (arg[t] \in milvus /\ Goto(t, UnpinOrSkip(t))) \/ Return(t)
    /\ UNCHANGED <<cacheVars, mu, loadLock, sweepVars, extVars>>

(***************************************************************************)
(* SwitchCollectionPhysical, or status DELETING: the name no longer        *)
(* resolves.  The migration returns an error of the store, DeleteIndex     *)
(* goes on.                                                                *)
(***************************************************************************)
Mark(t) ==
    /\ At(t, "mark")
    /\ \/ /\ phys' = [phys EXCEPT ![arg[t]] = IF @ = "ready" THEN "retired" ELSE @]
          /\ Goto(t, IF job[t] = "delete" THEN UnpinOrSkip(t) ELSE "drop")
       \/ /\ "store" \in Faults
          /\ IF job[t] = "delete" THEN Goto(t, UnpinOrSkip(t)) ELSE Return(t)
          /\ UNCHANGED phys
    /\ UNCHANGED <<cacheVars, mu, loadLock, sweepVars, milvus>>

(* DeleteIndex calls the adapter, not the controller, and ignores the error. *)
RawRelease(t) ==
    /\ At(t, "rawRelease")
    /\ ReleaseOK(arg[t]) \/ ReleaseErr(arg[t])
    /\ Goto(t, "drop")
    /\ UNCHANGED <<cacheVars, mu, loadLock, sweepVars, phys>>

Drop(t) ==
    /\ At(t, "drop")
    /\ \/ phys' = [phys EXCEPT ![arg[t]] = "dropped"] /\ milvus' = milvus \ {arg[t]}
       \/ "drop" \in Faults /\ UNCHANGED extVars
    /\ Return(t)
    /\ UNCHANGED <<cacheVars, mu, loadLock, sweepVars>>

-----------------------------------------------------------------------------
(***************************************************************************)
(* RunTTLSweep, run by one goroutine on a ticker.  The names are selected  *)
(* under mu and released, in the map's random order, after unlocking it.   *)
(***************************************************************************)
SweepSelect ==
    /\ "sweep" \in Jobs
    /\ mu = NoThread
    /\ toRelease = {} /\ sweeping = NoName
    /\ toRelease' = {n \in entries : n \in expired /\ n \notin pinned /\ inFlight[n] = 0}
    /\ toRelease' # {}
    /\ UNCHANGED <<cacheVars, mu, loadLock, pc, reqVars, sweeping, extVars>>

SweepCall(n) ==
    /\ n \in toRelease
    /\ sweeping = NoName
    /\ ReleaseOK(n) \/ ReleaseErr(n)
    /\ toRelease' = toRelease \ {n}
    /\ sweeping' = n
    /\ UNCHANGED <<cacheVars, mu, loadLock, pc, reqVars, phys>>

SweepForget ==
    /\ sweeping # NoName
    /\ mu = NoThread
    /\ Forget(sweeping)
    /\ sweeping' = NoName
    /\ UNCHANGED <<mu, loadLock, pc, reqVars, toRelease, extVars>>

(***************************************************************************)
(* Time passes until the next entry, in order of last access, is older     *)
(* than ttl.  LastAccessAt is only written together with lruOrder.         *)
(***************************************************************************)
Expire(n) ==
    /\ "sweep" \in Jobs
    /\ n \in entries \ expired
    /\ \E i \in DOMAIN lruOrder :
          lruOrder[i] = n /\ \A k \in 1..(i - 1) : lruOrder[k] \in expired
    /\ expired' = expired \cup {n}
    /\ UNCHANGED <<entries, lruOrder, estMem, inFlight, pinned>>
    /\ UNCHANGED <<mu, loadLock, pc, reqVars, sweepVars, extVars>>

-----------------------------------------------------------------------------
(* The next step of a goroutine that is serving a request. *)
Step(t) ==
    \/ EnsureCheck(t) \/ EnsureLock(t) \/ EnsureRecheck(t)
    \/ EvictDone(t) \/ (\E n \in Names : EvictOne(t, n)) \/ EvictFail(t)
    \/ EnsureLoad(t) \/ EnsureInsert(t)
    \/ InFlightInc(t) \/ Touch(t) \/ Search(t) \/ InFlightDec(t)
    \/ Pin(t) \/ Unpin(t)
    \/ ReleaseCheck(t) \/ ReleaseCall(t) \/ ReleaseDone(t)
    \/ Scan(t) \/ Mark(t) \/ RawRelease(t) \/ Drop(t)

SweepStep == SweepSelect \/ (\E n \in Names : SweepCall(n)) \/ SweepForget

Next ==
    \/ \E t \in Threads, j \in Jobs \ {"sweep"}, n \in Names, mb \in Ests : Begin(t, j, n, mb)
    \/ \E t \in Threads : Step(t)
    \/ SweepStep
    \/ \E n \in Names : Expire(n)

(***************************************************************************)
(* Go's mutexes do not starve a waiter, every Milvus call returns, and the *)
(* ticker keeps firing.  Requests need not arrive.                         *)
(***************************************************************************)
Fairness == SF_vars(SweepStep) /\ \A t \in Threads : SF_vars(Step(t))

Spec == Init /\ [][Next]_vars

FairSpec == Spec /\ Fairness

-----------------------------------------------------------------------------
(***************************************************************************)
(* Safety                                                                  *)
(***************************************************************************)

(* The list and the map name the same collections, and the list each once. *)
LRUMatchesEntries ==
    /\ ToSet(lruOrder) = entries
    /\ \A i, k \in DOMAIN lruOrder : lruOrder[i] = lruOrder[k] => i = k

(* Entries older than ttl come first in the list. *)
LRUAgreesWithLastAccess ==
    \A i, k \in DOMAIN lruOrder : k < i /\ lruOrder[i] \in expired => lruOrder[k] \in expired

(***************************************************************************)
(* The LRU list is the map in the order of last access, although every     *)
(* path of the controller updates list, map and LastAccessAt separately.   *)
(* They name the same collections and the list names each once: otherwise  *)
(* eviction would skip a loaded collection or loop on a ghost.  And the    *)
(* entries older than ttl are the first ones of the list, so that eviction *)
(* and the sweep agree on what is oldest.                                  *)
(***************************************************************************)
LRUOrdersEntries == LRUMatchesEntries /\ LRUAgreesWithLastAccess

(* The queries on n between their InFlightInc and the end of their InFlightDec. *)
Counted(n) == {t \in Threads : pc[t] \in {"touch", "search", "dec"} /\ arg[t] = n}

(***************************************************************************)
(* InFlightCount never exceeds the queries that are running: entries come  *)
(* and go between a query's InFlightInc and InFlightDec, which look them   *)
(* up by name, but no count is left behind that would block eviction and   *)
(* the TTL sweep for ever.                                                 *)
(***************************************************************************)
InFlightNeverOvercounts == \A n \in Names : inFlight[n] <= Cardinality(Counted(n))

(* The goroutines that have passed the limits and not yet entered their entry. *)
Admitted == {t \in Threads : pc[t] \in {"load", "insert"}}

(* maxLoaded is exceeded by at most one collection per other goroutine. *)
CountOvershootBounded ==
    MaxLoaded > 0 =>
        Cardinality(entries) + Cardinality(Admitted)
            <= MaxLoaded + (Cardinality(Threads) - 1)

(* The budget, by no more than the other goroutines' estimates. *)
MemOvershootBounded ==
    usedMB + MapThenSumSet(LAMBDA t : est[t], Admitted)
        <= Budget + (Cardinality(Threads) - 1) * Max(Ests)

(***************************************************************************)
(* EnsureLoaded checks the limits under mu but loads and inserts later, so *)
(* that concurrent loads may exceed them; never by more than one           *)
(* collection, and the largest estimate, per other goroutine.              *)
(***************************************************************************)
LimitsOvershootBounded == CountOvershootBounded /\ MemOvershootBounded

(* Goroutine t completes, in this step, the call it is at for n. *)
Completes(t, label, n) == At(t, label) /\ arg[t] = n /\ pc'[t] # label

EntryKept(n) ==
    /\ estMem'[n] = estMem[n]
    /\ inFlight'[n] < inFlight[n] => \E t \in Threads : Completes(t, "dec", n)
    /\ n \in pinned \ pinned' => \E t \in Threads : Completes(t, "unpin", n)

EntriesKept == \A n \in entries \cap entries' : EntryKept(n)

(* From the second check to the insertion a goroutine has its load lock, and the name no entry. *)
LoadsExclusive ==
    \A t \in Threads :
        /\ pc[t] \in {"recheck", "evict", "load", "insert"} => loadLock[arg[t]] = t
        /\ pc[t] \in {"evict", "load", "insert"} => arg[t] \notin entries
        /\ pc[t] = "evict" <=> mu = t

(* And a load lock is taken by nobody else. *)
LoadLocksAttended ==
    \A n \in Names :
        loadLock[n] # NoThread =>
            /\ pc[loadLock[n]] \in {"recheck", "evict", "load", "insert"}
            /\ arg[loadLock[n]] = n

(***************************************************************************)
(* The locks of EnsureLoaded are held where they are needed and nowhere    *)
(* else.  From the second check under the load lock until the entry is     *)
(* made the goroutine holds the lock, and nobody else has made an entry    *)
(* for the name; only the goroutine that evicts keeps mu.  Conversely a    *)
(* lock that is taken is attended by such a goroutine: no way the call may *)
(* end leaks it, which would block every later request for the collection, *)
(* and as a holder waits for nothing but mu and Milvus, and the holder of  *)
(* mu for Milvus only, no circle of goroutines can wait for one another.   *)
(***************************************************************************)
LocksExact == LoadsExclusive /\ LoadLocksAttended

(***************************************************************************)
(* No step replaces a live entry: while a collection stays cached its      *)
(* accounted memory is fixed, it loses a count only to an InFlightDec and  *)
(* its pin only to an Unpin.  The second check under the load lock is what *)
(* keeps two loads of one collection from each inserting a new LoadEntry.  *)
(***************************************************************************)
EntryNotReplaced == [][EntriesKept]_vars

(***************************************************************************)
(* Without the TTL sweep, refreshes and deletions the cache mirrors Milvus:*)
(* every entry is loaded, and what is loaded has an entry, is about to get *)
(* it, or was loaded by an earlier gateway process.                        *)
(***************************************************************************)
CacheMirrorsMilvus ==
    /\ entries \subseteq milvus
    /\ milvus \ entries \subseteq Existing \cup {arg[t] : t \in {u \in Threads : At(u, "insert")}}

(***************************************************************************)
(* When no request and no sweep is running every entry is loaded.          *)
(***************************************************************************)
Quiescent == toRelease = {} /\ sweeping = NoName /\ \A t \in Threads : pc[t] = "idle"
QuiescentAgreement == Quiescent => entries \subseteq milvus

-----------------------------------------------------------------------------
(***************************************************************************)
(* Liveness                                                                *)
(***************************************************************************)

(* Every request returns: no deadlock between mu, the load locks and Milvus. *)
EveryRequestReturns == \A t \in Threads : pc[t] # "idle" ~> pc[t] = "idle"

(***************************************************************************)
(* An entry that is idle beyond ttl does not stay: the sweep releases it,  *)
(* unless it is pinned, accessed again, or a request is working on it.     *)
(***************************************************************************)
IdleIsReleased ==
    \A n \in Names :
        n \in entries /\ n \in expired
            ~> \/ n \notin entries \/ n \notin expired \/ n \in pinned
               \/ \E t \in Threads : arg[t] = n

=============================================================================
