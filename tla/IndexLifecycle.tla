--------------------------- MODULE IndexLifecycle ---------------------------
(***************************************************************************)
(* Buckets and indexes of the vector bucket gateway: the SQLite rows, the  *)
(* Milvus collections behind them, and the requests that create and delete *)
(* both.  A request is a sequence of steps, each one SQL statement or one  *)
(* Milvus call; nothing makes the sequence atomic, and a crash of the      *)
(* gateway ends every request where it stands.  The reads of one check     *)
(* (router.Resolve, the quotas) are one step: a row read after the others  *)
(* exists together with its bucket, and a read that misses it only fails   *)
(* the request.                                                            *)
(*                                                                         *)
(* Ids are uuids: the n-th one drawn is the number n.  The physical name   *)
(* of a collection is made from the index id, and stands for it here.      *)
(***************************************************************************)
EXTENDS Integers, FiniteSets

CONSTANTS
    BucketNames, IndexNames,
    PerfBuckets,         \* buckets whose policy has a pinned index type (hnsw)
    Threads,             \* request goroutines
    Jobs,                \* which requests arrive, a subset of AllJobs
    MaxBucketIds, MaxIndexIds,   \* bounds on the uuids drawn
    MaxBuckets,          \* the smaller of MaxBucketsGlobal and MaxBucketsPerTenant: one tenant
    MaxCollPerBucket,
    PerfBudget,          \* PerformanceBudgetMB, in units of one pinned index
    Faults,              \* what may fail, a subset of AllFaults
    NoName

AllJobs == {"createBucket", "deleteBucket", "createIndex", "deleteIndex"}

(***************************************************************************)
(* "create": CreateCollection or CreateIndex may return an error; "late":  *)
(* a CreateCollection that did may have taken effect; "drop": the drop of  *)
(* DeleteIndex may return an error, with or without effect; "store": a SQL *)
(* write may fail; "ignored": so may the two calls whose error is ignored  *)
(* by the steps that follow, the drop of an undo and the DELETING update;  *)
(* "crash": the gateway may stop.                                          *)
(***************************************************************************)
AllFaults == {"create", "late", "drop", "store", "ignored", "crash"}

BucketIds == 1..MaxBucketIds
IndexIds  == 1..MaxIndexIds

ASSUME NameAssumption == NoName \notin BucketNames /\ NoName \notin IndexNames
ASSUME ThreadAssumption == IsFiniteSet(Threads) /\ Threads # {}
ASSUME BoundAssumption == MaxBucketIds \in Nat /\ MaxIndexIds \in Nat
ASSUME QuotaAssumption == MaxBuckets \in Nat /\ MaxCollPerBucket \in Nat /\ PerfBudget \in Nat
ASSUME OptionAssumption == Jobs \subseteq AllJobs /\ Faults \subseteq AllFaults

VARIABLES
    bName,      \* table buckets: the name of each row, NoName where there is no row
    iName, iStatus,            \* table collections; status "none": no row
    iBucket,    \* the bucket a row is in, or was in before it was deleted
    nextB, nextI,              \* the next uuid
    phys,       \* the Milvus collections that exist
    pc, job, bArg, iArg,       \* each goroutine: position, request, names in it
    bid, iid,                  \* each goroutine: the bucket and index row it works on
    counted     \* history: the next uuid when a deletion of a bucket counted its indexes

store   == <<bName, iName, iBucket, iStatus>>
reqVars == <<job, bArg, iArg>>
vars    == <<store, nextB, nextI, phys, pc, reqVars, bid, iid, counted>>

Labels == {"idle", "cbCheck", "cbInsert", "dbGet", "dbCount", "dbDelete",
           "ciGet", "ciQuota", "ciPerf", "ciInsert", "ciCollection", "ciIndex",
           "ciUndoDrop", "ciUndoRow", "ciReady", "diResolve", "diMark", "diDrop", "diRow"}

TypeOK ==
    /\ bName \in [BucketIds -> BucketNames \cup {NoName}]
    /\ iName \in [IndexIds -> IndexNames \cup {NoName}]
    /\ iBucket \in [IndexIds -> BucketIds \cup {0}]
    /\ iStatus \in [IndexIds -> {"none", "INIT", "READY", "DELETING"}]
    /\ nextB \in 1..(MaxBucketIds + 1)
    /\ nextI \in 1..(MaxIndexIds + 1)
    /\ phys \subseteq IndexIds
    /\ pc \in [Threads -> Labels]
    /\ job \in [Threads -> AllJobs \cup {"none"}]
    /\ bArg \in [Threads -> BucketNames \cup {NoName}]
    /\ iArg \in [Threads -> IndexNames \cup {NoName}]
    /\ bid \in [Threads -> BucketIds \cup {0}]
    /\ iid \in [Threads -> IndexIds \cup {0}]
    /\ counted \in [Threads -> 0..(MaxIndexIds + 1)]

Init ==
    /\ bName = [b \in BucketIds |-> NoName]
    /\ iName = [i \in IndexIds |-> NoName]
    /\ iBucket = [i \in IndexIds |-> 0]
    /\ iStatus = [i \in IndexIds |-> "none"]
    /\ nextB = 1 /\ nextI = 1
    /\ phys = {}
    /\ pc = [t \in Threads |-> "idle"]
    /\ job = [t \in Threads |-> "none"]
    /\ bArg = [t \in Threads |-> NoName]
    /\ iArg = [t \in Threads |-> NoName]
    /\ bid = [t \in Threads |-> 0]
    /\ iid = [t \in Threads |-> 0]
    /\ counted = [t \in Threads |-> 0]

At(t, label) == pc[t] = label

Goto(t, label) == pc' = [pc EXCEPT ![t] = label] /\ UNCHANGED reqVars

Keep == UNCHANGED <<bid, iid, counted>>

(* The response is sent, whatever it says. *)
Return(t) ==
    /\ pc' = [pc EXCEPT ![t] = "idle"]
    /\ job' = [job EXCEPT ![t] = "none"]
    /\ bArg' = [bArg EXCEPT ![t] = NoName]
    /\ iArg' = [iArg EXCEPT ![t] = NoName]
    /\ bid' = [bid EXCEPT ![t] = 0]
    /\ iid' = [iid EXCEPT ![t] = 0]
    /\ counted' = [counted EXCEPT ![t] = 0]

First(j) ==
    CASE j = "createBucket" -> "cbCheck"
      [] j = "deleteBucket" -> "dbGet"
      [] j = "createIndex"  -> "ciGet"
      [] j = "deleteIndex"  -> "diResolve"

Begin(t, j, b, i) ==
    /\ At(t, "idle")
    /\ pc' = [pc EXCEPT ![t] = First(j)]
    /\ job' = [job EXCEPT ![t] = j]
    /\ bArg' = [bArg EXCEPT ![t] = b]
    /\ iArg' = [iArg EXCEPT ![t] = IF j \in {"createIndex", "deleteIndex"} THEN i ELSE NoName]
    /\ UNCHANGED <<store, nextB, nextI, phys, bid, iid, counted>>

-----------------------------------------------------------------------------
(***************************************************************************)
(* The metadata store: one SQL statement each.                             *)
(***************************************************************************)
BucketRows == {b \in BucketIds : bName[b] # NoName}

GetBucketByName(name) == {b \in BucketRows : bName[b] = name}

IndexRows(b) == {i \in IndexIds : iStatus[i] # "none" /\ iBucket[i] = b}

(* Rows removed from collections. *)
DeleteRows(gone) ==
    /\ iStatus' = [i \in IndexIds |-> IF i \in gone THEN "none" ELSE iStatus[i]]
    /\ iName'   = [i \in IndexIds |-> IF i \in gone THEN NoName ELSE iName[i]]
    /\ UNCHANGED iBucket

DeleteCollection(i) == DeleteRows({i}) /\ UNCHANGED bName

(* DELETE FROM buckets, with ON DELETE CASCADE to collections. *)
DeleteBucket(b) ==
    /\ bName' = [bName EXCEPT ![b] = NoName]
    /\ DeleteRows(IndexRows(b))

(* Mutant: the update inserts the row again when it is gone. *)
UpdateCollectionStatus_Upsert(i, status) ==
    /\ iStatus' = [iStatus EXCEPT ![i] = status]
    /\ UNCHANGED <<bName, iName, iBucket>>

(* An UPDATE of a row that is gone changes nothing and reports no error. *)
UpdateCollectionStatus(i, status) ==
    /\ iStatus' = [iStatus EXCEPT ![i] = IF @ = "none" THEN @ ELSE status]
    /\ UNCHANGED <<bName, iName, iBucket>>

StoreFails == "store" \in Faults /\ UNCHANGED store

-----------------------------------------------------------------------------
(***************************************************************************)
(* CreateVectorBucket                                                      *)
(***************************************************************************)
CanCreateBucket(t) ==
    /\ At(t, "cbCheck")
    /\ IF Cardinality(BucketRows) >= MaxBuckets THEN Return(t) ELSE Goto(t, "cbInsert") /\ Keep
    /\ UNCHANGED <<store, nextB, nextI, phys>>

(* buckets.name is UNIQUE. *)
CreateBucket(t) ==
    /\ At(t, "cbInsert")
    /\ \/ /\ GetBucketByName(bArg[t]) = {}
          /\ nextB \in BucketIds
          /\ bName' = [bName EXCEPT ![nextB] = bArg[t]]
          /\ nextB' = nextB + 1
          /\ UNCHANGED <<iName, iBucket, iStatus>>
       \/ /\ GetBucketByName(bArg[t]) # {} \/ "store" \in Faults
          /\ UNCHANGED <<store, nextB>>
    /\ Return(t)
    /\ UNCHANGED <<nextI, phys>>

-----------------------------------------------------------------------------
(***************************************************************************)
(* DeleteVectorBucket: three statements, no transaction.                   *)
(***************************************************************************)
DeleteBucketGet(t) ==
    /\ At(t, "dbGet")
    /\ IF GetBucketByName(bArg[t]) = {}
       THEN Return(t)
       ELSE /\ Goto(t, "dbCount")
            /\ bid' \in {[bid EXCEPT ![t] = b] : b \in GetBucketByName(bArg[t])}
            /\ UNCHANGED <<iid, counted>>
    /\ UNCHANGED <<store, nextB, nextI, phys>>

(* The deletion goes on to its DELETE. *)
Counted(t) ==
    /\ Goto(t, "dbDelete")
    /\ counted' = [counted EXCEPT ![t] = nextI]
    /\ UNCHANGED <<bid, iid>>

(* Mutant: rows that are not READY are not counted. *)
DeleteBucketCount_ReadyOnly(t) ==
    /\ At(t, "dbCount")
    /\ IF \E i \in IndexRows(bid[t]) : iStatus[i] = "READY" THEN Return(t) ELSE Counted(t)
    /\ UNCHANGED <<store, nextB, nextI, phys>>

DeleteBucketCount(t) ==
    /\ At(t, "dbCount")
    /\ IF IndexRows(bid[t]) # {} THEN Return(t) ELSE Counted(t)
    /\ UNCHANGED <<store, nextB, nextI, phys>>

DeleteBucketRow(t) ==
    /\ At(t, "dbDelete")
    /\ DeleteBucket(bid[t]) \/ StoreFails
    /\ Return(t)
    /\ UNCHANGED <<nextB, nextI, phys>>

-----------------------------------------------------------------------------
(***************************************************************************)
(* CreateIndex                                                             *)
(***************************************************************************)
CreateIndexGet(t) ==
    /\ At(t, "ciGet")
    /\ IF GetBucketByName(bArg[t]) = {}
       THEN Return(t)
       ELSE /\ Goto(t, "ciQuota")
            /\ bid' \in {[bid EXCEPT ![t] = b] : b \in GetBucketByName(bArg[t])}
            /\ UNCHANGED <<iid, counted>>
    /\ UNCHANGED <<store, nextB, nextI, phys>>

(* Mutant: off by one in the quota. *)
CanCreateCollection_OffByOne(t) ==
    /\ At(t, "ciQuota")
    /\ IF Cardinality(IndexRows(bid[t])) > MaxCollPerBucket
       THEN Return(t)
       ELSE Goto(t, IF bArg[t] \in PerfBuckets THEN "ciPerf" ELSE "ciInsert") /\ Keep
    /\ UNCHANGED <<store, nextB, nextI, phys>>

CanCreateCollection(t) ==
    /\ At(t, "ciQuota")
    /\ IF Cardinality(IndexRows(bid[t])) >= MaxCollPerBucket
       THEN Return(t)
       ELSE Goto(t, IF bArg[t] \in PerfBuckets THEN "ciPerf" ELSE "ciInsert") /\ Keep
    /\ UNCHANGED <<store, nextB, nextI, phys>>

(* Every row of the performance tier counts, whatever its status. *)
PerfRows == {i \in IndexIds : \E b \in BucketRows : i \in IndexRows(b) /\ bName[b] \in PerfBuckets}

CanCreatePerformanceCollection(t) ==
    /\ At(t, "ciPerf")
    /\ IF Cardinality(PerfRows) + 1 > PerfBudget THEN Return(t) ELSE Goto(t, "ciInsert") /\ Keep
    /\ UNCHANGED <<store, nextB, nextI, phys>>

(* bucket_id is a foreign key, and (bucket_id, name) is UNIQUE. *)
InsertAllowed(t) ==
    /\ bid[t] \in BucketRows
    /\ \A i \in IndexRows(bid[t]) : iName[i] # iArg[t]

CreateCollectionRow(t) ==
    /\ At(t, "ciInsert")
    /\ \/ /\ InsertAllowed(t)
          /\ nextI \in IndexIds
          /\ iName' = [iName EXCEPT ![nextI] = iArg[t]]
          /\ iBucket' = [iBucket EXCEPT ![nextI] = bid[t]]
          /\ iStatus' = [iStatus EXCEPT ![nextI] = "INIT"]
          /\ nextI' = nextI + 1
          /\ iid' = [iid EXCEPT ![t] = nextI]
          /\ Goto(t, "ciCollection")
          /\ UNCHANGED <<bName, bid, counted>>
       \/ /\ ~InsertAllowed(t) \/ "store" \in Faults
          /\ Return(t)
          /\ UNCHANGED <<store, nextI>>
    /\ UNCHANGED <<nextB, phys>>

(* Mutant: a failed CreateCollection returns and leaves the INIT row. *)
CreateCollection_NoUndo(t) ==
    /\ At(t, "ciCollection")
    /\ \/ phys' = phys \cup {iid[t]} /\ Goto(t, "ciIndex") /\ Keep
       \/ "create" \in Faults /\ Return(t) /\ UNCHANGED phys
    /\ UNCHANGED <<store, nextB, nextI>>

CreateCollection(t) ==
    /\ At(t, "ciCollection")
    /\ \/ phys' = phys \cup {iid[t]} /\ Goto(t, "ciIndex")
       \/ /\ "create" \in Faults
          /\ phys' = phys \/ ("late" \in Faults /\ phys' = phys \cup {iid[t]})
          /\ Goto(t, "ciUndoRow")
    /\ Keep
    /\ UNCHANGED <<store, nextB, nextI>>

(* Mutant: a failed CreateIndex removes the row and not the collection. *)
CreateIndex_NoDrop(t) ==
    /\ At(t, "ciIndex")
    /\ Goto(t, "ciReady") \/ ("create" \in Faults /\ Goto(t, "ciUndoRow"))
    /\ Keep
    /\ UNCHANGED <<store, nextB, nextI, phys>>

CreateIndex(t) ==
    /\ At(t, "ciIndex")
    /\ Goto(t, "ciReady") \/ ("create" \in Faults /\ Goto(t, "ciUndoDrop"))
    /\ Keep
    /\ UNCHANGED <<store, nextB, nextI, phys>>

(* Both undo steps ignore their errors. *)
UndoDrop(t) ==
    /\ At(t, "ciUndoDrop")
    /\ phys' = phys \ {iid[t]} \/ ("ignored" \in Faults /\ UNCHANGED phys)
    /\ Goto(t, "ciUndoRow")
    /\ Keep
    /\ UNCHANGED <<store, nextB, nextI>>

(* Mutant: the creation is tried again and again, and its row kept. *)
UndoRow_Retries(t) ==
    /\ At(t, "ciUndoRow")
    /\ Goto(t, "ciCollection")
    /\ Keep
    /\ UNCHANGED <<store, nextB, nextI, phys>>

UndoRow(t) ==
    /\ At(t, "ciUndoRow")
    /\ DeleteCollection(iid[t]) \/ StoreFails
    /\ Return(t)
    /\ UNCHANGED <<nextB, nextI, phys>>

(***************************************************************************)
(* index_built and status READY.  A pinned index is then loaded; when that *)
(* fails the request does too, and the row stays READY.                    *)
(***************************************************************************)
CreateIndexReady(t) ==
    /\ At(t, "ciReady")
    /\ UpdateCollectionStatus(iid[t], "READY") \/ StoreFails
    /\ Return(t)
    /\ UNCHANGED <<nextB, nextI, phys>>

-----------------------------------------------------------------------------
(***************************************************************************)
(* DeleteIndex.  The release in between does not change this state.        *)
(***************************************************************************)
Resolve(name, index) ==
    {i \in IndexIds : /\ iStatus[i] = "READY" /\ iName[i] = index
                      /\ iBucket[i] \in GetBucketByName(name)}

(* Mutant: the collection is dropped without the DELETING update. *)
DeleteIndexResolve_NoMark(t) ==
    /\ At(t, "diResolve")
    /\ IF Resolve(bArg[t], iArg[t]) = {}
       THEN Return(t)
       ELSE /\ Goto(t, "diDrop")
            /\ iid' \in {[iid EXCEPT ![t] = i] : i \in Resolve(bArg[t], iArg[t])}
            /\ UNCHANGED <<bid, counted>>
    /\ UNCHANGED <<store, nextB, nextI, phys>>

DeleteIndexResolve(t) ==
    /\ At(t, "diResolve")
    /\ IF Resolve(bArg[t], iArg[t]) = {}
       THEN Return(t)
       ELSE /\ Goto(t, "diMark")
            /\ iid' \in {[iid EXCEPT ![t] = i] : i \in Resolve(bArg[t], iArg[t])}
            /\ UNCHANGED <<bid, counted>>
    /\ UNCHANGED <<store, nextB, nextI, phys>>

DeleteIndexMark(t) ==
    /\ At(t, "diMark")
    /\ \/ UpdateCollectionStatus(iid[t], "DELETING")
       \/ "ignored" \in Faults /\ UNCHANGED store
    /\ Goto(t, "diDrop")
    /\ Keep
    /\ UNCHANGED <<nextB, nextI, phys>>

(* Dropping a collection that is gone is no error. *)
DeleteIndexDrop(t) ==
    /\ At(t, "diDrop")
    /\ \/ phys' = phys \ {iid[t]} /\ Goto(t, "diRow") /\ Keep
       \/ "drop" \in Faults /\ phys' \in {phys, phys \ {iid[t]}} /\ Return(t)
    /\ UNCHANGED <<store, nextB, nextI>>

(* Mutant: the row is kept, with a status that says so. *)
DeleteIndexRow_SoftDelete(t) ==
    /\ At(t, "diRow")
    /\ UpdateCollectionStatus(iid[t], "DELETED")
    /\ Return(t)
    /\ UNCHANGED <<nextB, nextI, phys>>

DeleteIndexRow(t) ==
    /\ At(t, "diRow")
    /\ DeleteCollection(iid[t]) \/ StoreFails
    /\ Return(t)
    /\ UNCHANGED <<nextB, nextI, phys>>

-----------------------------------------------------------------------------
(* The gateway stops and starts again: no step of it repairs a row. *)
Crash ==
    /\ "crash" \in Faults
    /\ \E t \in Threads : pc[t] # "idle"
    /\ pc' = [t \in Threads |-> "idle"]
    /\ job' = [t \in Threads |-> "none"]
    /\ bArg' = [t \in Threads |-> NoName]
    /\ iArg' = [t \in Threads |-> NoName]
    /\ bid' = [t \in Threads |-> 0]
    /\ iid' = [t \in Threads |-> 0]
    /\ counted' = [t \in Threads |-> 0]
    /\ UNCHANGED <<store, nextB, nextI, phys>>

Step(t) ==
    \/ CanCreateBucket(t) \/ CreateBucket(t)
    \/ DeleteBucketGet(t) \/ DeleteBucketCount(t) \/ DeleteBucketRow(t)
    \/ CreateIndexGet(t) \/ CanCreateCollection(t) \/ CanCreatePerformanceCollection(t)
    \/ CreateCollectionRow(t) \/ CreateCollection(t) \/ CreateIndex(t)
    \/ UndoDrop(t) \/ UndoRow(t) \/ CreateIndexReady(t)
    \/ DeleteIndexResolve(t) \/ DeleteIndexMark(t) \/ DeleteIndexDrop(t) \/ DeleteIndexRow(t)

Next ==
    \/ \E t \in Threads, j \in Jobs, b \in BucketNames, i \in IndexNames : Begin(t, j, b, i)
    \/ \E t \in Threads : Step(t)
    \/ Crash

(* A goroutine whose SQL statement or Milvus call has returned goes on. *)
Fairness == \A t \in Threads : WF_vars(Step(t))

Spec == Init /\ [][Next]_vars

FairSpec == Spec /\ Fairness

-----------------------------------------------------------------------------
(***************************************************************************)
(* An index the router resolves always has its Milvus collection: READY is *)
(* written after the collection is made, DELETING before it is dropped,    *)
(* and no other request's steps, failure or crash come between.            *)
(***************************************************************************)
ResolvableHasCollection == \A i \in IndexIds : iStatus[i] = "READY" => i \in phys

(***************************************************************************)
(* A row's status only moves forward: nothing that was marked DELETING, or *)
(* whose row is gone, is READY again, although CreateIndex and DeleteIndex *)
(* write it unconditionally by id.                                         *)
(***************************************************************************)
Forward == {<<"none", "INIT">>, <<"INIT", "READY">>, <<"INIT", "none">>,
            <<"READY", "DELETING">>, <<"READY", "none">>, <<"DELETING", "none">>}

StatusMovesForward ==
    [][\A i \in IndexIds : iStatus'[i] # iStatus[i] => <<iStatus[i], iStatus'[i]>> \in Forward]_vars

(***************************************************************************)
(* Every Milvus collection has a row, through failed creations, failed     *)
(* writes and crashes, or is in a bucket that was deleted with it: nothing *)
(* else is left that no request can name.                                  *)
(***************************************************************************)
NoOrphanCollection == \A i \in phys : iStatus[i] # "none" \/ iBucket[i] \notin BucketRows

(* The requests that passed the quota of bucket b and have not inserted yet. *)
Pending(b) == {t \in Threads : pc[t] \in {"ciPerf", "ciInsert"} /\ bid[t] = b}

(* Those that passed the performance budget. *)
PendingPerf == {t \in Threads : At(t, "ciInsert") /\ bArg[t] \in PerfBuckets}

(* Those that passed the quota of buckets. *)
PendingBuckets == {t \in Threads : At(t, "cbInsert")}

(* The quotas of indexes, rows and pending requests counted. *)
IndexQuotaBounded ==
    /\ \A b \in BucketIds :
          Cardinality(IndexRows(b)) + Cardinality(Pending(b))
              <= MaxCollPerBucket + (Cardinality(Threads) - 1)
    /\ Cardinality(PerfRows) + Cardinality(PendingPerf)
          <= PerfBudget + (Cardinality(Threads) - 1)

(* The quota of buckets. *)
BucketQuotaBounded ==
    Cardinality(BucketRows) + Cardinality(PendingBuckets)
        <= MaxBuckets + (Cardinality(Threads) - 1)

(***************************************************************************)
(* The quotas are counted in one statement and used in a later one, so     *)
(* that concurrent requests may exceed them; never by more than one index, *)
(* or one bucket, per other goroutine.                                     *)
(***************************************************************************)
QuotaOvershootBounded == IndexQuotaBounded /\ BucketQuotaBounded

(***************************************************************************)
(* A bucket that has an index is not deleted ("拒绝删除非空 bucket").  The *)
(* count and the DELETE, which cascades, are two statements: an index that *)
(* is created in between disappears with its bucket and leaves its         *)
(* collection behind, and no other index does.                             *)
(***************************************************************************)
OnlyOverlappingLost ==
    [][\A t \in Threads :
          At(t, "dbDelete") /\ bid[t] \in BucketRows /\ bName'[bid[t]] = NoName =>
              \A i \in IndexRows(bid[t]) : i >= counted[t]]_vars

(***************************************************************************)
(* Every row in passage is attended: a row that is INIT has the request    *)
(* that is creating it, one that is DELETING a request that is dropping    *)
(* its collection.  No request resolves such a row and no start repairs    *)
(* it, so that one without its request would keep its name, and its share  *)
(* of the quota, for ever.  It takes a crash, a failed write or a failed   *)
(* drop to leave one; failed creations, with their undo, do not.           *)
(***************************************************************************)
RowsAttended ==
    \A i \in IndexIds :
        /\ iStatus[i] = "INIT" =>
              \E t \in Threads :
                  /\ iid[t] = i
                  /\ pc[t] \in {"ciCollection", "ciIndex", "ciUndoDrop", "ciUndoRow", "ciReady"}
        /\ iStatus[i] = "DELETING" => \E t \in Threads : iid[t] = i /\ pc[t] \in {"diDrop", "diRow"}

-----------------------------------------------------------------------------
(***************************************************************************)
(* No row stays in passage.  An index being created becomes READY or its   *)
(* row goes away, so that its name can be used again, even when Milvus     *)
(* calls fail; one marked DELETING is eventually gone (docs, v2.3 plan,    *)
(* 6.2).                                                                   *)
(***************************************************************************)
PassageEnds ==
    \A i \in IndexIds :
        /\ iStatus[i] = "INIT" ~> iStatus[i] # "INIT"
        /\ iStatus[i] = "DELETING" ~> iStatus[i] = "none"

=============================================================================
