------------------------ MODULE IndexLifecycle_proofs ------------------------
(***************************************************************************)
(* Proofs about IndexLifecycle, for any names, goroutines, quotas, bounds  *)
(* and requests, and for the faults each theorem names.                    *)
(***************************************************************************)
EXTENDS IndexLifecycle, FiniteSetTheorems, TLAPS

USE NameAssumption, ThreadAssumption, BoundAssumption, QuotaAssumption, OptionAssumption

StoreType ==
    /\ bName \in [BucketIds -> BucketNames \cup {NoName}]
    /\ iName \in [IndexIds -> IndexNames \cup {NoName}]
    /\ iBucket \in [IndexIds -> BucketIds \cup {0}]
    /\ iStatus \in [IndexIds -> {"none", "INIT", "READY", "DELETING"}]
    /\ nextB \in 1..(MaxBucketIds + 1)
    /\ nextI \in 1..(MaxIndexIds + 1)
    /\ phys \subseteq IndexIds

ReqType ==
    /\ pc \in [Threads -> Labels]
    /\ job \in [Threads -> AllJobs \cup {"none"}]
    /\ bArg \in [Threads -> BucketNames \cup {NoName}]
    /\ iArg \in [Threads -> IndexNames \cup {NoName}]
    /\ bid \in [Threads -> BucketIds \cup {0}]
    /\ iid \in [Threads -> IndexIds \cup {0}]
    /\ counted \in [Threads -> 0..(MaxIndexIds + 1)]

(* The type invariant: that of the stores and that of the requests. *)
LEMMA TypeParts == TypeOK <=> StoreType /\ ReqType
  BY DEF TypeOK, StoreType, ReqType

(***************************************************************************)
(* The rows a goroutine works on were drawn before, and the id of a bucket *)
(* or an index that was not drawn yet names nothing.                       *)
(***************************************************************************)
OnBucket == {"dbCount", "dbDelete", "ciQuota", "ciPerf", "ciInsert"}
Creating == {"ciCollection", "ciIndex", "ciUndoDrop", "ciUndoRow", "ciReady"}
Deleting == {"diMark", "diDrop", "diRow"}
OnIndex == Creating \cup Deleting

Refs ==
    \A t \in Threads :
        /\ pc[t] \in OnBucket => bid[t] \in BucketIds /\ bid[t] < nextB
        /\ pc[t] \in OnIndex => iid[t] \in IndexIds /\ iid[t] < nextI

Fresh ==
    /\ \A b \in BucketIds : b >= nextB => bName[b] = NoName
    /\ \A i \in IndexIds : i >= nextI => iStatus[i] = "none" /\ i \notin phys
    /\ \A i \in IndexIds : iBucket[i] < nextB

Base == StoreType /\ ReqType /\ Refs /\ Fresh

(* The initial states satisfy it. *)
LEMMA InitBase == Init => Base
  BY DEF Init, Base, StoreType, ReqType, Refs, Fresh, BucketIds, IndexIds, AllJobs, Labels,
         OnBucket, OnIndex, Creating, Deleting

(* Going on to another label keeps the requests' types. *)
LEMMA GotoType ==
  ASSUME ReqType, NEW t \in Threads, NEW l \in Labels, Goto(t, l), Keep
  PROVE  ReqType'
  BY DEF ReqType, Goto, Keep, reqVars

(* So does the end of a request. *)
LEMMA ReturnType ==
  ASSUME ReqType, NEW t \in Threads, Return(t)
  PROVE  ReqType'
  <1>1. 0 \in BucketIds \cup {0} /\ 0 \in IndexIds \cup {0} /\ 0 \in 0..(MaxIndexIds + 1)
    OBVIOUS
  <1> QED
    BY <1>1 DEF ReqType, Return, Labels

(* A request that goes on without new rows still works on rows that were drawn. *)
LEMMA GotoRefs ==
  ASSUME ReqType, Refs, NEW t \in Threads, NEW l \in Labels, Goto(t, l), Keep,
         UNCHANGED <<nextB, nextI>>,
         l \in OnBucket => pc[t] \in OnBucket,
         l \in OnIndex => pc[t] \in OnIndex
  PROVE  Refs'
  BY DEF ReqType, Refs, Goto, Keep, reqVars

(* So does every other when one returns. *)
LEMMA ReturnRefs ==
  ASSUME StoreType, ReqType, Refs, NEW t \in Threads, Return(t),
         nextB' \in {nextB, nextB + 1}, UNCHANGED nextI
  PROVE  Refs'
  <1>1. ASSUME NEW u \in Threads, u # t
        PROVE  pc'[u] = pc[u] /\ bid'[u] = bid[u] /\ iid'[u] = iid[u]
    BY <1>1 DEF ReqType, Return
  <1>2. pc'[t] = "idle"
    BY DEF ReqType, Return
  <1>3. \A b \in BucketIds : b < nextB => b < nextB'
    BY DEF StoreType, BucketIds
  <1> QED
    BY <1>1, <1>2, <1>3 DEF Refs, OnBucket, OnIndex, Creating, Deleting

(* Deleting rows keeps the store well typed. *)
LEMMA DeleteRowsStore ==
  ASSUME StoreType, Fresh, NEW gone, DeleteRows(gone), UNCHANGED <<nextB, nextI, phys>>,
         bName' = bName \/ \E b \in BucketIds : bName' = [bName EXCEPT ![b] = NoName]
  PROVE  StoreType' /\ Fresh'
  <1>1. StoreType'
    BY DEF StoreType, DeleteRows
  <1> QED
    BY <1>1 DEF StoreType, Fresh, DeleteRows

(* So does changing the status of a row. *)
LEMMA UpdateStore ==
  ASSUME StoreType, Fresh, NEW i \in IndexIds, NEW s \in {"READY", "DELETING"},
         UpdateCollectionStatus(i, s), UNCHANGED <<nextB, nextI, phys>>
  PROVE  StoreType' /\ Fresh'
  BY DEF StoreType, Fresh, UpdateCollectionStatus

(* A step that changes none of it keeps it. *)
LEMMA SameStore ==
  ASSUME StoreType, Fresh, UNCHANGED <<store, nextB, nextI, phys>>
  PROVE  StoreType' /\ Fresh'
  BY DEF StoreType, Fresh, store

(* Creating and dropping the collection of an index that was drawn. *)
LEMMA PhysStore ==
  ASSUME StoreType, Fresh, NEW i \in IndexIds, i < nextI, phys' \in {phys, phys \cup {i}, phys \ {i}},
         UNCHANGED <<store, nextB, nextI>>
  PROVE  StoreType' /\ Fresh'
  BY DEF StoreType, Fresh, store, IndexIds

(* Every step of a request preserves the base invariant. *)
LEMMA StepBase == ASSUME Base, NEW t \in Threads, Step(t) PROVE Base'
  <1> USE DEF Base
  <1> USE DEF At, OnBucket, OnIndex, Creating, Deleting, Labels
  <1>1. CASE CanCreateBucket(t)
    BY <1>1, SameStore, GotoType, GotoRefs, ReturnType, ReturnRefs DEF CanCreateBucket
  <1>2. CASE CreateBucket(t)
    <2>1. ReqType' /\ Refs'
      BY <1>2, ReturnType, ReturnRefs DEF CreateBucket
    <2>2. CASE nextB' = nextB
      BY <1>2, <2>1, <2>2, SameStore DEF CreateBucket, StoreType
    <2>3. CASE nextB' # nextB
      <3>1. /\ nextB \in BucketIds /\ bName' = [bName EXCEPT ![nextB] = bArg[t]] /\ nextB' = nextB + 1
            /\ UNCHANGED <<iName, iBucket, iStatus, nextI, phys>>
        BY <1>2, <2>3 DEF CreateBucket
      <3>2. StoreType'
        BY <3>1 DEF StoreType, ReqType, BucketIds
      <3>3. Fresh'
        BY <3>1 DEF StoreType, Fresh, BucketIds
      <3> QED
        BY <2>1, <3>2, <3>3
    <2> QED
      BY <2>2, <2>3
  <1>3. CASE DeleteBucketGet(t) \/ CreateIndexGet(t)
    <2>1. StoreType' /\ Fresh'
      BY <1>3, SameStore DEF DeleteBucketGet, CreateIndexGet
    <2>2. CASE Return(t)
      BY <1>3, <2>1, <2>2, ReturnType, ReturnRefs DEF DeleteBucketGet, CreateIndexGet
    <2>3. CASE ~Return(t)
      <3>1. PICK b \in BucketIds, l \in {"dbCount", "ciQuota"} :
               bName[b] # NoName /\ Goto(t, l) /\ bid' = [bid EXCEPT ![t] = b]
        BY <1>3, <2>3 DEF DeleteBucketGet, CreateIndexGet, GetBucketByName, BucketRows
      <3>2. UNCHANGED <<iid, counted, nextB, nextI>>
        BY <1>3, <2>3 DEF DeleteBucketGet, CreateIndexGet
      <3>3. b < nextB
        BY <3>1 DEF Fresh, StoreType, BucketIds
      <3>4. ReqType'
        BY <3>1, <3>2 DEF ReqType, Goto, reqVars
      <3>5. Refs'
        BY <3>1, <3>2, <3>3 DEF ReqType, Goto, reqVars, Refs
      <3> QED
        BY <2>1, <3>4, <3>5
    <2> QED
      BY <2>2, <2>3
  <1>4. CASE DeleteBucketCount(t)
    <2>1. StoreType' /\ Fresh'
      BY <1>4, SameStore DEF DeleteBucketCount
    <2>2. CASE Return(t)
      BY <1>4, <2>1, <2>2, ReturnType, ReturnRefs DEF DeleteBucketCount
    <2>3. CASE Counted(t)
      <3>1. UNCHANGED <<nextB, nextI>> /\ pc[t] = "dbCount"
        BY <1>4 DEF DeleteBucketCount
      <3>2. ReqType'
        BY <2>3 DEF Counted, ReqType, StoreType, Goto, reqVars
      <3>3. Refs'
        BY <2>3, <3>1 DEF Counted, ReqType, Goto, reqVars, Refs
      <3> QED
        BY <2>1, <3>2, <3>3
    <2> QED
      BY <1>4, <2>2, <2>3 DEF DeleteBucketCount
  <1>5. CASE DeleteBucketRow(t)
    <2>1. ReqType' /\ Refs' /\ UNCHANGED <<nextB, nextI, phys>>
      BY <1>5, ReturnType, ReturnRefs DEF DeleteBucketRow
    <2>2. CASE StoreFails
      BY <2>1, <2>2, SameStore DEF StoreFails
    <2>3. CASE DeleteBucket(bid[t])
      BY <1>5, <2>1, <2>3, DeleteRowsStore DEF DeleteBucketRow, DeleteBucket, Refs
    <2> QED
      BY <1>5, <2>2, <2>3 DEF DeleteBucketRow
  <1>6. CASE CanCreateCollection(t)
    BY <1>6, SameStore, GotoType, GotoRefs, ReturnType, ReturnRefs DEF CanCreateCollection
  <1>7. CASE CanCreatePerformanceCollection(t)
    BY <1>7, SameStore, GotoType, GotoRefs, ReturnType, ReturnRefs DEF CanCreatePerformanceCollection
  <1>8. CASE CreateCollectionRow(t)
    <2>1. CASE Return(t) /\ UNCHANGED <<store, nextI>>
      BY <1>8, <2>1, SameStore, ReturnType, ReturnRefs DEF CreateCollectionRow
    <2>2. CASE ~(Return(t) /\ UNCHANGED <<store, nextI>>)
      <3>1. /\ nextI \in IndexIds /\ nextI' = nextI + 1
            /\ iName' = [iName EXCEPT ![nextI] = iArg[t]]
            /\ iBucket' = [iBucket EXCEPT ![nextI] = bid[t]]
            /\ iStatus' = [iStatus EXCEPT ![nextI] = "INIT"]
            /\ iid' = [iid EXCEPT ![t] = nextI]
            /\ Goto(t, "ciCollection")
            /\ UNCHANGED <<bName, bid, counted, nextB, phys>>
        BY <1>8, <2>2 DEF CreateCollectionRow
      <3>2. bid[t] \in BucketIds /\ bid[t] < nextB
        BY <1>8 DEF CreateCollectionRow, Refs
      <3>3. StoreType'
        BY <3>1, <3>2 DEF StoreType, ReqType, IndexIds
      <3>4. Fresh'
        BY <3>1, <3>2 DEF StoreType, Fresh, IndexIds
      <3>5. ReqType'
        BY <3>1 DEF ReqType, Goto, reqVars
      <3>6. Refs'
        BY <3>1 DEF ReqType, Goto, reqVars, Refs, StoreType, IndexIds
      <3> QED
        BY <3>3, <3>4, <3>5, <3>6
    <2> QED
      BY <2>1, <2>2
  <1>9. CASE CreateCollection(t) \/ UndoDrop(t)
    <2>1. ReqType' /\ Refs'
      BY <1>9, GotoType, GotoRefs DEF CreateCollection, UndoDrop
    <2>2. StoreType' /\ Fresh'
      BY <1>9, PhysStore DEF CreateCollection, UndoDrop, Refs
    <2> QED
      BY <2>1, <2>2
  <1>10. CASE CreateIndex(t)
    BY <1>10, SameStore, GotoType, GotoRefs DEF CreateIndex
  <1>11. CASE UndoRow(t) \/ DeleteIndexRow(t)
    <2>1. ReqType' /\ Refs' /\ UNCHANGED <<nextB, nextI, phys>>
      BY <1>11, ReturnType, ReturnRefs DEF UndoRow, DeleteIndexRow
    <2>2. CASE StoreFails
      BY <2>1, <2>2, SameStore DEF StoreFails
    <2>3. CASE DeleteCollection(iid[t])
      BY <2>1, <2>3, DeleteRowsStore DEF DeleteCollection
    <2> QED
      BY <1>11, <2>2, <2>3 DEF UndoRow, DeleteIndexRow
  <1>12. CASE CreateIndexReady(t)
    <2>1. ReqType' /\ Refs' /\ UNCHANGED <<nextB, nextI, phys>>
      BY <1>12, ReturnType, ReturnRefs DEF CreateIndexReady
    <2>2. CASE StoreFails
      BY <2>1, <2>2, SameStore DEF StoreFails
    <2>3. CASE UpdateCollectionStatus(iid[t], "READY")
      BY <1>12, <2>1, <2>3, UpdateStore DEF CreateIndexReady, Refs
    <2> QED
      BY <1>12, <2>2, <2>3 DEF CreateIndexReady
  <1>13. CASE DeleteIndexResolve(t)
    <2>1. StoreType' /\ Fresh'
      BY <1>13, SameStore DEF DeleteIndexResolve
    <2>2. CASE Return(t)
      BY <1>13, <2>1, <2>2, ReturnType, ReturnRefs DEF DeleteIndexResolve
    <2>3. CASE ~Return(t)
      <3>1. PICK i \in IndexIds :
               iStatus[i] = "READY" /\ Goto(t, "diMark") /\ iid' = [iid EXCEPT ![t] = i]
        BY <1>13, <2>3 DEF DeleteIndexResolve, Resolve
      <3>2. UNCHANGED <<bid, counted, nextB, nextI>>
        BY <1>13, <2>3 DEF DeleteIndexResolve
      <3>3. i < nextI
        BY <3>1 DEF Fresh, StoreType, IndexIds
      <3>4. ReqType'
        BY <3>1, <3>2 DEF ReqType, Goto, reqVars
      <3>5. Refs'
        BY <3>1, <3>2, <3>3 DEF ReqType, Goto, reqVars, Refs
      <3> QED
        BY <2>1, <3>4, <3>5
    <2> QED
      BY <2>2, <2>3
  <1>14. CASE DeleteIndexMark(t)
    <2>1. ReqType' /\ Refs' /\ UNCHANGED <<nextB, nextI, phys>>
      BY <1>14, GotoType, GotoRefs DEF DeleteIndexMark
    <2>2. CASE UNCHANGED store
      BY <2>1, <2>2, SameStore
    <2>3. CASE UpdateCollectionStatus(iid[t], "DELETING")
      BY <1>14, <2>1, <2>3, UpdateStore DEF DeleteIndexMark, Refs
    <2> QED
      BY <1>14, <2>2, <2>3 DEF DeleteIndexMark
  <1>15. CASE DeleteIndexDrop(t)
    <2>1. ReqType' /\ Refs'
      BY <1>15, GotoType, GotoRefs, ReturnType, ReturnRefs DEF DeleteIndexDrop
    <2>2. StoreType' /\ Fresh'
      BY <1>15, PhysStore DEF DeleteIndexDrop, Refs
    <2> QED
      BY <2>1, <2>2
  <1> QED
    BY <1>1, <1>2, <1>3, <1>4, <1>5, <1>6, <1>7, <1>8, <1>9, <1>10, <1>11, <1>12, <1>13, <1>14, <1>15
       DEF Step

(* So does every step. *)
LEMMA NextBase == Base /\ [Next]_vars => Base'
  <1> SUFFICES ASSUME Base, [Next]_vars PROVE Base'
    OBVIOUS
  <1>1. ASSUME NEW t \in Threads, NEW j \in Jobs, NEW b \in BucketNames, NEW i \in IndexNames,
               Begin(t, j, b, i)
        PROVE  Base'
    <2> USE <1>1 DEF Begin, Base
    <2>1. StoreType' /\ Fresh'
      BY SameStore
    <2>2. First(j) \in {"cbCheck", "dbGet", "ciGet", "diResolve"}
      BY DEF First, AllJobs
    <2>3. ReqType'
      BY <2>2 DEF ReqType, Labels
    <2>4. Refs'
      BY <2>2 DEF ReqType, Refs, OnBucket, OnIndex, Creating, Deleting
    <2> QED
      BY <2>1, <2>3, <2>4
  <1>2. CASE Crash
    BY <1>2 DEF Crash, Base, StoreType, ReqType, Refs, Fresh, store, Labels, OnBucket, OnIndex,
                Creating, Deleting
  <1>3. CASE UNCHANGED vars
    BY <1>3 DEF vars, Base, StoreType, ReqType, Refs, Fresh, store, reqVars
  <1> QED
    BY <1>1, <1>2, <1>3, StepBase DEF Next

(* Requests and rows are well typed, and rows and ids are used in the order they are drawn. *)
LEMMA BaseHolds == Spec => []Base
  BY InitBase, NextBase, PTL DEF Spec

(***************************************************************************)
(* Rows, collections and requests stay well typed: no request works on an  *)
(* id that was not drawn, whatever fails.                                  *)
(***************************************************************************)
THEOREM TypeCorrect == Spec => []TypeOK
  <1>1. Base => TypeOK
    BY TypeParts DEF Base
  <1> QED
    BY <1>1, BaseHolds, PTL
-----------------------------------------------------------------------------
(***************************************************************************)
(* What a step means for the index rows and the collections.  A step of t  *)
(* leaves the other requests alone, and is one of: nothing (Quiet), rows   *)
(* that go away (Erased), a row inserted (Inserted), a call of CreateIndex *)
(* to Milvus (Built), the end of a creation (Readied), an index resolved   *)
(* (Found), marked (Marked), or its collection dropped (Dropped).          *)
(***************************************************************************)
Others(t) ==
    \A u \in Threads \ {t} :
        /\ pc'[u] = pc[u] /\ bArg'[u] = bArg[u]
        /\ bid'[u] = bid[u] /\ iid'[u] = iid[u] /\ counted'[u] = counted[u]

Quiet(t) ==
    /\ pc'[t] \notin OnIndex
    /\ UNCHANGED <<iStatus, iBucket, phys, nextI>>
    /\ \/ UNCHANGED <<bName, nextB>>
       \/ \E n \in BucketNames \cup {NoName} : nextB' = nextB + 1 /\ bName' = [bName EXCEPT ![nextB] = n]
    /\ pc'[t] # "dbDelete" \/ (/\ pc'[t] = "dbDelete" /\ counted'[t] = nextI
                               /\ bid'[t] = bid[t] /\ IndexRows(bid[t]) = {})

Erased(t) ==
    /\ pc'[t] = "idle"
    /\ UNCHANGED <<iBucket, phys, nextI, nextB>>
    /\ \/ /\ pc[t] = "dbDelete" /\ bName' = [bName EXCEPT ![bid[t]] = NoName]
          /\ DeleteRows(IndexRows(bid[t]))
       \/ /\ pc[t] \in {"ciUndoRow", "diRow"} /\ bName' = bName
          /\ DeleteRows({iid[t]})

Inserted(t) ==
    /\ pc[t] = "ciInsert" /\ pc'[t] = "ciCollection"
    /\ nextI \in IndexIds /\ iid'[t] = nextI /\ nextI' = nextI + 1
    /\ iStatus' = [iStatus EXCEPT ![nextI] = "INIT"]
    /\ iBucket' = [iBucket EXCEPT ![nextI] = bid[t]]
    /\ bid[t] \in BucketRows
    /\ UNCHANGED <<bName, nextB, phys>>

Built(t) ==
    /\ UNCHANGED <<iStatus, iBucket, bName, nextB, nextI>> /\ iid'[t] = iid[t]
    /\ \/ pc[t] = "ciCollection" /\ pc'[t] = "ciIndex" /\ phys' = phys \cup {iid[t]}
       \/ /\ pc[t] = "ciCollection" /\ pc'[t] = "ciUndoRow"
          /\ phys' = phys \/ ("late" \in Faults /\ phys' = phys \cup {iid[t]})
       \/ pc[t] = "ciIndex" /\ pc'[t] \in {"ciReady", "ciUndoDrop"} /\ phys' = phys
       \/ /\ pc[t] = "ciUndoDrop" /\ pc'[t] = "ciUndoRow"
          /\ phys' = phys \ {iid[t]} \/ ("ignored" \in Faults /\ phys' = phys)

Readied(t) ==
    /\ pc[t] = "ciReady" /\ pc'[t] = "idle"
    /\ UpdateCollectionStatus(iid[t], "READY")
    /\ UNCHANGED <<nextB, nextI, phys>>

Found(t) ==
    /\ pc'[t] = "diMark" /\ iid'[t] \in IndexIds /\ iStatus[iid'[t]] = "READY"
    /\ UNCHANGED <<iStatus, iBucket, bName, nextB, nextI, phys>>

Marked(t) ==
    /\ pc[t] = "diMark" /\ pc'[t] = "diDrop" /\ iid'[t] = iid[t]
    /\ UpdateCollectionStatus(iid[t], "DELETING") \/ ("ignored" \in Faults /\ UNCHANGED store)
    /\ UNCHANGED <<nextB, nextI, phys>>

Dropped(t) ==
    /\ pc[t] = "diDrop"
    /\ \/ pc'[t] = "diRow" /\ iid'[t] = iid[t] /\ phys' = phys \ {iid[t]}
       \/ pc'[t] = "idle" /\ phys' \in {phys, phys \ {iid[t]}}
    /\ UNCHANGED <<iStatus, iBucket, bName, nextB, nextI>>

View(t) ==
    Quiet(t) \/ Erased(t) \/ Inserted(t) \/ Built(t) \/ Readied(t) \/ Found(t) \/ Marked(t) \/ Dropped(t)

(* Where Goto leaves the goroutine and the others. *)
LEMMA GotoView ==
  ASSUME ReqType, NEW t \in Threads, NEW l \in Labels, Goto(t, l), Keep
  PROVE  /\ Others(t) /\ pc'[t] = l
         /\ iid'[t] = iid[t] /\ bid'[t] = bid[t] /\ bArg'[t] = bArg[t]
  BY DEF ReqType, Goto, Keep, reqVars, Others

(* Where Return does. *)
LEMMA ReturnView ==
  ASSUME ReqType, NEW t \in Threads, Return(t)
  PROVE  Others(t) /\ pc'[t] = "idle"
  BY DEF ReqType, Return, Others

(* Every step of a request is one of these. *)
LEMMA StepView == ASSUME Base, NEW t \in Threads, Step(t) PROVE Others(t) /\ View(t)
  <1> USE DEF Base, At, OnIndex, Creating, Deleting, View
  <1>0. \A l \in {"idle", "cbInsert", "ciPerf", "ciInsert", "ciIndex", "ciUndoDrop",
               "ciUndoRow", "ciReady", "diDrop", "diRow", "ciCollection"} : l \in Labels
    BY DEF Labels
  <1>1. CASE CanCreateBucket(t) \/ CanCreateCollection(t) \/ CanCreatePerformanceCollection(t)
    BY <1>0, <1>1, GotoView, ReturnView
       DEF CanCreateBucket, CanCreateCollection, CanCreatePerformanceCollection, Quiet, store
  <1>2. CASE CreateBucket(t)
    <2>1. bArg[t] \in BucketNames \cup {NoName}
      BY DEF ReqType
    <2>2. Others(t) /\ pc'[t] = "idle"
      BY <1>2, ReturnView DEF CreateBucket
    <2> QED
      BY <1>2, <2>1, <2>2 DEF CreateBucket, Quiet, store
  <1>3. CASE DeleteBucketGet(t) \/ CreateIndexGet(t)
    <2>1. Others(t) /\ pc'[t] \in {"idle", "dbCount", "ciQuota"}
      BY <1>3 DEF DeleteBucketGet, CreateIndexGet, Return, Goto, reqVars, Others, ReqType
    <2> QED
      BY <1>3, <2>1 DEF DeleteBucketGet, CreateIndexGet, Quiet, store
  <1>4. CASE DeleteBucketCount(t)
    <2>1. CASE Return(t)
      BY <1>4, <2>1, ReturnView DEF DeleteBucketCount, Quiet, store
    <2>2. CASE ~Return(t)
      <3>1. Others(t) /\ pc'[t] = "dbDelete" /\ counted'[t] = nextI /\ bid'[t] = bid[t]
        BY <1>4, <2>2 DEF DeleteBucketCount, Counted, Goto, reqVars, Others, ReqType
      <3> QED
        BY <1>4, <2>2, <3>1 DEF DeleteBucketCount, Quiet, store
    <2> QED
      BY <2>1, <2>2
  <1>5. CASE DeleteBucketRow(t)
    <2>1. Others(t) /\ pc'[t] = "idle"
      BY <1>5, ReturnView DEF DeleteBucketRow
    <2>2. CASE StoreFails
      BY <1>5, <2>1, <2>2 DEF DeleteBucketRow, StoreFails, Quiet, store
    <2>3. CASE DeleteBucket(bid[t])
      BY <1>5, <2>1, <2>3 DEF DeleteBucketRow, DeleteBucket, Erased, DeleteRows
    <2> QED
      BY <1>5, <2>2, <2>3 DEF DeleteBucketRow
  <1>6. CASE CreateCollectionRow(t)
    <2>1. CASE Return(t) /\ UNCHANGED <<store, nextI>>
      BY <1>6, <2>1, ReturnView DEF CreateCollectionRow, Quiet, store
    <2>2. CASE ~(Return(t) /\ UNCHANGED <<store, nextI>>)
      <3>1. Others(t) /\ pc'[t] = "ciCollection" /\ iid'[t] = nextI
        BY <1>6, <2>2 DEF CreateCollectionRow, Goto, reqVars, Others, ReqType
      <3> QED
        BY <1>6, <2>2, <3>1 DEF CreateCollectionRow, InsertAllowed, Inserted
    <2> QED
      BY <2>1, <2>2
  <1>7. CASE CreateCollection(t) \/ CreateIndex(t) \/ UndoDrop(t)
    BY <1>0, <1>7, GotoView DEF CreateCollection, CreateIndex, UndoDrop, Built, store
  <1>8. CASE UndoRow(t) \/ DeleteIndexRow(t)
    <2>1. Others(t) /\ pc'[t] = "idle"
      BY <1>8, ReturnView DEF UndoRow, DeleteIndexRow
    <2>2. CASE StoreFails
      BY <1>8, <2>1, <2>2 DEF UndoRow, DeleteIndexRow, StoreFails, Quiet, store
    <2>3. CASE DeleteCollection(iid[t])
      BY <1>8, <2>1, <2>3 DEF UndoRow, DeleteIndexRow, DeleteCollection, Erased, DeleteRows
    <2> QED
      BY <1>8, <2>2, <2>3 DEF UndoRow, DeleteIndexRow
  <1>9. CASE CreateIndexReady(t)
    <2>1. Others(t) /\ pc'[t] = "idle"
      BY <1>9, ReturnView DEF CreateIndexReady
    <2> QED
      BY <1>9, <2>1 DEF CreateIndexReady, StoreFails, Quiet, store, Readied
  <1>10. CASE DeleteIndexResolve(t)
    <2>1. CASE Return(t)
      BY <1>10, <2>1, ReturnView DEF DeleteIndexResolve, Quiet, store
    <2>2. CASE ~Return(t)
      <3>1. PICK i \in IndexIds :
               iStatus[i] = "READY" /\ Goto(t, "diMark") /\ iid' = [iid EXCEPT ![t] = i]
        BY <1>10, <2>2 DEF DeleteIndexResolve, Resolve
      <3>2. UNCHANGED <<bid, counted, store, nextB, nextI, phys>>
        BY <1>10, <2>2 DEF DeleteIndexResolve
      <3>3. Others(t) /\ pc'[t] = "diMark" /\ iid'[t] = i
        BY <3>1, <3>2 DEF Goto, reqVars, Others, ReqType
      <3> QED
        BY <3>1, <3>2, <3>3 DEF Found, store
    <2> QED
      BY <2>1, <2>2
  <1>11. CASE DeleteIndexMark(t)
    BY <1>0, <1>11, GotoView DEF DeleteIndexMark, Marked
  <1>12. CASE DeleteIndexDrop(t)
    BY <1>0, <1>12, GotoView, ReturnView DEF DeleteIndexDrop, Dropped, store
  <1> QED
    BY <1>1, <1>2, <1>3, <1>4, <1>5, <1>6, <1>7, <1>8, <1>9, <1>10, <1>11, <1>12 DEF Step

(***************************************************************************)
(* What a step means for the quotas: whoever is between the check of a     *)
(* quota and the insert came from the check, with the names and rows of    *)
(* its request.                                                            *)
(***************************************************************************)
Checking == {"ciQuota", "ciPerf", "ciInsert"}

Admitted(t) ==
    \/ pc'[t] \notin Checking
    \/ /\ pc'[t] = "ciQuota" /\ bid'[t] \in BucketIds /\ bName[bid'[t]] = bArg'[t]
       /\ UNCHANGED <<bName, iStatus, iBucket>>
    \/ /\ pc[t] \in Checking /\ bid'[t] = bid[t] /\ bArg'[t] = bArg[t]
       /\ UNCHANGED <<bName, iStatus, iBucket>>
       /\ \/ /\ pc[t] = "ciQuota" /\ Cardinality(IndexRows(bid[t])) < MaxCollPerBucket
             /\ pc'[t] = IF bArg[t] \in PerfBuckets THEN "ciPerf" ELSE "ciInsert"
          \/ /\ pc[t] = "ciPerf" /\ pc'[t] = "ciInsert"
             /\ Cardinality(PerfRows) < PerfBudget

(* The rows a quota counts are finitely many. *)
LEMMA RowsFinite ==
  ASSUME NEW b
  PROVE  /\ IsFiniteSet(IndexRows(b)) /\ Cardinality(IndexRows(b)) \in Nat
         /\ IsFiniteSet(PerfRows) /\ Cardinality(PerfRows) \in Nat
  <1>1. IsFiniteSet(IndexIds)
    BY FS_Interval DEF IndexIds
  <1>2. IndexRows(b) \in SUBSET IndexIds /\ PerfRows \in SUBSET IndexIds
    BY DEF IndexRows, PerfRows
  <1> QED
    BY <1>1, <1>2, FS_Subset, FS_CardinalityType

(* Every step of a request is one of these. *)
LEMMA StepAdmitted == ASSUME Base, NEW t \in Threads, Step(t) PROVE Admitted(t)
  <1> USE DEF Base, At, Admitted, Checking
  <1>0. \A l \in {"idle", "cbInsert", "ciPerf", "ciInsert", "ciIndex", "ciUndoDrop",
               "ciUndoRow", "ciReady", "diDrop", "diRow", "ciCollection"} : l \in Labels
    BY DEF Labels
  <1>1. CASE Return(t)
    BY <1>1, ReturnView
  <1>2. CASE CanCreateCollection(t) /\ ~Return(t)
    <2>1. Cardinality(IndexRows(bid[t])) < MaxCollPerBucket
      BY <1>2, RowsFinite DEF CanCreateCollection
    <2> QED
      BY <1>0, <1>2, <2>1, GotoView DEF CanCreateCollection, store
  <1>3. CASE CanCreatePerformanceCollection(t) /\ ~Return(t)
    <2>1. Cardinality(PerfRows) < PerfBudget
      BY <1>3, RowsFinite DEF CanCreatePerformanceCollection
    <2> QED
      BY <1>0, <1>3, <2>1, GotoView DEF CanCreatePerformanceCollection, store
  <1>4. CASE CreateIndexGet(t) /\ ~Return(t)
    <2>1. PICK b \in BucketIds : bName[b] = bArg[t] /\ bid' = [bid EXCEPT ![t] = b]
      BY <1>4 DEF CreateIndexGet, GetBucketByName, BucketRows
    <2> QED
      BY <1>4, <2>1 DEF CreateIndexGet, Goto, reqVars, store, ReqType
  <1>5. CASE ~Return(t) /\ (DeleteBucketGet(t) \/ DeleteBucketCount(t) \/ CreateCollectionRow(t)
                              \/ DeleteIndexResolve(t))
    BY <1>5 DEF DeleteBucketGet, DeleteBucketCount, Counted, CreateCollectionRow, DeleteIndexResolve,
                Goto, ReqType
  <1>6. CASE ~Return(t) /\ (CanCreateBucket(t) \/ CreateCollection(t) \/ CreateIndex(t) \/ UndoDrop(t)
                              \/ DeleteIndexMark(t) \/ DeleteIndexDrop(t))
    BY <1>0, <1>6, GotoView DEF CanCreateBucket, CreateCollection, CreateIndex, UndoDrop, DeleteIndexMark,
                DeleteIndexDrop
  <1> QED
    BY <1>1, <1>2, <1>3, <1>4, <1>5, <1>6
       DEF Step, CreateBucket, DeleteBucketRow, UndoRow, CreateIndexReady, DeleteIndexRow

(* The beginning of a request, a crash, or no step at all. *)
Elsewhere ==
    /\ UNCHANGED <<store, nextB, nextI, phys>>
    /\ \A t \in Threads :
          \/ pc'[t] \notin OnIndex \cup OnBucket
          \/ /\ pc'[t] = pc[t] /\ bArg'[t] = bArg[t]
             /\ bid'[t] = bid[t] /\ iid'[t] = iid[t] /\ counted'[t] = counted[t]

(* A step of the system is one of these or a step of one request. *)
LEMMA NextView ==
  ASSUME Base, [Next]_vars
  PROVE  Elsewhere \/ \E t \in Threads : Others(t) /\ View(t) /\ Admitted(t)
  <1>1. ASSUME NEW t \in Threads, NEW j \in Jobs, NEW b \in BucketNames, NEW i \in IndexNames,
               Begin(t, j, b, i)
        PROVE  Elsewhere
    <2>1. First(j) \in {"cbCheck", "dbGet", "ciGet", "diResolve"}
      BY DEF First, AllJobs
    <2> QED
      BY <1>1, <2>1 DEF Begin, Elsewhere, Base, ReqType, OnIndex, OnBucket, Creating, Deleting
  <1>2. CASE Crash
    BY <1>2 DEF Crash, Elsewhere, OnIndex, OnBucket, Creating, Deleting
  <1>3. CASE UNCHANGED vars
    BY <1>3 DEF vars, reqVars, Elsewhere
  <1> QED
    BY <1>1, <1>2, <1>3, StepView, StepAdmitted DEF Next

-----------------------------------------------------------------------------
(***************************************************************************)
(* Who owns an index row.  The row of a creation under way is its own: no  *)
(* other creation and no deletion works on it, and its status is still     *)
(* INIT, unless it was deleted with its bucket.  A deletion works on a row *)
(* that is past INIT.                                                      *)
(***************************************************************************)
Own ==
    /\ \A t \in Threads : pc[t] \in Creating => iStatus[iid[t]] \in {"INIT", "none"}
    /\ \A t \in Threads : pc[t] \in Deleting => iStatus[iid[t]] \in {"READY", "DELETING", "none"}
    /\ \A t, u \in Threads :
          t # u /\ pc[t] \in Creating /\ pc[u] \in OnIndex => iid[t] # iid[u]

(* The step of a request keeps it. *)
LEMMA StepOwn ==
  ASSUME Base, Own, NEW t \in Threads, Others(t), View(t)
  PROVE  Own'
  <1> USE DEF Base, Own, Others, Refs, OnIndex, Creating, Deleting
  <1>1. CASE Quiet(t)
    BY <1>1 DEF Quiet
  <1>2. CASE Erased(t)
    BY <1>2 DEF Erased, DeleteRows
  <1>3. CASE Inserted(t)
    <2>1. \A u \in Threads \ {t} : pc[u] \in OnIndex => iid[u] \in IndexIds /\ iid[u] # nextI
      BY DEF StoreType, IndexIds
    <2>2. \A i \in IndexIds : i # nextI => iStatus'[i] = iStatus[i]
      BY <1>3 DEF Inserted, StoreType
    <2>3. iStatus'[nextI] = "INIT" /\ pc'[t] = "ciCollection" /\ iid'[t] = nextI
      BY <1>3 DEF Inserted, StoreType
    <2> QED
      BY <2>1, <2>2, <2>3
  <1>4. CASE Built(t)
    BY <1>4 DEF Built
  <1>5. CASE Readied(t) \/ Marked(t)
    BY <1>5 DEF Readied, Marked, UpdateCollectionStatus, StoreType, store
  <1>6. CASE Found(t)
    BY <1>6 DEF Found
  <1>7. CASE Dropped(t)
    BY <1>7 DEF Dropped
  <1> QED
    BY <1>1, <1>2, <1>3, <1>4, <1>5, <1>6, <1>7 DEF View

(* So does every step. *)
LEMMA NextOwn == Base /\ Own /\ [Next]_vars => Own'
  <1> SUFFICES ASSUME Base, Own, [Next]_vars PROVE Own'
    OBVIOUS
  <1>1. CASE Elsewhere
    BY <1>1 DEF Own, Elsewhere, store, OnIndex
  <1> QED
    BY <1>1, NextView, StepOwn

(* Creations own their rows, whatever fails. *)
LEMMA OwnHolds == Spec => []Own
  <1>1. Init => Own
    BY DEF Init, Own, OnIndex, Creating, Deleting
  <1> QED
    BY <1>1, NextOwn, BaseHolds, PTL DEF Spec

(***************************************************************************)
(* A status only moves forward, whatever fails: READY is written by the    *)
(* creation that owns the row, and DELETING over READY or DELETING.        *)
(***************************************************************************)
THEOREM StatusForward == Spec => StatusMovesForward
  <1>1. ASSUME Base, Own, [Next]_vars, NEW i \in IndexIds, iStatus'[i] # iStatus[i]
        PROVE  <<iStatus[i], iStatus'[i]>> \in Forward
    <2>1. PICK t \in Threads : Others(t) /\ View(t)
      BY <1>1, NextView DEF Elsewhere, store
    <2>2. iStatus[i] \in {"none", "INIT", "READY", "DELETING"}
      BY <1>1 DEF Base, StoreType
    <2>3. CASE Erased(t)
      <3>1. iStatus'[i] = "none"
        BY <1>1, <2>3 DEF Erased, DeleteRows
      <3> QED
        BY <1>1, <2>2, <3>1 DEF Forward
    <2>4. CASE Inserted(t)
      <3>1. i = nextI /\ iStatus'[i] = "INIT"
        BY <1>1, <2>4 DEF Inserted, Base, StoreType
      <3>2. iStatus[i] = "none"
        BY <1>1, <3>1 DEF Base, StoreType, Fresh
      <3> QED
        BY <3>1, <3>2 DEF Forward
    <2>5. CASE Readied(t)
      <3>1. i = iid[t] /\ iStatus'[i] = "READY" /\ iStatus[i] # "none"
        BY <1>1, <2>5 DEF Readied, UpdateCollectionStatus, Base, StoreType
      <3>2. iStatus[i] = "INIT"
        BY <1>1, <2>5, <3>1 DEF Readied, Own, Creating
      <3> QED
        BY <3>1, <3>2 DEF Forward
    <2>6. CASE Marked(t)
      <3>1. i = iid[t] /\ iStatus'[i] = "DELETING" /\ iStatus[i] # "none"
        BY <1>1, <2>6 DEF Marked, UpdateCollectionStatus, Base, StoreType, store
      <3>2. iStatus[i] = "READY"
        BY <1>1, <2>6, <3>1 DEF Marked, Own, Deleting
      <3> QED
        BY <3>1, <3>2 DEF Forward
    <2> QED
      BY <1>1, <2>1, <2>3, <2>4, <2>5, <2>6 DEF View, Quiet, Built, Found, Dropped
  <1>2. Base /\ Own /\ [Next]_vars =>
           [\A i \in IndexIds : iStatus'[i] # iStatus[i] => <<iStatus[i], iStatus'[i]>> \in Forward]_vars
    BY <1>1
  <1> QED
    BY <1>2, BaseHolds, OwnHolds, PTL DEF Spec, StatusMovesForward

-----------------------------------------------------------------------------
(***************************************************************************)
(* Where the collection is.  A row is READY only while its collection      *)
(* exists; a creation that made its collection still has it, and a         *)
(* deletion that is about to drop one has marked its row.                  *)
(***************************************************************************)
Held ==
    /\ ResolvableHasCollection
    /\ \A t \in Threads : pc[t] \in {"ciIndex", "ciReady"} => iid[t] \in phys
    /\ \A t \in Threads : pc[t] \in {"diDrop", "diRow"} => iStatus[iid[t]] \in {"DELETING", "none"}

(* A step of a request keeps it when the errors it ignores do not happen. *)
LEMMA StepHeld ==
  ASSUME "ignored" \notin Faults, Base, Own, Held, NEW t \in Threads, Others(t), View(t)
  PROVE  Held'
  <1> USE DEF Base, Held, ResolvableHasCollection, Others, Refs, OnIndex, Creating, Deleting
  <1>1. CASE Quiet(t)
    BY <1>1 DEF Quiet
  <1>2. CASE Erased(t)
    BY <1>2 DEF Erased, DeleteRows
  <1>3. CASE Inserted(t)
    <2>1. \A u \in Threads \ {t} : pc[u] \in OnIndex => iid[u] \in IndexIds /\ iid[u] # nextI
      BY DEF StoreType, IndexIds
    <2>2. \A i \in IndexIds : i # nextI => iStatus'[i] = iStatus[i]
      BY <1>3 DEF Inserted, StoreType
    <2>3. iStatus'[nextI] = "INIT" /\ pc'[t] = "ciCollection" /\ phys' = phys
      BY <1>3 DEF Inserted, StoreType
    <2> QED
      BY <2>1, <2>2, <2>3
  <1>4. CASE Built(t)
    BY <1>4 DEF Built, Own
  <1>5. CASE Readied(t)
    BY <1>5 DEF Readied, UpdateCollectionStatus, StoreType, Own
  <1>6. CASE Found(t)
    BY <1>6 DEF Found
  <1>7. CASE Marked(t)
    BY <1>7 DEF Marked, UpdateCollectionStatus, StoreType, Own
  <1>8. CASE Dropped(t)
    BY <1>8 DEF Dropped, Own
  <1> QED
    BY <1>1, <1>2, <1>3, <1>4, <1>5, <1>6, <1>7, <1>8 DEF View

(***************************************************************************)
(* An index the router resolves has its collection, through failed calls   *)
(* of Milvus, failed writes and crashes: every fault but the one the code  *)
(* chooses to ignore, the failed DELETING update.                          *)
(***************************************************************************)
THEOREM ResolvableCollection ==
  ASSUME "ignored" \notin Faults
  PROVE  Spec => []ResolvableHasCollection
  <1>1. Init => Held
    BY DEF Init, Held, ResolvableHasCollection
  <1>2. Base /\ Own /\ Held /\ [Next]_vars => Held'
    <2> SUFFICES ASSUME Base, Own, Held, [Next]_vars PROVE Held'
      OBVIOUS
    <2>1. CASE Elsewhere
      BY <2>1 DEF Held, ResolvableHasCollection, Elsewhere, store, OnIndex, Creating, Deleting
    <2> QED
      BY <2>1, NextView, StepHeld
  <1>3. Held => ResolvableHasCollection
    BY DEF Held
  <1> QED
    BY <1>1, <1>2, <1>3, BaseHolds, OwnHolds, PTL DEF Spec

-----------------------------------------------------------------------------
(***************************************************************************)
(* Every collection has its row.  The row of a creation under way is there *)
(* unless its bucket is gone, and whoever is about to delete a row, or is  *)
(* about to create its collection, has no collection.                      *)
(***************************************************************************)
Kept ==
    /\ NoOrphanCollection
    /\ \A t \in Threads : pc[t] \in Creating =>
          iStatus[iid[t]] = "INIT" \/ iBucket[iid[t]] \notin BucketRows
    /\ \A t \in Threads : pc[t] \in {"ciCollection", "ciUndoRow", "diRow"} => iid[t] \notin phys

(* A step of a request keeps it when a failed creation and a failed drop have no hidden effect. *)
LEMMA StepKept ==
  ASSUME "ignored" \notin Faults, "late" \notin Faults, Base, Own, Kept,
         NEW t \in Threads, Others(t), View(t)
  PROVE  Kept'
  <1> USE DEF Base, Kept, NoOrphanCollection, BucketRows, Others, Refs, OnIndex, Creating, Deleting
  <1>1. CASE Quiet(t)
    <2>1. \A i \in IndexIds : iBucket[i] \notin BucketRows => iBucket'[i] \notin BucketRows'
      BY <1>1 DEF Quiet, StoreType, Fresh, BucketIds
    <2> QED
      BY <1>1, <2>1 DEF Quiet, StoreType
  <1>2. CASE Erased(t)
    <2>1. CASE pc[t] = "dbDelete"
      <3>1. bid[t] \notin BucketRows' /\ BucketRows' \subseteq BucketRows
        BY <1>2, <2>1 DEF Erased, StoreType, OnBucket
      <3>2. \A i \in IndexIds : iStatus'[i] = iStatus[i] \/ iBucket[i] = bid[t]
        BY <1>2, <2>1 DEF Erased, DeleteRows, IndexRows
      <3> QED
        BY <1>2, <2>1, <3>1, <3>2 DEF Erased, StoreType
    <2>2. CASE pc[t] # "dbDelete"
      <3>1. \A i \in IndexIds : i # iid[t] => iStatus'[i] = iStatus[i]
        BY <1>2, <2>2 DEF Erased, DeleteRows
      <3>2. iid[t] \notin phys /\ bName' = bName /\ phys' = phys /\ iBucket' = iBucket /\ pc'[t] = "idle"
        BY <1>2, <2>2 DEF Erased
      <3>3. \A u \in Threads \ {t} : pc[u] \in Creating => iid[u] # iid[t]
        BY <1>2, <2>2 DEF Erased, Own
      <3> QED
        BY <3>1, <3>2, <3>3 DEF StoreType
    <2> QED
      BY <2>1, <2>2
  <1>3. CASE Inserted(t)
    <2>1. \A u \in Threads \ {t} : pc[u] \in OnIndex => iid[u] \in IndexIds /\ iid[u] # nextI
      BY DEF StoreType, IndexIds
    <2>2. \A i \in IndexIds : i # nextI => iStatus'[i] = iStatus[i] /\ iBucket'[i] = iBucket[i]
      BY <1>3 DEF Inserted, StoreType
    <2>3. /\ iStatus'[nextI] = "INIT" /\ pc'[t] = "ciCollection" /\ iid'[t] = nextI
          /\ phys' = phys /\ bName' = bName
      BY <1>3 DEF Inserted, StoreType
    <2>4. nextI \notin phys
      BY <1>3 DEF Inserted, Fresh, StoreType, IndexIds
    <2> QED
      BY <2>1, <2>2, <2>3, <2>4 DEF StoreType
  <1>4. CASE Built(t)
    BY <1>4 DEF Built, Own
  <1>5. CASE Readied(t) \/ Marked(t)
    BY <1>5 DEF Readied, Marked, UpdateCollectionStatus, StoreType, Own
  <1>6. CASE Found(t)
    BY <1>6 DEF Found
  <1>7. CASE Dropped(t)
    BY <1>7 DEF Dropped
  <1> QED
    BY <1>1, <1>2, <1>3, <1>4, <1>5, <1>6, <1>7 DEF View

(***************************************************************************)
(* No collection is left without a row in a bucket that exists, through    *)
(* failed creations, failed writes and crashes, as long as a failed        *)
(* CreateCollection has no effect and the drop of an undo succeeds.        *)
(***************************************************************************)
THEOREM NoOrphan ==
  ASSUME "ignored" \notin Faults, "late" \notin Faults
  PROVE  Spec => []NoOrphanCollection
  <1>1. Init => Kept
    BY DEF Init, Kept, NoOrphanCollection, Creating
  <1>2. Base /\ Own /\ Kept /\ [Next]_vars => Kept'
    <2> SUFFICES ASSUME Base, Own, Kept, [Next]_vars PROVE Kept'
      OBVIOUS
    <2>1. CASE Elsewhere
      BY <2>1 DEF Kept, NoOrphanCollection, BucketRows, Elsewhere, store, OnIndex, Creating, Deleting
    <2> QED
      BY <2>1, NextView, StepKept
  <1>3. Kept => NoOrphanCollection
    BY DEF Kept
  <1> QED
    BY <1>1, <1>2, <1>3, BaseHolds, OwnHolds, PTL DEF Spec

-----------------------------------------------------------------------------
(***************************************************************************)
(* The indexes a deletion of a bucket did not count were inserted since.   *)
(***************************************************************************)
Overlap ==
    \A t \in Threads : pc[t] = "dbDelete" =>
        counted[t] <= nextI /\ \A i \in IndexRows(bid[t]) : i >= counted[t]

(* A step of a request keeps it. *)
LEMMA StepOverlap ==
  ASSUME Base, Overlap, NEW t \in Threads, Others(t), View(t)
  PROVE  Overlap'
  <1> USE DEF Base, Overlap, Others, IndexRows
  <1>1. counted \in [Threads -> Int] /\ nextI \in Int
    BY DEF ReqType, StoreType
  <1>2. CASE Quiet(t)
    BY <1>1, <1>2 DEF Quiet
  <1>3. CASE Erased(t)
    BY <1>3 DEF Erased, DeleteRows
  <1>4. CASE Inserted(t)
    <2>1. \A i \in IndexIds : i # nextI => iStatus'[i] = iStatus[i] /\ iBucket'[i] = iBucket[i]
      BY <1>4 DEF Inserted, StoreType
    <2> QED
      BY <1>1, <1>4, <2>1 DEF Inserted, IndexIds
  <1>5. CASE Built(t)
    BY <1>5 DEF Built
  <1>6. CASE Readied(t) \/ Marked(t)
    <2>1. \A i \in IndexIds : iStatus'[i] # "none" => iStatus[i] # "none"
      BY <1>6 DEF Readied, Marked, UpdateCollectionStatus, StoreType, store
    <2> QED
      BY <1>6, <2>1 DEF Readied, Marked, UpdateCollectionStatus, store
  <1>7. CASE Found(t) \/ Dropped(t)
    BY <1>7 DEF Found, Dropped
  <1> QED
    BY <1>2, <1>3, <1>4, <1>5, <1>6, <1>7 DEF View

(***************************************************************************)
(* A bucket that goes away takes with it only indexes created while it was *)
(* being deleted, whatever fails.                                          *)
(***************************************************************************)
THEOREM OverlappingLost == Spec => OnlyOverlappingLost
  <1>1. Init => Overlap
    BY DEF Init, Overlap
  <1>2. Base /\ Overlap /\ [Next]_vars => Overlap'
    <2> SUFFICES ASSUME Base, Overlap, [Next]_vars PROVE Overlap'
      OBVIOUS
    <2>1. CASE Elsewhere
      BY <2>1 DEF Overlap, Elsewhere, IndexRows, store, OnBucket
    <2> QED
      BY <2>1, NextView, StepOverlap
  <1>3. Overlap =>
          [\A t \in Threads :
              At(t, "dbDelete") /\ bid[t] \in BucketRows /\ bName'[bid[t]] = NoName =>
                  \A i \in IndexRows(bid[t]) : i >= counted[t]]_vars
    BY DEF Overlap, At
  <1> QED
    BY <1>1, <1>2, <1>3, BaseHolds, PTL DEF Spec, OnlyOverlappingLost

-----------------------------------------------------------------------------
(***************************************************************************)
(* The quotas.  A request that checks one still has the bucket its request *)
(* names, unless it was deleted since.                                     *)
(***************************************************************************)
Named ==
    \A t \in Threads : pc[t] \in Checking => bName[bid[t]] \in {bArg[t], NoName}

(* A step of a request keeps it. *)
LEMMA StepNamed ==
  ASSUME Base, Named, NEW t \in Threads, Others(t), View(t), Admitted(t)
  PROVE  Named'
  <1> USE DEF Base, Named, Others, Checking
  <1>1. \A u \in Threads : pc[u] \in Checking => bid[u] \in BucketIds /\ bid[u] # nextB
    BY DEF Refs, OnBucket, StoreType, BucketIds
  <1>2. \A b \in BucketIds : b # nextB => bName'[b] \in {bName[b], NoName}
    BY DEF View, Quiet, Erased, Inserted, Built, Readied, Found, Marked, Dropped,
           UpdateCollectionStatus, StoreType, store
  <1>3. \A u \in Threads \ {t} : pc'[u] \in Checking => bName'[bid'[u]] \in {bArg'[u], NoName}
    BY <1>1, <1>2
  <1>4. pc'[t] \in Checking => bName'[bid'[t]] \in {bArg'[t], NoName}
    BY DEF Admitted
  <1> QED
    BY <1>3, <1>4

(* The sum of two finite sets' sizes does not grow when the sets do not. *)
LEMMA SumShrinks ==
  ASSUME NEW R, NEW P, IsFiniteSet(R), IsFiniteSet(P), NEW S \in SUBSET R, NEW Q \in SUBSET P
  PROVE  Cardinality(S) + Cardinality(Q) <= Cardinality(R) + Cardinality(P)
  <1>1. /\ IsFiniteSet(S) /\ Cardinality(S) <= Cardinality(R)
        /\ IsFiniteSet(Q) /\ Cardinality(Q) <= Cardinality(P)
    BY FS_Subset
  <1>2. /\ Cardinality(R) \in Nat /\ Cardinality(P) \in Nat
        /\ Cardinality(S) \in Nat /\ Cardinality(Q) \in Nat
    BY <1>1, FS_CardinalityType
  <1> QED
    BY <1>1, <1>2

(* Nor when an element moves from one to the other. *)
LEMMA SumMoves ==
  ASSUME NEW R, NEW P, IsFiniteSet(R), IsFiniteSet(P), NEW x, NEW t \in P
  PROVE  Cardinality(R \cup {x}) + Cardinality(P \ {t}) <= Cardinality(R) + Cardinality(P)
  <1>1. /\ Cardinality(R \cup {x}) \in {Cardinality(R), Cardinality(R) + 1}
        /\ Cardinality(P \ {t}) = Cardinality(P) - 1
    BY FS_AddElement, FS_RemoveElement
  <1>2. Cardinality(R) \in Nat /\ Cardinality(P) \in Nat
    BY FS_CardinalityType
  <1> QED
    BY <1>1, <1>2

(* Who passed a check is a goroutine: a quota not yet reached leaves room for one each. *)
LEMMA RoomForAll ==
  ASSUME NEW n \in Nat, NEW max \in Nat, n < max, NEW P \in SUBSET Threads
  PROVE  n + Cardinality(P) <= max + (Cardinality(Threads) - 1)
  <1>1. IsFiniteSet(P) /\ Cardinality(P) <= Cardinality(Threads)
    BY FS_Subset
  <1>2. Cardinality(P) \in Nat /\ Cardinality(Threads) \in Nat
    BY <1>1, FS_CardinalityType
  <1> QED
    BY <1>1, <1>2

(* The requests pending are finitely many. *)
LEMMA PendingFinite ==
  ASSUME NEW b
  PROVE  /\ IsFiniteSet(Pending(b)) /\ Pending(b) \in SUBSET Threads
         /\ IsFiniteSet(PendingPerf) /\ PendingPerf \in SUBSET Threads
         /\ Cardinality(Pending(b)) \in Nat /\ Cardinality(PendingPerf) \in Nat
         /\ Cardinality(Threads) \in Nat
  <1>1. Pending(b) \in SUBSET Threads /\ PendingPerf \in SUBSET Threads
    BY DEF Pending, PendingPerf
  <1> QED
    BY <1>1, FS_Subset, FS_CardinalityType

(* No step but an insert adds a row. *)
LEMMA RowsShrink ==
  ASSUME Base, NEW t \in Threads, View(t), ~Inserted(t)
  PROVE  /\ \A b \in BucketIds : IndexRows(b)' \subseteq IndexRows(b)
         /\ PerfRows' \subseteq PerfRows
  <1> USE DEF Base
  <1>1. \A i \in IndexIds : iBucket'[i] = iBucket[i] /\ (iStatus'[i] # "none" => iStatus[i] # "none")
    BY DEF View, Quiet, Erased, Built, Readied, Found, Marked, Dropped, DeleteRows,
           UpdateCollectionStatus, StoreType, store
  <1>2. \A b \in BucketIds : b = nextB \/ bName'[b] = bName[b] \/ bName'[b] = NoName
    BY DEF View, Quiet, Erased, Built, Readied, Found, Marked, Dropped,
           UpdateCollectionStatus, StoreType, store
  <1>3. \A i \in IndexIds : iBucket[i] # nextB
    BY DEF Fresh, StoreType
  <1> QED
    BY <1>1, <1>2, <1>3 DEF IndexRows, PerfRows, BucketRows

(* The quota of a bucket: a step of a request keeps rows and pending requests within the bound. *)
LEMMA StepBucketQuota ==
  ASSUME Base, IndexQuotaBounded, NEW b \in BucketIds,
         NEW t \in Threads, Others(t), View(t), Admitted(t)
  PROVE  Cardinality(IndexRows(b)') + Cardinality(Pending(b)')
            <= MaxCollPerBucket + (Cardinality(Threads) - 1)
  <1> DEFINE bound == MaxCollPerBucket + (Cardinality(Threads) - 1)
  <1>0. /\ Cardinality(IndexRows(b)) + Cardinality(Pending(b)) <= bound
        /\ IsFiniteSet(IndexRows(b)) /\ Cardinality(IndexRows(b)) \in Nat
        /\ IsFiniteSet(Pending(b)) /\ Cardinality(Pending(b)) \in Nat
        /\ bound \in Int
    BY RowsFinite, PendingFinite DEF IndexQuotaBounded
  <1>a. ASSUME NEW R, NEW P, R \subseteq IndexRows(b), P \subseteq Pending(b)
        PROVE  Cardinality(R) + Cardinality(P) <= bound
    <2>1. Cardinality(R) + Cardinality(P) <= Cardinality(IndexRows(b)) + Cardinality(Pending(b))
      BY <1>0, <1>a, SumShrinks
    <2>2. Cardinality(R) \in Nat /\ Cardinality(P) \in Nat
      BY <1>0, <1>a, FS_Subset, FS_CardinalityType
    <2> HIDE DEF bound
    <2> QED
      BY <1>0, <2>1, <2>2
  <1>1. CASE Inserted(t)
    <2>1. Pending(b)' \subseteq Pending(b) \ {t}
      BY <1>1 DEF Inserted, Others, Pending
    <2>2. CASE bid[t] = b
      <3>1. IndexRows(b)' = IndexRows(b) \cup {nextI}
        BY <1>1, <2>2 DEF Inserted, Base, StoreType, IndexRows
      <3>2. t \in Pending(b)
        BY <1>1, <2>2 DEF Inserted, Pending
      <3>3. Cardinality(IndexRows(b) \cup {nextI}) + Cardinality(Pending(b) \ {t})
              <= Cardinality(IndexRows(b)) + Cardinality(Pending(b))
        BY <1>0, <3>2, SumMoves
      <3>4. /\ IsFiniteSet(IndexRows(b) \cup {nextI}) /\ IsFiniteSet(Pending(b) \ {t})
            /\ Cardinality(IndexRows(b) \cup {nextI}) \in Nat /\ Cardinality(Pending(b) \ {t}) \in Nat
        BY <1>0, FS_AddElement, FS_RemoveElement, FS_CardinalityType
      <3>5. Cardinality(Pending(b)') <= Cardinality(Pending(b) \ {t}) /\ Cardinality(Pending(b)') \in Nat
        BY <2>1, <3>4, FS_Subset, FS_CardinalityType
      <3> HIDE DEF bound
      <3>6. Cardinality(IndexRows(b) \cup {nextI}) + Cardinality(Pending(b)') <= bound
        BY <1>0, <3>3, <3>4, <3>5
      <3> QED
        BY <3>1, <3>6 DEF bound
    <2>3. CASE bid[t] # b
      <3>1. IndexRows(b)' \subseteq IndexRows(b)
        BY <1>1, <2>3 DEF Inserted, Base, StoreType, IndexRows
      <3> QED
        BY <1>a, <2>1, <3>1
    <2> QED
      BY <2>2, <2>3
  <1>2. CASE ~Inserted(t) /\ pc[t] = "ciQuota" /\ pc'[t] \in {"ciPerf", "ciInsert"} /\ bid'[t] = b
    <2>1. Cardinality(IndexRows(b)) < MaxCollPerBucket /\ IndexRows(b)' = IndexRows(b)
      BY <1>2 DEF Admitted, Checking, IndexRows
    <2>2. Pending(b)' \subseteq Threads
      BY DEF Pending
    <2> QED
      BY <1>0, <2>1, <2>2, RoomForAll
  <1>3. CASE ~Inserted(t) /\ ~(pc[t] = "ciQuota" /\ pc'[t] \in {"ciPerf", "ciInsert"} /\ bid'[t] = b)
    <2>1. IndexRows(b)' \subseteq IndexRows(b)
      BY <1>3, RowsShrink
    <2>2. Pending(b)' \subseteq Pending(b)
      BY <1>3 DEF Others, Admitted, Checking, Pending
    <2> QED
      BY <1>a, <2>1, <2>2
  <1> QED
    BY <1>1, <1>2, <1>3

(* The performance budget: the same, over all buckets of the performance tier. *)
LEMMA StepPerfQuota ==
  ASSUME Base, Named, IndexQuotaBounded, NEW t \in Threads, Others(t), View(t), Admitted(t)
  PROVE  Cardinality(PerfRows') + Cardinality(PendingPerf') <= PerfBudget + (Cardinality(Threads) - 1)
  <1> DEFINE bound == PerfBudget + (Cardinality(Threads) - 1)
  <1>0. /\ Cardinality(PerfRows) + Cardinality(PendingPerf) <= bound
        /\ IsFiniteSet(PerfRows) /\ Cardinality(PerfRows) \in Nat
        /\ IsFiniteSet(PendingPerf) /\ Cardinality(PendingPerf) \in Nat
        /\ bound \in Int
    BY RowsFinite, PendingFinite DEF IndexQuotaBounded
  <1>a. ASSUME NEW R, NEW P, R \subseteq PerfRows, P \subseteq PendingPerf
        PROVE  Cardinality(R) + Cardinality(P) <= bound
    <2>1. Cardinality(R) + Cardinality(P) <= Cardinality(PerfRows) + Cardinality(PendingPerf)
      BY <1>0, <1>a, SumShrinks
    <2>2. Cardinality(R) \in Nat /\ Cardinality(P) \in Nat
      BY <1>0, <1>a, FS_Subset, FS_CardinalityType
    <2> HIDE DEF bound
    <2> QED
      BY <1>0, <2>1, <2>2
  <1>1. CASE Inserted(t)
    <2>1. PendingPerf' \subseteq PendingPerf \ {t}
      BY <1>1 DEF Inserted, Others, PendingPerf, At
    <2>2. CASE bArg[t] \in PerfBuckets
      <3>1. PerfRows' \subseteq PerfRows \cup {nextI}
        BY <1>1 DEF Inserted, Base, StoreType, IndexRows, PerfRows, BucketRows
      <3>2. t \in PendingPerf
        BY <1>1, <2>2 DEF Inserted, PendingPerf, At
      <3>3. Cardinality(PerfRows \cup {nextI}) + Cardinality(PendingPerf \ {t})
              <= Cardinality(PerfRows) + Cardinality(PendingPerf)
        BY <1>0, <3>2, SumMoves
      <3>4. /\ IsFiniteSet(PerfRows \cup {nextI}) /\ IsFiniteSet(PendingPerf \ {t})
            /\ Cardinality(PerfRows \cup {nextI}) \in Nat /\ Cardinality(PendingPerf \ {t}) \in Nat
        BY <1>0, FS_AddElement, FS_RemoveElement, FS_CardinalityType
      <3>5. Cardinality(PendingPerf') <= Cardinality(PendingPerf \ {t}) /\ Cardinality(PendingPerf') \in Nat
        BY <2>1, <3>4, FS_Subset, FS_CardinalityType
      <3>6. Cardinality(PerfRows') <= Cardinality(PerfRows \cup {nextI}) /\ Cardinality(PerfRows') \in Nat
        BY <3>1, <3>4, FS_Subset, FS_CardinalityType
      <3> HIDE DEF bound
      <3>7. Cardinality(PerfRows') + Cardinality(PendingPerf') <= bound
        BY <1>0, <3>3, <3>4, <3>5, <3>6
      <3> QED
        BY <3>7 DEF bound
    <2>3. CASE bArg[t] \notin PerfBuckets
      <3>1. bName[bid[t]] \notin PerfBuckets
        BY <1>1, <2>3 DEF Inserted, Named, Checking, BucketRows
      <3>2. PerfRows' \subseteq PerfRows
        BY <1>1, <3>1 DEF Inserted, Base, StoreType, IndexRows, PerfRows, BucketRows
      <3> QED
        BY <1>a, <2>1, <3>2
    <2> QED
      BY <2>2, <2>3
  <1>2. CASE ~Inserted(t) /\ pc[t] = "ciPerf" /\ pc'[t] = "ciInsert"
    <2>1. Cardinality(PerfRows) < PerfBudget /\ PerfRows' = PerfRows
      BY <1>2 DEF Admitted, Checking, PerfRows, IndexRows, BucketRows
    <2>2. PendingPerf' \subseteq Threads
      BY DEF PendingPerf
    <2> QED
      BY <1>0, <2>1, <2>2, RoomForAll
  <1>3. CASE ~Inserted(t) /\ ~(pc[t] = "ciPerf" /\ pc'[t] = "ciInsert")
    <2>1. PerfRows' \subseteq PerfRows
      BY <1>3, RowsShrink
    <2>2. PendingPerf' \subseteq PendingPerf
      BY <1>3 DEF Others, Admitted, Checking, PendingPerf, At
    <2> QED
      BY <1>a, <2>1, <2>2
  <1> QED
    BY <1>1, <1>2, <1>3

(* The quotas of indexes are exceeded by at most one index per other goroutine. *)
LEMMA IndexQuota == Spec => []IndexQuotaBounded
  <1>1. Init => Named /\ IndexQuotaBounded
    <2> SUFFICES ASSUME Init PROVE Named /\ IndexQuotaBounded
      OBVIOUS
    <2>1. Named
      BY DEF Init, Named, Checking
    <2>2. /\ \A b \in BucketIds : IndexRows(b) = {} /\ Pending(b) = {}
          /\ PerfRows = {} /\ PendingPerf = {}
      BY DEF Init, IndexRows, Pending, PerfRows, PendingPerf, At
    <2>3. Cardinality(Threads) \in Nat /\ Cardinality(Threads) # 0
      BY FS_EmptySet, FS_CardinalityType
    <2>4. /\ \A b \in BucketIds : Cardinality(IndexRows(b)) = 0 /\ Cardinality(Pending(b)) = 0
          /\ Cardinality(PerfRows) = 0 /\ Cardinality(PendingPerf) = 0
      BY <2>2, FS_EmptySet, Zenon
    <2> QED
      BY <2>1, <2>3, <2>4 DEF IndexQuotaBounded
  <1>2. Base /\ Named /\ IndexQuotaBounded /\ [Next]_vars => Named' /\ IndexQuotaBounded'
    <2> SUFFICES ASSUME Base, Named, IndexQuotaBounded, [Next]_vars
                 PROVE  Named' /\ IndexQuotaBounded'
      OBVIOUS
    <2>1. CASE Elsewhere
      <3>1. Named'
        BY <2>1 DEF Elsewhere, Named, OnBucket, Checking, store
      <3>2. /\ \A b \in BucketIds : IndexRows(b)' = IndexRows(b) /\ Pending(b)' \subseteq Pending(b)
            /\ PerfRows' = PerfRows /\ PendingPerf' \subseteq PendingPerf
        BY <2>1 DEF Elsewhere, IndexRows, PerfRows, BucketRows, Pending, PendingPerf, At, OnBucket, store
      <3>3. ASSUME NEW b \in BucketIds
            PROVE  Cardinality(IndexRows(b)') + Cardinality(Pending(b)')
                      <= MaxCollPerBucket + (Cardinality(Threads) - 1)
        <4>1. Cardinality(Pending(b)') <= Cardinality(Pending(b)) /\ Cardinality(Pending(b)') \in Nat
          BY <3>2, PendingFinite, FS_Subset, FS_CardinalityType
        <4> QED
          BY <3>2, <4>1, RowsFinite, PendingFinite DEF IndexQuotaBounded
      <3>4. Cardinality(PerfRows') + Cardinality(PendingPerf') <= PerfBudget + (Cardinality(Threads) - 1)
        <4>1. Cardinality(PendingPerf') <= Cardinality(PendingPerf) /\ Cardinality(PendingPerf') \in Nat
          BY <3>2, PendingFinite, FS_Subset, FS_CardinalityType
        <4> QED
          BY <3>2, <4>1, RowsFinite, PendingFinite DEF IndexQuotaBounded
      <3> QED
        BY <3>1, <3>3, <3>4 DEF IndexQuotaBounded
    <2>2. ASSUME NEW t \in Threads, Others(t), View(t), Admitted(t)
          PROVE  Named' /\ IndexQuotaBounded'
      BY <2>2, StepNamed, StepBucketQuota, StepPerfQuota DEF IndexQuotaBounded
    <2> QED
      BY <2>1, <2>2, NextView
  <1> QED
    BY <1>1, <1>2, BaseHolds, PTL DEF Spec


(***************************************************************************)
(* What a step means for the buckets: nothing is added to the rows and the *)
(* requests about to insert one; or a request inserts its row; or one      *)
(* passes the check, below the limit.                                      *)
(***************************************************************************)
Shrinks == BucketRows' \subseteq BucketRows /\ PendingBuckets' \subseteq PendingBuckets

AddsBucket(t) ==
    /\ t \in PendingBuckets /\ PendingBuckets' = PendingBuckets \ {t}
    /\ BucketRows' = BucketRows \cup {nextB}

Passes == BucketRows' = BucketRows /\ Cardinality(BucketRows) < MaxBuckets

(* The bucket rows, and the requests about to insert one, are finitely many. *)
LEMMA BucketsFinite ==
  /\ IsFiniteSet(BucketRows) /\ Cardinality(BucketRows) \in Nat
  /\ IsFiniteSet(PendingBuckets) /\ Cardinality(PendingBuckets) \in Nat
  /\ PendingBuckets \in SUBSET Threads /\ Cardinality(Threads) \in Nat
  <1>1. IsFiniteSet(BucketIds)
    BY FS_Interval DEF BucketIds
  <1>2. BucketRows \in SUBSET BucketIds /\ PendingBuckets \in SUBSET Threads
    BY DEF BucketRows, PendingBuckets
  <1> QED
    BY <1>1, <1>2, FS_Subset, FS_CardinalityType

(* Every step of a request is one of these. *)
LEMMA StepBuckets ==
  ASSUME Base, NEW t \in Threads, Step(t)
  PROVE  Shrinks \/ AddsBucket(t) \/ Passes
  <1> USE DEF Base, At
  <1>1. CASE CanCreateBucket(t)
    <2>1. BucketRows' = BucketRows
      BY <1>1 DEF CanCreateBucket, store, BucketRows
    <2>2. CASE Return(t)
      BY <2>1, <2>2 DEF Return, Shrinks, PendingBuckets, ReqType
    <2>3. CASE ~Return(t)
      BY <1>1, <2>1, <2>3, BucketsFinite DEF CanCreateBucket, Passes
    <2> QED
      BY <2>2, <2>3
  <1>2. CASE CreateBucket(t)
    <2>1. t \in PendingBuckets /\ PendingBuckets' = PendingBuckets \ {t}
      BY <1>2 DEF CreateBucket, Return, PendingBuckets, ReqType
    <2>2. CASE UNCHANGED store
      BY <2>1, <2>2 DEF Shrinks, BucketRows, store
    <2>3. CASE ~UNCHANGED store
      <3>1. nextB \in BucketIds /\ bName' = [bName EXCEPT ![nextB] = bArg[t]]
        BY <1>2, <2>3 DEF CreateBucket
      <3>2. bArg[t] \in BucketNames \cup {NoName}
        BY DEF ReqType
      <3>3. CASE bArg[t] = NoName
        BY <2>1, <3>1, <3>3 DEF Shrinks, BucketRows, StoreType
      <3>4. CASE bArg[t] # NoName
        BY <2>1, <3>1, <3>4 DEF AddsBucket, BucketRows, StoreType
      <3> QED
        BY <3>3, <3>4
    <2> QED
      BY <2>2, <2>3
  <1>3. CASE ~CanCreateBucket(t) /\ ~CreateBucket(t)
    <2>1. PendingBuckets' \subseteq PendingBuckets
      <3>1. Others(t)
        BY StepView
      <3>2. pc'[t] # "cbInsert"
        BY <1>3 DEF Step, DeleteBucketGet, DeleteBucketCount, Counted, DeleteBucketRow, CreateIndexGet,
             CanCreateCollection, CanCreatePerformanceCollection, CreateCollectionRow, CreateCollection,
             CreateIndex, UndoDrop, UndoRow, CreateIndexReady, DeleteIndexResolve, DeleteIndexMark,
             DeleteIndexDrop, DeleteIndexRow, Goto, Return, ReqType
      <3> QED
        BY <3>1, <3>2 DEF PendingBuckets, Others
    <2>2. \A b \in BucketIds : bName'[b] \in {bName[b], NoName}
      BY <1>3 DEF Step, DeleteBucketGet, DeleteBucketCount, DeleteBucketRow, DeleteBucket, StoreFails,
             CreateIndexGet, CanCreateCollection, CanCreatePerformanceCollection, CreateCollectionRow,
             CreateCollection, CreateIndex, UndoDrop, UndoRow, CreateIndexReady, DeleteIndexResolve,
             DeleteIndexMark, DeleteIndexDrop, DeleteIndexRow, DeleteCollection,
             UpdateCollectionStatus, store, StoreType
    <2> QED
      BY <2>1, <2>2 DEF Shrinks, BucketRows
  <1> QED
    BY <1>1, <1>2, <1>3

(* The number of buckets: a step of a request keeps rows and pending requests within the bound. *)
LEMMA StepBucketBound ==
  ASSUME BucketQuotaBounded, NEW t, Shrinks \/ AddsBucket(t) \/ Passes
  PROVE  BucketQuotaBounded'
  <1> DEFINE bound == MaxBuckets + (Cardinality(Threads) - 1)
  <1>0. /\ Cardinality(BucketRows) + Cardinality(PendingBuckets) <= bound
        /\ bound \in Int
    BY BucketsFinite DEF BucketQuotaBounded
  <1>f. /\ IsFiniteSet(BucketRows) /\ Cardinality(BucketRows) \in Nat
        /\ IsFiniteSet(PendingBuckets) /\ Cardinality(PendingBuckets) \in Nat
    BY BucketsFinite
  <1>1. CASE Shrinks
    <2>1. Cardinality(BucketRows') + Cardinality(PendingBuckets')
            <= Cardinality(BucketRows) + Cardinality(PendingBuckets)
      BY <1>f, <1>1, SumShrinks DEF Shrinks
    <2>2. Cardinality(BucketRows') \in Nat /\ Cardinality(PendingBuckets') \in Nat
      BY <1>f, <1>1, FS_Subset, FS_CardinalityType DEF Shrinks
    <2> HIDE DEF bound
    <2>3. Cardinality(BucketRows') + Cardinality(PendingBuckets') <= bound
      BY <1>0, <1>f, <2>1, <2>2
    <2> QED
      BY <2>3 DEF BucketQuotaBounded, bound
  <1>2. CASE AddsBucket(t)
    <2>1. Cardinality(BucketRows') + Cardinality(PendingBuckets')
            <= Cardinality(BucketRows) + Cardinality(PendingBuckets)
      BY <1>f, <1>2, SumMoves DEF AddsBucket
    <2>2. /\ IsFiniteSet(BucketRows \cup {nextB}) /\ IsFiniteSet(PendingBuckets \ {t})
          /\ BucketRows' = BucketRows \cup {nextB} /\ PendingBuckets' = PendingBuckets \ {t}
      BY <1>f, <1>2, FS_AddElement, FS_RemoveElement DEF AddsBucket
    <2>3. Cardinality(BucketRows') \in Nat /\ Cardinality(PendingBuckets') \in Nat
      BY <2>2, FS_CardinalityType
    <2> HIDE DEF bound
    <2>4. Cardinality(BucketRows') + Cardinality(PendingBuckets') <= bound
      BY <1>0, <1>f, <2>1, <2>3
    <2> QED
      BY <2>4 DEF BucketQuotaBounded, bound
  <1>3. CASE Passes
    <2>1. PendingBuckets' \in SUBSET Threads
      BY DEF PendingBuckets
    <2> QED
      BY <1>f, <1>3, <2>1, RoomForAll DEF Passes, BucketQuotaBounded
  <1> QED
    BY <1>1, <1>2, <1>3

(* The quota of buckets is exceeded by at most one bucket per other goroutine. *)
LEMMA BucketQuota == Spec => []BucketQuotaBounded
  <1>1. Init => BucketQuotaBounded
    <2> SUFFICES ASSUME Init PROVE BucketQuotaBounded
      OBVIOUS
    <2>1. BucketRows = {} /\ PendingBuckets = {}
      BY DEF Init, BucketRows, PendingBuckets, At
    <2>2. Cardinality(Threads) \in Nat /\ Cardinality(Threads) # 0
      BY FS_EmptySet, FS_CardinalityType
    <2>3. Cardinality(BucketRows) = 0 /\ Cardinality(PendingBuckets) = 0
      BY <2>1, FS_EmptySet, Zenon
    <2> QED
      BY <2>2, <2>3 DEF BucketQuotaBounded
  <1>2. Base /\ BucketQuotaBounded /\ [Next]_vars => BucketQuotaBounded'
    <2> SUFFICES ASSUME Base, BucketQuotaBounded, [Next]_vars PROVE BucketQuotaBounded'
      OBVIOUS
    <2>1. ASSUME NEW t \in Threads, NEW j \in Jobs, NEW b \in BucketNames, NEW i \in IndexNames,
                 Begin(t, j, b, i)
          PROVE  Shrinks
      <3>1. First(j) # "cbInsert"
        BY DEF First, AllJobs
      <3> QED
        BY <2>1, <3>1 DEF Begin, Shrinks, BucketRows, PendingBuckets, At, Base, ReqType, store
    <2>2. ASSUME Crash PROVE Shrinks
      BY <2>2 DEF Crash, Shrinks, BucketRows, PendingBuckets, At, store
    <2>3. ASSUME UNCHANGED vars PROVE Shrinks
      <3>1. pc' = pc /\ bName' = bName
        BY <2>3 DEF vars, store
      <3> QED
        BY <3>1 DEF Shrinks, BucketRows, PendingBuckets, At
    <2>4. CASE Shrinks
      BY <2>4, StepBucketBound
    <2>5. ASSUME NEW t \in Threads, Step(t) PROVE BucketQuotaBounded'
      BY <2>5, StepBuckets, StepBucketBound
    <2> QED
      BY <2>1, <2>2, <2>3, <2>4, <2>5 DEF Next
  <1> QED
    BY <1>1, <1>2, BaseHolds, PTL DEF Spec

(***************************************************************************)
(* Checks and inserts of different requests interleave, and the quotas are *)
(* exceeded by at most one index, or one bucket, per other goroutine,      *)
(* whatever fails.                                                         *)
(***************************************************************************)
THEOREM QuotaBounded == Spec => []QuotaOvershootBounded
  BY IndexQuota, BucketQuota, PTL DEF QuotaOvershootBounded

-----------------------------------------------------------------------------
(***************************************************************************)
(* Rows in passage.  A request leaves the row it creates, or whose index   *)
(* it deletes, only when the row has moved on.                             *)
(***************************************************************************)
Dropping == {"diDrop", "diRow"}

Settles(t) ==
    /\ pc[t] \in Creating =>
          (pc'[t] \in Creating /\ iid'[t] = iid[t]) \/ iStatus'[iid[t]] \in {"READY", "none"}
    /\ pc[t] \in Dropping =>
          (pc'[t] \in Dropping /\ iid'[t] = iid[t]) \/ iStatus'[iid[t]] = "none"

(* A step of a request, when neither the store nor the drop of DeleteIndex fails. *)
LEMMA StepSettles ==
  ASSUME "store" \notin Faults, "drop" \notin Faults, Base, NEW t \in Threads, Step(t)
  PROVE  Settles(t)
  <1> USE DEF Base, At, Creating, Deleting, Dropping
  <1>1. CASE pc[t] \notin Creating \cup Dropping
    BY <1>1 DEF Settles
  <1>2. iid[t] \in IndexIds \/ pc[t] \notin Creating \cup Dropping
    BY DEF Refs, OnIndex
  <1>3. CASE CreateCollection(t) \/ CreateIndex(t) \/ UndoDrop(t)
    <2>1. Keep /\ \E l \in {"ciIndex", "ciUndoRow", "ciReady", "ciUndoDrop"} : Goto(t, l)
      BY <1>3 DEF CreateCollection, CreateIndex, UndoDrop
    <2>2. pc[t] \in Creating
      BY <1>3 DEF CreateCollection, CreateIndex, UndoDrop
    <2> QED
      BY <2>1, <2>2 DEF Settles, Goto, Keep, ReqType
  <1>4. CASE UndoRow(t) \/ DeleteIndexRow(t)
    <2>1. DeleteRows({iid[t]})
      BY <1>4 DEF UndoRow, DeleteIndexRow, StoreFails, DeleteCollection
    <2>2. iid[t] \in IndexIds
      BY <1>2, <1>4 DEF UndoRow, DeleteIndexRow
    <2>3. iStatus'[iid[t]] = "none"
      BY <2>1, <2>2 DEF DeleteRows
    <2> QED
      BY <2>3 DEF Settles
  <1>5. CASE CreateIndexReady(t)
    <2>1. UpdateCollectionStatus(iid[t], "READY") /\ pc[t] = "ciReady"
      BY <1>5 DEF CreateIndexReady, StoreFails
    <2>2. iStatus'[iid[t]] \in {"READY", "none"}
      BY <1>2, <2>1 DEF UpdateCollectionStatus, StoreType
    <2> QED
      BY <2>1, <2>2 DEF Settles
  <1>6. CASE DeleteIndexDrop(t)
    <2>1. pc[t] = "diDrop" /\ Goto(t, "diRow") /\ Keep
      BY <1>6 DEF DeleteIndexDrop
    <2> QED
      BY <2>1 DEF Settles, Goto, Keep, ReqType
  <1>7. CASE CanCreateBucket(t) \/ CreateBucket(t) \/ DeleteBucketGet(t)
               \/ DeleteBucketCount(t) \/ DeleteBucketRow(t)
    BY <1>1, <1>7 DEF CanCreateBucket, CreateBucket, DeleteBucketGet, DeleteBucketCount, DeleteBucketRow
  <1>8. CASE CreateIndexGet(t) \/ CanCreateCollection(t) \/ CanCreatePerformanceCollection(t)
               \/ CreateCollectionRow(t)
    BY <1>1, <1>8 DEF CreateIndexGet, CanCreateCollection, CanCreatePerformanceCollection,
                      CreateCollectionRow
  <1>9. CASE DeleteIndexResolve(t) \/ DeleteIndexMark(t)
    BY <1>1, <1>9 DEF DeleteIndexResolve, DeleteIndexMark
  <1> QED
    BY <1>3, <1>4, <1>5, <1>6, <1>7, <1>8, <1>9 DEF Step

(* Whose row is INIT or DELETING after a step of t: as before, or the row t works on. *)
LEMMA StatusView ==
  ASSUME Base, NEW t \in Threads, View(t), NEW i \in IndexIds
  PROVE  /\ iStatus'[i] = "INIT" => \/ iStatus[i] = "INIT"
                                    \/ iid'[t] = i /\ pc'[t] \in Creating
         /\ iStatus'[i] = "DELETING" => \/ iStatus[i] = "DELETING"
                                        \/ iid'[t] = i /\ pc'[t] \in Dropping
  <1> USE DEF Base
  <1>1. CASE Quiet(t) \/ Built(t) \/ Found(t) \/ Dropped(t)
    BY <1>1 DEF Quiet, Built, Found, Dropped
  <1>2. CASE Erased(t)
    BY <1>2 DEF Erased, DeleteRows
  <1>3. CASE Inserted(t)
    BY <1>3 DEF Inserted, StoreType, Creating
  <1>4. CASE Readied(t)
    BY <1>4 DEF Readied, UpdateCollectionStatus, StoreType
  <1>5. CASE Marked(t)
    BY <1>5 DEF Marked, UpdateCollectionStatus, StoreType, store, Dropping
  <1> QED
    BY <1>1, <1>2, <1>3, <1>4, <1>5 DEF View

(* A step of a request keeps every row in passage attended. *)
LEMMA StepAttended ==
  ASSUME "store" \notin Faults, "drop" \notin Faults, Base, RowsAttended,
         NEW t \in Threads, Step(t)
  PROVE  RowsAttended'
  <1>1. Others(t) /\ View(t) /\ Settles(t)
    BY StepView, StepSettles
  <1>2. ASSUME NEW i \in IndexIds, iStatus'[i] = "INIT"
        PROVE  \E u \in Threads : iid'[u] = i /\ pc'[u] \in Creating
    <2>1. CASE iid'[t] = i /\ pc'[t] \in Creating
      BY <2>1
    <2>2. CASE iStatus[i] = "INIT"
      <3>1. PICK u \in Threads : iid[u] = i /\ pc[u] \in Creating
        BY <2>2 DEF RowsAttended, Creating
      <3>2. CASE u = t
        BY <1>1, <1>2, <3>1, <3>2 DEF Settles
      <3>3. CASE u # t
        BY <1>1, <3>1, <3>3 DEF Others
      <3> QED
        BY <3>2, <3>3
    <2> QED
      BY <1>1, <1>2, <2>1, <2>2, StatusView
  <1>3. ASSUME NEW i \in IndexIds, iStatus'[i] = "DELETING"
        PROVE  \E u \in Threads : iid'[u] = i /\ pc'[u] \in Dropping
    <2>1. CASE iid'[t] = i /\ pc'[t] \in Dropping
      BY <2>1
    <2>2. CASE iStatus[i] = "DELETING"
      <3>1. PICK u \in Threads : iid[u] = i /\ pc[u] \in Dropping
        BY <2>2 DEF RowsAttended, Dropping
      <3>2. CASE u = t
        BY <1>1, <1>3, <3>1, <3>2 DEF Settles
      <3>3. CASE u # t
        BY <1>1, <3>1, <3>3 DEF Others
      <3> QED
        BY <3>2, <3>3
    <2> QED
      BY <1>1, <1>3, <2>1, <2>2, StatusView
  <1> QED
    BY <1>2, <1>3 DEF RowsAttended, Creating, Dropping

(***************************************************************************)
(* A row that is INIT or DELETING has its request, with any concurrent     *)
(* requests, failed creations and ignored errors.  The hypotheses are what *)
(* it takes: a crash, a write that fails and a drop that fails each leave  *)
(* a row behind that nothing attends to.  This is the part of PassageEnds  *)
(* that does not depend on the scheduler.                                  *)
(***************************************************************************)
THEOREM PassageAttended ==
  ASSUME "crash" \notin Faults, "store" \notin Faults, "drop" \notin Faults
  PROVE  Spec => []RowsAttended
  <1>1. Init => RowsAttended
    BY DEF Init, RowsAttended
  <1>2. Base /\ RowsAttended /\ [Next]_vars => RowsAttended'
    <2> SUFFICES ASSUME Base, RowsAttended, [Next]_vars PROVE RowsAttended'
      OBVIOUS
    <2>1. ASSUME NEW t \in Threads, NEW j \in Jobs, NEW b \in BucketNames, NEW i \in IndexNames,
                 Begin(t, j, b, i)
          PROVE  RowsAttended'
      <3>1. UNCHANGED <<iStatus, iid>> /\ \A u \in Threads : pc[u] # "idle" => pc'[u] = pc[u]
        BY <2>1 DEF Begin, At, store, Base, ReqType
      <3> QED
        BY <3>1 DEF RowsAttended
    <2>2. CASE UNCHANGED vars
      BY <2>2 DEF vars, store, RowsAttended
    <2> QED
      BY <2>1, <2>2, StepAttended DEF Next, Crash
  <1> QED
    BY <1>1, <1>2, BaseHolds, PTL DEF Spec

==============================================================================
