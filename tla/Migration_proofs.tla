--------------------------- MODULE Migration_proofs ---------------------------
(***************************************************************************)
(* Proofs about Migration, for any keys, vectors, goroutines, workloads    *)
(* and bounds, and for the faults each theorem names.                      *)
(***************************************************************************)
EXTENDS Migration, FiniteSetTheorems, TLAPS

USE DataAssumption, BoundsAssumption, ChoiceAssumption

(***************************************************************************)
(* The type invariant in parts: the row, the collections, the requests,    *)
(* and the worker.                                                         *)
(***************************************************************************)
RowType == row \in Row /\ nextP \in 1..(MaxPhys + 1)

CollType ==
    /\ exists \subseteq Phys /\ content \in [Phys -> Vectors]
    /\ truth \in Vectors /\ stale \in BOOLEAN
    /\ failed \subseteq Phys /\ orphaned \subseteq Phys

ReqType ==
    /\ jobs \in Workloads
    /\ pc \in [Threads -> Labels]
    /\ job \in [Threads -> AllJobs \cup {"none"}]
    /\ key \in [Threads -> Keys \cup {None}]
    /\ val \in [Threads -> Vals \cup {None}]
    /\ seen \in [Threads -> Phys \cup {0}]

WType == wpc \in WLabels /\ wRow \in Row /\ wTodo \subseteq Keys

(***************************************************************************)
(* Names are used in the order they are drawn.  The row names a source and *)
(* a later target exactly while it is being migrated, and the worker holds *)
(* such a row while it is at work; nothing is known under a name that was  *)
(* not drawn.                                                              *)
(***************************************************************************)
Migrating(r) == r.source \in Phys /\ r.target \in Phys /\ r.source < r.target /\ r.target < nextP

Drawn ==
    /\ row.phys < nextP
    /\ row.state = "" => row.source = 0 /\ row.target = 0
    /\ row.state = "UPGRADING" => Migrating(row)
    /\ wpc # "wait" => Migrating(wRow)
    /\ \A t \in Threads : pc[t] # "idle" => seen[t] \in Phys /\ seen[t] < nextP
    /\ \A t \in Threads : pc[t] = "upsert" => key[t] \in Keys
    /\ \A p \in Phys : p >= nextP => p \notin exists /\ p \notin failed /\ content[p] = Empty

Base == RowType /\ CollType /\ ReqType /\ WType /\ Drawn

(***************************************************************************)
(* The collections that must exist.  A deletion that is about to drop one  *)
(* has marked the row, a worker past the creation of its target has it,    *)
(* and one past the switch drops another than the row names.               *)
(***************************************************************************)
Held ==
    /\ CurrentExists
    /\ \A t \in Threads : pc[t] \in {"drop", "deleteRow"} => row.status # "READY"
    /\ row.status = "READY" /\ wpc \in {"scan", "check", "loadTarget", "switch"} => wRow.target \in exists
    /\ wpc = "drop" => row.phys = wRow.target

(***************************************************************************)
(* As long as no write or change acted on a row that had moved: the source *)
(* of a row in migration is its collection, the worker works on that row   *)
(* (Copying) or has switched it (AfterSwitch), and the target exists only  *)
(* if a worker is making it or one has failed on it.  A deletion may act   *)
(* at any time: it drops the collection it read, no newer one than the row *)
(* names, and when the row is gone so is its collection, or it is left     *)
(* over (orphaned).                                                        *)
(***************************************************************************)
Copying == {"load", "create", "scan", "check", "loadTarget", "switch"}

AfterSwitch == wpc = "drop" \/ (wpc = "fail" /\ row.phys = wRow.target)

Link ==
    /\ row.state = "UPGRADING" => row.source = row.phys
    /\ wpc \in Copying => /\ row.state = "UPGRADING" /\ wRow.phys = row.phys
                          /\ wRow.source = row.source /\ wRow.target = row.target
    /\ wpc = "fail" => \/ row.phys = wRow.target
                       \/ /\ row.state = "UPGRADING"
                          /\ wRow.source = row.source /\ wRow.target = row.target
    /\ AfterSwitch /\ row.state = "UPGRADING" => row.target \notin exists
    /\ row.state = "UPGRADING" /\ row.target \in exists =>
          row.target \in failed \/ (wpc # "wait" /\ wRow.target = row.target)
    /\ \A t \in Threads : pc[t] # "idle" => seen[t] <= row.phys
    /\ \A t \in Threads : pc[t] = "deleteRow" => seen[t] \notin exists
    /\ row.status = "GONE" /\ row.phys \in exists => row.phys \in orphaned

(***************************************************************************)
(* The vectors: the current collection has those written; the target of a  *)
(* migration has no other than the source, and all of them under the keys  *)
(* that were scanned.                                                      *)
(***************************************************************************)
Data ==
    row.status = "READY" =>
        /\ content[row.phys] = truth
        /\ row.state = "UPGRADING" =>
              \A k \in Keys : content[row.target][k] \in {None, content[row.source][k]}
        /\ wpc = "scan" =>
              \A k \in Keys \ wTodo : content[wRow.target][k] = content[wRow.source][k]
        /\ wpc \in {"check", "loadTarget", "switch"} =>
              \A k \in Keys : content[wRow.target][k] = content[wRow.source][k]

Faithful == ~stale => Link /\ Data

(***************************************************************************)
(* The targets of the migrations under way.  Each other failed migration   *)
(* accounts for one collection that nobody names and no deletion left.     *)
(***************************************************************************)
Active ==
    (IF wpc = "wait" THEN {} ELSE {wRow.target})
    \cup (IF row.state = "UPGRADING" /\ row.status # "GONE" THEN {row.target} ELSE {})

LeftOver == exists \ (Named \cup orphaned)

Settled == failed \ Active

Accounted == ~stale => Cardinality(LeftOver) <= Cardinality(Settled)

-----------------------------------------------------------------------------
(* A step of request t leaves the other requests alone. *)
Others(t) ==
    \A u \in Threads \ {t} : pc'[u] = pc[u] /\ seen'[u] = seen[u] /\ key'[u] = key[u]

(* Where Goto leaves the requests. *)
LEMMA GotoView ==
  ASSUME ReqType, NEW t \in Threads, NEW l \in Labels, Goto(t, l)
  PROVE  ReqType' /\ Others(t) /\ pc'[t] = l /\ seen'[t] = seen[t] /\ key'[t] = key[t]
  BY DEF ReqType, Goto, Others

(* Where Return does. *)
LEMMA ReturnView ==
  ASSUME ReqType, NEW t \in Threads, Return(t)
  PROVE  ReqType' /\ Others(t) /\ pc'[t] = "idle"
  <1>1. ReqType'
    BY DEF ReqType, Return, Labels
  <1>2. Others(t) /\ pc'[t] = "idle"
    BY DEF ReqType, Return, Others
  <1> QED
    BY <1>1, <1>2

(***************************************************************************)
(* What a step of a request means for the row: it is left alone, or it     *)
(* counts, is marked for migration, for deletion, or deleted.              *)
(***************************************************************************)
SameNames ==
    /\ row'.phys = row.phys /\ row'.state = row.state
    /\ row'.source = row.source /\ row'.target = row.target

RowKept == row' \in Row /\ SameNames /\ row'.status = row.status /\ nextP' = nextP

RowCounted(t) ==
    pc[t] = "count" /\ pc'[t] = "idle" /\ RowKept /\ UNCHANGED <<exists, content, history>>

RowUpgraded(t) ==
    /\ pc[t] = "mark" /\ pc'[t] = "idle"
    /\ nextP \in Phys /\ nextP' = nextP + 1
    /\ row' \in Row /\ row'.phys = row.phys /\ row'.status = row.status
    /\ IF row.status = "GONE" THEN row' = row
       ELSE row'.state = "UPGRADING" /\ row'.source = seen[t] /\ row'.target = nextP
    /\ stale' = (stale \/ RowMoved(t)) /\ UNCHANGED <<exists, content, truth, failed, orphaned>>

RowMarked(t) ==
    /\ pc[t] = "deleting" /\ pc'[t] = "drop" /\ seen'[t] = seen[t]
    /\ nextP' = nextP
    /\ row' \in Row /\ SameNames
    /\ \/ row.status = "GONE" /\ row'.status = "GONE"
       \/ row.status # "GONE" /\ row'.status = "DELETING"
       \/ "mark" \in Faults /\ row'.status = row.status
    /\ UNCHANGED <<exists, content, history>>

RowDeleted(t) ==
    /\ pc[t] = "deleteRow" /\ pc'[t] = "idle"
    /\ row' \in Row /\ SameNames /\ row'.status = "GONE" /\ nextP' = nextP
    /\ orphaned' = IF row.phys = seen[t] THEN orphaned ELSE orphaned \cup {row.phys}
    /\ UNCHANGED <<exists, content, truth, stale, failed>>

(* The steps that leave the row alone. *)
Wrote(t) ==
    /\ pc[t] = "upsert" /\ pc'[t] \in {"count", "idle"} /\ seen'[t] \in {seen[t], 0}
    /\ pc'[t] = "count" => seen'[t] = seen[t]
    /\ seen[t] \in exists
    /\ content' = [content EXCEPT ![seen[t]][key[t]] = val[t]]
    /\ truth' = [truth EXCEPT ![key[t]] = val[t]]
    /\ stale' = (stale \/ RowMoved(t))
    /\ RowKept /\ UNCHANGED <<exists, failed, orphaned>>

DroppedIndex(t) ==
    /\ pc[t] = "drop" /\ pc'[t] = "deleteRow" /\ seen'[t] = seen[t]
    /\ DropCollection(seen[t])
    /\ RowKept /\ UNCHANGED history

Quiet(t) == pc'[t] = "idle" /\ RowKept /\ UNCHANGED <<exists, content, history>>

View(t) ==
    /\ ReqType' /\ Others(t) /\ UNCHANGED wVars
    /\ \/ Quiet(t) \/ Wrote(t) \/ DroppedIndex(t)
       \/ RowCounted(t) \/ RowUpgraded(t) \/ RowMarked(t) \/ RowDeleted(t)

(* Counting up or down stays among the integers. *)
LEMMA IntSteps == \A m \in Int : m + 1 \in Int /\ m - 1 \in Int
  OBVIOUS

(* Every step of a request is one of these. *)
LEMMA RequestView == ASSUME Base, NEW t \in Threads, Request(t) PROVE View(t)
  <1> USE DEF Base, At, Row, RowType
  <1>0. \A l \in {"idle", "count", "drop", "deleteRow"} : l \in Labels
    BY DEF Labels
  <1>1. CASE Upsert(t)
    <2>1. CASE UNCHANGED <<content, history>> /\ Return(t)
      BY <1>1, <2>1, ReturnView DEF Upsert, View, Quiet, RowKept, SameNames, rowVars
    <2>2. CASE ~(UNCHANGED <<content, history>> /\ Return(t))
      <3>1. /\ seen[t] \in exists
            /\ content' = [content EXCEPT ![seen[t]][key[t]] = val[t]]
            /\ truth' = [truth EXCEPT ![key[t]] = val[t]]
            /\ stale' = (stale \/ RowMoved(t))
            /\ Goto(t, "count") \/ Return(t)
            /\ UNCHANGED <<failed, orphaned, rowVars, exists, wVars>>
        BY <1>1, <2>2 DEF Upsert
      <3>2. CASE Goto(t, "count")
        BY <1>0, <1>1, <3>1, <3>2, GotoView DEF Upsert, View, Wrote, RowKept, SameNames, rowVars
      <3>3. CASE Return(t)
        <4>1. seen'[t] = 0
          BY <3>3 DEF Return, ReqType
        <4> QED
          BY <1>1, <3>1, <3>3, <4>1, ReturnView DEF Upsert, View, Wrote, RowKept, SameNames, rowVars
      <3> QED
        BY <3>1, <3>2, <3>3
    <2> QED
      BY <2>1, <2>2
  <1>2. CASE UpdateVectorCount(t)
    <2>0. row.count \in Int
      OBVIOUS
    <2>a. PICK n \in {row.count, row.count + 1, row.count - 1} : row' = row \/ row' = [row EXCEPT !.count = n]
      BY <1>2 DEF UpdateVectorCount, UpdateRow
    <2>b. n \in Int
      BY <2>0, IntSteps, Zenon
    <2>1. RowKept
      BY <1>2, <2>a, <2>b DEF UpdateVectorCount, RowKept, SameNames
    <2> QED
      BY <1>2, <2>1, ReturnView DEF UpdateVectorCount, View, RowCounted
  <1>3. CASE Search(t)
    BY <1>3, ReturnView DEF Search, View, Quiet, RowKept, SameNames, rowVars
  <1>4. CASE ChangeIndexModel(t)
    <2>1. ReqType' /\ Others(t) /\ pc'[t] = "idle" /\ UNCHANGED wVars
      BY <1>4, ReturnView DEF ChangeIndexModel
    <2>2. CASE UNCHANGED <<rowVars, stale>>
      BY <1>4, <2>1, <2>2 DEF ChangeIndexModel, View, Quiet, RowKept, SameNames, rowVars, history
    <2>3. CASE ~UNCHANGED <<rowVars, stale>>
      <3>1. /\ nextP \in Phys /\ nextP' = nextP + 1 /\ stale' = (stale \/ RowMoved(t))
            /\ row' = IF row.status = "GONE" THEN row
                      ELSE [row EXCEPT !.state = "UPGRADING", !.source = seen[t], !.target = nextP]
        BY <1>4, <2>3 DEF ChangeIndexModel, UpdateRow
      <3>2. seen[t] \in Phys
        BY <1>4 DEF ChangeIndexModel, Drawn
      <3>3. RowUpgraded(t)
        BY <1>4, <2>1, <3>1, <3>2 DEF ChangeIndexModel, RowUpgraded
      <3> QED
        BY <1>4, <2>1, <3>1, <3>3 DEF ChangeIndexModel, View
    <2> QED
      BY <2>2, <2>3
  <1>5. CASE DeleteIndexMark(t)
    <2>1. ReqType' /\ Others(t) /\ pc'[t] = "drop" /\ seen'[t] = seen[t]
      BY <1>0, <1>5, GotoView DEF DeleteIndexMark
    <2>2. RowMarked(t)
      BY <1>5, <2>1 DEF DeleteIndexMark, UpdateRow, RowMarked, SameNames
    <2> QED
      BY <1>5, <2>1, <2>2 DEF DeleteIndexMark, View
  <1>6. CASE DeleteIndexDrop(t)
    <2>1. RowKept
      BY <1>6 DEF DeleteIndexDrop, RowKept, SameNames, rowVars
    <2>2. CASE Return(t) /\ UNCHANGED <<exists, content>>
      BY <1>6, <2>1, <2>2, ReturnView DEF DeleteIndexDrop, View, Quiet
    <2>3. CASE DropCollection(seen[t]) /\ Goto(t, "deleteRow")
      BY <1>0, <1>6, <2>1, <2>3, GotoView DEF DeleteIndexDrop, View, DroppedIndex, history
    <2> QED
      BY <1>6, <2>2, <2>3 DEF DeleteIndexDrop
  <1>7. CASE DeleteIndexRow(t)
    <2>1. ReqType' /\ Others(t) /\ pc'[t] = "idle"
      BY <1>7, ReturnView DEF DeleteIndexRow
    <2>2. CASE UNCHANGED <<row, orphaned>>
      BY <1>7, <2>1, <2>2 DEF DeleteIndexRow, View, Quiet, RowKept, SameNames, history
    <2>3. CASE ~UNCHANGED <<row, orphaned>>
      BY <1>7, <2>1, <2>3 DEF DeleteIndexRow, View, RowDeleted, SameNames
    <2> QED
      BY <1>7, <2>2, <2>3 DEF DeleteIndexRow
  <1> QED
    BY <1>1, <1>2, <1>3, <1>4, <1>5, <1>6, <1>7 DEF Request

-----------------------------------------------------------------------------
(***************************************************************************)
(* The beginning of a request, and the steps of the worker, likewise.      *)
(***************************************************************************)
Began(t) ==
    /\ ReqType' /\ Others(t)
    /\ row.status = "READY"
    /\ pc'[t] \in {"upsert", "search", "mark", "deleting"}
    /\ seen'[t] = row.phys
    /\ pc'[t] = "upsert" => key'[t] \in Keys
    /\ UNCHANGED <<rowVars, exists, content, wVars, history>>

(* A request begins at one of four places, with the row it read. *)
LEMMA BeginView ==
  ASSUME Base, NEW t \in Threads, NEW j \in jobs, NEW k \in Keys, NEW v \in Vals, Begin(t, j, k, v)
  PROVE  Began(t)
  <1>1. j \in AllJobs
    BY DEF Base, ReqType
  <1>2. First(j) \in {"upsert", "search", "mark", "deleting"}
    BY <1>1 DEF First, AllJobs
  <1>3. First(j) = "upsert" => j \in {"put", "delete"}
    BY <1>1 DEF First, AllJobs
  <1>4. row.phys \in Phys
    BY DEF Base, RowType, Row
  <1>5. ReqType'
    <2>1. /\ (IF j \in {"put", "delete"} THEN k ELSE None) \in Keys \cup {None}
          /\ (IF j = "put" THEN v ELSE None) \in Vals \cup {None}
      OBVIOUS
    <2>2. jobs' = jobs
      BY DEF Begin
    <2>3. /\ pc' \in [Threads -> Labels] /\ job' \in [Threads -> AllJobs \cup {"none"}]
          /\ seen' \in [Threads -> Phys \cup {0}]
      BY <1>1, <1>2, <1>4 DEF Base, ReqType, Begin, Labels
    <2>4. key' \in [Threads -> Keys \cup {None}] /\ val' \in [Threads -> Vals \cup {None}]
      BY <2>1 DEF Base, ReqType, Begin
    <2> QED
      BY <2>2, <2>3, <2>4 DEF Base, ReqType
  <1>6. Others(t) /\ pc'[t] = First(j) /\ seen'[t] = row.phys
    BY DEF Base, ReqType, Begin, Others
  <1>7. j \in {"put", "delete"} => key'[t] = k
    BY DEF Base, ReqType, Begin
  <1> QED
    BY <1>2, <1>3, <1>5, <1>6, <1>7 DEF Began, Begin, Refused

Listed ==
    /\ wpc = "wait" /\ wpc' = "load"
    /\ row.state = "UPGRADING" /\ row.status # "GONE"
    /\ wRow' \in Row /\ wRow'.phys = row.phys /\ wRow'.source = row.source /\ wRow'.target = row.target
    /\ UNCHANGED <<rowVars, exists, content, wTodo, failed>>

(* Steps from one label to the next, or to the failure. *)
Advanced ==
    /\ wpc \in Copying
    /\ \/ /\ <<wpc, wpc'>> \in {<<"load", "create">>, <<"check", "loadTarget">>, <<"loadTarget", "switch">>}
          /\ UNCHANGED <<exists, wTodo>>
       \/ wpc = "create" /\ wpc' = "scan" /\ exists' = exists \cup {wRow.target} /\ wTodo' = Keys
       \/ wpc = "scan" /\ wpc' = "check" /\ wTodo = {} /\ UNCHANGED <<exists, wTodo>>
       \/ wpc' = "fail" /\ exists' = exists /\ wTodo' = wTodo
       \/ wpc = "create" /\ wpc' = "fail" /\ exists' = exists \cup {wRow.target} /\ wTodo' = wTodo
    /\ UNCHANGED <<rowVars, content, wRow, failed>>

Switched ==
    /\ wpc = "switch" /\ wpc' = "drop"
    /\ row.phys = wRow.phys /\ row.status # "GONE"
    /\ row' \in Row /\ row'.status = row.status
    /\ row'.phys = wRow.target /\ row'.state = "" /\ row'.source = 0 /\ row'.target = 0
    /\ UNCHANGED <<nextP, exists, content, wRow, wTodo, failed>>

Replaced ==
    /\ wpc = "drop"
    /\ \/ wpc' = "wait" /\ DropCollection(wRow.source) /\ wRow' \in Row
       \/ wpc' = "fail" /\ UNCHANGED <<exists, content, wRow>>
    /\ UNCHANGED <<rowVars, wTodo, failed>>

RolledBack ==
    /\ wpc = "fail" /\ wpc' = "wait" /\ wRow' \in Row /\ wTodo' = {}
    /\ row' \in Row /\ row'.status = row.status /\ row'.phys = row.phys
    /\ \/ SameNames
       \/ row.status # "GONE" /\ row'.state = "" /\ row'.source = 0 /\ row'.target = 0
    /\ failed' = failed \cup {wRow.target}
    /\ UNCHANGED <<nextP, exists, content>>

WView ==
    /\ UNCHANGED <<reqVars, truth, stale, orphaned>>
    /\ \/ Listed \/ Advanced \/ (\E k \in Keys : CopyBatch(k)) \/ Switched \/ Replaced \/ RolledBack

(* The row of a fresh index is a row. *)
LEMMA NewRowType == NewRow \in Row
  BY DEF NewRow, Row, Phys

(* Every step of the worker is one of these. *)
LEMMA WorkerView == ASSUME Base, Worker PROVE WView
  <1> USE DEF Base, RowType, WType, WStep, WGoto, WView
  <1>1. CASE RunOnce
    <2>1. 0 \in Int
      OBVIOUS
    <2> QED
      BY <1>1, <2>1 DEF RunOnce, Listed, Row
  <1>2. CASE LoadSource \/ CheckCounts \/ LoadTarget \/ ScanEnds \/ CreateTarget
    BY <1>2 DEF LoadSource, CheckCounts, LoadTarget, ScanEnds, CreateTarget, Advanced, Copying
  <1>3. CASE \E k \in Keys : CopyBatch(k)
    BY <1>3 DEF CopyBatch
  <1>4. CASE SwitchCollectionPhysical
    <2>1. CASE wpc' = "fail"
      BY <1>4, <2>1 DEF SwitchCollectionPhysical, Advanced, Copying, rowVars
    <2>2. CASE wpc' # "fail"
      <3>1. /\ row.phys = wRow.phys /\ row.status # "GONE" /\ wpc = "switch" /\ wpc' = "drop"
            /\ row' = [row EXCEPT !.phys = wRow.target, !.state = "", !.source = 0, !.target = 0]
            /\ UNCHANGED <<nextP, exists, content, wRow, wTodo, failed, reqVars, truth, stale, orphaned>>
        BY <1>4, <2>2 DEF SwitchCollectionPhysical
      <3>2. wRow.target \in Phys
        BY <3>1 DEF Drawn, Migrating
      <3> QED
        BY <3>1, <3>2 DEF Switched, Row
    <2> QED
      BY <2>1, <2>2
  <1>5. CASE DropSource
    BY <1>5, NewRowType DEF DropSource, Replaced
  <1>6. CASE MigrationFails
    <2>1. row' = row \/ (row.status # "GONE" /\ row' = [row EXCEPT !.state = "", !.source = 0, !.target = 0])
      BY <1>6 DEF MigrationFails, UpdateRow
    <2>2. /\ row' \in Row /\ row'.status = row.status /\ row'.phys = row.phys
          /\ \/ SameNames
             \/ row.status # "GONE" /\ row'.state = "" /\ row'.source = 0 /\ row'.target = 0
      BY <2>1 DEF SameNames, Row
    <2> QED
      BY <1>6, <2>2, NewRowType DEF MigrationFails, RolledBack
  <1> QED
    BY <1>1, <1>2, <1>3, <1>4, <1>5, <1>6 DEF Worker

(* After a crash every request is gone, and so is the worker's attempt. *)
Restarted ==
    /\ ReqType' /\ \A t \in Threads : pc'[t] = "idle"
    /\ wpc' = "wait" /\ wRow' \in Row /\ wTodo' = {}
    /\ failed' = IF wpc = "wait" THEN failed ELSE failed \cup {wRow.target}
    /\ UNCHANGED <<rowVars, exists, content, truth, stale, orphaned>>

(* A step of the system is one of these. *)
LEMMA NextView ==
  ASSUME Base, [Next]_vars
  PROVE  \/ \E t \in Threads : Began(t) \/ View(t)
         \/ WView \/ Restarted \/ UNCHANGED vars
  <1>1. CASE Crash
    <2>1. ReqType'
      BY <1>1 DEF Crash, Base, ReqType, Labels
    <2> QED
      BY <1>1, <2>1, NewRowType DEF Crash, Restarted
  <1> QED
    BY <1>1, BeginView, RequestView, WorkerView DEF Next

-----------------------------------------------------------------------------
(* The initial states satisfy the base invariant. *)
LEMMA InitBase == Init => Base
  <1> SUFFICES ASSUME Init PROVE Base
    OBVIOUS
  <1>1. RowType /\ WType
    BY NewRowType DEF Init, RowType, WType, WLabels
  <1>2. Empty \in Vectors
    BY DEF Empty, Vectors
  <1>3. CollType
    <2>1. exists \subseteq Phys
      BY DEF Init, Phys
    <2> QED
      BY <1>2, <2>1 DEF Init, CollType
  <1>4. ReqType
    BY DEF Init, ReqType, Labels
  <1>5. Drawn
    <2>1. /\ row.phys = 1 /\ row.state = "" /\ row.source = 0 /\ row.target = 0 /\ nextP = 2
          /\ wpc = "wait" /\ \A t \in Threads : pc[t] = "idle"
      BY DEF Init, NewRow
    <2>2. \A p \in Phys : p >= nextP => p \notin exists /\ p \notin failed
      <3>1. exists = {1} /\ failed = {} /\ nextP = 2
        BY DEF Init
      <3> QED
        BY <3>1 DEF Phys
    <2>3. \A p \in Phys : content[p] = Empty
      BY DEF Init
    <2>4. 1 < 2 /\ "" # "UPGRADING"
      OBVIOUS
    <2>5. row.phys < nextP
      BY <2>1, <2>4, Zenon
    <2> QED
      BY <2>1, <2>2, <2>3, <2>4, <2>5, Zenon DEF Drawn
  <1> QED
    BY <1>1, <1>3, <1>4, <1>5 DEF Base

(* What was drawn is none of the names to come. *)
LEMMA DrawnBefore ==
  ASSUME NEW n \in Int, NEW q \in Phys, q < n
  PROVE  \A p \in Phys : p >= n => p # q
  BY DEF Phys

(* The next name is a number. *)
LEMMA NextName == ASSUME RowType PROVE nextP \in Int
  BY DEF RowType

(* Writing one vector, and dropping a collection, leave well-typed contents. *)
LEMMA ContentTypes ==
  ASSUME CollType, NEW p \in Phys, NEW k \in Keys, NEW v \in Vals \cup {None}
  PROVE  /\ [content EXCEPT ![p][k] = v] \in [Phys -> Vectors]
         /\ [content EXCEPT ![p] = Empty] \in [Phys -> Vectors]
         /\ [truth EXCEPT ![k] = v] \in Vectors
  BY DEF CollType, Vectors, Empty

(* A dropped collection is empty, whatever keys there are. *)
LEMMA DropTypes ==
  ASSUME CollType, NEW p \in Phys
  PROVE  [content EXCEPT ![p] = Empty] \in [Phys -> Vectors]
  BY DEF CollType, Vectors, Empty

(* A step of a request preserves the base invariant. *)
LEMMA ViewBase == ASSUME Base, NEW t \in Threads, View(t) PROVE Base'
  <1> USE DEF Base, View
  <1>1. /\ ReqType' /\ WType' /\ wpc' = wpc /\ wRow' = wRow
    BY DEF WType, wVars
  <1>2. RowType' /\ nextP' \in {nextP, nextP + 1} /\ nextP \in Int
    BY DEF RowType, RowKept, RowCounted, RowUpgraded, RowMarked, RowDeleted, Quiet, Wrote, DroppedIndex, Phys
  <1>3. CollType'
    <2>1. CASE Wrote(t)
      BY <2>1, ContentTypes DEF Wrote, CollType, Drawn, ReqType, RowMoved
    <2>2. CASE DroppedIndex(t)
      BY <2>2, DropTypes DEF DroppedIndex, DropCollection, CollType, Drawn, history
    <2>3. CASE RowDeleted(t)
      <3>1. row.phys \in Phys
        BY DEF RowType, Row
      <3> QED
        BY <2>3, <3>1 DEF RowDeleted, CollType
    <2>4. CASE Quiet(t) \/ RowCounted(t) \/ RowUpgraded(t) \/ RowMarked(t)
      BY <2>4 DEF Quiet, RowCounted, RowUpgraded, RowMarked, CollType, history, RowMoved
    <2> QED
      BY <2>1, <2>2, <2>3, <2>4
  <1>4. Drawn'
    <2>1. \A r \in Row : Migrating(r) => r.target < nextP'
      BY <1>2 DEF Migrating, Phys
    <2>2. \A u \in Threads : pc'[u] # "idle" => pc[u] # "idle" /\ seen'[u] = seen[u]
      BY DEF Others, Quiet, RowCounted, RowUpgraded, RowMarked, RowDeleted, Wrote, DroppedIndex
    <2>3. \A u \in Threads : pc'[u] = "upsert" => pc[u] = "upsert" /\ key'[u] = key[u]
      BY DEF Others, Quiet, RowCounted, RowUpgraded, RowMarked, RowDeleted, Wrote, DroppedIndex
    <2>4. \A p \in Phys : p >= nextP' => p >= nextP
      BY <1>2 DEF Phys
    <2>5. \A p \in Phys : p < nextP => p < nextP'
      BY <1>2 DEF Phys
    <2>6. row'.phys < nextP'
      BY <2>5 DEF Drawn, RowType, Row, RowKept, RowCounted, RowUpgraded, RowMarked, RowDeleted, Quiet,
                  Wrote, DroppedIndex, SameNames
    <2>7. /\ row'.state = "" => row'.source = 0 /\ row'.target = 0
          /\ row'.state = "UPGRADING" => Migrating(row)'
      <3>1. CASE SameNames
        BY <2>5, <3>1 DEF SameNames, Drawn, Migrating
      <3>2. CASE ~SameNames
        <4>1. RowUpgraded(t)
          BY <3>2 DEF RowKept, RowCounted, RowMarked, RowDeleted, Quiet, Wrote, DroppedIndex
        <4>2. row' # row
          BY <3>2 DEF SameNames
        <4>3. /\ row'.state = "UPGRADING" /\ row'.source = seen[t] /\ row'.target = nextP
              /\ nextP \in Phys /\ nextP' = nextP + 1 /\ pc[t] = "mark"
          BY <4>1, <4>2 DEF RowUpgraded
        <4>4. seen[t] \in Phys /\ seen[t] < nextP
          BY <4>3 DEF Drawn
        <4>5. nextP < nextP'
          BY <1>2, <4>3
        <4> QED
          BY <4>3, <4>4, <4>5 DEF Migrating
      <3> QED
        BY <3>1, <3>2
    <2>8. wpc' # "wait" => Migrating(wRow)'
      BY <1>1, <2>5 DEF Drawn, Migrating
    <2>9. \A p \in Phys : p >= nextP' => p \notin exists' /\ p \notin failed' /\ content'[p] = Empty
      <3>1. CASE Wrote(t)
        BY <2>4, <3>1 DEF Wrote, Drawn, CollType
      <3>2. CASE DroppedIndex(t)
        BY <2>4, <3>2 DEF DroppedIndex, DropCollection, Drawn, CollType, history
      <3>3. CASE ~Wrote(t) /\ ~DroppedIndex(t)
        BY <2>4, <3>3 DEF Quiet, RowCounted, RowUpgraded, RowMarked, RowDeleted, Drawn, history
      <3> QED
        BY <3>1, <3>2, <3>3
    <2> QED
      BY <2>2, <2>3, <2>5, <2>6, <2>7, <2>8, <2>9 DEF Drawn
  <1> QED
    BY <1>1, <1>2, <1>3, <1>4

(* So does a step of the worker. *)
LEMMA WorkerBase == ASSUME Base, WView PROVE Base'
  <1> USE DEF Base, WView
  <1>1. ReqType'
    BY DEF ReqType, reqVars
  <1>2. wpc # "wait" => wRow.target \in Phys /\ wRow.source \in Phys /\ wRow.target < nextP
    BY DEF Drawn, Migrating
  <1>3. /\ UNCHANGED <<pc, seen, key, nextP>>
    BY DEF reqVars, rowVars, Listed, Advanced, CopyBatch, Switched, Replaced, RolledBack
  <1>4. CASE Listed
    <2>1. RowType' /\ WType'
      BY <1>4 DEF Listed, RowType, WType, WLabels, rowVars
    <2>2. CollType'
      BY <1>4 DEF Listed, CollType
    <2>3. Drawn'
      BY <1>3, <1>4 DEF Listed, Drawn, Migrating, rowVars
    <2> QED
      BY <1>1, <2>1, <2>2, <2>3
  <1>5. CASE Advanced
    <2>1. RowType' /\ WType'
      BY <1>5 DEF Advanced, RowType, WType, WLabels, rowVars, Copying
    <2>2. wpc # "wait"
      BY <1>5 DEF Advanced, Copying
    <2>3. CollType'
      BY <1>2, <1>5, <2>2 DEF Advanced, CollType
    <2>4. \A p \in Phys : p >= nextP => p \notin exists'
      <3>1. \A p \in Phys : p >= nextP => p # wRow.target
        BY <1>2, <2>2, NextName, DrawnBefore, Zenon DEF Base
      <3> QED
        BY <1>5, <3>1 DEF Advanced, Drawn
    <2>5. Drawn'
      BY <1>3, <1>5, <2>2, <2>4 DEF Advanced, Drawn, Migrating, rowVars
    <2> QED
      BY <1>1, <2>1, <2>3, <2>5
  <1>6. CASE \E k \in Keys : CopyBatch(k)
    <2>1. PICK k \in Keys : CopyBatch(k)
      BY <1>6
    <2>2. /\ wpc = "scan" /\ wTodo' = wTodo \ {k}
          /\ content' = content \/ content' = [content EXCEPT ![wRow.target][k] = content[wRow.source][k]]
          /\ UNCHANGED <<rowVars, exists, wpc, wRow, failed>>
      BY <2>1 DEF CopyBatch, WStep
    <2>3. content[wRow.source][k] \in Vals \cup {None}
      BY <1>2, <2>2 DEF CollType, Vectors
    <2>4. RowType' /\ WType'
      BY <2>2 DEF RowType, WType, rowVars
    <2>5. CollType'
      <3>1. content' \in [Phys -> Vectors]
        <4>1. wRow.target \in Phys
          BY <1>2, <2>2
        <4>2. [content EXCEPT ![wRow.target][k] = content[wRow.source][k]] \in [Phys -> Vectors]
          BY <2>3, <4>1, ContentTypes
        <4> QED
          BY <2>2, <4>2 DEF CollType
      <3> QED
        BY <2>2, <3>1 DEF CollType
    <2>6. \A p \in Phys : p >= nextP => content'[p] = content[p]
      BY <1>2, <2>2 DEF CollType, RowType, Phys
    <2>7. Drawn'
      BY <1>3, <2>2, <2>6 DEF Drawn, Migrating, rowVars
    <2> QED
      BY <1>1, <2>4, <2>5, <2>7
  <1>7. CASE Switched
    <2>1. RowType' /\ WType'
      BY <1>7 DEF Switched, RowType, WType, WLabels
    <2>2. CollType'
      BY <1>7 DEF Switched, CollType
    <2>3. Drawn'
      BY <1>2, <1>3, <1>7 DEF Switched, Drawn, Migrating
    <2> QED
      BY <1>1, <2>1, <2>2, <2>3
  <1>8. CASE Replaced
    <2>1. RowType' /\ WType'
      BY <1>8 DEF Replaced, RowType, WType, WLabels, rowVars
    <2>2. CollType'
      BY <1>2, <1>8, DropTypes DEF Replaced, DropCollection, CollType
    <2>3. \A p \in Phys : p >= nextP => p \notin exists' /\ content'[p] = Empty
      BY <1>2, <1>8 DEF Replaced, DropCollection, CollType, Drawn
    <2>4. Drawn'
      BY <1>3, <1>8, <2>3 DEF Replaced, Drawn, Migrating, rowVars
    <2> QED
      BY <1>1, <2>1, <2>2, <2>4
  <1>9. CASE RolledBack
    <2>1. RowType' /\ WType'
      BY <1>9 DEF RolledBack, RowType, WType, WLabels
    <2>2. CollType'
      BY <1>2, <1>9 DEF RolledBack, CollType
    <2>3. \A p \in Phys : p >= nextP => p \notin failed'
      <3>1. \A p \in Phys : p >= nextP => p # wRow.target
        BY <1>2, <1>9, NextName, DrawnBefore, Zenon DEF RolledBack
      <3> QED
        BY <1>9, <3>1 DEF RolledBack, Drawn
    <2>4. Drawn'
      BY <1>3, <1>9, <2>3 DEF RolledBack, SameNames, Drawn, Migrating
    <2> QED
      BY <1>1, <2>1, <2>2, <2>4
  <1> QED
    BY <1>4, <1>5, <1>6, <1>7, <1>8, <1>9

(* So does every step. *)
LEMMA NextBase == Base /\ [Next]_vars => Base'
  <1> SUFFICES ASSUME Base, [Next]_vars PROVE Base'
    OBVIOUS
  <1>1. ASSUME NEW t \in Threads, Began(t) PROVE Base'
    <2> USE <1>1 DEF Began, Base
    <2>1. RowType' /\ CollType' /\ WType'
      BY DEF RowType, CollType, WType, rowVars, wVars, history
    <2>2. Drawn'
      BY DEF Drawn, Migrating, Others, RowType, Row, rowVars, wVars, history
    <2> QED
      BY <2>1, <2>2
  <1>2. CASE Restarted
    <2> USE <1>2 DEF Restarted, Base
    <2>1. wpc # "wait" => wRow.target \in Phys /\ wRow.target < nextP
      BY DEF Drawn, Migrating
    <2>2. RowType' /\ WType'
      BY DEF RowType, WType, WLabels, rowVars
    <2>3. CollType'
      BY <2>1 DEF CollType
    <2>4. \A p \in Phys : p >= nextP => p \notin failed'
      <3>1. CASE wpc = "wait"
        BY <3>1 DEF Drawn
      <3>2. CASE wpc # "wait"
        <4>1. \A p \in Phys : p >= nextP => p # wRow.target
          BY <2>1, <3>2, NextName, DrawnBefore, Zenon
        <4> QED
          BY <3>2, <4>1 DEF Drawn
      <3> QED
        BY <3>1, <3>2
    <2>5. Drawn'
      BY <2>4 DEF Drawn, Migrating, rowVars
    <2> QED
      BY <2>2, <2>3, <2>5
  <1>3. CASE UNCHANGED vars
    <2> USE <1>3 DEF vars, rowVars, reqVars, wVars, history
    <2>1. RowType' /\ CollType' /\ ReqType' /\ WType'
      BY DEF Base, RowType, CollType, ReqType, WType
    <2>2. Drawn'
      BY DEF Base, Drawn, Migrating
    <2> QED
      BY <2>1, <2>2 DEF Base
  <1> QED
    BY <1>1, <1>2, <1>3, NextView, ViewBase, WorkerBase

(* Rows, collections and requests are well typed and names used in the order they are drawn. *)
LEMMA BaseHolds == Spec => []Base
  BY InitBase, NextBase, PTL DEF Spec

(***************************************************************************)
(* The row, the collections, the requests and the worker stay well typed:  *)
(* no request and no migration uses a collection name that was not drawn,  *)
(* whatever fails.                                                         *)
(***************************************************************************)
THEOREM TypeCorrect == Spec => []TypeOK
  <1>1. Base => TypeOK
    BY DEF Base, RowType, CollType, ReqType, WType, TypeOK
  <1> QED
    BY <1>1, BaseHolds, PTL

-----------------------------------------------------------------------------
(* The switched row and the source it leaves are different collections. *)
LEMMA SourceIsNotTarget == ASSUME Base, wpc # "wait" PROVE wRow.source # wRow.target
  <1>1. \A p, q \in Phys : p < q => p # q
    BY DEF Phys
  <1> QED
    BY <1>1, Zenon DEF Base, Drawn, Migrating

(* The migration of the row has different ones too. *)
LEMMA RowSourceIsNotTarget ==
  ASSUME Base, row.state = "UPGRADING" PROVE row.source # row.target
  <1>1. \A p, q \in Phys : p < q => p # q
    BY DEF Phys
  <1> QED
    BY <1>1, Zenon DEF Base, Drawn, Migrating

(***************************************************************************)
(* What must exist does, after every step, as long as the DELETING update  *)
(* is not lost.                                                            *)
(***************************************************************************)
LEMMA NextHeld ==
  ASSUME "mark" \notin Faults, Base, Held, [Next]_vars
  PROVE  Held'
  <1> USE DEF Held, CurrentExists
  <1>1. ASSUME NEW t \in Threads, Began(t) PROVE Held'
    BY <1>1 DEF Began, Others, rowVars, wVars
  <1>2. ASSUME NEW t \in Threads, View(t) PROVE Held'
    <2> USE <1>2 DEF View
    <2>1. UNCHANGED <<wpc, wRow>>
      BY DEF wVars
    <2>2. row'.phys = row.phys /\ (row'.status = "READY" => row.status = "READY")
      BY DEF RowKept, RowCounted, RowUpgraded, RowMarked, RowDeleted, Quiet, Wrote, DroppedIndex, SameNames
    <2>3. \A u \in Threads : pc'[u] \in {"drop", "deleteRow"} => row'.status # "READY"
      BY <2>2 DEF Others, RowKept, RowCounted, RowUpgraded, RowMarked, RowDeleted, Quiet, Wrote, DroppedIndex
    <2>4. row'.status = "READY" => exists' = exists
      BY <2>2 DEF DroppedIndex, RowKept, Wrote, Quiet, RowCounted, RowUpgraded, RowMarked, RowDeleted
    <2> QED
      BY <2>1, <2>2, <2>3, <2>4
  <1>3. CASE WView
    <2> USE <1>3 DEF WView, reqVars
    <2>1. CASE Listed
      BY <2>1 DEF Listed, rowVars
    <2>2. CASE Advanced
      BY <2>2 DEF Advanced, rowVars, Copying
    <2>3. CASE \E k \in Keys : CopyBatch(k)
      BY <2>3 DEF CopyBatch, rowVars, WStep
    <2>4. CASE Switched
      BY <2>4 DEF Switched
    <2>5. CASE Replaced
      BY <2>5, SourceIsNotTarget DEF Replaced, DropCollection, rowVars
    <2>6. CASE RolledBack
      BY <2>6 DEF RolledBack
    <2> QED
      BY <2>1, <2>2, <2>3, <2>4, <2>5, <2>6
  <1>4. CASE Restarted
    BY <1>4 DEF Restarted, rowVars
  <1>5. CASE UNCHANGED vars
    BY <1>5 DEF vars, rowVars, reqVars, wVars
  <1> QED
    BY <1>1, <1>2, <1>3, <1>4, <1>5, NextView

-----------------------------------------------------------------------------
(* Nobody can take back that a write or change acted on a row that had moved. *)
LEMMA StaleForever == ASSUME Base, [Next]_vars, stale PROVE stale'
  <1> USE DEF history
  <1>1. ASSUME NEW t \in Threads, Began(t) \/ View(t) PROVE stale'
    BY <1>1 DEF Began, View, Quiet, Wrote, DroppedIndex, RowCounted, RowUpgraded, RowMarked, RowDeleted
  <1> QED
    BY <1>1, NextView DEF WView, Restarted, vars

(* A step of a request keeps the link between rows, worker and collections. *)
LEMMA ViewLink ==
  ASSUME "mark" \notin Faults, Base, Held, Link, NEW t \in Threads, View(t), ~stale'
  PROVE  Link'
  <1> USE DEF Link, View
  <1>1. UNCHANGED <<wpc, wRow>>
    BY DEF wVars
  <1>2. CASE Quiet(t) \/ RowCounted(t) \/ Wrote(t)
    <2>1. /\ UNCHANGED <<exists, failed, orphaned>> /\ SameNames /\ row'.status = row.status
          /\ pc'[t] # "deleteRow" /\ (pc'[t] # "idle" => pc[t] # "idle" /\ seen'[t] = seen[t])
      BY <1>2 DEF Quiet, RowCounted, Wrote, RowKept, history
    <2> QED
      BY <1>1, <2>1 DEF SameNames, Others, AfterSwitch
  <1>3. CASE DroppedIndex(t)
    <2>1. exists' = exists \ {seen[t]} /\ RowKept /\ pc'[t] = "deleteRow" /\ seen'[t] = seen[t]
          /\ pc[t] = "drop" /\ UNCHANGED history
      BY <1>3 DEF DroppedIndex, DropCollection
    <2> QED
      BY <1>1, <2>1 DEF RowKept, SameNames, Others, AfterSwitch, history
  <1>4. CASE RowUpgraded(t)
    <2>1. ~RowMoved(t)
      BY <1>4 DEF RowUpgraded
    <2>2. /\ row.state = "" /\ row.phys = seen[t] /\ row.status = "READY" /\ exists' = exists
          /\ row'.phys = row.phys /\ row'.status = row.status /\ row'.state = "UPGRADING"
          /\ row'.source = seen[t] /\ row'.target = nextP /\ nextP \in Phys /\ pc'[t] = "idle"
      BY <1>4, <2>1 DEF RowMoved, RowUpgraded
    <2>3. nextP \notin exists
      <3>1. nextP >= nextP
        BY NextName DEF Base
      <3> QED
        BY <2>2, <3>1 DEF Base, Drawn
    <2>4. wpc \notin Copying
      BY <2>2
    <2>5. wpc = "fail" => row.phys = wRow.target
      BY <2>2
    <2> QED
      BY <1>1, <2>2, <2>3, <2>4, <2>5 DEF Others, AfterSwitch
  <1>5. CASE RowMarked(t)
    <2>1. /\ SameNames /\ pc[t] = "deleting" /\ pc'[t] = "drop" /\ seen'[t] = seen[t]
          /\ UNCHANGED <<exists, history>> /\ (row'.status = "GONE" => row.status = "GONE")
      BY <1>5 DEF RowMarked
    <2> QED
      BY <1>1, <2>1 DEF SameNames, Others, AfterSwitch, history
  <1>6. CASE RowDeleted(t)
    <2>1. /\ exists' = exists /\ failed' = failed /\ SameNames /\ pc'[t] = "idle"
          /\ orphaned \subseteq orphaned' /\ (row.phys = seen[t] \/ row.phys \in orphaned')
          /\ seen[t] \notin exists
      BY <1>6 DEF RowDeleted
    <2> QED
      BY <1>1, <2>1 DEF SameNames, Others, AfterSwitch
  <1> QED
    BY <1>2, <1>3, <1>4, <1>5, <1>6

(* So does a step of the worker: no request has read a newer name than the row's. *)
LEMMA WorkerLink ==
  ASSUME Base, Held, Link, WView
  PROVE  Link'
  <1> USE DEF Link, WView, reqVars
  <1>0. row.phys \in Int /\ \A u \in Threads : pc[u] # "idle" => seen[u] \in Int
    <2>1. row.phys \in Phys /\ \A u \in Threads : pc[u] # "idle" => seen[u] \in Phys
      BY DEF Base, RowType, Row, Drawn
    <2> QED
      BY <2>1 DEF Phys
  <1>1. CASE Listed
    BY <1>1 DEF Listed, rowVars, Copying, AfterSwitch
  <1>2. CASE Advanced
    <2>1. /\ row.state = "UPGRADING" /\ wRow.phys = row.phys /\ wRow.source = row.source
          /\ wRow.target = row.target /\ row.source = row.phys
      BY <1>2 DEF Advanced
    <2>2. wRow.target \in Int /\ row.phys < wRow.target
      BY <2>1 DEF Base, Drawn, Migrating, Phys
    <2>3. /\ wpc' \in Copying \cup {"fail"} /\ wpc' # "wait" /\ UNCHANGED <<rowVars, wRow, failed, orphaned>>
          /\ exists' \in {exists, exists \cup {wRow.target}}
      BY <1>2 DEF Advanced, Copying
    <2>4. \A u \in Threads : pc[u] # "idle" => seen[u] # wRow.target
      BY <1>0, <2>2
    <2>5. ~AfterSwitch'
      BY <1>0, <2>2, <2>3 DEF AfterSwitch, Copying, rowVars
    <2>6. row.phys # wRow.target
      BY <1>0, <2>2
    <2>7. \A u \in Threads : pc[u] = "deleteRow" => seen[u] \notin exists'
      BY <2>3, <2>4
    <2> QED
      BY <2>1, <2>3, <2>5, <2>6, <2>7 DEF rowVars
  <1>3. CASE \E k \in Keys : CopyBatch(k)
    BY <1>3 DEF CopyBatch, WStep, rowVars, AfterSwitch
  <1>4. CASE Switched
    <2>1. row.phys = wRow.source /\ wRow.target \in Phys /\ wRow.source < wRow.target
      BY <1>4 DEF Switched, Copying, Base, Drawn, Migrating
    <2>2. \A u \in Threads : pc[u] # "idle" => seen[u] <= wRow.target
      BY <1>0, <2>1 DEF Phys
    <2>3. /\ row'.phys = wRow.target /\ row'.state = "" /\ row'.status # "GONE" /\ wpc' = "drop"
          /\ UNCHANGED <<exists, pc, seen>>
      BY <1>4 DEF Switched
    <2> QED
      BY <2>2, <2>3 DEF Copying, AfterSwitch
  <1>5. CASE Replaced
    BY <1>5 DEF Replaced, DropCollection, rowVars, Copying, AfterSwitch, Held
  <1>6. CASE RolledBack
    BY <1>6 DEF RolledBack, SameNames, Copying, AfterSwitch
  <1> QED
    BY <1>1, <1>2, <1>3, <1>4, <1>5, <1>6

(* A step of a request keeps the vectors where they belong. *)
LEMMA ViewData ==
  ASSUME Base, Held, Link, Data, NEW t \in Threads, View(t), ~stale'
  PROVE  Data'
  <1> USE DEF View
  <1> SUFFICES ASSUME row'.status = "READY"
               PROVE  Data'
    BY DEF Data
  <1>1. UNCHANGED <<wpc, wRow, wTodo>>
    BY DEF wVars
  <1>2. row.status = "READY"
    BY DEF RowKept, RowCounted, RowUpgraded, RowMarked, RowDeleted, Quiet, Wrote, DroppedIndex
  <1>3. CASE Quiet(t) \/ RowCounted(t) \/ RowMarked(t) \/ RowDeleted(t)
    BY <1>1, <1>2, <1>3 DEF Data, Quiet, RowCounted, RowMarked, RowDeleted, RowKept, SameNames, history
  <1>4. CASE Wrote(t)
    <2>1. /\ row.state = "" /\ row.phys = seen[t] /\ RowKept
          /\ content' = [content EXCEPT ![seen[t]][key[t]] = val[t]]
          /\ truth' = [truth EXCEPT ![key[t]] = val[t]]
      BY <1>4 DEF Wrote, RowMoved
    <2>2. wpc \notin Copying
      BY <2>1 DEF Link
    <2>3. row.phys \in Phys /\ content[row.phys] = truth
      BY <1>2 DEF Base, RowType, Row, Data
    <2>4. content'[row.phys] = truth'
      BY <2>1, <2>3 DEF Base, CollType
    <2> QED
      BY <1>1, <2>1, <2>2, <2>4 DEF Data, RowKept, SameNames, Copying
  <1>5. CASE DroppedIndex(t)
    BY <1>2, <1>5 DEF DroppedIndex, Held
  <1>6. CASE RowUpgraded(t)
    <2>1. ~RowMoved(t)
      BY <1>6 DEF RowUpgraded
    <2>2. /\ row.state = "" /\ row'.phys = row.phys /\ row'.target = nextP /\ nextP \in Phys
          /\ content' = content /\ truth' = truth
      BY <1>6, <2>1 DEF RowMoved, RowUpgraded
    <2>3. content[nextP] = Empty
      <3>1. nextP >= nextP
        BY NextName DEF Base
      <3> QED
        BY <2>2, <3>1 DEF Base, Drawn
    <2>4. \A k \in Keys : content'[row'.target][k] = None
      BY <2>2, <2>3 DEF Empty
    <2>5. wpc \notin Copying
      BY <2>2 DEF Link
    <2> QED
      BY <1>1, <1>2, <2>2, <2>4, <2>5 DEF Data, Copying
  <1> QED
    BY <1>3, <1>4, <1>5, <1>6

(* So does a step of the worker. *)
LEMMA WorkerData ==
  ASSUME Base, Held, Link, Data, WView
  PROVE  Data'
  <1> USE DEF WView
  <1> SUFFICES ASSUME row'.status = "READY"
               PROVE  Data'
    BY DEF Data
  <1>1. row.status = "READY" /\ truth' = truth
    BY DEF rowVars, Listed, Advanced, CopyBatch, Switched, Replaced, RolledBack
  <1>2. CASE Listed
    BY <1>1, <1>2 DEF Listed, Data, rowVars
  <1>3. CASE Advanced
    BY <1>1, <1>3 DEF Advanced, Data, rowVars, Copying
  <1>4. CASE \E k \in Keys : CopyBatch(k)
    <2>1. PICK k \in Keys : CopyBatch(k)
      BY <1>4
    <2>2. /\ wpc = "scan" /\ UNCHANGED <<wpc, wRow, row>> /\ wTodo' = wTodo \ {k}
          /\ content' = IF content[wRow.source][k] = None THEN content
                        ELSE [content EXCEPT ![wRow.target][k] = content[wRow.source][k]]
      BY <2>1 DEF CopyBatch, WStep, rowVars
    <2>3. /\ row.state = "UPGRADING" /\ wRow.source = row.source /\ wRow.target = row.target
          /\ row.source = row.phys /\ row.source \in Phys /\ row.target \in Phys
      BY <2>2 DEF Link, Copying, Base, Drawn, Migrating
    <2>4. row.source # row.target
      BY <2>3, RowSourceIsNotTarget
    <2>5. content'[row.phys] = content[row.phys] /\ content'[row.source] = content[row.source]
      BY <2>2, <2>3, <2>4 DEF Base, CollType
    <2>6. \A x \in Keys : x # k => content'[row.target][x] = content[row.target][x]
      BY <2>2, <2>3 DEF Base, CollType, Vectors
    <2>7. content[row.target][k] \in {None, content[row.source][k]}
      BY <1>1, <2>3 DEF Data
    <2>8. content'[row.target][k] = content[row.source][k]
      <3>1. CASE content[wRow.source][k] = None
        BY <2>2, <2>3, <2>7, <3>1
      <3>2. CASE content[wRow.source][k] # None
        BY <2>2, <2>3, <3>2 DEF Base, CollType, Vectors
      <3> QED
        BY <3>1, <3>2
    <2> QED
      BY <1>1, <2>2, <2>3, <2>5, <2>6, <2>8 DEF Data
  <1>5. CASE Switched
    <2>1. /\ wRow.source = row.source /\ row.source = row.phys
          /\ wRow.source \in Phys /\ wRow.target \in Phys
      BY <1>5 DEF Switched, Link, Copying, Base, Drawn, Migrating
    <2>2. \A k \in Keys : content[wRow.target][k] = content[wRow.source][k]
      BY <1>1, <1>5 DEF Switched, Data
    <2>3. content[wRow.target] = content[wRow.source]
      BY <2>1, <2>2 DEF Base, CollType, Vectors
    <2> QED
      BY <1>1, <1>5, <2>1, <2>3 DEF Switched, Data
  <1>6. CASE Replaced
    <2>1. /\ row.phys = wRow.target /\ wRow.source # row.phys /\ row.phys \in Phys
          /\ wRow.source \in Phys /\ wRow.source < row.phys
      BY <1>6, SourceIsNotTarget DEF Replaced, Held, Base, Drawn, Migrating
    <2>2. \A p \in Phys : p # wRow.source => content'[p] = content[p]
      BY <1>6 DEF Replaced, DropCollection, Base, CollType
    <2>3. row.state = "UPGRADING" =>
            /\ row.source = row.phys /\ row.target \in Phys /\ row.target # wRow.source
      <3> SUFFICES ASSUME row.state = "UPGRADING"
                   PROVE  row.source = row.phys /\ row.target \in Phys /\ row.target # wRow.source
        OBVIOUS
      <3>1. row.source = row.phys /\ row.target \in Phys /\ row.phys < row.target
        BY DEF Link, Base, Drawn, Migrating
      <3>2. \A p, q, r \in Phys : p < q /\ q < r => p # r
        BY DEF Phys
      <3> QED
        BY <2>1, <3>1, <3>2, Zenon
    <2> QED
      BY <1>1, <1>6, <2>1, <2>2, <2>3 DEF Replaced, Data, rowVars
  <1>7. CASE RolledBack
    BY <1>1, <1>7 DEF RolledBack, SameNames, Data
  <1> QED
    BY <1>2, <1>3, <1>4, <1>5, <1>6, <1>7

(* Every step keeps rows, worker and vectors together, until a write or change acts on a moved row. *)
LEMMA NextFaithful ==
  ASSUME "mark" \notin Faults, Base, Held, Faithful, [Next]_vars
  PROVE  Faithful'
  <1> SUFFICES ASSUME ~stale' PROVE Link' /\ Data'
    BY DEF Faithful
  <1>0. ~stale /\ Link /\ Data
    BY StaleForever DEF Faithful
  <1>1. ASSUME NEW t \in Threads, Began(t) PROVE Link' /\ Data'
    <2> USE <1>0, <1>1 DEF Began, rowVars, wVars, history
    <2>0. row.phys <= row.phys
      <3>1. row.phys \in Phys
        BY DEF Base, RowType, Row
      <3>2. \A p \in Phys : p <= p
        BY DEF Phys
      <3> QED
        BY <3>1, <3>2, Zenon
    <2>1. Link'
      BY <2>0 DEF Link, Others, AfterSwitch
    <2>2. Data'
      BY DEF Data
    <2> QED
      BY <2>1, <2>2
  <1>2. CASE Restarted
    <2> USE <1>0, <1>2 DEF Restarted, rowVars
    <2>1. Link'
      BY DEF Link, AfterSwitch, Copying
    <2>2. Data'
      BY DEF Data
    <2> QED
      BY <2>1, <2>2
  <1>3. CASE UNCHANGED vars
    BY <1>0, <1>3 DEF vars, rowVars, reqVars, wVars, history, Link, Data, AfterSwitch
  <1> QED
    BY <1>0, <1>1, <1>2, <1>3, NextView, ViewLink, ViewData, WorkerLink, WorkerData

(* The initial states have them together. *)
LEMMA InitFaithful == Init => Held /\ Faithful
  <1> SUFFICES ASSUME Init PROVE Held /\ Faithful
    OBVIOUS
  <1>1. /\ row.phys = 1 /\ exists = {1} /\ row.state = "" /\ row.status = "READY" /\ wpc = "wait"
        /\ \A t \in Threads : pc[t] = "idle"
      BY DEF Init, NewRow
  <1>2. CurrentExists
    BY <1>1, Zenon DEF CurrentExists
  <1>3. content[row.phys] = truth
    <2>1. 1 \in Phys
      BY DEF Phys
    <2>2. content[1] = truth
      BY <2>1 DEF Init
    <2> QED
      BY <1>1, <2>2, Zenon
  <1> QED
    BY <1>1, <1>2, <1>3 DEF Held, Faithful, Link, Data, Copying, AfterSwitch

(* Both hold, as long as the DELETING update is not lost. *)
LEMMA FaithfulHolds ==
  ASSUME "mark" \notin Faults
  PROVE  Spec => []Held /\ []Faithful
  <1>1. Base /\ Held /\ Faithful /\ [Next]_vars => Held' /\ Faithful'
    BY NextHeld, NextFaithful
  <1> QED
    BY <1>1, InitFaithful, BaseHolds, PTL DEF Spec

(***************************************************************************)
(* The collection a ready row names exists, whatever fails and wherever    *)
(* the gateway stops, even when requests act on rows that have moved, as   *)
(* long as the DELETING update, whose error is ignored, does not fail.     *)
(***************************************************************************)
THEOREM CurrentCollection ==
  ASSUME "mark" \notin Faults
  PROVE  Spec => []CurrentExists
  <1>1. Held => CurrentExists
    BY DEF Held
  <1> QED
    BY <1>1, FaithfulHolds, PTL

(***************************************************************************)
(* Any number of migrations, failed and restarted ones included, leaves    *)
(* the current collection with exactly the vectors written, as long as no  *)
(* write or change acts on a row that moved since it was read: the source  *)
(* does not change while it is copied, and the target holds nothing else.  *)
(***************************************************************************)
THEOREM DataPreserved ==
  ASSUME "mark" \notin Faults
  PROVE  Spec => []SwitchPreservesData
  <1>1. Faithful => SwitchPreservesData
    BY DEF Faithful, Data, SwitchPreservesData
  <1> QED
    BY <1>1, FaithfulHolds, PTL

(***************************************************************************)
(* A ready row in migration, at whatever point the gateway stopped, names  *)
(* a source that is the current collection and exists, and a target that   *)
(* holds a part of its vectors and no other: the worker may begin again.   *)
(***************************************************************************)
THEOREM Resumable ==
  ASSUME "mark" \notin Faults
  PROVE  Spec => []MigrationResumable
  <1>1. Held /\ Faithful => MigrationResumable
    <2> SUFFICES ASSUME Held, Faithful, ~stale, row.state = "UPGRADING", row.status = "READY"
                 PROVE  /\ row.source = row.phys /\ row.source \in exists
                        /\ \A k \in Keys : content[row.target][k] \in {None, truth[k]}
      BY DEF MigrationResumable
    <2>1. row.source = row.phys /\ Data
      BY DEF Faithful, Link
    <2>2. row.phys \in exists
      BY <2>1 DEF Held, CurrentExists
    <2>3. content[row.source] = truth
      BY <2>1 DEF Data
    <2>4. \A k \in Keys : content[row.target][k] \in {None, content[row.source][k]}
      BY <2>1 DEF Data
    <2> QED
      BY <2>1, <2>2, <2>3, <2>4
  <1> QED
    BY <1>1, FaithfulHolds, PTL

-----------------------------------------------------------------------------
(***************************************************************************)
(* The collections left behind.  While row, worker and collections are     *)
(* linked, a step leaves at most one more collection that nobody names and *)
(* no overtaken deletion left, and then one more failed migration that is  *)
(* no longer under way.                                                    *)
(***************************************************************************)
(* Both are finite sets. *)
LEMMA LeftFinite ==
  ASSUME CollType
  PROVE  /\ IsFiniteSet(LeftOver) /\ Cardinality(LeftOver) \in Nat
         /\ IsFiniteSet(Settled) /\ Cardinality(Settled) \in Nat
         /\ IsFiniteSet(failed) /\ Cardinality(failed) \in Nat
  <1>1. IsFiniteSet(Phys)
    BY FS_Interval DEF Phys
  <1>2. LeftOver \in SUBSET Phys /\ Settled \in SUBSET Phys /\ failed \in SUBSET Phys
    BY DEF LeftOver, Settled, CollType
  <1> QED
    BY <1>1, <1>2, FS_Subset, FS_CardinalityType

(* Fewer left over and no fewer settled keeps the account. *)
LEMMA CountingLess ==
  ASSUME NEW L, NEW S, NEW M, NEW T, IsFiniteSet(L), IsFiniteSet(T),
         Cardinality(L) <= Cardinality(S), M \subseteq L, S \subseteq T
  PROVE  Cardinality(M) <= Cardinality(T)
  <1>1. /\ IsFiniteSet(M) /\ Cardinality(M) <= Cardinality(L)
        /\ IsFiniteSet(S) /\ Cardinality(S) <= Cardinality(T)
    BY FS_Subset
  <1>2. /\ Cardinality(L) \in Nat /\ Cardinality(S) \in Nat
        /\ Cardinality(M) \in Nat /\ Cardinality(T) \in Nat
    BY <1>1, FS_CardinalityType
  <1> QED
    BY <1>1, <1>2

(* So does one more of each. *)
LEMMA CountingOne ==
  ASSUME NEW L, NEW S, NEW M, NEW T, IsFiniteSet(L), IsFiniteSet(S), IsFiniteSet(T),
         Cardinality(L) <= Cardinality(S),
         NEW x, NEW y, M \subseteq L \cup {x}, S \cup {y} \subseteq T, y \notin S
  PROVE  Cardinality(M) <= Cardinality(T)
  <1>1. Cardinality(L) \in Nat /\ Cardinality(S) \in Nat
    BY FS_CardinalityType
  <1>2. /\ IsFiniteSet(L \cup {x})
        /\ Cardinality(L \cup {x}) \in {Cardinality(L), Cardinality(L) + 1}
        /\ IsFiniteSet(S \cup {y}) /\ Cardinality(S \cup {y}) = Cardinality(S) + 1
    BY FS_AddElement
  <1>3. Cardinality(L \cup {x}) <= Cardinality(S \cup {y})
    BY <1>1, <1>2
  <1> QED
    BY <1>2, <1>3, CountingLess

(* Zero, the empty column, is no collection. *)
LEMMA NoZero == ASSUME Base PROVE 0 \notin exists
  BY DEF Base, CollType, Phys

(***************************************************************************)
(* A step of a request leaves nothing behind, except that a row deleted    *)
(* during a migration that is tried again leaves the target: its migration *)
(* has failed before, and is not under way any more.                       *)
(***************************************************************************)
LEMMA ViewLeft ==
  ASSUME "mark" \notin Faults, Base, Held, Link, NEW t \in Threads, View(t), ~stale'
  PROVE  \/ LeftOver' \subseteq LeftOver /\ Settled \subseteq Settled'
         \/ \E x, y : LeftOver' \subseteq LeftOver \cup {x} /\ Settled \cup {y} \subseteq Settled'
                        /\ y \notin Settled
  <1> USE DEF View
  <1>1. UNCHANGED <<wpc, wRow>>
    BY DEF wVars
  <1>2. CASE Quiet(t) \/ RowCounted(t) \/ Wrote(t)
    BY <1>1, <1>2 DEF Quiet, RowCounted, Wrote, RowKept, SameNames, LeftOver, Settled, Named, Active, history
  <1>3. CASE DroppedIndex(t)
    BY <1>1, <1>3 DEF DroppedIndex, DropCollection, RowKept, SameNames, LeftOver, Settled, Named, Active, history
  <1>4. CASE RowUpgraded(t)
    <2>1. ~RowMoved(t)
      BY <1>4 DEF RowUpgraded
    <2>2. /\ row.state = "" /\ row.phys = seen[t] /\ row.status = "READY" /\ UNCHANGED <<exists, failed, orphaned>>
          /\ row'.phys = row.phys /\ row'.status = row.status /\ row'.state = "UPGRADING"
          /\ row'.source = seen[t] /\ row'.target = nextP /\ nextP \in Phys
      BY <1>4, <2>1 DEF RowMoved, RowUpgraded
    <2>3. nextP \notin failed
      <3>1. nextP >= nextP
        BY NextName DEF Base
      <3> QED
        BY <2>2, <3>1 DEF Base, Drawn
    <2>4. row.source = 0 /\ row.target = 0 /\ 0 \notin exists
      BY <2>2, NoZero DEF Base, Drawn
    <2>5. LeftOver' \subseteq LeftOver
      BY <1>1, <2>2, <2>4 DEF LeftOver, Named
    <2>6. Settled \subseteq Settled'
      BY <1>1, <2>2, <2>3 DEF Settled, Active
    <2> QED
      BY <2>5, <2>6
  <1>5. CASE RowMarked(t)
    <2>1. /\ SameNames /\ (row'.status = "GONE" <=> row.status = "GONE") /\ UNCHANGED <<exists, failed, orphaned>>
      BY <1>5 DEF RowMarked, history
    <2> QED
      BY <1>1, <2>1 DEF SameNames, LeftOver, Settled, Named, Active
  <1>6. CASE RowDeleted(t)
    <2>1. /\ SameNames /\ row'.status = "GONE" /\ UNCHANGED <<exists, failed>> /\ orphaned \subseteq orphaned'
          /\ row.phys \notin exists \/ row.phys \in orphaned'
      BY <1>6 DEF RowDeleted, Link
    <2>2. CASE row.status = "GONE"
      BY <1>1, <2>1, <2>2 DEF SameNames, LeftOver, Settled, Named, Active
    <2>3. CASE row.status # "GONE" /\ row.state = ""
      <3>1. row.source = 0 /\ row.target = 0 /\ 0 \notin exists
        BY <2>3, NoZero DEF Base, Drawn
      <3> QED
        <4>1. LeftOver' \subseteq LeftOver
          BY <1>1, <2>1, <2>3, <3>1 DEF LeftOver, Named
        <4>2. Settled \subseteq Settled'
          BY <1>1, <2>1, <2>3 DEF SameNames, Settled, Active
        <4> QED
          BY <4>1, <4>2
    <2>4. CASE row.status # "GONE" /\ row.state = "UPGRADING"
      <3>1. row.source = row.phys
        BY <2>4 DEF Link
      <3>2. Settled \subseteq Settled'
        BY <1>1, <2>1, <2>4 DEF SameNames, Settled, Active
      <3>3. CASE row.target \notin exists \/ (wpc # "wait" /\ wRow.target = row.target)
        <4>1. LeftOver' \subseteq LeftOver
          BY <1>1, <2>1, <2>4, <3>1, <3>3 DEF LeftOver, Named
        <4> QED
          BY <3>2, <4>1
      <3>4. CASE row.target \in exists /\ ~(wpc # "wait" /\ wRow.target = row.target)
        <4>1. row.target \in failed
          BY <2>4, <3>4 DEF Link
        <4>2. LeftOver' \subseteq LeftOver \cup {row.target}
          BY <1>1, <2>1, <2>4, <3>1 DEF LeftOver, Named
        <4>3. row.target \notin Settled
          BY <2>4 DEF Settled, Active
        <4>4. row.target \in Settled'
          BY <1>1, <2>1, <3>4, <4>1 DEF Settled, Active
        <4> QED
          BY <3>2, <4>2, <4>3, <4>4
      <3> QED
        BY <3>3, <3>4
    <2> QED
      BY <2>2, <2>3, <2>4 DEF Base, RowType, Row
  <1> QED
    BY <1>2, <1>3, <1>4, <1>5, <1>6

(* After the switch, the target is the row's collection and no target of a later change. *)
LEMMA AfterSwitchNames ==
  ASSUME Base, Held, Link, AfterSwitch
  PROVE  /\ row.phys = wRow.target /\ wpc # "wait"
         /\ row.state = "UPGRADING" => row.source = row.phys /\ row.target # row.phys /\ row.target \notin exists
         /\ row.state = "" => row.source = 0 /\ row.target = 0
         /\ row.state \in {"", "UPGRADING"} /\ 0 \notin exists
         /\ row.status = "GONE" /\ row.phys \in exists => row.phys \in orphaned
  <1>1. row.phys = wRow.target /\ wpc # "wait"
    BY DEF AfterSwitch, Held
  <1>2. row.state = "UPGRADING" => row.source = row.phys /\ row.target # row.phys /\ row.target \notin exists
    BY RowSourceIsNotTarget DEF Link
  <1>3. (row.state = "" => row.source = 0 /\ row.target = 0) /\ row.state \in {"", "UPGRADING"}
    BY DEF Base, Drawn, RowType, Row
  <1>4. 0 \notin exists
    BY NoZero
  <1> QED
    BY <1>1, <1>2, <1>3, <1>4 DEF Link

(* A worker that gives up, or is cut off, settles one migration and leaves one collection. *)
LEMMA WorkerLeft ==
  ASSUME Base, Held, Link, WView \/ Restarted
  PROVE  \/ LeftOver' \subseteq LeftOver /\ Settled \subseteq Settled'
         \/ \E x, y : LeftOver' \subseteq LeftOver \cup {x} /\ Settled \cup {y} \subseteq Settled'
                        /\ y \notin Settled
  <1>0. orphaned' = orphaned
    BY DEF WView, Restarted
  <1>1. CASE WView /\ Listed
    BY <1>0, <1>1 DEF Listed, LeftOver, Settled, Named, Active, rowVars
  <1>2. CASE WView /\ Advanced
    <2>1. wpc \in Copying /\ wpc' \in Copying \cup {"fail"} /\ exists' \in {exists, exists \cup {wRow.target}}
          /\ UNCHANGED <<row, wRow, failed>>
      BY <1>2 DEF Advanced, Copying, rowVars
    <2> QED
      BY <1>0, <2>1 DEF LeftOver, Settled, Named, Active, Copying
  <1>3. CASE WView /\ \E k \in Keys : CopyBatch(k)
    BY <1>0, <1>3 DEF CopyBatch, WStep, LeftOver, Settled, Named, Active, rowVars
  <1>4. CASE WView /\ Switched
    <2>1. /\ wRow.source = row.source /\ wRow.target = row.target /\ row.source = row.phys
          /\ row.state = "UPGRADING"
      BY <1>4 DEF Switched, Link, Copying
    <2>2. LeftOver' \subseteq LeftOver
      BY <1>0, <1>4, <2>1 DEF Switched, LeftOver, Named
    <2>3. Settled \subseteq Settled'
      BY <1>4, <2>1 DEF Switched, Settled, Active
    <2> QED
      BY <2>2, <2>3
  <1>5. CASE WView /\ Replaced
    <2>1. AfterSwitch /\ UNCHANGED <<row, failed>>
      BY <1>5 DEF Replaced, AfterSwitch, rowVars
    <2>2. LeftOver' \subseteq LeftOver
      BY <1>0, <1>5, <2>1, AfterSwitchNames DEF Replaced, DropCollection, LeftOver, Named
    <2>3. Settled \subseteq Settled'
      BY <1>5, <2>1 DEF Replaced, Settled, Active
    <2> QED
      BY <2>2, <2>3
  <1>6. CASE (WView /\ RolledBack) \/ (Restarted /\ wpc # "wait")
    <2>1. /\ failed' = failed \cup {wRow.target} /\ wpc' = "wait" /\ wpc # "wait" /\ exists' = exists
          /\ row'.phys = row.phys /\ row'.status = row.status /\ orphaned' = orphaned
          /\ \/ SameNames
             \/ row.status # "GONE" /\ row'.state = "" /\ row'.source = 0 /\ row'.target = 0
      BY <1>0, <1>6 DEF RolledBack, Restarted, SameNames, rowVars
    <2>2. wRow.target \notin Settled
      BY <2>1 DEF Settled, Active
    <2>3. CASE AfterSwitch
      <3>1. LeftOver' \subseteq LeftOver \cup {wRow.source}
        BY <2>1, <2>3, AfterSwitchNames DEF SameNames, LeftOver, Named
      <3>2. Settled \cup {wRow.target} \subseteq Settled'
        BY <2>1, <2>3, AfterSwitchNames DEF SameNames, Settled, Active
      <3> QED
        BY <2>2, <3>1, <3>2
    <2>4. CASE ~AfterSwitch
      <3>1. /\ row.state = "UPGRADING" /\ wRow.source = row.source /\ wRow.target = row.target
            /\ row.source = row.phys
        BY <2>1, <2>4 DEF Link, AfterSwitch, Copying, Base, WType, WLabels
      <3>2. CASE SameNames /\ row.status # "GONE"
        BY <2>1, <3>1, <3>2 DEF SameNames, LeftOver, Settled, Named, Active
      <3>3. CASE ~(SameNames /\ row.status # "GONE")
        <4>1. row.phys \in exists => row.status # "GONE" \/ row.phys \in orphaned
          BY DEF Link
        <4>2. LeftOver' \subseteq LeftOver \cup {wRow.target}
          BY <2>1, <3>1, <3>3, <4>1 DEF LeftOver, Named
        <4>3. Settled \cup {wRow.target} \subseteq Settled'
          BY <2>1, <3>1, <3>3 DEF Settled, Active
        <4> QED
          BY <2>2, <4>2, <4>3
      <3> QED
        BY <3>2, <3>3
    <2> QED
      BY <2>3, <2>4
  <1>7. CASE Restarted /\ wpc = "wait"
    BY <1>7 DEF Restarted, LeftOver, Settled, Named, Active, rowVars
  <1> QED
    BY <1>1, <1>2, <1>3, <1>4, <1>5, <1>6, <1>7 DEF WView

(***************************************************************************)
(* Each failed migration leaves at most one collection that nobody names,  *)
(* and each deletion overtaken by a switch the one its row had come to     *)
(* name; nothing else leaves any, deletions during maintenance included,   *)
(* as long as no write or change acts on a row that moved.  A target whose *)
(* migration is tried again after a crash is counted once, and so is a     *)
(* source whose drop fails.                                                *)
(***************************************************************************)
THEOREM Leftovers ==
  ASSUME "mark" \notin Faults
  PROVE  Spec => []LeftoversBounded
  <1>1. Init => Accounted
    <2> SUFFICES ASSUME Init PROVE Cardinality(LeftOver) <= Cardinality(Settled)
      BY DEF Accounted, LeftOver, Settled
    <2>1. row.phys = 1 /\ exists = {1} /\ row.status = "READY" /\ failed = {}
      BY DEF Init, NewRow
    <2>2. LeftOver = {} /\ Settled = {}
      BY <2>1, Zenon DEF LeftOver, Settled, Named
    <2>3. Cardinality(LeftOver) = 0 /\ Cardinality(Settled) = 0
      BY <2>2, FS_EmptySet, Zenon
    <2> QED
      BY <2>3
  <1>2. Base /\ Held /\ Faithful /\ Accounted /\ [Next]_vars /\ Base' => Accounted'
    <2> SUFFICES ASSUME Base, Held, Faithful, Accounted, [Next]_vars, Base', ~stale'
                 PROVE  Cardinality(LeftOver') <= Cardinality(Settled')
      BY DEF Accounted, LeftOver, Settled
    <2>1. Link /\ Cardinality(LeftOver) <= Cardinality(Settled)
      BY StaleForever DEF Faithful, Accounted, LeftOver, Settled
    <2>2. IsFiniteSet(LeftOver) /\ IsFiniteSet(Settled) /\ IsFiniteSet(Settled')
      <3>1. IsFiniteSet(Phys)
        BY FS_Interval DEF Phys
      <3>2. Settled' \in SUBSET Phys
        BY DEF Base, CollType, Settled
      <3>3. IsFiniteSet(Settled')
        BY <3>1, <3>2, FS_Subset
      <3> QED
        BY <3>3, LeftFinite DEF Base
    <2>3. ASSUME NEW t \in Threads, Began(t)
          PROVE  LeftOver' \subseteq LeftOver /\ Settled \subseteq Settled'
      BY <2>3 DEF Began, rowVars, wVars, history, LeftOver, Settled, Named, Active
    <2>4. CASE UNCHANGED vars
      BY <2>1, <2>2, <2>4 DEF vars, rowVars, wVars, history, LeftOver, Settled, Named, Active
    <2>5. CASE ~UNCHANGED vars
      <3>1. \/ LeftOver' \subseteq LeftOver /\ Settled \subseteq Settled'
            \/ \E x, y : LeftOver' \subseteq LeftOver \cup {x} /\ Settled \cup {y} \subseteq Settled'
                           /\ y \notin Settled
        BY <2>1, <2>3, <2>5, NextView, ViewLeft, WorkerLeft
      <3>2. CASE LeftOver' \subseteq LeftOver /\ Settled \subseteq Settled'
        BY <2>1, <2>2, <3>2, CountingLess
      <3>3. CASE \E x, y : LeftOver' \subseteq LeftOver \cup {x} /\ Settled \cup {y} \subseteq Settled'
                           /\ y \notin Settled
        <4>1. PICK x, y : LeftOver' \subseteq LeftOver \cup {x} /\ Settled \cup {y} \subseteq Settled'
                           /\ y \notin Settled
          BY <3>3
        <4> QED
          BY <2>1, <2>2, <4>1, CountingOne
      <3> QED
        BY <3>1, <3>2, <3>3
    <2> QED
      BY <2>4, <2>5
  <1>3. Base /\ Accounted => LeftoversBounded
    <2> SUFFICES ASSUME Base, Accounted, ~stale
                 PROVE  Cardinality(LeftOver) <= Cardinality(failed)
      BY DEF LeftoversBounded, LeftOver
    <2>1. Cardinality(LeftOver) <= Cardinality(Settled)
      BY DEF Accounted, LeftOver, Settled
    <2>2. Cardinality(Settled) <= Cardinality(failed)
      BY LeftFinite, FS_Subset DEF Base, Settled
    <2> QED
      BY <2>1, <2>2, LeftFinite DEF Base
  <1> QED
    BY <1>1, <1>2, <1>3, BaseHolds, FaithfulHolds, PTL DEF Spec

-----------------------------------------------------------------------------
(***************************************************************************)
(* The refinement.  What a client can tell of a state is whether the index *)
(* is ready, in maintenance or deleted, and its vectors.                   *)
(***************************************************************************)
LEMMA Phases ==
  ASSUME RowType
  PROVE  /\ row.status # "READY" => phaseOf = "deleted" /\ dataOf = Empty
         /\ row.status = "READY" => dataOf = content[row.phys]
         /\ row.status = "READY" /\ row.state = "" => phaseOf = "ready"
         /\ row.status = "READY" /\ row.state = "UPGRADING" => phaseOf = "maintenance"
         /\ row.state \in {"", "UPGRADING"}
  BY DEF RowType, Row, phaseOf, dataOf

(* The same of the state after a step. *)
LEMMA PhasesNext ==
  ASSUME RowType'
  PROVE  /\ row'.status # "READY" => phaseOf' = "deleted" /\ dataOf' = Empty
         /\ row'.status = "READY" => dataOf' = content'[row'.phys]
         /\ row'.status = "READY" /\ row'.state = "" => phaseOf' = "ready"
         /\ row'.status = "READY" /\ row'.state = "UPGRADING" => phaseOf' = "maintenance"
         /\ row'.state \in {"", "UPGRADING"}
  BY DEF RowType, Row, phaseOf, dataOf

(* A step that neither makes the index ready, nor changes what a ready one holds, is a stutter or Maintain. *)
LEMMA Unseen ==
  ASSUME RowType, RowType', ~stale, ~stale', stale' = stale, row'.status = row.status,
         row.status = "READY" => content'[row'.phys] = content[row.phys]
  PROVE  [VI!ANext]_(VI!absVars)
  <1>1. dataOf' = dataOf
    BY Phases, PhasesNext
  <1>2. CASE row.status # "READY"
    BY <1>1, <1>2, Phases, PhasesNext DEF VI!absVars
  <1>3. CASE row.status = "READY"
    <2>1. phaseOf \in {"ready", "maintenance"} /\ phaseOf' \in {"ready", "maintenance"}
      BY <1>3, Phases, PhasesNext
    <2> QED
      BY <1>1, <2>1 DEF VI!ANext, VI!Maintain
  <1> QED
    BY <1>2, <1>3

(* A step of a request is a step of the abstract index. *)
LEMMA ViewImplements ==
  ASSUME "mark" \notin Faults, Base, Base', Held, Link, Data, NEW t \in Threads, View(t), ~stale, ~stale'
  PROVE  [VI!ANext]_(VI!absVars)
  <1> USE DEF View, Base
  <1>0. stale' = stale
    BY DEF CollType
  <1>1. CASE Quiet(t) \/ RowCounted(t)
    BY <1>0, <1>1, Unseen DEF Quiet, RowCounted, RowKept, SameNames
  <1>2. CASE Wrote(t)
    <2>1. /\ row.state = "" /\ row.phys = seen[t] /\ row.status = "READY" /\ RowKept /\ pc[t] = "upsert"
          /\ content' = [content EXCEPT ![seen[t]][key[t]] = val[t]]
      BY <1>2 DEF Wrote, RowMoved
    <2>2. key[t] \in Keys /\ val[t] \in Vals \cup {None} /\ seen[t] \in Phys
      BY <2>1 DEF Drawn, ReqType
    <2>3. dataOf = content[seen[t]] /\ phaseOf = "ready" /\ phaseOf' = "ready" /\ dataOf' = content'[seen[t]]
      BY <2>1, Phases, PhasesNext DEF RowKept, SameNames
    <2>4. content'[seen[t]] = [content[seen[t]] EXCEPT ![key[t]] = val[t]]
      BY <2>1, <2>2 DEF CollType
    <2>5. VI!Write(key[t], val[t])
      BY <1>0, <2>3, <2>4 DEF VI!Write
    <2> QED
      BY <2>2, <2>5 DEF VI!ANext
  <1>3. CASE DroppedIndex(t)
    <2>1. row.status # "READY" /\ row'.status = row.status
      BY <1>3 DEF DroppedIndex, Held, RowKept
    <2> QED
      BY <1>0, <2>1, Unseen
  <1>4. CASE RowUpgraded(t)
    BY <1>0, <1>4, Unseen DEF RowUpgraded
  <1>5. CASE RowMarked(t)
    <2>1. row'.status # "READY"
      BY <1>5 DEF RowMarked
    <2>2. phaseOf' = "deleted" /\ dataOf' = Empty
      BY <2>1, PhasesNext
    <2>3. VI!Delete
      BY <1>0, <2>2 DEF VI!Delete, Empty
    <2> QED
      BY <2>3 DEF VI!ANext
  <1>6. CASE RowDeleted(t)
    <2>1. row.status # "READY" /\ row'.status # "READY"
      BY <1>6 DEF RowDeleted, Held
    <2> QED
      BY <1>0, <2>1, Phases, PhasesNext DEF VI!absVars
  <1> QED
    BY <1>1, <1>2, <1>3, <1>4, <1>5, <1>6

(* No step of the worker changes what a client sees of a ready index. *)
LEMMA WorkerImplements ==
  ASSUME Base, Base', Held, Link, Data, WView, ~stale, ~stale'
  PROVE  [VI!ANext]_(VI!absVars)
  <1> USE DEF WView, Base
  <1>1. row'.status = row.status /\ stale' = stale
    BY DEF rowVars, Listed, Advanced, CopyBatch, Switched, Replaced, RolledBack
  <1>2. row.status = "READY" => content'[row'.phys] = content[row.phys]
    <2> SUFFICES ASSUME row.status = "READY" PROVE content'[row'.phys] = content[row.phys]
      OBVIOUS
    <2>1. Data' /\ truth' = truth
      BY WorkerData
    <2> QED
      BY <1>1, <2>1 DEF Data
  <1> QED
    BY <1>1, <1>2, Unseen

(***************************************************************************)
(* The index implements its promise (VectorIndex): its vectors change by   *)
(* its clients' writes alone, none is accepted during maintenance, and a   *)
(* deletion, in maintenance too, is for good, until a write or change acts *)
(* on a row that moved.                                                    *)
(***************************************************************************)
THEOREM Implements ==
  ASSUME "mark" \notin Faults
  PROVE  Spec => ImplementsVectorIndex
  <1>1. Init => VI!AInit
    <2> SUFFICES ASSUME Init PROVE VI!AInit
      OBVIOUS
    <2>1. RowType /\ row.status = "READY" /\ row.state = "" /\ row.phys = 1 /\ truth = Empty /\ stale = FALSE
      BY InitBase DEF Init, NewRow, Base
    <2>2. content[row.phys] = truth
      BY <2>1, InitFaithful DEF Faithful, Data
    <2>3. dataOf = Empty /\ phaseOf = "ready"
      BY <2>1, <2>2, Phases
    <2> QED
      BY <2>1, <2>3 DEF VI!AInit, Empty
  <1>2. Base /\ Base' /\ Held /\ Faithful /\ [Next]_vars => [VI!ANext]_(VI!absVars)
    <2> SUFFICES ASSUME Base, Base', Held, Faithful, [Next]_vars PROVE [VI!ANext]_(VI!absVars)
      OBVIOUS
    <2>1. CASE stale'
      BY <2>1 DEF VI!ANext, VI!GiveUp
    <2>2. CASE ~stale'
      <3>1. ~stale /\ Link /\ Data
        BY <2>2, StaleForever DEF Faithful
      <3>2. stale' = stale
        BY <2>2, <3>1 DEF Base, CollType
      <3>3. ASSUME NEW t \in Threads, Began(t) PROVE [VI!ANext]_(VI!absVars)
        BY <2>2, <3>1, <3>2, <3>3, Unseen DEF Began, Base, rowVars
      <3>4. CASE Restarted
        BY <2>2, <3>1, <3>2, <3>4, Unseen DEF Restarted, Base, rowVars
      <3>5. CASE UNCHANGED vars
        BY <2>2, <3>1, <3>2, <3>5, Unseen DEF vars, Base, rowVars
      <3> QED
        BY <2>2, <3>1, <3>3, <3>4, <3>5, NextView, ViewImplements, WorkerImplements
    <2> QED
      BY <2>1, <2>2
  <1> QED
    BY <1>1, <1>2, BaseHolds, FaithfulHolds, PTL DEF Spec, ImplementsVectorIndex, VI!ASpec

==============================================================================
