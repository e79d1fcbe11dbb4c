------------------------------ MODULE Migration ------------------------------
(***************************************************************************)
(* The data of one index while its model is changed: PutVectors,           *)
(* DeleteVectors and QueryVectors requests, ChangeIndexModel, DeleteIndex, *)
(* and the migration goroutine that copies the source collection to a new  *)
(* target, switches the metadata row and drops the source.                 *)
(*                                                                         *)
(* Requests read the row once (router.Resolve) and act on what they read.  *)
(* What the load controller does is in LoadController; here EnsureLoaded   *)
(* is a step that may fail.  Physical collections are numbered in the      *)
(* order their names are drawn: each change draws a new target name.  The  *)
(* index type is left out: a change asks for another one than the row has. *)
(***************************************************************************)
EXTENDS Integers, FiniteSets

CONSTANTS
    Keys, Vals,
    Threads,             \* request goroutines
    Workloads,           \* which requests arrive together: a set of sets of jobs
    MaxVectors,          \* the limit of CheckVectorCount / CheckPerformanceVectorLimit
    MaxPhys,             \* bound on the physical names drawn
    MaxDeficit,          \* bound: no DeleteVectors begins at vector_count -MaxDeficit or below
    Faults,              \* what may fail, a subset of AllFaults
    None                 \* no vector under a key

AllJobs == {"put", "delete", "query", "change", "deleteIndex"}

(* "write", "load", "copy", "drop": these Milvus calls may fail; "store": a SQL     *)
(* write may fail; "mark": that of DELETING may; "crash": the gateway may stop.    *)
AllFaults == {"write", "load", "copy", "drop", "store", "mark", "crash"}

Phys  == 1..MaxPhys

ASSUME DataAssumption == IsFiniteSet(Keys) /\ None \notin Vals
ASSUME BoundsAssumption == MaxPhys \in Nat \ {0} /\ MaxVectors \in Nat /\ MaxDeficit \in Nat
ASSUME ChoiceAssumption == Workloads \subseteq SUBSET AllJobs /\ Faults \subseteq AllFaults

VARIABLES
    row,        \* the metadata row of the index
    nextP,      \* the next physical name
    exists,     \* the Milvus collections that exist
    content,    \* the vectors in each
    jobs,       \* the workload
    pc, job, key, val, seen,    \* each request: position, kind, arguments, the physical name it read
    wpc, wRow, wTodo,           \* the migration goroutine: position, the row it listed, keys left
    truth,      \* history: the vectors after the writes that took effect
    stale,      \* history: a write or a change acted on a row that had moved since
    failed,     \* history: the targets of migrations that failed or that a crash cut off
    orphaned    \* history: collections whose row was deleted for another collection

rowVars == <<row, nextP>>
reqVars == <<jobs, pc, job, key, val, seen>>
wVars   == <<wpc, wRow, wTodo>>
history == <<truth, stale, failed, orphaned>>
vars == <<rowVars, exists, content, reqVars, wVars, history>>

(***************************************************************************)
(* Of the row: status ("GONE" when there is none), physical_name,          *)
(* vector_count, migrate_state, source and target names.                   *)
(***************************************************************************)
Row == [status : {"READY", "DELETING", "GONE"}, phys : Phys, count : Int, state : {"", "UPGRADING"},
        source : Phys \cup {0}, target : Phys \cup {0}]

Labels == {"idle", "upsert", "count", "search", "mark", "deleting", "drop", "deleteRow"}

WLabels == {"wait", "load", "create", "scan", "check", "loadTarget", "switch", "drop", "fail"}

Vectors == [Keys -> Vals \cup {None}]
Empty == [k \in Keys |-> None]

TypeOK ==
    /\ row \in Row
    /\ nextP \in 1..(MaxPhys + 1)
    /\ exists \subseteq Phys
    /\ content \in [Phys -> Vectors]
    /\ jobs \in Workloads
    /\ pc \in [Threads -> Labels]
    /\ job \in [Threads -> AllJobs \cup {"none"}]
    /\ key \in [Threads -> Keys \cup {None}]
    /\ val \in [Threads -> Vals \cup {None}]
    /\ seen \in [Threads -> Phys \cup {0}]
    /\ wpc \in WLabels
    /\ wRow \in Row
    /\ wTodo \subseteq Keys
    /\ truth \in Vectors
    /\ stale \in BOOLEAN
    /\ failed \subseteq Phys
    /\ orphaned \subseteq Phys

NewRow == [status |-> "READY", phys |-> 1, count |-> 0, state |-> "", source |-> 0, target |-> 0]

(* A freshly created index. *)
Init ==
    /\ row = NewRow
    /\ nextP = 2
    /\ exists = {1}
    /\ content = [p \in Phys |-> Empty]
    /\ jobs \in Workloads
    /\ pc = [t \in Threads |-> "idle"]
    /\ job = [t \in Threads |-> "none"]
    /\ key = [t \in Threads |-> None]
    /\ val = [t \in Threads |-> None]
    /\ seen = [t \in Threads |-> 0]
    /\ wpc = "wait"
    /\ wRow = NewRow
    /\ wTodo = {}
    /\ truth = Empty
    /\ stale = FALSE
    /\ failed = {}
    /\ orphaned = {}

At(t, label) == pc[t] = label

Goto(t, label) == pc' = [pc EXCEPT ![t] = label] /\ UNCHANGED <<jobs, job, key, val, seen>>

(* The response is sent. *)
Return(t) ==
    /\ pc'   = [pc   EXCEPT ![t] = "idle"]
    /\ job'  = [job  EXCEPT ![t] = "none"]
    /\ key'  = [key  EXCEPT ![t] = None]
    /\ val'  = [val  EXCEPT ![t] = None]
    /\ seen' = [seen EXCEPT ![t] = 0]
    /\ UNCHANGED jobs

(***************************************************************************)
(* router.Resolve and the checks on the row that was read: only a ready    *)
(* index is found, a migrating one refuses writes (503) and changes (409), *)
(* not its deletion, and a full one refuses puts.                          *)
(***************************************************************************)
Refused(j) ==
    \/ row.status # "READY"
    \/ j \in {"put", "delete", "change"} /\ row.state # ""
    \/ j = "put" /\ row.count + 1 > MaxVectors

First(j) ==
    CASE j \in {"put", "delete"} -> "upsert"
      [] j = "query"  -> "search"
      [] j = "change" -> "mark"
      [] j = "deleteIndex" -> "deleting"

(***************************************************************************)
(* A request arrives, router.Resolve reads the row and the request passes  *)
(* the checks; one that is refused changes nothing.  A put or delete of    *)
(* one key stands for a batch.                                             *)
(***************************************************************************)
Begin(t, j, k, v) ==
    /\ At(t, "idle")
    /\ ~Refused(j)
    /\ j = "delete" => row.count > -MaxDeficit
    /\ pc'   = [pc   EXCEPT ![t] = First(j)]
    /\ job'  = [job  EXCEPT ![t] = j]
    /\ key'  = [key  EXCEPT ![t] = IF j \in {"put", "delete"} THEN k ELSE None]
    /\ val'  = [val  EXCEPT ![t] = IF j = "put" THEN v ELSE None]
    /\ seen' = [seen EXCEPT ![t] = row.phys]
    /\ UNCHANGED <<rowVars, exists, content, jobs, wVars, history>>

(* The row that t read has been marked for migration, switched or deleted. *)
RowMoved(t) == row.state # "" \/ row.phys # seen[t] \/ row.status # "READY"

(* An UPDATE of the row by its id; it finds no row when that was deleted. *)
UpdateRow(new) == row' = IF row.status = "GONE" THEN row ELSE new

(***************************************************************************)
(* adapter.Upsert or adapter.Delete on the physical collection read above. *)
(* A delete writes None, then flushes.  A write that returned an error may *)
(* have taken effect, always so when only the flush of a delete failed.    *)
(***************************************************************************)
Upsert(t) ==
    /\ At(t, "upsert")
    /\ \/ /\ seen[t] \in exists
          /\ content' = [content EXCEPT ![seen[t]][key[t]] = val[t]]
          /\ truth' = [truth EXCEPT ![key[t]] = val[t]]
          /\ stale' = (stale \/ RowMoved(t))
          /\ Goto(t, "count") \/ ("write" \in Faults /\ Return(t))
          /\ UNCHANGED <<failed, orphaned>>
       \/ /\ seen[t] \notin exists \/ "write" \in Faults
          /\ Return(t)
          /\ UNCHANGED <<content, history>>
    /\ UNCHANGED <<rowVars, exists, wVars>>

(* UpdateCollectionVectorCount: by the length of the batch, whatever was there. *)
UpdateVectorCount(t) ==
    /\ At(t, "count")
    /\ \/ UpdateRow([row EXCEPT !.count = IF job[t] = "put" THEN @ + 1 ELSE @ - 1])
       \/ "store" \in Faults /\ UNCHANGED row
    /\ Return(t)
    /\ UNCHANGED <<nextP, exists, content, wVars, history>>

Search(t) ==
    /\ At(t, "search")
    /\ Return(t)
    /\ UNCHANGED <<rowVars, exists, content, wVars, history>>

(***************************************************************************)
(* The end of ChangeIndexModel: an unconditional UPDATE of the row by id,  *)
(* with the physical name read before as source and a new one as target.   *)
(***************************************************************************)
ChangeIndexModel(t) ==
    /\ At(t, "mark")
    /\ \/ /\ nextP \in Phys
          /\ UpdateRow([row EXCEPT !.state = "UPGRADING", !.source = seen[t], !.target = nextP])
          /\ nextP' = nextP + 1
          /\ stale' = (stale \/ RowMoved(t))
       \/ "store" \in Faults /\ UNCHANGED <<rowVars, stale>>
    /\ Return(t)
    /\ UNCHANGED <<exists, content, wVars, truth, failed, orphaned>>

(* adapter.DropCollection: the collection is gone, with its vectors. *)
DropCollection(p) ==
    /\ exists' = exists \ {p}
    /\ content' = [content EXCEPT ![p] = Empty]

(***************************************************************************)
(* DeleteIndex, which does not look at migrate_state: DELETING, whose      *)
(* error is ignored; the drop of the collection it read; the row.  When a  *)
(* migration has switched the row since, the collection it names stays.    *)
(***************************************************************************)
DeleteIndexMark(t) ==
    /\ At(t, "deleting")
    /\ \/ UpdateRow([row EXCEPT !.status = "DELETING"])
       \/ "mark" \in Faults /\ UNCHANGED row
    /\ Goto(t, "drop")
    /\ UNCHANGED <<nextP, exists, content, wVars, history>>

(* Mutant: a deletion that fails makes the index ready again. *)
DeleteIndexDrop_Undo(t) ==
    /\ At(t, "drop")
    /\ \/ DropCollection(seen[t]) /\ Goto(t, "deleteRow") /\ UNCHANGED row
       \/ /\ "drop" \in Faults
          /\ UpdateRow([row EXCEPT !.status = "READY"])
          /\ Return(t)
          /\ UNCHANGED <<exists, content>>
    /\ UNCHANGED <<nextP, wVars, history>>

DeleteIndexDrop(t) ==
    /\ At(t, "drop")
    /\ \/ DropCollection(seen[t]) /\ Goto(t, "deleteRow")
       \/ "drop" \in Faults /\ Return(t) /\ UNCHANGED <<exists, content>>
    /\ UNCHANGED <<rowVars, wVars, history>>

DeleteIndexRow(t) ==
    /\ At(t, "deleteRow")
    /\ \/ /\ row' = [row EXCEPT !.status = "GONE"]
          /\ orphaned' = IF row.phys = seen[t] THEN orphaned ELSE orphaned \cup {row.phys}
       \/ "store" \in Faults /\ UNCHANGED <<row, orphaned>>
    /\ Return(t)
    /\ UNCHANGED <<nextP, exists, content, wVars, truth, stale, failed>>

-----------------------------------------------------------------------------
(***************************************************************************)
(* The migration goroutine: RunOnce and migrateCollection.                 *)
(***************************************************************************)
WGoto(label) == wpc' = label

WStep(label) == wpc = label /\ UNCHANGED <<reqVars, truth, stale, orphaned>>

(* ListCollectionsInMigration, whatever the status: the worker keeps the row as it is, *)
(* of which vector_count, for the memory estimate alone, is left out.                  *)
RunOnce ==
    /\ WStep("wait")
    /\ row.state = "UPGRADING" /\ row.status # "GONE"
    /\ wRow' = [row EXCEPT !.count = 0]
    /\ WGoto("load")
    /\ UNCHANGED <<rowVars, exists, content, wTodo, failed>>

(* EnsureLoaded: a cached entry will do, even one of a collection that was dropped. *)
LoadSource ==
    /\ WStep("load")
    /\ \/ WGoto("create")
       \/ (wRow.source \notin exists \/ "load" \in Faults) /\ WGoto("fail")
    /\ UNCHANGED <<rowVars, exists, content, wRow, wTodo, failed>>

(* CreateCollection and CreateIndex; a target left by an earlier attempt is kept. *)
CreateTarget ==
    /\ WStep("create")
    /\ \/ /\ exists' = exists \cup {wRow.target}
          /\ wTodo' = Keys
          /\ WGoto("scan")
       \/ /\ "copy" \in Faults
          /\ exists' \in {exists, exists \cup {wRow.target}}
          /\ WGoto("fail")
          /\ UNCHANGED wTodo
    /\ UNCHANGED <<rowVars, content, wRow, failed>>

(* One batch of Scan: the row under k, if any, is upserted into the target. *)
CopyBatch(k) ==
    /\ WStep("scan")
    /\ k \in wTodo
    /\ wRow.source \in exists
    /\ content' = IF content[wRow.source][k] = None THEN content
                  ELSE [content EXCEPT ![wRow.target][k] = content[wRow.source][k]]
    /\ wTodo' = wTodo \ {k}
    /\ UNCHANGED <<rowVars, exists, wpc, wRow, failed>>

(* Mutant: a short last batch is taken for the end of the scan. *)
ScanEnds_Early ==
    /\ WStep("scan")
    /\ \/ Cardinality(wTodo) <= 1 /\ WGoto("check")
       \/ ("copy" \in Faults \/ wRow.source \notin exists) /\ WGoto("fail")
    /\ UNCHANGED <<rowVars, exists, content, wRow, wTodo, failed>>

ScanEnds ==
    /\ WStep("scan")
    /\ \/ wTodo = {} /\ WGoto("check")
       \/ ("copy" \in Faults \/ wRow.source \notin exists) /\ WGoto("fail")
    /\ UNCHANGED <<rowVars, exists, content, wRow, wTodo, failed>>

(***************************************************************************)
(* Count of source and target.  Milvus' row_count includes overwritten and *)
(* deleted rows until they are compacted away, and lags behind: equal      *)
(* collections may count differently, different ones the same.             *)
(***************************************************************************)
CheckCounts ==
    /\ WStep("check")
    /\ WGoto("loadTarget") \/ WGoto("fail")
    /\ UNCHANGED <<rowVars, exists, content, wRow, wTodo, failed>>

(* EnsureLoaded and Pin of a pinned target, Unpin and Release of a pinned source. *)
LoadTarget ==
    /\ WStep("loadTarget")
    /\ WGoto("switch") \/ ("load" \in Faults /\ WGoto("fail"))
    /\ UNCHANGED <<rowVars, exists, content, wRow, wTodo, failed>>

(* Mutant: the switch leaves the migration's columns to a later update. *)
SwitchCollectionPhysical_KeepsState ==
    /\ WStep("switch")
    /\ \/ /\ row.phys = wRow.phys /\ row.status # "GONE"
          /\ row' = [row EXCEPT !.phys = wRow.target]
          /\ WGoto("drop")
       \/ row.phys # wRow.phys /\ WGoto("fail") /\ UNCHANGED row
    /\ UNCHANGED <<nextP, exists, content, wRow, wTodo, failed>>

(* SwitchCollectionPhysical: compare-and-swap on the physical name the worker listed. *)
SwitchCollectionPhysical ==
    /\ WStep("switch")
    /\ \/ /\ row.phys = wRow.phys /\ row.status # "GONE"
          /\ row' = [row EXCEPT !.phys = wRow.target, !.state = "", !.source = 0, !.target = 0]
          /\ WGoto("drop")
       \/ /\ row.phys # wRow.phys \/ row.status = "GONE" \/ "store" \in Faults
          /\ WGoto("fail")
          /\ UNCHANGED row
    /\ UNCHANGED <<nextP, exists, content, wRow, wTodo, failed>>

(* Mutant: the source is left to a later clean-up. *)
DropSource_Skipped ==
    /\ WStep("drop")
    /\ WGoto("wait") /\ wRow' = NewRow
    /\ UNCHANGED <<rowVars, exists, content, wTodo, failed>>

(* UpdateCollectionIndexBuilt, then DropCollection of the source. *)
DropSource ==
    /\ WStep("drop")
    /\ \/ DropCollection(wRow.source) /\ WGoto("wait") /\ wRow' = NewRow
       \/ Faults \cap {"drop", "store"} # {} /\ WGoto("fail") /\ UNCHANGED <<exists, content, wRow>>
    /\ UNCHANGED <<rowVars, wTodo, failed>>

(* Mutant: the rollback of the design plan, which drops the target on every error. *)
MigrationFails_DropsTarget ==
    /\ WStep("fail")
    /\ row' = [row EXCEPT !.state = "", !.source = 0, !.target = 0]
    /\ DropCollection(wRow.target)
    /\ WGoto("wait")
    /\ wRow' = NewRow
    /\ wTodo' = {}
    /\ failed' = failed \cup {wRow.target}
    /\ UNCHANGED nextP

(* Mutant: the rollback clears the physical name with the other columns. *)
MigrationFails_ClearsPhysical ==
    /\ WStep("fail")
    /\ row' = [row EXCEPT !.phys = 0, !.state = "", !.source = 0, !.target = 0]
    /\ WGoto("wait")
    /\ wRow' = NewRow
    /\ wTodo' = {}
    /\ failed' = failed \cup {wRow.target}
    /\ UNCHANGED <<nextP, exists, content>>

(* Mutant: the error is logged and the row left as it is. *)
MigrationFails_KeepsState ==
    /\ WStep("fail")
    /\ WGoto("wait")
    /\ wRow' = NewRow
    /\ wTodo' = {}
    /\ failed' = failed \cup {wRow.target}
    /\ UNCHANGED <<rowVars, exists, content>>

(* RunOnce on an error: the migration state is cleared, unconditionally, by id. *)
MigrationFails ==
    /\ WStep("fail")
    /\ \/ UpdateRow([row EXCEPT !.state = "", !.source = 0, !.target = 0])
       \/ "store" \in Faults /\ UNCHANGED row
    /\ WGoto("wait")
    /\ wRow' = NewRow
    /\ wTodo' = {}
    /\ failed' = failed \cup {wRow.target}
    /\ UNCHANGED <<nextP, exists, content>>

(* The gateway stops and starts again: the row and Milvus stay as they are. *)
Crash ==
    /\ "crash" \in Faults
    /\ wpc # "wait" \/ \E t \in Threads : pc[t] # "idle"
    /\ pc'   = [t \in Threads |-> "idle"]
    /\ job'  = [t \in Threads |-> "none"]
    /\ key'  = [t \in Threads |-> None]
    /\ val'  = [t \in Threads |-> None]
    /\ seen' = [t \in Threads |-> 0]
    /\ wpc' = "wait" /\ wRow' = NewRow /\ wTodo' = {}
    /\ failed' = IF wpc = "wait" THEN failed ELSE failed \cup {wRow.target}
    /\ UNCHANGED <<rowVars, exists, content, jobs, truth, stale, orphaned>>

Request(t) ==
    \/ Upsert(t) \/ UpdateVectorCount(t) \/ Search(t) \/ ChangeIndexModel(t)
    \/ DeleteIndexMark(t) \/ DeleteIndexDrop(t) \/ DeleteIndexRow(t)

Worker ==
    \/ RunOnce \/ LoadSource \/ CreateTarget \/ (\E k \in Keys : CopyBatch(k)) \/ ScanEnds
    \/ CheckCounts \/ LoadTarget \/ SwitchCollectionPhysical \/ DropSource \/ MigrationFails

Next ==
    \/ \E t \in Threads, j \in jobs, k \in Keys, v \in Vals : Begin(t, j, k, v)
    \/ \E t \in Threads : Request(t)
    \/ Worker
    \/ Crash

(* The migration loop ticks every minute and its Milvus calls return. *)
Fairness == WF_vars(Worker)

Spec == Init /\ [][Next]_vars

FairSpec == Spec /\ Fairness

-----------------------------------------------------------------------------
(***************************************************************************)
(* The collection a ready row names exists in Milvus: whatever fails, and  *)
(* wherever the gateway stops, the migration drops only what it replaced,  *)
(* and a deletion only what nobody finds any more.                         *)
(***************************************************************************)
CurrentExists == row.status = "READY" => row.phys \in exists

(***************************************************************************)
(* The current collection holds exactly the vectors written and not        *)
(* deleted, across any number of migrations, failed ones and crashes       *)
(* included, as long as no write or change that had passed the checks      *)
(* before the row moved acted after that.                                  *)
(***************************************************************************)
SwitchPreservesData == ~stale /\ row.status = "READY" => content[row.phys] = truth

(***************************************************************************)
(* A migration can be taken up again wherever the gateway stopped, as long *)
(* as no write or change acted on a row that moved and the index is not    *)
(* being deleted: the source the row names is the current collection and   *)
(* exists, and the target, which CreateTarget does not empty, holds no     *)
(* vector that was not written or was overwritten or deleted since, so     *)
(* that a second copy on top of it is the same copy.                       *)
(***************************************************************************)
MigrationResumable ==
    ~stale /\ row.state = "UPGRADING" /\ row.status = "READY" =>
        /\ row.source = row.phys /\ row.source \in exists
        /\ \A k \in Keys : content[row.target][k] \in {None, truth[k]}

(***************************************************************************)
(* Two things leave a collection that no row and no worker names: a        *)
(* migration that fails leaves at most one, its target or, after the       *)
(* switch, its source; and a deletion that a switch overtakes leaves the   *)
(* collection that the row it deletes has come to name.  A migration that  *)
(* succeeds leaves none, nor does any other deletion, in maintenance or    *)
(* not, unless a write or a change acted on a row that moved.              *)
(***************************************************************************)
Named ==
    (IF row.status = "GONE" THEN {} ELSE {row.phys, row.source, row.target})
    \cup (IF wpc = "wait" THEN {} ELSE {wRow.source, wRow.target})

LeftoversBounded ==
    ~stale => Cardinality(exists \ (Named \cup orphaned)) <= Cardinality(failed)

(***************************************************************************)
(* The index implements its promise: its vectors change by its clients'    *)
(* writes alone, whatever collection they are in.  A switch, a rollback, a *)
(* crash and the clean-up of a migration are steps nobody can tell.        *)
(***************************************************************************)
dataOf == IF row.status = "READY" THEN content[row.phys] ELSE Empty

phaseOf ==
    CASE row.status # "READY" -> "deleted"
      [] row.status = "READY" /\ row.state = "" -> "ready"
      [] OTHER -> "maintenance"

VI == INSTANCE VectorIndex WITH data <- dataOf, phase <- phaseOf, wild <- stale

ImplementsVectorIndex == VI!ASpec

(***************************************************************************)
(* Maintenance ends: every migration is switched or rolled back, or its    *)
(* index deleted, so that writes are refused only for a time.              *)
(***************************************************************************)
MaintenanceEnds == row.state = "UPGRADING" ~> (row.state = "" \/ row.status = "GONE")

-----------------------------------------------------------------------------
(* "没有一致性问题（禁写期间数据静止）": a migration loses no write. *)
NoWriteLost == row.status = "READY" => content[row.phys] = truth

==============================================================================
