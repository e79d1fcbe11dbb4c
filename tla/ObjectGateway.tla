---------------------------- MODULE ObjectGateway ----------------------------
(***************************************************************************)
(* The S3 objects of one bucket as the gateway keeps them in the file      *)
(* system: PutObject, GetObjectNInfo, CopyObject and DeleteObject on names *)
(* in one directory, the directory as an object of its own, multipart      *)
(* uploads, and the daily clean-up of temporary files.  No request takes a *)
(* lock: what holds is due to the order of file system calls, each of      *)
(* which is one action.                                                    *)
(*                                                                         *)
(* Objects are written to a private temporary file and renamed; the parts  *)
(* of an upload are files of its directory and are merged into a file      *)
(* "complete" of that directory, which is renamed.  The gateway runs with  *)
(* --keep-etag.  That an upload was not touched for 7 days may become true *)
(* at any time.                                                            *)
(***************************************************************************)
EXTENDS Naturals, FiniteSets

CONSTANTS
    Objects,             \* names in the directory
    Bodies,              \* what clients send
    Stored,              \* what the object and the parts that are there at the start hold
    Present,             \* the object that may be there at the start; the key of the uploads
    Parts,               \* an upload has parts 1..Parts
    MaxUploads,          \* bound on the upload ids drawn
    MaxRequests,         \* bound on the requests (and crashes)
    Threads,             \* request goroutines
    Cleaner,             \* the goroutine of cleanup
    Workloads,           \* which requests arrive together: a set of sets of jobs
    Faults,              \* what may fail, a subset of AllFaults
    None                 \* no file

AllJobs == {"put", "get", "copy", "delete", "putDir", "deleteDir",
            "newUpload", "part", "complete", "abort"}

(* "create": no temporary file can be created; "io": the body of a request or its *)
(* file breaks off, or an atime cannot be set; "age": temporary files in use may  *)
(* be taken for expired; "crash": the gateway may stop.                           *)
AllFaults == {"create", "io", "age", "crash"}

Slots   == 1..Parts
Uploads == 1..MaxUploads
Actors  == Threads \cup {Cleaner}
Dir     == "dir"                 \* the directory, among the names that were acknowledged

ASSUME NameAssumption ==
    /\ None \notin Objects \cup Bodies \cup {Stored}
    /\ Dir \notin Objects
    /\ Present \in Objects
    /\ Cleaner \notin Threads
    /\ IsFiniteSet(Objects)
ASSUME BoundsAssumption == Parts \in Nat \ {0} /\ MaxUploads \in Nat /\ MaxRequests \in Nat
ASSUME ChoiceAssumption == Workloads \subseteq SUBSET AllJobs /\ Faults \subseteq AllFaults

(***************************************************************************)
(* The content of a file: blocks at offsets, each from part i of upload u  *)
(* (upload 0: the body of a put); None is a hole.  Its ETag attribute says *)
(* which blocks it was computed from.                                      *)
(***************************************************************************)
Texts   == Bodies \cup {Stored}
Blocks  == (Uploads \cup {0}) \X Slots \X Texts
Content == [Slots -> Blocks \cup {None}]
File    == [data : Content, etag : Content]

ASSUME NoFileAssumption == None \notin File

Blank == [i \in Slots |-> None]

(* Mutant: the attribute is written without a value. *)
PutFile_NoTag(b) == [data |-> [Blank EXCEPT ![1] = <<0, 1, b>>], etag |-> None]

PutFile(b) == LET c == [Blank EXCEPT ![1] = <<0, 1, b>>] IN [data |-> c, etag |-> c]

VARIABLES
    obj,        \* the objects of the directory
    dir,        \* the directory: "none", "implicit", or "object" if its atime is 0
    up,         \* the uploads
    nextU,      \* the next upload id
    litter,     \* temporary files that no request owns any more
    pc, req,    \* each goroutine: position and request
    buf,        \* each request's temporary file; what a get has read
    pos,        \* the part its merge has come to
    gone,       \* those whose Rmr works on a directory that was removed meanwhile
    jobs,       \* the workload
    requests,   \* requests and crashes so far
    acked,      \* history: names whose last write was acknowledged, not deleted since
    ended,      \* history: uploads that were completed, aborted or cleaned up
    races       \* history: the kinds of races that occurred

fsVars  == <<obj, dir, up, nextU, litter>>
reqVars == <<pc, req, buf, pos, gone, jobs, requests>>
history == <<acked, ended, races>>
vars == <<fsVars, reqVars, history>>

PartFiles == [Slots -> Texts \cup {None}]

Upload == [live : BOOLEAN, parts : PartFiles, merge : File \cup {None}]

NoUpload == [live |-> FALSE, parts |-> Blank, merge |-> None]

Request == [job : AllJobs \cup {"none", "clean"}, o : Objects \cup {None},
            src : Objects \cup {None}, u : Uploads \cup {0}, i : Slots, b : Bodies \cup {None},
            list : PartFiles]

NoRequest == [job |-> "none", o |-> None, src |-> None, u |-> 0, i |-> 1, b |-> None,
              list |-> Blank]

(***************************************************************************)
(* The races (see the actions that record them):                           *)
(*   "overlap"   two CompleteMultipartUpload share the file "complete"     *)
(*   "reupload"  a part was replaced after the client listed it            *)
(*   "read"      an object was replaced while a get was reading it         *)
(*   "source"    the source of a copy was replaced between content and tag *)
(*   "undo"      a completion whose object was deleted deletes another one *)
(*   "dir"       an object directory is deleted as an empty parent         *)
(*   "ack"       a copy that could not begin is reported as done           *)
(*   "atime"     a directory is acknowledged whose atime is not 0          *)
(*   "spin"      a part is put where an Rmr looks for an older directory   *)
(***************************************************************************)
Races == {"overlap", "reupload", "read", "source", "undo", "dir", "ack", "atime", "spin"}

Labels == {"idle", "getStat", "getEtag", "open", "reply", "tmp", "copyRange", "copyEtag", "rename", "mkdir", "rename2", "stat",
           "delete", "statDir", "rmdir", "atime", "mkdirDir", "setAtime", "statPutDir",
           "check", "unlink", "create", "merge", "undo", "discard", "rmr"}

TypeOK ==
    /\ obj \in [Objects -> File \cup {None}]
    /\ dir \in {"none", "implicit", "object"}
    /\ up \in [Uploads -> Upload]
    /\ nextU \in 1..(MaxUploads + 1)
    /\ litter \in BOOLEAN
    /\ pc \in [Actors -> Labels]
    /\ req \in [Actors -> Request]
    /\ buf \in [Threads -> File \cup {None}]
    /\ pos \in [Threads -> 1..(Parts + 1)]
    /\ gone \subseteq Actors
    /\ jobs \in Workloads
    /\ requests \in 0..MaxRequests
    /\ acked \subseteq Objects \cup {Dir}
    /\ ended \subseteq Uploads
    /\ races \subseteq Races

Nothing   == [o \in Objects |-> None]
AllStored == [i \in Slots |-> Stored]

(* An empty directory, or one with an object; an upload may have all its parts. *)
Init ==
    /\ obj \in {[Nothing EXCEPT ![Present] = f] : f \in {None, PutFile(Stored)}}
    /\ dir = "implicit"
    /\ up \in [Uploads -> {NoUpload, [NoUpload EXCEPT !.live = TRUE, !.parts = AllStored]}]
    /\ \A u, w \in Uploads : u < w /\ up[w].live => up[u].live
    /\ nextU = Cardinality({u \in Uploads : up[u].live}) + 1
    /\ litter = FALSE
    /\ pc = [a \in Actors |-> "idle"]
    /\ req = [a \in Actors |-> NoRequest]
    /\ buf = [t \in Threads |-> None]
    /\ pos = [t \in Threads |-> 1]
    /\ gone = {}
    /\ jobs \in Workloads
    /\ requests = 0
    /\ acked = {o \in Objects : obj[o] # None}
    /\ ended = {}
    /\ races = {}

At(a, label) == pc[a] = label

Goto(a, label) == pc' = [pc EXCEPT ![a] = label] /\ UNCHANGED <<req, jobs, requests>>

(* The response is sent; the deferred function deletes the temporary file. *)
Return(a) ==
    /\ pc' = [pc EXCEPT ![a] = "idle"]
    /\ req' = [req EXCEPT ![a] = NoRequest]
    /\ UNCHANGED <<jobs, requests>>

Drop(t) == buf' = [buf EXCEPT ![t] = None]

Note(kind, happened) == races' = IF happened THEN races \cup {kind} ELSE races

First(j) ==
    CASE j \in {"put", "copy"} -> "tmp"
      [] j \in {"part", "complete", "abort"} -> "check"
      [] j = "get" -> "getStat"
      [] j = "delete" -> "delete"
      [] j = "putDir" -> "mkdirDir"
      [] j = "deleteDir" -> "atime"

Begin(t, r) ==
    /\ At(t, "idle")
    /\ requests < MaxRequests
    /\ requests' = requests + 1
    /\ pc' = [pc EXCEPT ![t] = First(r.job)]
    /\ req' = [req EXCEPT ![t] = r]
    /\ UNCHANGED <<fsVars, buf, pos, gone, jobs, history>>

(* A client lists its parts, as they were acknowledged, when it asks for completion. *)
Arrive(t, j) ==
    \/ \E o \in Objects, b \in Bodies :
          j = "put" /\ Begin(t, [NoRequest EXCEPT !.job = j, !.o = o, !.b = b])
    \/ \E o, s \in Objects :
          j = "copy" /\ o # s /\ Begin(t, [NoRequest EXCEPT !.job = j, !.o = o, !.src = s])
    \/ \E o \in Objects :
          j \in {"get", "delete"} /\ Begin(t, [NoRequest EXCEPT !.job = j, !.o = o])
    \/ j \in {"putDir", "deleteDir"} /\ Begin(t, [NoRequest EXCEPT !.job = j])
    \/ \E u \in 1..(nextU - 1), i \in Slots, b \in Bodies :
          j = "part" /\ Begin(t, [NoRequest EXCEPT !.job = j, !.u = u, !.i = i, !.b = b])
    \/ \E u \in 1..(nextU - 1) :
          /\ j = "complete" /\ \A i \in Slots : up[u].parts[i] # None
          /\ Begin(t, [NoRequest EXCEPT !.job = j, !.u = u, !.o = Present,
                                        !.list = up[u].parts])
    \/ \E u \in 1..(nextU - 1) :
          j = "abort" /\ Begin(t, [NoRequest EXCEPT !.job = j, !.u = u])

NewMultipartUpload(t) ==
    /\ At(t, "idle")
    /\ requests < MaxRequests
    /\ requests' = requests + 1
    /\ nextU \in Uploads
    /\ up' = [up EXCEPT ![nextU].live = TRUE]
    /\ nextU' = nextU + 1
    /\ UNCHANGED <<obj, dir, litter, pc, req, buf, pos, gone, jobs, history>>

(* checkUploadIDExists.  From here on an upload that is aborted has ended. *)
CheckUpload(t) ==
    /\ At(t, "check")
    /\ LET u == req[t].u IN
       \/ /\ ~up[u].live
          /\ Return(t)
          /\ UNCHANGED ended
       \/ /\ up[u].live
          /\ Goto(t, CASE req[t].job = "part" -> "tmp"
                       [] req[t].job = "complete" -> "unlink"
                       [] req[t].job = "abort" -> "rmr")
          /\ ended' = IF req[t].job = "abort" THEN ended \cup {u} ELSE ended
    /\ UNCHANGED <<fsVars, buf, pos, gone, acked, races>>

-----------------------------------------------------------------------------
(***************************************************************************)
(* putObject, for objects and parts: the body is written to a temporary    *)
(* file with a name of its own.  CopyObject creates its file in the same   *)
(* way, but returns without an error if it cannot.                         *)
(***************************************************************************)
CreateTmp(t) ==
    /\ At(t, "tmp")
    /\ \/ /\ buf' = [buf EXCEPT ![t] = CASE req[t].job = "copy" -> [data |-> Blank, etag |-> Blank]
                                        [] OTHER -> PutFile(req[t].b)]
          /\ Goto(t, IF req[t].job = "copy" THEN "copyRange" ELSE "rename")
          /\ UNCHANGED <<acked, races>>
       \/ /\ Faults \cap {"create", "io"} # {}
          /\ req[t].job # "copy"
          /\ Return(t)
          /\ UNCHANGED <<buf, acked, races>>
       \/ /\ "create" \in Faults
          /\ req[t].job = "copy"
          /\ Return(t)
          /\ acked' = acked \cup {req[t].o}
          /\ Note("ack", TRUE)
          /\ UNCHANGED buf
    /\ UNCHANGED <<fsVars, pos, gone, ended>>

(* CopyFileRange of the whole source; then its ETag is read, by name again. *)
CopyRange(t) ==
    /\ At(t, "copyRange")
    /\ \/ /\ buf[t] # None /\ obj[req[t].src] # None
          /\ buf' = [buf EXCEPT ![t].data = obj[req[t].src].data]
          /\ Goto(t, "copyEtag")
       \/ /\ buf[t] = None \/ obj[req[t].src] = None \/ "io" \in Faults
          /\ Drop(t)
          /\ Return(t)
    /\ UNCHANGED <<fsVars, pos, gone, history>>

(* Mutant: the ETag is read from the name the copy is about to replace. *)
CopyEtag_OfTarget(t) ==
    /\ At(t, "copyEtag")
    /\ LET d == obj[req[t].o] IN
       buf' = IF buf[t] = None \/ d = None THEN buf ELSE [buf EXCEPT ![t].etag = d.etag]
    /\ Goto(t, "rename")
    /\ UNCHANGED <<fsVars, pos, gone, history>>

CopyEtag(t) ==
    /\ At(t, "copyEtag")
    /\ LET s == obj[req[t].src] IN
       /\ buf' = IF buf[t] = None \/ s = None THEN buf ELSE [buf EXCEPT ![t].etag = s.etag]
       /\ Note("source", buf[t] # None /\ s # None /\ s.data # buf[t].data)
    /\ Goto(t, "rename")
    /\ UNCHANGED <<fsVars, pos, gone, acked, ended>>

(***************************************************************************)
(* Rename of the temporary file, or of the merged file of a completion, to *)
(* its place.  It returns ENOENT if the file or the target's directory is  *)
(* not there; then the directory is made and the rename tried once more.   *)
(***************************************************************************)
SourceOf(t) == IF req[t].job = "complete" THEN up[req[t].u].merge ELSE buf[t]

TargetDirExists(t) == IF req[t].job = "part" THEN up[req[t].u].live ELSE dir # "none"

CanRename(t) == SourceOf(t) # None /\ TargetDirExists(t)

Renamed(t) ==
    CASE req[t].job = "part" ->
            /\ up' = [up EXCEPT ![req[t].u].parts[req[t].i] = req[t].b]
            /\ Note("spin", \E a \in gone : req[a].u = req[t].u)
            /\ Drop(t)
            /\ Return(t)
            /\ UNCHANGED obj
      [] req[t].job = "complete" ->
            /\ obj' = [obj EXCEPT ![req[t].o] = SourceOf(t)]
            /\ up' = [up EXCEPT ![req[t].u].merge = None]
            /\ Goto(t, "stat")
            /\ UNCHANGED <<buf, races>>
      [] OTHER ->
            /\ obj' = [obj EXCEPT ![req[t].o] = SourceOf(t)]
            /\ Drop(t)
            /\ Goto(t, "stat")
            /\ UNCHANGED <<up, races>>

Rename(t) ==
    /\ At(t, "rename")
    /\ \/ CanRename(t) /\ Renamed(t)
       \/ ~CanRename(t) /\ Goto(t, "mkdir") /\ UNCHANGED <<obj, up, buf, races>>
    /\ UNCHANGED <<dir, nextU, litter, pos, gone, acked, ended>>

(* mkdirAll of the target's directory: the upload's may have been removed meanwhile. *)
MkdirAll(t) ==
    /\ At(t, "mkdir")
    /\ IF req[t].job = "part"
       THEN up' = [up EXCEPT ![req[t].u].live = TRUE] /\ UNCHANGED dir
       ELSE dir' = (IF dir = "none" THEN "implicit" ELSE dir) /\ UNCHANGED up
    /\ Goto(t, "rename2")
    /\ UNCHANGED <<obj, nextU, litter, buf, pos, gone, history>>

RenameAgain(t) ==
    /\ At(t, "rename2")
    /\ \/ CanRename(t) /\ Renamed(t)
       \/ /\ ~CanRename(t)
          /\ IF req[t].job = "complete" THEN Goto(t, "discard") ELSE Return(t)
          /\ Drop(t)
          /\ UNCHANGED <<obj, up, races>>
    /\ UNCHANGED <<dir, nextU, litter, pos, gone, acked, ended>>

(* A completion whose rename failed deletes its file, by name. *)
DiscardMerge(t) ==
    /\ At(t, "discard")
    /\ up' = [up EXCEPT ![req[t].u].merge = None]
    /\ Return(t)
    /\ UNCHANGED <<obj, dir, nextU, litter, buf, pos, gone, history>>

(* The last Stat: an object that is not there any more makes the request fail. *)
StatObject(t) ==
    /\ At(t, "stat")
    /\ LET o == req[t].o
           complete == req[t].job = "complete" IN
       \/ /\ obj[o] # None
          /\ IF complete THEN Goto(t, "rmr") ELSE Return(t)
          /\ acked' = acked \cup {o}
          /\ ended' = IF complete THEN ended \cup {req[t].u} ELSE ended
       \/ /\ obj[o] = None
          /\ IF complete THEN Goto(t, "undo") ELSE Return(t)
          /\ UNCHANGED <<acked, ended>>
    /\ UNCHANGED <<fsVars, buf, pos, gone, races>>

(* CompleteMultipartUpload after a failed Stat: Delete of the object's name. *)
UndoComplete(t) ==
    /\ At(t, "undo")
    /\ obj' = [obj EXCEPT ![req[t].o] = None]
    /\ Note("undo", obj[req[t].o] # None)
    /\ Return(t)
    /\ UNCHANGED <<dir, up, nextU, litter, buf, pos, gone, acked, ended>>

-----------------------------------------------------------------------------
(***************************************************************************)
(* GetObjectNInfo: Stat for the size, the ETag, and Open, each by name;    *)
(* the reader is limited to the size.  An open file is read to its end,    *)
(* whatever becomes of its name.                                           *)
(***************************************************************************)
GetStat(t) ==
    /\ At(t, "getStat")
    /\ LET f == obj[req[t].o] IN
       \/ f = None /\ Return(t) /\ UNCHANGED buf
       \/ /\ f # None
          /\ buf' = [buf EXCEPT ![t] = [data |-> f.data, etag |-> Blank]]
          /\ Goto(t, "getEtag")
    /\ UNCHANGED <<fsVars, pos, gone, history>>

GetEtag(t) ==
    /\ At(t, "getEtag")
    /\ LET f == obj[req[t].o] IN
       /\ buf' = IF f = None THEN buf ELSE [buf EXCEPT ![t].etag = f.etag]
       /\ Note("read", f # None /\ f.data # buf[t].data)
    /\ Goto(t, "open")
    /\ UNCHANGED <<fsVars, pos, gone, acked, ended>>

(* Mutant: the range ends one block early. *)
Limit_Short(c, d) == [i \in Slots |-> IF d[i] = None \/ i = Parts THEN None ELSE c[i]]

(* The first blocks of content c, as many as there are in content d. *)
Limit(c, d) == [i \in Slots |-> IF d[i] = None THEN None ELSE c[i]]

GetOpen(t) ==
    /\ At(t, "open")
    /\ LET f == obj[req[t].o] IN
       \/ f = None /\ Drop(t) /\ Return(t) /\ UNCHANGED races
       \/ /\ f # None
          /\ buf' = [buf EXCEPT ![t].data = Limit(f.data, @)]
          /\ Note("read", f.data # buf[t].data)
          /\ Goto(t, "reply")
    /\ UNCHANGED <<fsVars, pos, gone, acked, ended>>

GetReply(t) ==
    /\ At(t, "reply")
    /\ Drop(t)
    /\ Return(t)
    /\ UNCHANGED <<fsVars, pos, gone, history>>

-----------------------------------------------------------------------------
(***************************************************************************)
(* DeleteObject deletes the file and then its directory, if that is empty  *)
(* and no object itself (atime 0), which is asked before it is deleted.    *)
(***************************************************************************)
DeleteFile(t) ==
    /\ At(t, "delete")
    /\ obj' = [obj EXCEPT ![req[t].o] = None]
    /\ acked' = acked \ {req[t].o}
    /\ IF obj[req[t].o] = None THEN Return(t) ELSE Goto(t, "statDir")
    /\ UNCHANGED <<dir, up, nextU, litter, buf, pos, gone, ended, races>>

StatDir(t) ==
    /\ At(t, "statDir")
    /\ IF dir = "implicit" THEN Goto(t, "rmdir") ELSE Return(t)
    /\ UNCHANGED <<fsVars, buf, pos, gone, history>>

DirEmpty == \A o \in Objects : obj[o] = None

(* Mutant: the directory is deleted with what is in it. *)
RemoveDir_Recursive(t) ==
    /\ At(t, "rmdir")
    /\ dir' = "none"
    /\ obj' = [o \in Objects |-> None]
    /\ Note("dir", dir = "object" /\ req[t].job = "delete")
    /\ Return(t)
    /\ UNCHANGED <<up, nextU, litter, buf, pos, gone, acked, ended>>

(* Delete of the directory: ENOTEMPTY and ENOENT end the request as well. *)
RemoveDir(t) ==
    /\ At(t, "rmdir")
    /\ dir' = IF DirEmpty THEN "none" ELSE dir
    /\ Note("dir", DirEmpty /\ dir = "object" /\ req[t].job = "delete")
    /\ acked' = IF DirEmpty /\ req[t].job = "deleteDir" THEN acked \ {Dir} ELSE acked
    /\ Return(t)
    /\ UNCHANGED <<obj, up, nextU, litter, buf, pos, gone, ended>>

(* setFileAtime: no error of it, not even ENOENT, reaches the request. *)
SetFileAtime(kind) ==
    \/ dir' = IF dir = "none" THEN dir ELSE kind
    \/ "io" \in Faults /\ UNCHANGED dir

(* Deletion of the directory as an object: its atime is reset, then it is deleted. *)
ResetAtime(t) ==
    /\ At(t, "atime")
    /\ SetFileAtime("implicit")
    /\ acked' = acked \ {Dir}
    /\ Goto(t, "rmdir")
    /\ UNCHANGED <<obj, up, nextU, litter, buf, pos, gone, ended, races>>

(***************************************************************************)
(* PutObject of the directory: mkdirAll, atime 0, Stat.  It is done if the *)
(* Stat finds the directory, which need not be the one that was made.      *)
(***************************************************************************)
MakeDir(t) ==
    /\ At(t, "mkdirDir")
    /\ dir' = IF dir = "none" THEN "implicit" ELSE dir
    /\ Goto(t, "setAtime")
    /\ UNCHANGED <<obj, up, nextU, litter, buf, pos, gone, history>>

SetAtime(t) ==
    /\ At(t, "setAtime")
    /\ SetFileAtime("object")
    /\ Goto(t, "statPutDir")
    /\ UNCHANGED <<obj, up, nextU, litter, buf, pos, gone, history>>

StatPutDir(t) ==
    /\ At(t, "statPutDir")
    /\ acked' = IF dir = "none" THEN acked ELSE acked \cup {Dir}
    /\ Note("atime", dir = "implicit")
    /\ Return(t)
    /\ UNCHANGED <<fsVars, buf, pos, gone, ended>>

-----------------------------------------------------------------------------
(***************************************************************************)
(* CompleteMultipartUpload: the file "complete" of an earlier attempt is   *)
(* deleted, a new one created (O_EXCL), the parts are copied into it one   *)
(* by one, all by name.                                                    *)
(***************************************************************************)
UnlinkMerge(t) ==
    /\ At(t, "unlink")
    /\ up' = [up EXCEPT ![req[t].u].merge = None]
    /\ Goto(t, "create")
    /\ UNCHANGED <<obj, dir, nextU, litter, buf, pos, gone, history>>

(* Goroutines that are merging the parts of u. *)
Merging(u) ==
    {t \in Threads : /\ req[t].job = "complete" /\ req[t].u = u
                     /\ pc[t] \in {"merge", "rename", "mkdir", "rename2"}}

CreateMerge(t) ==
    /\ At(t, "create")
    /\ LET u == req[t].u IN
       \/ /\ up[u].live /\ up[u].merge = None
          /\ up' = [up EXCEPT ![u].merge = [data |-> Blank, etag |-> Blank]]
          /\ pos' = [pos EXCEPT ![t] = 1]
          /\ Note("overlap", Merging(u) # {})
          /\ Goto(t, "merge")
       \/ /\ ~up[u].live \/ up[u].merge # None \/ "create" \in Faults
          /\ Return(t)
          /\ UNCHANGED <<up, pos, races>>
    /\ UNCHANGED <<obj, dir, nextU, litter, buf, gone, acked, ended>>

Block(u, i, b) == IF b = None THEN None ELSE <<u, i, b>>

(* Mutant: a part that is missing is skipped. *)
MergePart_Skips(t) ==
    /\ At(t, "merge")
    /\ pos[t] \in Slots
    /\ LET u == req[t].u
           i == pos[t] IN
       /\ up' = IF up[u].merge = None THEN up
                ELSE [up EXCEPT ![u].merge.data[i] = Block(u, i, up[u].parts[i])]
       /\ Note("reupload", up[u].parts[i] # req[t].list[i])
    /\ pos' = [pos EXCEPT ![t] = @ + 1]
    /\ Goto(t, "merge")
    /\ UNCHANGED <<obj, dir, nextU, litter, buf, gone, acked, ended>>

(* CopyFileRange of part number pos; without the part or the file the request ends. *)
MergePart(t) ==
    /\ At(t, "merge")
    /\ pos[t] \in Slots
    /\ LET u == req[t].u
           i == pos[t] IN
       \/ /\ up[u].parts[i] # None /\ up[u].merge # None
          /\ up' = [up EXCEPT ![u].merge.data[i] = Block(u, i, up[u].parts[i])]
          /\ Note("reupload", up[u].parts[i] # req[t].list[i])
          /\ pos' = [pos EXCEPT ![t] = @ + 1]
          /\ Goto(t, "merge")
       \/ /\ up[u].parts[i] = None \/ up[u].merge = None \/ "io" \in Faults
          /\ Return(t)
          /\ UNCHANGED <<up, pos, races>>
    /\ UNCHANGED <<obj, dir, nextU, litter, buf, gone, acked, ended>>

(* ComputeCompleteMultipartMD5 of the client's list; SetXattr, whose error is logged. *)
SetEtag(t) ==
    /\ At(t, "merge")
    /\ pos[t] = Parts + 1
    /\ LET u == req[t].u IN
       up' = IF up[u].merge = None THEN up
             ELSE [up EXCEPT ![u].merge.etag = [i \in Slots |-> Block(u, i, req[t].list[i])]]
    /\ Goto(t, "rename")
    /\ UNCHANGED <<obj, dir, nextU, litter, buf, pos, gone, history>>

-----------------------------------------------------------------------------
(***************************************************************************)
(* fs.Rmr of an upload's directory: its files are deleted one by one, then *)
(* the directory by name.  ENOTEMPTY starts over, with the inode that was  *)
(* looked up: one whose directory was removed and made again by others     *)
(* sees no files, and goes on trying until the new one is empty.           *)
(***************************************************************************)
Empty(u) == up[u].merge = None /\ \A i \in Slots : up[u].parts[i] = None

(* Mutant: the file "complete" is not listed. *)
RmrFile_PartsOnly(a) ==
    /\ At(a, "rmr")
    /\ a \notin gone
    /\ LET u == req[a].u IN
       \E i \in Slots : up[u].parts[i] # None /\ up' = [up EXCEPT ![u].parts[i] = None]
    /\ UNCHANGED <<obj, dir, nextU, litter, reqVars, history>>

RmrFile(a) ==
    /\ At(a, "rmr")
    /\ a \notin gone
    /\ LET u == req[a].u IN
       \/ \E i \in Slots : up[u].parts[i] # None /\ up' = [up EXCEPT ![u].parts[i] = None]
       \/ up[u].merge # None /\ up' = [up EXCEPT ![u].merge = None]
    /\ UNCHANGED <<obj, dir, nextU, litter, reqVars, history>>

RmrDir(a) ==
    /\ At(a, "rmr")
    /\ LET u == req[a].u IN
       /\ Empty(u)
       /\ up' = [up EXCEPT ![u].live = FALSE]
       /\ gone' = IF up[u].live
                  THEN (gone \cup {x \in Actors : At(x, "rmr") /\ req[x].u = u}) \ {a}
                  ELSE gone \ {a}
    /\ Return(a)
    /\ UNCHANGED <<obj, dir, nextU, litter, buf, pos, history>>

(***************************************************************************)
(* cleanupDir: an upload whose directory is listed with an old mtime is    *)
(* removed.  So is an old directory of id prefixes that is listed empty,   *)
(* with an upload created in it after that.                                *)
(***************************************************************************)
CleanUpload(u) ==
    /\ At(Cleaner, "idle")
    /\ \/ up[u].live
       \/ u = nextU /\ \A w \in Uploads : ~up[w].live
    /\ pc' = [pc EXCEPT ![Cleaner] = "rmr"]
    /\ req' = [req EXCEPT ![Cleaner] = [NoRequest EXCEPT !.job = "clean", !.u = u]]
    /\ UNCHANGED <<fsVars, buf, pos, gone, jobs, requests, history>>

CleanLitter ==
    /\ litter
    /\ litter' = FALSE
    /\ UNCHANGED <<obj, dir, up, nextU, reqVars, history>>

(* The temporary file of a request that takes longer than 7 days. *)
CleanTmp(t) ==
    /\ "age" \in Faults
    /\ buf[t] # None /\ req[t].job # "get"
    /\ Drop(t)
    /\ UNCHANGED <<fsVars, pc, req, pos, gone, jobs, requests, history>>

(* The gateway stops and starts again: files stay as they are. *)
Crash ==
    /\ "crash" \in Faults
    /\ requests < MaxRequests
    /\ \E a \in Actors : pc[a] # "idle"
    /\ requests' = requests + 1
    /\ pc' = [a \in Actors |-> "idle"]
    /\ req' = [a \in Actors |-> NoRequest]
    /\ buf' = [t \in Threads |-> None]
    /\ pos' = [t \in Threads |-> 1]
    /\ gone' = {}
    /\ litter' = (litter \/ \E t \in Threads : buf[t] # None /\ req[t].job # "get")
    /\ UNCHANGED <<obj, dir, up, nextU, jobs, history>>

Step(t) ==
    \/ CheckUpload(t) \/ CreateTmp(t) \/ CopyRange(t) \/ CopyEtag(t)
    \/ Rename(t) \/ MkdirAll(t) \/ RenameAgain(t) \/ DiscardMerge(t)
    \/ StatObject(t) \/ UndoComplete(t)
    \/ GetStat(t) \/ GetEtag(t) \/ GetOpen(t) \/ GetReply(t)
    \/ DeleteFile(t) \/ StatDir(t) \/ RemoveDir(t) \/ ResetAtime(t)
    \/ MakeDir(t) \/ SetAtime(t) \/ StatPutDir(t)
    \/ UnlinkMerge(t) \/ CreateMerge(t) \/ MergePart(t) \/ SetEtag(t)

Rmr(a) == RmrFile(a) \/ RmrDir(a)

Next ==
    \/ \E t \in Threads, j \in jobs : Arrive(t, j)
    \/ "newUpload" \in jobs /\ \E t \in Threads : NewMultipartUpload(t)
    \/ \E t \in Threads : Step(t) \/ CleanTmp(t)
    \/ \E a \in Actors : Rmr(a)
    \/ \E u \in Uploads : CleanUpload(u)
    \/ CleanLitter
    \/ Crash

Spec == Init /\ [][Next]_vars

(* File system calls return, days pass and the daily clean-up runs. *)
Fairness ==
    /\ \A t \in Threads : WF_vars(Step(t) \/ Rmr(t))
    /\ WF_vars(Rmr(Cleaner))
    /\ \A u \in Uploads : SF_vars(CleanUpload(u))

FairSpec == Spec /\ Fairness

-----------------------------------------------------------------------------
Put(f) == \E b \in Texts : f.data = PutFile(b).data

Merged(f) == \E u \in Uploads : \A i \in Slots : \E b \in Texts : f.data[i] = <<u, i, b>>

(***************************************************************************)
(* Every object is the whole body of one put or all parts of one upload,   *)
(* in order and without holes, through concurrent puts, copies, deletions, *)
(* aborts, clean-ups and crashes; unless two completions of one upload     *)
(* overlapped.                                                             *)
(***************************************************************************)
ObjectsWhole ==
    "overlap" \notin races =>
        \A o \in Objects : obj[o] # None => Put(obj[o]) \/ Merged(obj[o])

(***************************************************************************)
(* A get answers with a whole object and the ETag of what it answers, or   *)
(* none; unless the object was replaced while it was read, or the object   *)
(* itself comes from such a race.                                          *)
(***************************************************************************)
RepliesMatch ==
    races \cap {"read", "overlap", "reupload", "source"} = {} =>
        \A t \in Threads : pc[t] = "reply" =>
            /\ Put(buf[t]) \/ Merged(buf[t])
            /\ buf[t].etag \in {buf[t].data, Blank}

(***************************************************************************)
(* The ETag stored with an object is that of its content, or there is      *)
(* none; unless completions of one upload overlapped, a part was replaced  *)
(* while it was merged, or the source of a copy while it was copied.       *)
(***************************************************************************)
EtagDescribesContent ==
    races \cap {"overlap", "reupload", "source"} = {} =>
        \A o \in Objects : obj[o] # None => obj[o].etag \in {obj[o].data, Blank}

(***************************************************************************)
(* What was acknowledged is there until it is deleted by its name: neither *)
(* the removal of empty parents nor the undoing of a completion takes away *)
(* another object, unless a completion undid another put ("undo") or a     *)
(* copy was acknowledged that had not begun ("ack"); the directory object  *)
(* stays too, unless it was taken for an empty parent while it was made    *)
(* ("dir"), or acknowledged without its atime ("atime").                   *)
(***************************************************************************)
AckedPresent ==
    /\ races \cap {"undo", "ack"} = {} => \A o \in Objects \cap acked : obj[o] # None
    /\ races \cap {"dir", "atime"} = {} => (Dir \in acked => dir # "none")

(***************************************************************************)
(* The gateway comes to rest when requests stop arriving: every request    *)
(* has returned, and no upload that was completed or aborted is left, not  *)
(* when a part on its way made the directory again, not after a crash;     *)
(* unless an Rmr met a directory that was made again.                      *)
(***************************************************************************)
AtRest ==
    /\ \A t \in Threads : pc[t] = "idle"
    /\ \A u \in ended : ~up[u].live

ComesToRest == []<>(AtRest \/ "spin" \in races)

==============================================================================
