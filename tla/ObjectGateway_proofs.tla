------------------------- MODULE ObjectGateway_proofs -------------------------
(***************************************************************************)
(* Proofs about ObjectGateway, for any objects, bodies, parts, uploads,    *)
(* goroutines, workloads and faults.                                       *)
(***************************************************************************)
EXTENDS ObjectGateway, FiniteSetTheorems, TLAPS

USE NameAssumption, BoundsAssumption, ChoiceAssumption

(***************************************************************************)
(* The type invariant in parts: the files, the requests, their temporary   *)
(* files, and the histories.                                               *)
(***************************************************************************)
FsType ==
    /\ obj \in [Objects -> File \cup {None}]
    /\ dir \in {"none", "implicit", "object"}
    /\ up \in [Uploads -> Upload]
    /\ nextU \in 1..(MaxUploads + 1)
    /\ litter \in BOOLEAN

ReqType ==
    /\ pc \in [Actors -> Labels]
    /\ req \in [Actors -> Request]
    /\ jobs \in Workloads
    /\ requests \in 0..MaxRequests

BufType == buf \in [Threads -> File \cup {None}] /\ pos \in [Threads -> 1..(Parts + 1)]

HistType ==
    /\ gone \subseteq Actors
    /\ acked \subseteq Objects \cup {Dir}
    /\ ended \subseteq Uploads
    /\ races \subseteq Races

(***************************************************************************)
(* What a request of each kind carries (Wants), which kinds come to which  *)
(* label (Fits), and that a get past its Stat holds what it has read.      *)
(***************************************************************************)
Renaming == {"rename", "mkdir", "rename2"}

Wants(r) ==
    /\ r.job \in {"put", "copy", "get", "delete", "complete"} => r.o \in Objects
    /\ r.job = "copy" => r.src \in Objects
    /\ r.job \in {"put", "part"} => r.b \in Bodies
    /\ r.job \in {"part", "complete", "abort", "clean"} => r.u \in Uploads
    /\ r.job = "complete" => \A i \in Slots : r.list[i] # None

Fits(l, r) ==
    /\ l = "tmp" => r.job \in {"put", "copy", "part"}
    /\ l \in {"copyRange", "copyEtag"} => r.job = "copy"
    /\ l \in Renaming => r.job \in {"put", "copy", "part", "complete"}
    /\ l = "stat" => r.job \in {"put", "copy", "complete"}
    /\ l \in {"unlink", "create", "merge", "discard", "undo"} => r.job = "complete"
    /\ l \in {"getStat", "getEtag", "open", "reply"} => r.job = "get"
    /\ l \in {"delete", "statDir"} => r.job = "delete"
    /\ l = "atime" => r.job = "deleteDir"
    /\ l = "rmdir" => r.job \in {"delete", "deleteDir"}
    /\ l = "check" => r.job \in {"part", "complete", "abort"}
    /\ l = "rmr" => r.job \in {"complete", "abort", "clean"}

Where ==
    /\ \A a \in Actors : Wants(req[a]) /\ Fits(pc[a], req[a])
    /\ pc[Cleaner] \in {"idle", "rmr"}

Reading == \A t \in Threads : pc[t] \in {"getEtag", "open", "reply"} => buf[t] \in File

Base == FsType /\ ReqType /\ BufType /\ HistType /\ Where /\ Reading

-----------------------------------------------------------------------------
(* Blank is a content. *)
LEMMA BlankType == Blank \in Content /\ [data |-> Blank, etag |-> Blank] \in File
  BY DEF Blank, Content, File

(* What a put writes is a file. *)
LEMMA PutFileType ==
  ASSUME NEW b \in Texts
  PROVE  /\ PutFile(b) \in File
         /\ PutFile(b).etag = PutFile(b).data
<1> DEFINE c == [Blank EXCEPT ![1] = <<0, 1, b>>]
<1>1. 1 \in Slots
  BY DEF Slots
<1>2. <<0, 1, b>> \in Blocks
  BY <1>1 DEF Blocks
<1>3. c \in Content
  BY <1>1, <1>2 DEF Content, Blank
<1>4. PutFile(b) = [data |-> c, etag |-> c]
  BY DEF PutFile
<1> HIDE DEF c
<1> QED
  BY <1>3, <1>4 DEF File

(* The request that nobody sent. *)
LEMMA NoRequestType ==
  /\ NoRequest \in Request /\ Wants(NoRequest) /\ Fits("idle", NoRequest)
  /\ NoRequest.job = "none"
  BY DEF NoRequest, Request, Wants, Fits, Renaming, Slots, Blank, PartFiles

(* The fields of an upload that a step may write. *)
LEMMA UploadType ==
  ASSUME NEW f \in [Uploads -> Upload], NEW u \in Uploads, NEW live \in BOOLEAN,
         NEW i \in Slots, NEW b \in Texts \cup {None}, NEW m \in File \cup {None}
  PROVE  /\ [f EXCEPT ![u].live = live] \in [Uploads -> Upload]
         /\ [f EXCEPT ![u].parts[i] = b] \in [Uploads -> Upload]
         /\ [f EXCEPT ![u].merge = m] \in [Uploads -> Upload]
<1>1. f[u] \in Upload
  OBVIOUS
<1>2. f[u].parts \in PartFiles
  BY <1>1 DEF Upload
<1>3. [f[u].parts EXCEPT ![i] = b] \in PartFiles
  BY <1>2 DEF PartFiles
<1>4. [f[u] EXCEPT !.parts[i] = b] \in Upload
  BY <1>1, <1>3 DEF Upload
<1>5. [f[u] EXCEPT !.live = live] \in Upload /\ [f[u] EXCEPT !.merge = m] \in Upload
  BY <1>1 DEF Upload
<1> QED
  BY <1>4, <1>5

(* A file whose data or ETag is written is a file. *)
LEMMA FileType ==
  ASSUME NEW f \in File, NEW c \in Content
  PROVE  /\ f.data \in Content /\ f.etag \in Content
         /\ [f EXCEPT !.data = c] \in File /\ [f EXCEPT !.data = c].data = c
         /\ [f EXCEPT !.data = c].etag = f.etag
         /\ [f EXCEPT !.etag = c] \in File /\ [f EXCEPT !.etag = c].etag = c
         /\ [f EXCEPT !.etag = c].data = f.data
  BY DEF File

(* A file whose block i is written. *)
LEMMA DataType ==
  ASSUME NEW f \in File, NEW i \in Slots, NEW x \in Blocks \cup {None}
  PROVE  /\ [f EXCEPT !.data[i] = x] \in File
         /\ [f EXCEPT !.data[i] = x].data = [f.data EXCEPT ![i] = x]
         /\ [f EXCEPT !.data[i] = x].etag = f.etag
<1>1. f.data \in Content
  BY DEF File
<1>2. [f.data EXCEPT ![i] = x] \in Content
  BY <1>1 DEF Content
<1> QED
  BY <1>2 DEF File

(* A part, at its place. *)
LEMMA BlockType ==
  ASSUME NEW u \in Uploads, NEW i \in Slots, NEW b \in Texts \cup {None}
  PROVE  Block(u, i, b) \in Blocks \cup {None}
  BY DEF Block, Blocks

(* What a get answers is a content. *)
LEMMA LimitType ==
  ASSUME NEW c \in Content, NEW d \in Content
  PROVE  Limit(c, d) \in Content /\ (c = d => Limit(c, d) = c)
  BY DEF Limit, Content

-----------------------------------------------------------------------------
(* A step of a leaves the requests of all others alone. *)
Others(a) == \A x \in Actors \ {a} : pc'[x] = pc[x] /\ req'[x] = req[x]

(* Where Goto leaves the requests. *)
LEMMA GotoView ==
  ASSUME ReqType, Where, NEW t \in Threads, NEW l \in Labels, Fits(l, req[t]), Goto(t, l)
  PROVE  ReqType' /\ Where' /\ Others(t) /\ pc'[t] = l /\ req' = req
<1>1. t \in Actors /\ t # Cleaner
  BY DEF Actors
<1>2. pc' = [pc EXCEPT ![t] = l] /\ req' = req /\ jobs' = jobs /\ requests' = requests
  BY DEF Goto
<1>3. ReqType'
  BY <1>1, <1>2 DEF ReqType
<1>4. pc'[t] = l /\ \A x \in Actors \ {t} : pc'[x] = pc[x]
  BY <1>1, <1>2 DEF ReqType
<1>5. \A x \in Actors : Wants(req'[x]) /\ Fits(pc'[x], req'[x])
  BY <1>2, <1>4 DEF Where
<1>6. pc'[Cleaner] \in {"idle", "rmr"}
  BY <1>1, <1>4 DEF Where, Actors
<1> QED
  BY <1>2, <1>3, <1>4, <1>5, <1>6 DEF Where, Others

(* Where Return does. *)
LEMMA ReturnView ==
  ASSUME ReqType, Where, NEW a \in Actors, Return(a)
  PROVE  ReqType' /\ Where' /\ Others(a) /\ pc'[a] = "idle" /\ req'[a] = NoRequest
<1>1. /\ pc' = [pc EXCEPT ![a] = "idle"] /\ req' = [req EXCEPT ![a] = NoRequest]
      /\ jobs' = jobs /\ requests' = requests
  BY DEF Return
<1>2. ReqType'
  BY <1>1, NoRequestType DEF ReqType, Labels
<1>3. pc'[a] = "idle" /\ req'[a] = NoRequest
  BY <1>1 DEF ReqType
<1>4. \A x \in Actors \ {a} : pc'[x] = pc[x] /\ req'[x] = req[x]
  BY <1>1 DEF ReqType
<1>5. \A x \in Actors : Wants(req'[x]) /\ Fits(pc'[x], req'[x])
  BY <1>3, <1>4, NoRequestType DEF Where
<1>6. pc'[Cleaner] \in {"idle", "rmr"}
  BY <1>3, <1>4 DEF Where, Actors
<1> QED
  BY <1>2, <1>3, <1>4, <1>5, <1>6 DEF Where, Others

(* A note of a race is kept. *)
LEMMA NoteView ==
  ASSUME races \subseteq Races, NEW k \in Races, NEW h \in BOOLEAN, Note(k, h)
  PROVE  races' \subseteq Races /\ races \subseteq races' /\ (h => k \in races')
  BY DEF Note

(***************************************************************************)
(* What a step may do to the files a request does not own: names lose      *)
(* their objects (Fewer), uploads their merged files (Unmerged).  The      *)
(* temporary files of the other requests stay (Private).                   *)
(***************************************************************************)
Fewer == \A o \in Objects : obj'[o] \in {obj[o], None}

Unmerged == \A u \in Uploads : up'[u].merge \in {up[u].merge, None}

Private(t) == \A x \in Threads \ {t} : buf'[x] = buf[x] /\ pos'[x] = pos[x]

(* The labels at which a request holds a file that will be an object or a reply. *)
Busy == {"copyRange", "copyEtag", "getEtag", "open", "reply", "merge"} \cup Renaming

Calm(t) == Others(t) /\ Private(t) /\ pc'[t] \notin Busy /\ Fewer /\ Unmerged

(* Nothing is known of a request that holds no file. *)
LEMMA ReadingCalm ==
  ASSUME Reading, NEW t \in Threads, Others(t), Private(t),
         pc'[t] \in {"getEtag", "open", "reply"} => buf'[t] \in File
  PROVE  Reading'
<1> SUFFICES ASSUME NEW x \in Threads, pc'[x] \in {"getEtag", "open", "reply"}
             PROVE  buf'[x] \in File
  BY DEF Reading
<1>1. CASE x = t
  BY <1>1
<1>2. CASE x # t
  BY <1>2 DEF Reading, Others, Private, Actors
<1> QED
  BY <1>1, <1>2

(* The files that are left are files. *)
LEMMA SameFs ==
  ASSUME UNCHANGED <<obj, up>>
  PROVE  Fewer /\ Unmerged
  BY DEF Fewer, Unmerged
(* The fields of a request. *)
Form(j, o, s, u, i, b, l) ==
    [job |-> j, o |-> o, src |-> s, u |-> u, i |-> i, b |-> b, list |-> l]

(* A request with these fields is one. *)
LEMMA FormType ==
  ASSUME NEW j \in AllJobs, NEW o \in Objects \cup {None}, NEW s \in Objects \cup {None},
         NEW u \in Uploads \cup {0}, NEW i \in Slots, NEW b \in Bodies \cup {None},
         NEW l \in PartFiles
  PROVE  LET r == Form(j, o, s, u, i, b, l) IN
         /\ r \in Request /\ r.job = j /\ r.o = o /\ r.src = s /\ r.u = u /\ r.b = b /\ r.list = l
  BY DEF Form, Request

(* A request arrives with what its kind wants, at the label its kind begins with. *)
LEMMA ArriveView ==
  ASSUME Base, NEW t \in Threads, NEW r \in Request, Wants(r), Fits(First(r.job), r),
         First(r.job) \in Labels \ Busy, Begin(t, r)
  PROVE  Base' /\ Calm(t) /\ races' = races
<1>1. t \in Actors /\ t # Cleaner
  BY DEF Actors
<1>2. /\ pc' = [pc EXCEPT ![t] = First(r.job)] /\ req' = [req EXCEPT ![t] = r]
      /\ requests < MaxRequests /\ requests' = requests + 1 /\ jobs' = jobs
      /\ UNCHANGED <<obj, dir, up, nextU, litter>> /\ UNCHANGED <<buf, pos>>
      /\ UNCHANGED <<gone, acked, ended, races>>
  BY DEF Begin, fsVars, history
<1>3. ReqType'
  BY <1>1, <1>2 DEF Base, ReqType
<1>4. pc'[t] = First(r.job) /\ req'[t] = r
  BY <1>1, <1>2 DEF Base, ReqType
<1>5. Others(t)
  BY <1>1, <1>2 DEF Base, ReqType, Others
<1>6. \A x \in Actors : Wants(req'[x]) /\ Fits(pc'[x], req'[x])
  BY <1>4, <1>5 DEF Base, Where, Others
<1>7. pc'[Cleaner] \in {"idle", "rmr"}
  BY <1>1, <1>5 DEF Base, Where, Others, Actors
<1>8. Where'
  BY <1>6, <1>7 DEF Where
<1>9. Private(t)
  BY <1>2 DEF Private
<1>10. Reading'
  BY <1>4, <1>5, <1>9, ReadingCalm DEF Base, Busy
<1>11. FsType' /\ BufType' /\ HistType'
  BY <1>2 DEF Base, FsType, BufType, HistType
<1> QED
  BY <1>2, <1>3, <1>4, <1>5, <1>8, <1>9, <1>10, <1>11, SameFs DEF Base, Calm

(* Requests of every kind. *)
LEMMA ArriveCalm ==
  ASSUME Base, NEW t \in Threads, NEW j \in jobs, Arrive(t, j)
  PROVE  Base' /\ Calm(t) /\ races' = races
<1>1. 1..(nextU - 1) \subseteq Uploads
  BY DEF Base, FsType, Uploads
<1>2. Blank \in PartFiles /\ 1 \in Slots
  BY DEF Blank, PartFiles, Slots
<1>n. NoRequest = Form("none", None, None, 0, 1, None, Blank)
  BY DEF NoRequest, Form
<1>j. j \in AllJobs
  BY DEF Base, ReqType
<1>3. CASE \E o \in Objects, b \in Bodies :
             j = "put" /\ Begin(t, [NoRequest EXCEPT !.job = j, !.o = o, !.b = b])
  <2>1. PICK o \in Objects, b \in Bodies :
               j = "put" /\ Begin(t, [NoRequest EXCEPT !.job = j, !.o = o, !.b = b])
    BY <1>3
  <2> DEFINE r == Form(j, o, None, 0, 1, b, Blank)
  <2>2. r = [NoRequest EXCEPT !.job = j, !.o = o, !.b = b]
    <3>1. [NoRequest EXCEPT !.job = j] = Form(j, None, None, 0, 1, None, Blank)
      BY <1>n DEF Form
    <3>2. [Form(j, None, None, 0, 1, None, Blank) EXCEPT !.o = o] = Form(j, o, None, 0, 1, None, Blank)
      BY <3>1 DEF Form
    <3>3. [Form(j, o, None, 0, 1, None, Blank) EXCEPT !.b = b] = Form(j, o, None, 0, 1, b, Blank)
      BY <3>2 DEF Form
    <3>4. [NoRequest EXCEPT !.job = j, !.o = o, !.b = b]
           = [[[NoRequest EXCEPT !.job = j] EXCEPT !.o = o] EXCEPT !.b = b]
      OBVIOUS
    <3> QED
      BY <3>1, <3>2, <3>3, <3>4
  <2>r. /\ r \in Request /\ r.job = j /\ r.o = o /\ r.src = None /\ r.u = 0
        /\ r.b = b /\ r.list = Blank
    BY <1>2, <2>1, <1>j, FormType
  <2> HIDE DEF r
  <2>3. r \in Request /\ r.job = "put" /\ Wants(r)
    BY <1>2, <2>1, <2>r DEF Wants
  <2>4. First(r.job) = "tmp"
    BY <2>3 DEF First
  <2>5. Fits("tmp", r) /\ "tmp" \in Labels \ Busy
    BY <2>3 DEF Fits, Labels, Busy, Renaming
  <2> QED
    BY <2>1, <2>2, <2>3, <2>4, <2>5, ArriveView
<1>4. CASE \E o, s \in Objects :
             j = "copy" /\ o # s /\ Begin(t, [NoRequest EXCEPT !.job = j, !.o = o, !.src = s])
  <2>1. PICK o, s \in Objects :
               j = "copy" /\ Begin(t, [NoRequest EXCEPT !.job = j, !.o = o, !.src = s])
    BY <1>4
  <2> DEFINE r == Form(j, o, s, 0, 1, None, Blank)
  <2>2. r = [NoRequest EXCEPT !.job = j, !.o = o, !.src = s]
    <3>1. [NoRequest EXCEPT !.job = j] = Form(j, None, None, 0, 1, None, Blank)
      BY <1>n DEF Form
    <3>2. [Form(j, None, None, 0, 1, None, Blank) EXCEPT !.o = o] = Form(j, o, None, 0, 1, None, Blank)
      BY <3>1 DEF Form
    <3>3. [Form(j, o, None, 0, 1, None, Blank) EXCEPT !.src = s] = Form(j, o, s, 0, 1, None, Blank)
      BY <3>2 DEF Form
    <3>4. [NoRequest EXCEPT !.job = j, !.o = o, !.src = s]
           = [[[NoRequest EXCEPT !.job = j] EXCEPT !.o = o] EXCEPT !.src = s]
      OBVIOUS
    <3> QED
      BY <3>1, <3>2, <3>3, <3>4
  <2>r. /\ r \in Request /\ r.job = j /\ r.o = o /\ r.src = s /\ r.u = 0
        /\ r.b = None /\ r.list = Blank
    BY <1>2, <2>1, <1>j, FormType
  <2> HIDE DEF r
  <2>3. r \in Request /\ r.job = "copy" /\ Wants(r)
    BY <1>2, <2>1, <2>r DEF Wants
  <2>4. First(r.job) = "tmp"
    BY <2>3 DEF First
  <2>5. Fits("tmp", r) /\ "tmp" \in Labels \ Busy
    BY <2>3 DEF Fits, Labels, Busy, Renaming
  <2> QED
    BY <2>1, <2>2, <2>3, <2>4, <2>5, ArriveView
<1>5. CASE \E o \in Objects :
             j \in {"get", "delete"} /\ Begin(t, [NoRequest EXCEPT !.job = j, !.o = o])
  <2>1. PICK o \in Objects :
               j \in {"get", "delete"} /\ Begin(t, [NoRequest EXCEPT !.job = j, !.o = o])
    BY <1>5
  <2> DEFINE r == Form(j, o, None, 0, 1, None, Blank)
  <2>2. r = [NoRequest EXCEPT !.job = j, !.o = o]
    <3>1. [NoRequest EXCEPT !.job = j] = Form(j, None, None, 0, 1, None, Blank)
      BY <1>n DEF Form
    <3>2. [Form(j, None, None, 0, 1, None, Blank) EXCEPT !.o = o] = Form(j, o, None, 0, 1, None, Blank)
      BY <3>1 DEF Form
    <3>3. [NoRequest EXCEPT !.job = j, !.o = o]
           = [[NoRequest EXCEPT !.job = j] EXCEPT !.o = o]
      OBVIOUS
    <3> QED
      BY <3>1, <3>2, <3>3
  <2>r. /\ r \in Request /\ r.job = j /\ r.o = o /\ r.src = None /\ r.u = 0
        /\ r.b = None /\ r.list = Blank
    BY <1>2, <2>1, <1>j, FormType
  <2> HIDE DEF r
  <2>3. r \in Request /\ r.job \in {"get", "delete"} /\ Wants(r)
    BY <1>2, <2>1, <2>r DEF Wants
  <2>4. (r.job = "get" => First(r.job) = "getStat") /\ (r.job = "delete" => First(r.job) = "delete")
    BY DEF First
  <2>5. Fits(First(r.job), r) /\ First(r.job) \in Labels \ Busy
    BY <2>3, <2>4 DEF Fits, Labels, Busy, Renaming
  <2> QED
    BY <2>1, <2>2, <2>3, <2>5, ArriveView
<1>6. CASE j \in {"putDir", "deleteDir"} /\ Begin(t, [NoRequest EXCEPT !.job = j])
  <2> DEFINE r == Form(j, None, None, 0, 1, None, Blank)
  <2>2. r = [NoRequest EXCEPT !.job = j]
    <3>1. [NoRequest EXCEPT !.job = j] = Form(j, None, None, 0, 1, None, Blank)
      BY <1>n DEF Form
    <3> QED
      BY <3>1
  <2>r. /\ r \in Request /\ r.job = j /\ r.o = None /\ r.src = None /\ r.u = 0
        /\ r.b = None /\ r.list = Blank
    BY <1>2, <1>6, <1>j, FormType
  <2> HIDE DEF r
  <2>3. r \in Request /\ r.job \in {"putDir", "deleteDir"} /\ Wants(r)
    BY <1>2, <1>6, <2>r DEF Wants
  <2>4. (r.job = "putDir" => First(r.job) = "mkdirDir") /\ (r.job = "deleteDir" => First(r.job) = "atime")
    BY DEF First
  <2>5. Fits(First(r.job), r) /\ First(r.job) \in Labels \ Busy
    BY <2>3, <2>4 DEF Fits, Labels, Busy, Renaming
  <2> QED
    BY <1>6, <2>2, <2>3, <2>5, ArriveView
<1>7. CASE \E u \in 1..(nextU - 1), i \in Slots, b \in Bodies :
             j = "part" /\ Begin(t, [NoRequest EXCEPT !.job = j, !.u = u, !.i = i, !.b = b])
  <2>1. PICK u \in 1..(nextU - 1), i \in Slots, b \in Bodies :
               j = "part" /\ Begin(t, [NoRequest EXCEPT !.job = j, !.u = u, !.i = i, !.b = b])
    BY <1>7
  <2> DEFINE r == Form(j, None, None, u, i, b, Blank)
  <2>2. r = [NoRequest EXCEPT !.job = j, !.u = u, !.i = i, !.b = b]
    <3>1. [NoRequest EXCEPT !.job = j] = Form(j, None, None, 0, 1, None, Blank)
      BY <1>n DEF Form
    <3>2. [Form(j, None, None, 0, 1, None, Blank) EXCEPT !.u = u] = Form(j, None, None, u, 1, None, Blank)
      BY <3>1 DEF Form
    <3>3. [Form(j, None, None, u, 1, None, Blank) EXCEPT !.i = i] = Form(j, None, None, u, i, None, Blank)
      BY <3>2 DEF Form
    <3>4. [Form(j, None, None, u, i, None, Blank) EXCEPT !.b = b] = Form(j, None, None, u, i, b, Blank)
      BY <3>3 DEF Form
    <3>5. [NoRequest EXCEPT !.job = j, !.u = u, !.i = i, !.b = b]
           = [[[[NoRequest EXCEPT !.job = j] EXCEPT !.u = u] EXCEPT !.i = i] EXCEPT !.b = b]
      OBVIOUS
    <3> QED
      BY <3>1, <3>2, <3>3, <3>4, <3>5
  <2>a. u \in Uploads
    BY <1>1
  <2>r. /\ r \in Request /\ r.job = j /\ r.o = None /\ r.src = None /\ r.u = u
        /\ r.b = b /\ r.list = Blank
    BY <1>2, <2>1, <2>a, <1>j, FormType
  <2> HIDE DEF r
  <2>3. r \in Request /\ r.job = "part" /\ Wants(r)
    BY <1>2, <2>1, <2>a, <2>r DEF Wants
  <2>4. First(r.job) = "check"
    BY <2>3 DEF First
  <2>5. Fits("check", r) /\ "check" \in Labels \ Busy
    BY <2>3 DEF Fits, Labels, Busy, Renaming
  <2> QED
    BY <2>1, <2>2, <2>3, <2>4, <2>5, ArriveView
<1>8. CASE \E u \in 1..(nextU - 1) :
             /\ j = "complete" /\ \A i \in Slots : up[u].parts[i] # None
             /\ Begin(t, [NoRequest EXCEPT !.job = j, !.u = u, !.o = Present,
                                           !.list = up[u].parts])
  <2>1. PICK u \in 1..(nextU - 1) :
             /\ j = "complete" /\ \A i \in Slots : up[u].parts[i] # None
             /\ Begin(t, [NoRequest EXCEPT !.job = j, !.u = u, !.o = Present,
                                           !.list = up[u].parts])
    BY <1>8
  <2> DEFINE l == up[u].parts
             r == Form(j, Present, None, u, 1, None, l)
  <2>2. r = [NoRequest EXCEPT !.job = j, !.u = u, !.o = Present, !.list = l]
    <3>1. [NoRequest EXCEPT !.job = j] = Form(j, None, None, 0, 1, None, Blank)
      BY <1>n DEF Form
    <3>2. [Form(j, None, None, 0, 1, None, Blank) EXCEPT !.u = u] = Form(j, None, None, u, 1, None, Blank)
      BY <3>1 DEF Form
    <3>3. [Form(j, None, None, u, 1, None, Blank) EXCEPT !.o = Present] = Form(j, Present, None, u, 1, None, Blank)
      BY <3>2 DEF Form
    <3>4. [Form(j, Present, None, u, 1, None, Blank) EXCEPT !.list = l] = Form(j, Present, None, u, 1, None, l)
      BY <3>3 DEF Form
    <3>5. [NoRequest EXCEPT !.job = j, !.u = u, !.o = Present, !.list = l]
           = [[[[NoRequest EXCEPT !.job = j] EXCEPT !.u = u] EXCEPT !.o = Present] EXCEPT !.list = l]
      OBVIOUS
    <3> QED
      BY <3>1, <3>2, <3>3, <3>4, <3>5
  <2>a. u \in Uploads
    BY <1>1
  <2>b. l \in PartFiles /\ \A i \in Slots : l[i] # None
    BY <2>1, <2>a DEF Base, FsType, Upload
  <2>c. Begin(t, r)
    BY <2>1, <2>2
  <2> HIDE DEF l
  <2>r. /\ r \in Request /\ r.job = j /\ r.o = Present /\ r.src = None /\ r.u = u
        /\ r.b = None /\ r.list = l
    BY <1>2, <2>1, <2>a, <2>b, <1>j, FormType
  <2> HIDE DEF r
  <2>3. r \in Request /\ r.job = "complete" /\ Wants(r)
    BY <1>2, <2>1, <2>a, <2>b, <2>r DEF Wants
  <2>4. First(r.job) = "check"
    BY <2>3 DEF First
  <2>5. Fits("check", r) /\ "check" \in Labels \ Busy
    BY <2>3 DEF Fits, Labels, Busy, Renaming
  <2> QED
    BY <2>c, <2>3, <2>4, <2>5, ArriveView
<1>9. CASE \E u \in 1..(nextU - 1) :
             j = "abort" /\ Begin(t, [NoRequest EXCEPT !.job = j, !.u = u])
  <2>1. PICK u \in 1..(nextU - 1) : j = "abort" /\ Begin(t, [NoRequest EXCEPT !.job = j, !.u = u])
    BY <1>9
  <2> DEFINE r == Form(j, None, None, u, 1, None, Blank)
  <2>2. r = [NoRequest EXCEPT !.job = j, !.u = u]
    <3>1. [NoRequest EXCEPT !.job = j] = Form(j, None, None, 0, 1, None, Blank)
      BY <1>n DEF Form
    <3>2. [Form(j, None, None, 0, 1, None, Blank) EXCEPT !.u = u] = Form(j, None, None, u, 1, None, Blank)
      BY <3>1 DEF Form
    <3>3. [NoRequest EXCEPT !.job = j, !.u = u]
           = [[NoRequest EXCEPT !.job = j] EXCEPT !.u = u]
      OBVIOUS
    <3> QED
      BY <3>1, <3>2, <3>3
  <2>a. u \in Uploads
    BY <1>1
  <2>r. /\ r \in Request /\ r.job = j /\ r.o = None /\ r.src = None /\ r.u = u
        /\ r.b = None /\ r.list = Blank
    BY <1>2, <2>1, <2>a, <1>j, FormType
  <2> HIDE DEF r
  <2>3. r \in Request /\ r.job = "abort" /\ Wants(r)
    BY <1>2, <2>1, <2>a, <2>r DEF Wants
  <2>4. First(r.job) = "check"
    BY <2>3 DEF First
  <2>5. Fits("check", r) /\ "check" \in Labels \ Busy
    BY <2>3 DEF Fits, Labels, Busy, Renaming
  <2> QED
    BY <2>1, <2>2, <2>3, <2>4, <2>5, ArriveView
<1> QED
  BY <1>3, <1>4, <1>5, <1>6, <1>7, <1>8, <1>9 DEF Arrive

(* A request that goes on to a label without a file, or returns. *)
LEMMA CalmStep ==
  ASSUME Base, NEW t \in Threads,
         Return(t) \/ \E l \in Labels \ Busy : Fits(l, req[t]) /\ Goto(t, l),
         FsType', BufType', HistType', Private(t), Fewer, Unmerged
  PROVE  Base' /\ Calm(t)
<1>1. t \in Actors
  BY DEF Actors
<1>2. ReqType' /\ Where' /\ Others(t) /\ pc'[t] \notin Busy
  <2>1. CASE Return(t)
    BY <1>1, <2>1, ReturnView DEF Base, Busy, Renaming
  <2>2. CASE \E l \in Labels \ Busy : Fits(l, req[t]) /\ Goto(t, l)
    BY <2>2, GotoView DEF Base
  <2> QED
    BY <2>1, <2>2
<1>3. Reading'
  BY <1>2, ReadingCalm DEF Base, Busy
<1> QED
  BY <1>2, <1>3 DEF Base, Calm

(* The same, of one that leaves the files, its own too, alone. *)
LEMMA CalmSame ==
  ASSUME Base, NEW t \in Threads,
         Return(t) \/ \E l \in Labels \ Busy : Fits(l, req[t]) /\ Goto(t, l),
         UNCHANGED <<obj, up, nextU, litter, buf, pos>>,
         dir' \in {"none", "implicit", "object"}, HistType'
  PROVE  Base' /\ Calm(t)
<1>1. FsType' /\ BufType' /\ Private(t)
  BY DEF Base, FsType, BufType, Private
<1> QED
  BY <1>1, SameFs, CalmStep

(* What is known of a request at its label. *)
LEMMA AtFacts ==
  ASSUME Base, NEW t \in Threads
  PROVE  t \in Actors /\ req[t] \in Request /\ Wants(req[t]) /\ Fits(pc[t], req[t])
  BY DEF Base, ReqType, Where, Actors

(* checkUploadIDExists. *)
LEMMA CheckCalm ==
  ASSUME Base, NEW t \in Threads, CheckUpload(t)
  PROVE  Base' /\ Calm(t) /\ races' = races
<1>1. /\ req[t].job \in {"part", "complete", "abort"} /\ req[t].u \in Uploads
  BY AtFacts DEF CheckUpload, At, Fits, Wants
<1>2. UNCHANGED <<obj, dir, up, nextU, litter, buf, pos, gone, acked, races>>
  BY DEF CheckUpload, fsVars
<1>3. HistType'
  BY <1>1, <1>2 DEF Base, HistType, CheckUpload
<1> DEFINE l == CASE req[t].job = "part" -> "tmp"
                  [] req[t].job = "complete" -> "unlink"
                  [] req[t].job = "abort" -> "rmr"
<1>4. l \in Labels \ Busy /\ Fits(l, req[t])
  <2>1. CASE req[t].job = "part"
    <3>1. l = "tmp"
      BY <2>1
    <3> QED
      BY <2>1, <3>1 DEF Fits, Labels, Busy, Renaming
  <2>2. CASE req[t].job = "complete"
    <3>1. l = "unlink"
      BY <2>2
    <3> QED
      BY <2>2, <3>1 DEF Fits, Labels, Busy, Renaming
  <2>3. CASE req[t].job = "abort"
    <3>1. l = "rmr"
      BY <2>3
    <3> QED
      BY <2>3, <3>1 DEF Fits, Labels, Busy, Renaming
  <2> QED
    BY <1>1, <2>1, <2>2, <2>3
<1>5. Return(t) \/ Goto(t, l)
  BY DEF CheckUpload
<1> HIDE DEF l
<1> QED
  BY <1>2, <1>3, <1>4, <1>5, CalmSame DEF Base, FsType

(* The steps on the directory, and of those that have no file. *)
LEMMA DirCalm ==
  ASSUME Base, NEW t \in Threads,
         \/ StatDir(t) \/ RemoveDir(t) \/ ResetAtime(t) \/ MakeDir(t) \/ SetAtime(t)
         \/ StatPutDir(t) \/ StatObject(t)
  PROVE  Base' /\ Calm(t) /\ races \subseteq races'
<1> USE DEF At
<1>1. CASE StatDir(t)
  <2>1. Fits("rmdir", req[t]) /\ "rmdir" \in Labels \ Busy
    BY <1>1, AtFacts DEF StatDir, Fits, Labels, Busy, Renaming
  <2>2. UNCHANGED <<obj, dir, up, nextU, litter, buf, pos>> /\ HistType' /\ races' = races
    BY <1>1 DEF StatDir, fsVars, history, Base, HistType
  <2> QED
    BY <1>1, <2>1, <2>2, CalmSame DEF StatDir, Base, FsType
<1>2. CASE RemoveDir(t)
  <2>1. races' \subseteq Races /\ races \subseteq races'
    BY <1>2, NoteView DEF RemoveDir, Base, HistType, Races
  <2>2. HistType'
    BY <1>2, <2>1 DEF RemoveDir, Base, HistType
  <2>3. Return(t) /\ UNCHANGED <<obj, up, nextU, litter, buf, pos>>
        /\ dir' \in {"none", "implicit", "object"}
    BY <1>2 DEF RemoveDir, Base, FsType
  <2> QED
    BY <2>1, <2>2, <2>3, CalmSame
<1>3. CASE ResetAtime(t)
  <2>1. Fits("rmdir", req[t]) /\ "rmdir" \in Labels \ Busy
    BY <1>3, AtFacts DEF ResetAtime, Fits, Labels, Busy, Renaming
  <2>2. HistType' /\ races' = races
    BY <1>3 DEF ResetAtime, Base, HistType
  <2>3. /\ Goto(t, "rmdir") /\ UNCHANGED <<obj, up, nextU, litter, buf, pos>>
        /\ dir' \in {"none", "implicit", "object"}
    BY <1>3 DEF ResetAtime, SetFileAtime, Base, FsType
  <2> QED
    BY <2>1, <2>2, <2>3, CalmSame
<1>4. CASE MakeDir(t)
  <2>1. Fits("setAtime", req[t]) /\ "setAtime" \in Labels \ Busy
    BY DEF Fits, Labels, Busy, Renaming
  <2>2. HistType' /\ races' = races
    BY <1>4 DEF MakeDir, Base, HistType, history
  <2>3. /\ Goto(t, "setAtime") /\ UNCHANGED <<obj, up, nextU, litter, buf, pos>>
        /\ dir' \in {"none", "implicit", "object"}
    BY <1>4 DEF MakeDir, Base, FsType
  <2> QED
    BY <2>1, <2>2, <2>3, CalmSame
<1>5. CASE SetAtime(t)
  <2>1. Fits("statPutDir", req[t]) /\ "statPutDir" \in Labels \ Busy
    BY DEF Fits, Labels, Busy, Renaming
  <2>2. HistType' /\ races' = races
    BY <1>5 DEF SetAtime, Base, HistType, history
  <2>3. /\ Goto(t, "statPutDir") /\ UNCHANGED <<obj, up, nextU, litter, buf, pos>>
        /\ dir' \in {"none", "implicit", "object"}
    BY <1>5 DEF SetAtime, SetFileAtime, Base, FsType
  <2> QED
    BY <2>1, <2>2, <2>3, CalmSame
<1>6. CASE StatPutDir(t)
  <2>0. races' \subseteq Races /\ races \subseteq races'
    BY <1>6, NoteView DEF StatPutDir, Base, HistType, Races
  <2>1. HistType'
    BY <1>6, <2>0 DEF StatPutDir, Base, HistType
  <2>2. Return(t) /\ UNCHANGED <<obj, dir, up, nextU, litter, buf, pos>>
    BY <1>6 DEF StatPutDir, fsVars
  <2> QED
    BY <2>0, <2>1, <2>2, CalmSame DEF Base, FsType
<1>7. CASE StatObject(t)
  <2>1. /\ req[t].job \in {"put", "copy", "complete"} /\ req[t].o \in Objects
        /\ req[t].job = "complete" => req[t].u \in Uploads
    BY <1>7, AtFacts DEF StatObject, Fits, Wants
  <2>2. HistType' /\ races' = races
    BY <1>7, <2>1 DEF StatObject, Base, HistType
  <2>3. UNCHANGED <<obj, dir, up, nextU, litter, buf, pos>>
    BY <1>7 DEF StatObject, fsVars
  <2>4. Return(t) \/ (req[t].job = "complete" /\ (Goto(t, "rmr") \/ Goto(t, "undo")))
    BY <1>7 DEF StatObject
  <2>5. req[t].job = "complete" => Fits("rmr", req[t]) /\ Fits("undo", req[t])
    BY DEF Fits, Renaming
  <2>6. "rmr" \in Labels \ Busy /\ "undo" \in Labels \ Busy
    BY DEF Labels, Busy, Renaming
  <2> QED
    BY <2>2, <2>3, <2>4, <2>5, <2>6, CalmSame DEF Base, FsType
<1> QED
  BY <1>1, <1>2, <1>3, <1>4, <1>5, <1>6, <1>7

(* The name of an object is taken away, or nothing is done to it. *)
LEMMA ObjGone ==
  ASSUME FsType, NEW o \in Objects, obj' = [obj EXCEPT ![o] = None],
         UNCHANGED <<dir, up, nextU, litter>>
  PROVE  FsType' /\ Fewer /\ Unmerged
  BY DEF FsType, Fewer, Unmerged

(* DeleteObject, and the deletion of a completion whose object is gone. *)
LEMMA DeleteCalm ==
  ASSUME Base, NEW t \in Threads, DeleteFile(t) \/ UndoComplete(t)
  PROVE  Base' /\ Calm(t) /\ races \subseteq races'
<1>1. req[t].o \in Objects /\ (DeleteFile(t) => req[t].job = "delete")
  BY AtFacts DEF DeleteFile, UndoComplete, At, Fits, Wants
<1>2. /\ obj' = [obj EXCEPT ![req[t].o] = None]
      /\ UNCHANGED <<dir, up, nextU, litter, buf, pos>>
  BY DEF DeleteFile, UndoComplete
<1>3. FsType' /\ Fewer /\ Unmerged
  BY <1>1, <1>2, ObjGone DEF Base
<1>4. races' \subseteq Races /\ races \subseteq races'
  <2>1. CASE DeleteFile(t)
    BY <2>1 DEF DeleteFile, Base, HistType
  <2>2. CASE UndoComplete(t)
    BY <2>2, NoteView DEF UndoComplete, Base, HistType, Races
  <2> QED
    BY <2>1, <2>2
<1>5. HistType'
  BY <1>4 DEF DeleteFile, UndoComplete, Base, HistType
<1>6. Return(t) \/ (DeleteFile(t) /\ Goto(t, "statDir"))
  BY DEF DeleteFile, UndoComplete
<1>7. "statDir" \in Labels \ Busy /\ (DeleteFile(t) => Fits("statDir", req[t]))
  BY <1>1 DEF Labels, Busy, Renaming, Fits
<1>8. BufType' /\ Private(t)
  BY <1>2 DEF Base, BufType, Private
<1> QED
  BY <1>3, <1>4, <1>5, <1>6, <1>7, <1>8, CalmStep

(* A merged file is taken away. *)
LEMMA MergeGone ==
  ASSUME FsType, NEW u \in Uploads, up' = [up EXCEPT ![u].merge = None],
         UNCHANGED <<obj, dir, nextU, litter>>
  PROVE  FsType' /\ Fewer /\ Unmerged
<1>1. FsType'
  BY UploadType, 1 \in Slots DEF FsType, Slots
<1>2. Unmerged
  BY DEF Unmerged, FsType, Upload
<1> QED
  BY <1>1, <1>2 DEF Fewer

(* A completion deletes the file of an earlier one, or its own. *)
LEMMA UnlinkCalm ==
  ASSUME Base, NEW t \in Threads, UnlinkMerge(t) \/ DiscardMerge(t)
  PROVE  Base' /\ Calm(t) /\ races' = races
<1>1. req[t].job = "complete" /\ req[t].u \in Uploads
  BY AtFacts DEF UnlinkMerge, DiscardMerge, At, Fits, Wants
<1>2. /\ up' = [up EXCEPT ![req[t].u].merge = None]
      /\ UNCHANGED <<obj, dir, nextU, litter, buf, pos, gone, acked, ended, races>>
  BY DEF UnlinkMerge, DiscardMerge, history
<1>3. FsType' /\ Fewer /\ Unmerged
  BY <1>1, <1>2, MergeGone DEF Base
<1>4. Return(t) \/ Goto(t, "create")
  BY DEF UnlinkMerge, DiscardMerge
<1>5. "create" \in Labels \ Busy /\ Fits("create", req[t])
  BY <1>1 DEF Labels, Busy, Renaming, Fits
<1>6. BufType' /\ Private(t) /\ HistType'
  BY <1>2 DEF Base, BufType, Private, HistType
<1> QED
  BY <1>2, <1>3, <1>4, <1>5, <1>6, CalmStep

(* A get sends its answer. *)
LEMMA ReplyCalm ==
  ASSUME Base, NEW t \in Threads, GetReply(t)
  PROVE  Base' /\ Calm(t) /\ races' = races
<1>1. BufType' /\ Private(t)
  BY DEF GetReply, Drop, Base, BufType, Private
<1>2. UNCHANGED <<obj, dir, up, nextU, litter, gone, acked, ended, races>> /\ Return(t)
  BY DEF GetReply, fsVars, history
<1>3. FsType' /\ HistType'
  BY <1>2 DEF Base, FsType, HistType
<1> QED
  BY <1>1, <1>2, <1>3, SameFs, CalmStep

(***************************************************************************)
(* Steps that leave every request goroutine alone.                         *)
(***************************************************************************)
Still ==
    /\ \A x \in Threads : /\ pc'[x] = pc[x] /\ req'[x] = req[x]
                          /\ buf'[x] = buf[x] /\ pos'[x] = pos[x]
    /\ Fewer /\ Unmerged

(* Those keep what the gets have read. *)
LEMMA ReadingStill ==
  ASSUME Reading, Still
  PROVE  Reading'
  BY DEF Reading, Still

(* A file of an upload's directory goes. *)
LEMMA RmrFileStill ==
  ASSUME Base, NEW a \in Actors, RmrFile(a)
  PROVE  Base' /\ Still /\ races' = races
<1>1. req[a].u \in Uploads
  BY DEF Base, Where, RmrFile, At, Fits, Wants
<1>2. UNCHANGED <<obj, dir, nextU, litter>> /\ UNCHANGED <<pc, req, buf, pos, gone, jobs, requests>>
      /\ UNCHANGED <<acked, ended, races>>
  BY DEF RmrFile, reqVars, history
<1>3. FsType' /\ Unmerged
  <2>1. CASE \E i \in Slots : /\ up[req[a].u].parts[i] # None
                              /\ up' = [up EXCEPT ![req[a].u].parts[i] = None]
    <3>1. PICK i \in Slots : up' = [up EXCEPT ![req[a].u].parts[i] = None]
      BY <2>1
    <3>2. FsType'
      BY <1>1, <1>2, <3>1, UploadType DEF Base, FsType
    <3>3. Unmerged
      BY <1>1, <3>1 DEF Base, FsType, Unmerged, Upload
    <3> QED
      BY <3>2, <3>3
  <2>2. CASE up' = [up EXCEPT ![req[a].u].merge = None]
    BY <1>1, <1>2, <2>2, MergeGone DEF Base
  <2> QED
    BY <2>1, <2>2 DEF RmrFile
<1>4. Still
  BY <1>2, <1>3 DEF Still, Fewer
<1>5. ReqType' /\ BufType' /\ HistType' /\ Where'
  BY <1>2 DEF Base, ReqType, BufType, HistType, Where, Fits, Wants
<1> QED
  BY <1>2, <1>3, <1>4, <1>5, ReadingStill DEF Base

(* The directory of an upload comes or goes. *)
LEMMA LiveView ==
  ASSUME FsType, NEW u \in Uploads, NEW b \in BOOLEAN, up' = [up EXCEPT ![u].live = b],
         nextU' \in 1..(MaxUploads + 1), UNCHANGED <<obj, dir, litter>>
  PROVE  FsType' /\ Fewer /\ Unmerged
<1>1. FsType'
  BY UploadType, 1 \in Slots DEF FsType, Slots
<1>2. Unmerged
  BY DEF Unmerged, FsType, Upload
<1> QED
  BY <1>1, <1>2 DEF Fewer

(* The directory of an upload goes, and with it the last step of Rmr. *)
LEMMA RmrDirView ==
  ASSUME Base, NEW a \in Actors, RmrDir(a)
  PROVE  Base' /\ (a \in Threads => Calm(a)) /\ (a \notin Threads => Still) /\ races' = races
<1>1. req[a].u \in Uploads
  BY DEF Base, Where, RmrDir, At, Fits, Wants
<1>2. /\ up' = [up EXCEPT ![req[a].u].live = FALSE] /\ Return(a)
      /\ UNCHANGED <<obj, dir, nextU, litter, buf, pos, acked, ended, races>>
  BY DEF RmrDir, history
<1>3. FsType' /\ Fewer /\ Unmerged
  BY <1>1, <1>2, LiveView DEF Base, FsType
<1>4. HistType' /\ BufType'
  BY <1>2 DEF RmrDir, Base, HistType, BufType
<1>5. CASE a \in Threads
  <2>1. Private(a)
    BY <1>2 DEF Private
  <2> QED
    BY <1>2, <1>3, <1>4, <1>5, <2>1, CalmStep
<1>6. CASE a \notin Threads
  <2>1. ReqType' /\ Where' /\ Others(a)
    BY <1>2, ReturnView DEF Base
  <2>2. Still
    BY <1>2, <1>3, <1>6, <2>1 DEF Still, Others, Actors
  <2> QED
    BY <1>2, <1>3, <1>4, <1>6, <2>1, <2>2, ReadingStill DEF Base
<1> QED
  BY <1>5, <1>6

(* An upload begins. *)
LEMMA NewUploadStill ==
  ASSUME Base, NEW t \in Threads, NewMultipartUpload(t)
  PROVE  Base' /\ Still /\ races' = races
<1>1. /\ nextU \in Uploads /\ up' = [up EXCEPT ![nextU].live = TRUE] /\ nextU' = nextU + 1
      /\ requests < MaxRequests /\ requests' = requests + 1
      /\ UNCHANGED <<obj, dir, litter>> /\ UNCHANGED <<pc, req, buf, pos, gone, jobs>>
      /\ UNCHANGED <<acked, ended, races>>
  BY DEF NewMultipartUpload, history
<1>2. nextU' \in 1..(MaxUploads + 1)
  BY <1>1 DEF Uploads
<1>3. FsType' /\ Fewer /\ Unmerged
  BY <1>1, <1>2, LiveView DEF Base
<1>4. ReqType' /\ BufType' /\ HistType' /\ Where'
  BY <1>1 DEF Base, ReqType, BufType, HistType, Where, Fits, Wants
<1>5. Still
  BY <1>1, <1>3 DEF Still
<1> QED
  BY <1>1, <1>3, <1>4, <1>5, ReadingStill DEF Base

(* The clean-up finds an upload. *)
LEMMA CleanUploadStill ==
  ASSUME Base, NEW u \in Uploads, CleanUpload(u)
  PROVE  Base' /\ Still /\ races' = races
<1> DEFINE r == [NoRequest EXCEPT !.job = "clean", !.u = u]
           r1 == [NoRequest EXCEPT !.job = "clean"]
<1>1. r1 \in Request /\ r1.job = "clean"
  BY NoRequestType DEF Request
<1>2. r = [r1 EXCEPT !.u = u]
  OBVIOUS
<1>3. /\ pc' = [pc EXCEPT ![Cleaner] = "rmr"] /\ req' = [req EXCEPT ![Cleaner] = r]
      /\ UNCHANGED <<obj, dir, up, nextU, litter>> /\ UNCHANGED <<buf, pos, gone, jobs, requests>>
      /\ UNCHANGED <<acked, ended, races>>
  BY DEF CleanUpload, fsVars, history
<1> HIDE DEF r, r1
<1>4. r \in Request /\ r.job = "clean" /\ r.u = u
  BY <1>1, <1>2 DEF Request
<1>5. Wants(r) /\ Fits("rmr", r)
  BY <1>4 DEF Wants, Fits, Renaming
<1>6. Cleaner \in Actors
  BY DEF Actors
<1>7. ReqType'
  BY <1>3, <1>4, <1>6 DEF Base, ReqType, Labels
<1>8. /\ pc'[Cleaner] = "rmr" /\ req'[Cleaner] = r
      /\ \A x \in Actors \ {Cleaner} : pc'[x] = pc[x] /\ req'[x] = req[x]
  BY <1>3, <1>6 DEF Base, ReqType
<1>9. Where'
  BY <1>5, <1>8 DEF Base, Where
<1>10. Still
  BY <1>3, <1>8, SameFs DEF Still, Actors
<1>11. FsType' /\ BufType' /\ HistType'
  BY <1>3 DEF Base, FsType, BufType, HistType
<1> QED
  BY <1>3, <1>7, <1>9, <1>10, <1>11, ReadingStill DEF Base

(* The temporary files that a crash left are removed; or nothing happens. *)
LEMMA CleanLitterStill ==
  ASSUME Base, CleanLitter \/ UNCHANGED vars
  PROVE  Base' /\ Still /\ races' = races
<1>1. /\ UNCHANGED <<obj, dir, up, nextU>> /\ litter' \in BOOLEAN
      /\ UNCHANGED <<pc, req, buf, pos, gone, jobs, requests>> /\ UNCHANGED <<acked, ended, races>>
  BY DEF CleanLitter, vars, fsVars, reqVars, history, Base, FsType
<1>2. FsType' /\ ReqType' /\ BufType' /\ HistType' /\ Where'
  BY <1>1 DEF Base, FsType, ReqType, BufType, HistType, Where, Wants, Fits
<1>3. Still
  BY <1>1, SameFs DEF Still
<1> QED
  BY <1>1, <1>2, <1>3, ReadingStill DEF Base

(* A temporary file in use is taken for an old one. *)
Lost(t) ==
    /\ pc' = pc /\ req' = req /\ Private(t) /\ buf'[t] = None /\ pos' = pos
    /\ Fewer /\ Unmerged

(* That never is what a get has read. *)
LEMMA CleanTmpView ==
  ASSUME Base, NEW t \in Threads, CleanTmp(t)
  PROVE  Base' /\ Lost(t) /\ races' = races
<1>1. /\ UNCHANGED <<obj, dir, up, nextU, litter>> /\ UNCHANGED <<pc, req, pos, gone, jobs, requests>>
      /\ UNCHANGED <<acked, ended, races>> /\ buf' = [buf EXCEPT ![t] = None]
      /\ req[t].job # "get"
  BY DEF CleanTmp, fsVars, history, Drop
<1>2. FsType' /\ ReqType' /\ BufType' /\ HistType' /\ Where'
  BY <1>1 DEF Base, FsType, ReqType, BufType, HistType, Where, Wants, Fits
<1>3. Private(t) /\ buf'[t] = None
  BY <1>1 DEF Private, Base, BufType
<1>4. pc[t] \notin {"getEtag", "open", "reply"}
  BY <1>1, AtFacts DEF Fits
<1>5. Others(t)
  BY <1>1 DEF Others
<1>6. Reading'
  BY <1>1, <1>3, <1>4, <1>5, ReadingCalm DEF Base
<1> QED
  BY <1>1, <1>2, <1>3, <1>6, SameFs DEF Base, Lost

(* The gateway stops: nobody holds a file any more. *)
LEMMA CrashView ==
  ASSUME Base, Crash
  PROVE  /\ Base' /\ UNCHANGED <<obj, up, races>>
         /\ \A x \in Threads : pc'[x] = "idle" /\ req'[x] = NoRequest
<1>1. /\ pc' = [a \in Actors |-> "idle"] /\ req' = [a \in Actors |-> NoRequest]
      /\ buf' = [t \in Threads |-> None] /\ pos' = [t \in Threads |-> 1] /\ gone' = {}
      /\ litter' \in BOOLEAN /\ requests < MaxRequests /\ requests' = requests + 1
      /\ UNCHANGED <<obj, dir, up, nextU, jobs, acked, ended, races>>
  BY DEF Crash, history, Base, FsType
<1>2. ReqType' /\ Where'
  BY <1>1, NoRequestType DEF Base, ReqType, Where, Labels, Actors
<1>3. FsType' /\ BufType' /\ HistType'
  BY <1>1 DEF Base, FsType, BufType, HistType
<1>4. \A x \in Threads : pc'[x] = "idle" /\ req'[x] = NoRequest
  BY <1>1 DEF Actors
<1>5. Reading'
  BY <1>4 DEF Reading
<1> QED
  BY <1>1, <1>2, <1>3, <1>4, <1>5 DEF Base

-----------------------------------------------------------------------------
(***************************************************************************)
(* The steps of requests that hold a file.  Makes: request t comes to      *)
(* label l with file f.  Places: its file becomes an object.               *)
(***************************************************************************)
Makes(t, l, f) ==
    /\ Others(t) /\ Private(t)
    /\ pc'[t] = l /\ req'[t] = req[t] /\ buf'[t] = f /\ pos'[t] = pos[t]
    /\ Fewer /\ Unmerged

Places(t) ==
    /\ Others(t) /\ Private(t) /\ pc[t] \in Renaming /\ pc'[t] \notin Busy
    /\ req[t].job \in {"put", "copy", "complete"} /\ SourceOf(t) # None
    /\ obj'[req[t].o] = SourceOf(t)
    /\ \A o \in Objects \ {req[t].o} : obj'[o] = obj[o]
    /\ Unmerged

(* A request goes on to a label with a file. *)
LEMMA MakesStep ==
  ASSUME Base, NEW t \in Threads, NEW l \in Labels, Fits(l, req[t]), Goto(t, l),
         NEW f \in File \cup {None}, l \in {"getEtag", "open", "reply"} => f \in File,
         buf' = [buf EXCEPT ![t] = f], pos' = pos,
         FsType', Fewer, Unmerged, HistType'
  PROVE  Base' /\ Makes(t, l, f)
<1>1. ReqType' /\ Where' /\ Others(t) /\ pc'[t] = l /\ req' = req
  BY GotoView DEF Base
<1>2. BufType' /\ Private(t) /\ buf'[t] = f
  BY DEF Base, BufType, Private
<1>3. Reading'
  BY <1>1, <1>2, ReadingCalm DEF Base
<1> QED
  BY <1>1, <1>2, <1>3 DEF Base, Makes

(* The same, of one that only its own file is written by. *)
LEMMA MakesSame ==
  ASSUME Base, NEW t \in Threads, NEW l \in Labels, Fits(l, req[t]), Goto(t, l),
         NEW f \in File \cup {None}, l \in {"getEtag", "open", "reply"} => f \in File,
         buf' = [buf EXCEPT ![t] = f], pos' = pos,
         UNCHANGED <<obj, dir, up, nextU, litter>>, HistType'
  PROVE  Base' /\ Makes(t, l, f)
<1>1. FsType'
  BY DEF Base, FsType
<1> QED
  BY <1>1, SameFs, MakesStep

(* putObject and CopyObject make their temporary file, or end. *)
LEMMA CreateTmpView ==
  ASSUME Base, NEW t \in Threads, CreateTmp(t)
  PROVE  /\ Base' /\ races \subseteq races'
         /\ \/ Calm(t)
            \/ req[t].job = "copy" /\ Makes(t, "copyRange", [data |-> Blank, etag |-> Blank])
            \/ req[t].b \in Texts /\ Makes(t, "rename", PutFile(req[t].b))
<1>1. /\ req[t].job \in {"put", "copy", "part"}
      /\ req[t].job = "copy" => req[t].o \in Objects
      /\ req[t].job # "copy" => req[t].b \in Texts
  BY AtFacts DEF CreateTmp, At, Fits, Wants, Texts
<1>2. UNCHANGED <<obj, dir, up, nextU, litter, pos, gone, ended>>
  BY DEF CreateTmp, fsVars
<1>3. CASE Return(t)
  <2>1. /\ UNCHANGED buf /\ acked' \subseteq Objects \cup {Dir}
        /\ races' \subseteq Races /\ races \subseteq races'
    <3>1. CASE UNCHANGED <<buf, acked, races>>
      BY <3>1 DEF Base, HistType
    <3>2. CASE /\ req[t].job = "copy" /\ acked' = acked \cup {req[t].o}
               /\ Note("ack", TRUE) /\ UNCHANGED buf
      BY <1>1, <3>2, NoteView DEF Base, HistType, Races
    <3>3. CASE Goto(t, IF req[t].job = "copy" THEN "copyRange" ELSE "rename")
      <4>1. pc'[t] = "idle"
        BY <1>3, AtFacts, ReturnView DEF Base
      <4>2. pc'[t] \in {"copyRange", "rename"}
        BY <3>3, AtFacts DEF Goto, Base, ReqType
      <4> QED
        BY <4>1, <4>2
    <3> QED
      BY <3>1, <3>2, <3>3 DEF CreateTmp
  <2>2. HistType'
    BY <1>2, <2>1 DEF Base, HistType
  <2> QED
    BY <1>2, <1>3, <2>1, <2>2, CalmSame DEF Base, FsType
<1>4. CASE /\ buf' = [buf EXCEPT ![t] = CASE req[t].job = "copy" -> [data |-> Blank, etag |-> Blank]
                                           [] OTHER -> PutFile(req[t].b)]
           /\ Goto(t, IF req[t].job = "copy" THEN "copyRange" ELSE "rename")
           /\ UNCHANGED <<acked, races>>
  <2>1. HistType' /\ races \subseteq races' /\ UNCHANGED <<obj, dir, up, nextU, litter>> /\ pos' = pos
    BY <1>2, <1>4 DEF Base, HistType
  <2>2. CASE req[t].job = "copy"
    <3>1. buf' = [buf EXCEPT ![t] = [data |-> Blank, etag |-> Blank]] /\ Goto(t, "copyRange")
      BY <1>4, <2>2
    <3>2. "copyRange" \in Labels /\ Fits("copyRange", req[t])
      BY <2>2 DEF Labels, Fits, Renaming
    <3>3. Base' /\ Makes(t, "copyRange", [data |-> Blank, etag |-> Blank])
      BY <2>1, <3>1, <3>2, BlankType, MakesSame
    <3> QED
      BY <2>1, <2>2, <3>3
  <2>3. CASE req[t].job # "copy"
    <3>1. buf' = [buf EXCEPT ![t] = PutFile(req[t].b)] /\ Goto(t, "rename")
      BY <1>4, <2>3
    <3>2. "rename" \in Labels /\ Fits("rename", req[t])
      BY <1>1 DEF Labels, Fits, Renaming
    <3>3. PutFile(req[t].b) \in File
      BY <1>1, <2>3, PutFileType
    <3>4. Base' /\ Makes(t, "rename", PutFile(req[t].b))
      BY <2>1, <3>1, <3>2, <3>3, MakesSame
    <3> QED
      BY <1>1, <2>1, <2>3, <3>4
  <2> QED
    BY <2>2, <2>3
<1> QED
  BY <1>3, <1>4 DEF CreateTmp

(* CopyObject copies the content. *)
LEMMA CopyRangeView ==
  ASSUME Base, NEW t \in Threads, CopyRange(t)
  PROVE  /\ Base' /\ races' = races
         /\ \/ Calm(t)
            \/ /\ buf[t] # None /\ req[t].src \in Objects /\ obj[req[t].src] # None
               /\ Makes(t, "copyEtag", [buf[t] EXCEPT !.data = obj[req[t].src].data])
<1>1. req[t].job = "copy" /\ req[t].src \in Objects
  BY AtFacts DEF CopyRange, At, Fits, Wants
<1>2. UNCHANGED <<obj, dir, up, nextU, litter>> /\ UNCHANGED <<pos, gone, acked, ended, races>>
  BY DEF CopyRange, fsVars, history
<1>3. HistType'
  BY <1>2 DEF Base, HistType
<1>4. CASE Drop(t) /\ Return(t)
  <2>1. BufType' /\ Private(t) /\ FsType'
    BY <1>2, <1>4 DEF Drop, Base, BufType, Private, FsType
  <2> QED
    BY <1>2, <1>3, <1>4, <2>1, SameFs, CalmStep
<1>5. CASE /\ buf[t] # None /\ obj[req[t].src] # None
           /\ buf' = [buf EXCEPT ![t].data = obj[req[t].src].data]
           /\ Goto(t, "copyEtag")
  <2> DEFINE f == [buf[t] EXCEPT !.data = obj[req[t].src].data]
  <2>1. buf[t] \in File /\ obj[req[t].src] \in File
    BY <1>1, <1>5 DEF Base, BufType, FsType
  <2>2. f \in File
    BY <2>1 DEF File
  <2>3. buf' = [buf EXCEPT ![t] = f]
    BY <1>5
  <2>4. "copyEtag" \in Labels /\ Fits("copyEtag", req[t])
    BY <1>1 DEF Labels, Fits, Renaming
  <2> HIDE DEF f
  <2>5. Base' /\ Makes(t, "copyEtag", f)
    BY <1>2, <1>3, <1>5, <2>2, <2>3, <2>4, MakesSame
  <2> QED
    BY <1>1, <1>2, <1>5, <2>5 DEF f
<1> QED
  BY <1>4, <1>5 DEF CopyRange

(* CopyObject copies the ETag. *)
LEMMA CopyEtagView ==
  ASSUME Base, NEW t \in Threads, CopyEtag(t)
  PROVE  LET s == obj[req[t].src] IN
         /\ Base' /\ races \subseteq races' /\ req[t].src \in Objects
         /\ \/ Makes(t, "rename", buf[t])
            \/ /\ buf[t] # None /\ s # None
               /\ s.data # buf[t].data => "source" \in races'
               /\ Makes(t, "rename", [buf[t] EXCEPT !.etag = s.etag])
<1> DEFINE s == obj[req[t].src]
<1>1. req[t].job = "copy" /\ req[t].src \in Objects
  BY AtFacts DEF CopyEtag, At, Fits, Wants
<1>2. UNCHANGED <<obj, dir, up, nextU, litter>> /\ UNCHANGED <<pos, gone, acked, ended>>
      /\ Goto(t, "rename")
      /\ Note("source", buf[t] # None /\ s # None /\ s.data # buf[t].data)
      /\ buf' = IF buf[t] = None \/ s = None THEN buf ELSE [buf EXCEPT ![t].etag = s.etag]
  BY DEF CopyEtag, fsVars
<1>3. /\ races' \subseteq Races /\ races \subseteq races'
      /\ (buf[t] # None /\ s # None /\ s.data # buf[t].data) => "source" \in races'
  BY <1>2, NoteView DEF Base, HistType, Races
<1>4. HistType'
  BY <1>2, <1>3 DEF Base, HistType
<1>5. "rename" \in Labels /\ Fits("rename", req[t])
  BY <1>1 DEF Labels, Fits, Renaming
<1>6. CASE buf[t] = None \/ s = None
  <2>1. buf' = [buf EXCEPT ![t] = buf[t]] /\ buf[t] \in File \cup {None}
    BY <1>2, <1>6 DEF Base, BufType
  <2>2. Base' /\ Makes(t, "rename", buf[t])
    BY <1>2, <1>4, <1>5, <2>1, MakesSame
  <2> QED
    BY <1>1, <1>3, <2>2
<1>7. CASE buf[t] # None /\ s # None
  <2> DEFINE f == [buf[t] EXCEPT !.etag = s.etag]
  <2>1. buf[t] \in File /\ s \in File
    BY <1>1, <1>7 DEF Base, BufType, FsType
  <2>2. f \in File
    BY <2>1 DEF File
  <2>3. buf' = [buf EXCEPT ![t] = f]
    BY <1>2, <1>7
  <2> HIDE DEF f
  <2>4. Base' /\ Makes(t, "rename", f)
    BY <1>2, <1>4, <1>5, <2>2, <2>3, MakesSame
  <2> QED
    BY <1>1, <1>3, <1>7, <2>4 DEF f
<1> QED
  BY <1>6, <1>7

(* A rename that succeeds: of a part, which nobody else sees; of an object. *)
LEMMA RenamedView ==
  ASSUME Base, NEW t \in Threads, pc[t] \in Renaming, CanRename(t), Renamed(t),
         UNCHANGED <<dir, nextU, litter, pos, gone, acked, ended>>
  PROVE  /\ Base' /\ races \subseteq races'
         /\ Calm(t) \/ Places(t)
<1>1. /\ req[t] \in Request /\ req[t].job \in {"put", "copy", "part", "complete"}
      /\ req[t].job # "part" => req[t].o \in Objects
      /\ req[t].job \in {"part", "complete"} => req[t].u \in Uploads
      /\ req[t].job \in {"put", "part"} => req[t].b \in Bodies
  BY AtFacts DEF Fits, Wants
<1>2. CASE req[t].job = "part"
  <2>1. /\ up' = [up EXCEPT ![req[t].u].parts[req[t].i] = req[t].b]
        /\ Note("spin", \E a \in gone : req[a].u = req[t].u)
        /\ Drop(t) /\ Return(t) /\ UNCHANGED obj
    BY <1>2 DEF Renamed
  <2>2. races' \subseteq Races /\ races \subseteq races'
    BY <2>1, NoteView DEF Base, HistType, Races
  <2>3. HistType'
    BY <2>2 DEF Base, HistType
  <2>4. req[t].i \in Slots /\ req[t].b \in Texts
    BY <1>1, <1>2 DEF Request, Texts
  <2>5. FsType' /\ Unmerged /\ Fewer
    <3>1. FsType'
      BY <1>1, <1>2, <2>1, <2>4, UploadType DEF Base, FsType
    <3>2. Unmerged
      BY <1>1, <1>2, <2>1 DEF Base, FsType, Unmerged, Upload
    <3> QED
      BY <2>1, <3>1, <3>2 DEF Fewer
  <2>6. BufType' /\ Private(t)
    BY <2>1 DEF Base, BufType, Private, Drop
  <2> QED
    BY <2>1, <2>2, <2>3, <2>5, <2>6, CalmStep
<1>3. CASE req[t].job \in {"put", "copy", "complete"}
  <2>1. /\ obj' = [obj EXCEPT ![req[t].o] = SourceOf(t)] /\ Goto(t, "stat") /\ races' = races
        /\ buf' = buf \/ Drop(t)
    BY <1>3 DEF Renamed
  <2>2. SourceOf(t) \in File \cup {None} /\ SourceOf(t) # None
    BY <1>1 DEF CanRename, SourceOf, Base, FsType, BufType, Upload
  <2>3. up' \in [Uploads -> Upload] /\ Unmerged
    <3>1. CASE req[t].job = "complete"
      <4>1. up' = [up EXCEPT ![req[t].u].merge = None] /\ req[t].u \in Uploads
        BY <1>1, <3>1 DEF Renamed
      <4>2. up' \in [Uploads -> Upload]
        BY <4>1, UploadType, 1 \in Slots DEF Base, FsType, Slots
      <4>3. Unmerged
        BY <4>1 DEF Unmerged, Base, FsType, Upload
      <4> QED
        BY <4>2, <4>3
    <3>2. CASE req[t].job # "complete"
      <4>1. up' = up
        BY <1>3, <3>2 DEF Renamed
      <4> QED
        BY <4>1 DEF Base, FsType, Unmerged
    <3> QED
      BY <3>1, <3>2
  <2>4. FsType'
    BY <1>1, <1>3, <2>1, <2>2, <2>3 DEF Base, FsType
  <2>5. /\ obj'[req[t].o] = SourceOf(t)
        /\ \A o \in Objects \ {req[t].o} : obj'[o] = obj[o]
    BY <1>1, <1>3, <2>1 DEF Base, FsType
  <2>6. "stat" \in Labels \ Busy /\ Fits("stat", req[t])
    BY <1>3 DEF Labels, Busy, Renaming, Fits
  <2>7. ReqType' /\ Where' /\ Others(t) /\ pc'[t] = "stat"
    BY <2>1, <2>6, GotoView DEF Base
  <2>8. BufType' /\ Private(t) /\ HistType'
    BY <2>1 DEF Base, BufType, Private, Drop, HistType
  <2>9. Reading'
    BY <2>7, <2>8, ReadingCalm DEF Base
  <2> QED
    BY <1>3, <2>1, <2>2, <2>3, <2>4, <2>5, <2>6, <2>7, <2>8, <2>9 DEF Base, Places
<1> QED
  BY <1>1, <1>2, <1>3

(* The first rename of a file. *)
LEMMA RenameView ==
  ASSUME Base, NEW t \in Threads, Rename(t)
  PROVE  /\ Base' /\ races \subseteq races'
         /\ Calm(t) \/ Places(t) \/ Makes(t, "mkdir", buf[t])
<1>1. pc[t] \in Renaming /\ UNCHANGED <<dir, nextU, litter, pos, gone, acked, ended>>
  BY DEF Rename, At, Renaming
<1>2. CASE CanRename(t) /\ Renamed(t)
  BY <1>1, <1>2, RenamedView
<1>3. CASE Goto(t, "mkdir") /\ UNCHANGED <<obj, up, buf, races>>
  <2>1. "mkdir" \in Labels /\ Fits("mkdir", req[t])
    BY <1>1, AtFacts DEF Labels, Fits, Renaming
  <2>2. buf' = [buf EXCEPT ![t] = buf[t]] /\ buf[t] \in File \cup {None} /\ HistType'
    BY <1>1, <1>3 DEF Base, BufType, HistType
  <2>3. Base' /\ Makes(t, "mkdir", buf[t])
    BY <1>1, <1>3, <2>1, <2>2, MakesSame
  <2> QED
    BY <1>3, <2>3
<1> QED
  BY <1>2, <1>3 DEF Rename

(* mkdirAll before the second one. *)
LEMMA MkdirView ==
  ASSUME Base, NEW t \in Threads, MkdirAll(t)
  PROVE  Base' /\ races' = races /\ pc[t] \in Renaming /\ Makes(t, "rename2", buf[t])
<1>1. pc[t] \in Renaming /\ UNCHANGED <<obj, nextU, litter, buf, pos, gone, acked, ended, races>>
      /\ Goto(t, "rename2")
  BY DEF MkdirAll, At, Renaming, history
<1>2. "rename2" \in Labels /\ Fits("rename2", req[t])
  BY <1>1, AtFacts DEF Labels, Fits, Renaming
<1>3. buf' = [buf EXCEPT ![t] = buf[t]] /\ buf[t] \in File \cup {None} /\ HistType'
  BY <1>1 DEF Base, BufType, HistType
<1>4. FsType' /\ Fewer /\ Unmerged
  <2>1. CASE req[t].job = "part"
    <3>1. up' = [up EXCEPT ![req[t].u].live = TRUE] /\ UNCHANGED dir /\ req[t].u \in Uploads
      BY <2>1, AtFacts DEF MkdirAll, Wants
    <3> QED
      BY <1>1, <3>1, LiveView DEF Base, FsType
  <2>2. CASE req[t].job # "part"
    <3>1. dir' \in {"none", "implicit", "object"} /\ UNCHANGED up
      BY <2>2 DEF MkdirAll, Base, FsType
    <3> QED
      BY <1>1, <3>1, SameFs DEF Base, FsType
  <2> QED
    BY <2>1, <2>2
<1> QED
  BY <1>1, <1>2, <1>3, <1>4, MakesStep DEF Renaming

(* The second rename. *)
LEMMA RenameAgainView ==
  ASSUME Base, NEW t \in Threads, RenameAgain(t)
  PROVE  /\ Base' /\ races \subseteq races'
         /\ Calm(t) \/ Places(t)
<1>1. pc[t] \in Renaming /\ UNCHANGED <<dir, nextU, litter, pos, gone, acked, ended>>
  BY DEF RenameAgain, At, Renaming
<1>2. CASE CanRename(t) /\ Renamed(t)
  BY <1>1, <1>2, RenamedView
<1>3. CASE /\ IF req[t].job = "complete" THEN Goto(t, "discard") ELSE Return(t)
           /\ Drop(t) /\ UNCHANGED <<obj, up, races>>
  <2>1. "discard" \in Labels \ Busy /\ (req[t].job = "complete" => Fits("discard", req[t]))
    BY DEF Labels, Busy, Fits, Renaming
  <2>2. BufType' /\ Private(t) /\ HistType' /\ FsType'
    BY <1>1, <1>3 DEF Base, BufType, HistType, Private, Drop, FsType
  <2>3. Base' /\ Calm(t)
    BY <1>3, <2>1, <2>2, SameFs, CalmStep
  <2> QED
    BY <1>3, <2>3
<1> QED
  BY <1>2, <1>3 DEF RenameAgain

(* A get asks for the size, *)
LEMMA GetStatView ==
  ASSUME Base, NEW t \in Threads, GetStat(t)
  PROVE  /\ Base' /\ races' = races /\ req[t].o \in Objects
         /\ \/ Calm(t)
            \/ /\ obj[req[t].o] # None
               /\ Makes(t, "getEtag", [data |-> obj[req[t].o].data, etag |-> Blank])
<1>1. req[t].job = "get" /\ req[t].o \in Objects
  BY AtFacts DEF GetStat, At, Fits, Wants
<1>2. UNCHANGED <<obj, dir, up, nextU, litter>> /\ UNCHANGED <<pos, gone, acked, ended, races>>
  BY DEF GetStat, fsVars, history
<1>3. HistType'
  BY <1>2 DEF Base, HistType
<1>4. CASE Return(t) /\ UNCHANGED buf
  BY <1>1, <1>2, <1>3, <1>4, CalmSame DEF Base, FsType
<1>5. CASE /\ obj[req[t].o] # None
           /\ buf' = [buf EXCEPT ![t] = [data |-> obj[req[t].o].data, etag |-> Blank]]
           /\ Goto(t, "getEtag")
  <2> DEFINE f == [data |-> obj[req[t].o].data, etag |-> Blank]
  <2>1. obj[req[t].o] \in File
    BY <1>1, <1>5 DEF Base, FsType
  <2>2. f \in File
    BY <2>1, BlankType DEF File
  <2>3. "getEtag" \in Labels /\ Fits("getEtag", req[t])
    BY <1>1 DEF Labels, Fits, Renaming
  <2>4. buf' = [buf EXCEPT ![t] = f]
    BY <1>5
  <2> HIDE DEF f
  <2>5. Base' /\ Makes(t, "getEtag", f)
    BY <1>2, <1>3, <1>5, <2>2, <2>3, <2>4, MakesSame
  <2> QED
    BY <1>1, <1>2, <1>5, <2>5 DEF f
<1> QED
  BY <1>4, <1>5 DEF GetStat

(* for the ETag, *)
LEMMA GetEtagView ==
  ASSUME Base, NEW t \in Threads, GetEtag(t)
  PROVE  LET f == obj[req[t].o] IN
         /\ Base' /\ races \subseteq races' /\ req[t].o \in Objects /\ buf[t] \in File
         /\ \/ Makes(t, "open", buf[t])
            \/ /\ f # None
               /\ f.data # buf[t].data => "read" \in races'
               /\ Makes(t, "open", [buf[t] EXCEPT !.etag = f.etag])
<1> DEFINE f == obj[req[t].o]
<1>1. req[t].job = "get" /\ req[t].o \in Objects /\ buf[t] \in File
  BY AtFacts DEF GetEtag, At, Fits, Wants, Base, Reading
<1>2. UNCHANGED <<obj, dir, up, nextU, litter>> /\ UNCHANGED <<pos, gone, acked, ended>>
      /\ Goto(t, "open")
      /\ Note("read", f # None /\ f.data # buf[t].data)
      /\ buf' = IF f = None THEN buf ELSE [buf EXCEPT ![t].etag = f.etag]
  BY DEF GetEtag, fsVars
<1>3. /\ races' \subseteq Races /\ races \subseteq races'
      /\ (f # None /\ f.data # buf[t].data) => "read" \in races'
  BY <1>2, NoteView DEF Base, HistType, Races
<1>4. HistType'
  BY <1>2, <1>3 DEF Base, HistType
<1>5. "open" \in Labels /\ Fits("open", req[t])
  BY <1>1 DEF Labels, Fits, Renaming
<1>6. CASE f = None
  <2>1. buf' = [buf EXCEPT ![t] = buf[t]]
    BY <1>2, <1>6 DEF Base, BufType
  <2>2. Base' /\ Makes(t, "open", buf[t])
    BY <1>1, <1>2, <1>4, <1>5, <2>1, MakesSame
  <2> QED
    BY <1>1, <1>3, <2>2
<1>7. CASE f # None
  <2> DEFINE g == [buf[t] EXCEPT !.etag = f.etag]
  <2>1. f \in File
    BY <1>1, <1>7 DEF Base, FsType
  <2>2. g \in File
    BY <1>1, <2>1 DEF File
  <2>3. buf' = [buf EXCEPT ![t] = g]
    BY <1>2, <1>7
  <2> HIDE DEF g
  <2>4. Base' /\ Makes(t, "open", g)
    BY <1>2, <1>4, <1>5, <2>2, <2>3, MakesSame
  <2> QED
    BY <1>1, <1>3, <1>7, <2>4 DEF g
<1> QED
  BY <1>6, <1>7

(* and for the content, as much of it as the size says. *)
LEMMA GetOpenView ==
  ASSUME Base, NEW t \in Threads, GetOpen(t)
  PROVE  LET f == obj[req[t].o] IN
         /\ Base' /\ races \subseteq races' /\ req[t].o \in Objects /\ buf[t] \in File
         /\ \/ Calm(t)
            \/ /\ f # None
               /\ f.data # buf[t].data => "read" \in races'
               /\ Makes(t, "reply", [buf[t] EXCEPT !.data = Limit(f.data, buf[t].data)])
<1> DEFINE f == obj[req[t].o]
<1>1. req[t].job = "get" /\ req[t].o \in Objects /\ buf[t] \in File
  BY AtFacts DEF GetOpen, At, Fits, Wants, Base, Reading
<1>2. UNCHANGED <<obj, dir, up, nextU, litter>> /\ UNCHANGED <<pos, gone, acked, ended>>
  BY DEF GetOpen, fsVars
<1>3. CASE Drop(t) /\ Return(t) /\ UNCHANGED races
  <2>1. BufType' /\ Private(t) /\ HistType' /\ FsType'
    BY <1>2, <1>3 DEF Base, BufType, HistType, Private, Drop, FsType
  <2>2. Base' /\ Calm(t)
    BY <1>2, <1>3, <2>1, SameFs, CalmStep
  <2> QED
    BY <1>1, <1>3, <2>2
<1>4. CASE /\ f # None
           /\ buf' = [buf EXCEPT ![t].data = Limit(f.data, @)]
           /\ Note("read", f.data # buf[t].data)
           /\ Goto(t, "reply")
  <2> DEFINE c == Limit(f.data, buf[t].data)
             g == [buf[t] EXCEPT !.data = c]
  <2>1. f \in File
    BY <1>1, <1>4 DEF Base, FsType
  <2>2. f.data \in Content /\ buf[t].data \in Content
    BY <1>1, <2>1 DEF File
  <2>3. c \in Content
    BY <2>2, LimitType
  <2>4. buf' = [buf EXCEPT ![t] = g]
    BY <1>4
  <2> HIDE DEF c
  <2>5. g \in File
    BY <1>1, <2>3 DEF File
  <2>6. /\ races' \subseteq Races /\ races \subseteq races'
        /\ f.data # buf[t].data => "read" \in races'
    BY <1>4, NoteView DEF Base, HistType, Races
  <2>7. HistType'
    BY <1>2, <2>6 DEF Base, HistType
  <2>8. "reply" \in Labels /\ Fits("reply", req[t])
    BY <1>1 DEF Labels, Fits, Renaming
  <2> HIDE DEF g
  <2>9. Base' /\ Makes(t, "reply", g)
    BY <1>2, <1>4, <2>4, <2>5, <2>7, <2>8, MakesSame
  <2> QED
    BY <1>1, <1>4, <2>6, <2>9 DEF g, c
<1> QED
  BY <1>3, <1>4 DEF GetOpen

(***************************************************************************)
(* The steps of a completion that write the merged file of upload u.       *)
(***************************************************************************)
Writes(t, l, u, m) ==
    /\ Others(t) /\ Private(t) /\ obj' = obj
    /\ pc'[t] = l /\ req'[t] = req[t] /\ buf'[t] = buf[t]
    /\ req[t].job = "complete" /\ req[t].u = u /\ u \in Uploads
    /\ up'[u].merge = m
    /\ \A w \in Uploads \ {u} : up'[w].merge = up[w].merge

(* A completion goes on to a label with its merged file. *)
LEMMA WritesStep ==
  ASSUME Base, NEW t \in Threads, NEW l \in {"merge", "rename"}, Goto(t, l),
         req[t].job = "complete", NEW m \in File \cup {None},
         up' = [up EXCEPT ![req[t].u].merge = m],
         NEW p \in 1..(Parts + 1), pos' = [pos EXCEPT ![t] = p],
         UNCHANGED <<obj, dir, nextU, litter, buf>>, HistType'
  PROVE  Base' /\ Writes(t, l, req[t].u, m) /\ pos'[t] = p
<1>1. req[t].u \in Uploads
  BY AtFacts DEF Wants
<1>2. l \in Labels /\ Fits(l, req[t])
  BY DEF Labels, Fits, Renaming
<1>3. ReqType' /\ Where' /\ Others(t) /\ pc'[t] = l /\ req' = req
  BY <1>2, GotoView DEF Base
<1>4. BufType' /\ Private(t) /\ pos'[t] = p
  BY DEF Base, BufType, Private
<1>5. FsType'
  BY <1>1, UploadType, 1 \in Slots DEF Base, FsType, Slots
<1>6. /\ up'[req[t].u].merge = m
      /\ \A w \in Uploads \ {req[t].u} : up'[w].merge = up[w].merge
  BY <1>1 DEF Base, FsType, Upload
<1>7. Reading'
  BY <1>3, <1>4, ReadingCalm DEF Base
<1> QED
  BY <1>1, <1>3, <1>4, <1>5, <1>6, <1>7 DEF Base, Writes

(* The file "complete" is created, or is there already. *)
LEMMA CreateMergeView ==
  ASSUME Base, NEW t \in Threads, CreateMerge(t)
  PROVE  LET u == req[t].u IN
         /\ Base' /\ races \subseteq races'
         /\ \/ Calm(t)
            \/ /\ Writes(t, "merge", u, [data |-> Blank, etag |-> Blank]) /\ pos'[t] = 1
               /\ Merging(u) # {} => "overlap" \in races'
<1> DEFINE u == req[t].u
<1>1. req[t].job = "complete" /\ u \in Uploads
  BY AtFacts DEF CreateMerge, At, Fits, Wants
<1>2. UNCHANGED <<obj, dir, nextU, litter, buf, gone, acked, ended>>
  BY DEF CreateMerge
<1>3. CASE Return(t) /\ UNCHANGED <<up, pos, races>>
  <2>1. HistType'
    BY <1>2, <1>3 DEF Base, HistType
  <2> QED
    BY <1>2, <1>3, <2>1, CalmSame DEF Base, FsType
<1>4. CASE /\ up' = [up EXCEPT ![u].merge = [data |-> Blank, etag |-> Blank]]
           /\ pos' = [pos EXCEPT ![t] = 1]
           /\ Note("overlap", Merging(u) # {})
           /\ Goto(t, "merge")
  <2>1. races' \subseteq Races /\ races \subseteq races' /\ (Merging(u) # {} => "overlap" \in races')
    BY <1>4, NoteView DEF Base, HistType, Races
  <2>2. HistType' /\ 1 \in 1..(Parts + 1)
    BY <1>2, <2>1 DEF Base, HistType
  <2>3. /\ Base' /\ pos'[t] = 1
        /\ Writes(t, "merge", u, [data |-> Blank, etag |-> Blank])
    BY <1>1, <1>2, <1>4, <2>2, BlankType, WritesStep
  <2> QED
    BY <2>1, <2>3
<1> QED
  BY <1>3, <1>4 DEF CreateMerge

(* A part is appended, or the completion ends. *)
LEMMA MergePartView ==
  ASSUME Base, NEW t \in Threads, MergePart(t)
  PROVE  LET u == req[t].u
             i == pos[t]
             m == up[u].merge IN
         /\ Base' /\ races \subseteq races'
         /\ \/ Calm(t)
            \/ /\ pc[t] = "merge" /\ i \in Slots /\ m \in File /\ pos'[t] = i + 1
               /\ up[u].parts[i] \in Texts
               /\ Writes(t, "merge", u, [m EXCEPT !.data[i] = <<u, i, up[u].parts[i]>>])
               /\ up[u].parts[i] # req[t].list[i] => "reupload" \in races'
<1> DEFINE u == req[t].u
           i == pos[t]
           m == up[u].merge
           b == up[u].parts[i]
<1>1. req[t].job = "complete" /\ u \in Uploads /\ i \in Slots /\ pc[t] = "merge"
  BY AtFacts DEF MergePart, At, Fits, Wants
<1>2. UNCHANGED <<obj, dir, nextU, litter, buf, gone, acked, ended>>
  BY DEF MergePart
<1>3. CASE Return(t) /\ UNCHANGED <<up, pos, races>>
  <2>1. HistType'
    BY <1>2, <1>3 DEF Base, HistType
  <2> QED
    BY <1>2, <1>3, <2>1, CalmSame DEF Base, FsType
<1>4. CASE /\ b # None /\ m # None
           /\ up' = [up EXCEPT ![u].merge.data[i] = Block(u, i, b)]
           /\ Note("reupload", b # req[t].list[i])
           /\ pos' = [pos EXCEPT ![t] = @ + 1]
           /\ Goto(t, "merge")
  <2> DEFINE x == <<u, i, b>>
             g == [m EXCEPT !.data[i] = x]
  <2>1. up[u] \in Upload
    BY <1>1 DEF Base, FsType
  <2>2. m \in File /\ b \in Texts
    BY <1>1, <1>4, <2>1 DEF Upload, PartFiles
  <2>3. x \in Blocks \cup {None} /\ x = Block(u, i, b)
    BY <1>1, <1>4, <2>2 DEF Blocks, Block
  <2>4. g \in File
    BY <1>1, <2>2, <2>3, DataType
  <2>5. up' = [up EXCEPT ![u].merge = g]
    BY <1>4, <2>3
  <2>6. i + 1 \in 1..(Parts + 1) /\ pos' = [pos EXCEPT ![t] = i + 1]
    BY <1>1, <1>4 DEF Slots, Base, BufType
  <2>7. races' \subseteq Races /\ races \subseteq races' /\ (b # req[t].list[i] => "reupload" \in races')
    BY <1>4, NoteView DEF Base, HistType, Races
  <2>8. HistType'
    BY <1>2, <2>7 DEF Base, HistType
  <2> HIDE DEF g
  <2>9. Base' /\ Writes(t, "merge", u, g) /\ pos'[t] = i + 1
    BY <1>1, <1>2, <1>4, <2>4, <2>5, <2>6, <2>8, WritesStep
  <2> QED
    BY <1>1, <2>2, <2>7, <2>9 DEF g
<1> QED
  BY <1>3, <1>4 DEF MergePart

(* The ETag that the list of the client gives. *)
Tag(t) == [i \in Slots |-> Block(req[t].u, i, req[t].list[i])]

(* The ETag is set, if the file is still there. *)
LEMMA SetEtagView ==
  ASSUME Base, NEW t \in Threads, SetEtag(t)
  PROVE  LET u == req[t].u
             m == up[u].merge IN
         /\ Base' /\ races' = races
         /\ pc[t] = "merge" /\ pos[t] = Parts + 1
         /\ \/ m = None /\ Writes(t, "rename", u, m)
            \/ m \in File /\ Writes(t, "rename", u, [m EXCEPT !.etag = Tag(t)])
<1> DEFINE u == req[t].u
           m == up[u].merge
<1>1. req[t].job = "complete" /\ u \in Uploads /\ req[t] \in Request
  BY AtFacts DEF SetEtag, At, Fits, Wants
<1>2. /\ UNCHANGED <<obj, dir, nextU, litter, buf, pos, gone, acked, ended, races>>
      /\ pc[t] = "merge" /\ pos[t] = Parts + 1 /\ Goto(t, "rename")
  BY DEF SetEtag, At, history
<1>3. HistType' /\ pos' = [pos EXCEPT ![t] = pos[t]] /\ pos[t] \in 1..(Parts + 1)
  BY <1>2 DEF Base, HistType, BufType
<1>4. up[u] \in Upload
  BY <1>1 DEF Base, FsType
<1>5. CASE m = None
  <2>1. up' = [up EXCEPT ![u].merge = m]
    BY <1>4, <1>5 DEF SetEtag, Base, FsType, Upload
  <2>2. m \in File \cup {None}
    BY <1>5
  <2> HIDE DEF m
  <2>3. Base' /\ Writes(t, "rename", u, m)
    BY <1>1, <1>2, <1>3, <2>1, <2>2, WritesStep
  <2> QED
    BY <1>2, <1>5, <2>3 DEF m
<1>6. CASE m # None
  <2> DEFINE g == [m EXCEPT !.etag = Tag(t)]
  <2>1. m \in File
    BY <1>4, <1>6 DEF Upload
  <2>2. \A i \in Slots : req[t].list[i] \in Texts \cup {None}
    BY <1>1 DEF Request, PartFiles
  <2>3. \A i \in Slots : Block(u, i, req[t].list[i]) \in Blocks \cup {None}
    BY <1>1, <2>2, BlockType
  <2>4. Tag(t) \in Content
    BY <2>3 DEF Tag, Content
  <2>5. g \in File
    BY <2>1, <2>4 DEF File
  <2>6. up' = [up EXCEPT ![u].merge = g]
    BY <1>6 DEF SetEtag, Tag
  <2> HIDE DEF g
  <2>7. Base' /\ Writes(t, "rename", u, g)
    BY <1>1, <1>2, <1>3, <2>5, <2>6, WritesStep
  <2> QED
    BY <1>2, <2>1, <2>7 DEF g
<1> QED
  BY <1>5, <1>6

-----------------------------------------------------------------------------
(***************************************************************************)
(* What the files of requests and objects are, as long as the races in R   *)
(* are all that occurred.  A whole file is one body or all parts of one    *)
(* upload; a described one has the ETag of its content, or none.           *)
(***************************************************************************)
Apart(R)     == "overlap" \notin R
Untouched(R) == R \cap {"overlap", "reupload", "source"} = {}
Unread(R)    == R \cap {"read", "overlap", "reupload", "source"} = {}

Intact(f)    == Put(f) \/ Merged(f)
Described(f) == f.etag \in {f.data, Blank}

Sound(R, f) == (Apart(R) => Intact(f)) /\ (Untouched(R) => Described(f))

(* The file f of a request r at label l: a copy, a put before its rename, a get. *)
Holds(R, l, r, f) ==
    f # None =>
        /\ l \in {"copyRange", "copyEtag", "getEtag"} => f.etag = Blank
        /\ l \in {"copyEtag", "getEtag"} => Sound(R, f)
        /\ l \in Renaming /\ r.job \in {"put", "copy"} => Sound(R, f)
        /\ l = "open" => (Apart(R) => Intact(f)) /\ (Unread(R) => Described(f))
        /\ l = "reply" /\ Unread(R) => Intact(f) /\ Described(f)

(* The merged file m of a completion that has come to part p. *)
Joined(R, u, list, p, m) ==
    \A i \in Slots : i < p =>
        /\ Apart(R) => \E x \in Texts : m.data[i] = <<u, i, x>>
        /\ Untouched(R) => m.data[i] = Block(u, i, list[i])

Joins(R, l, r, p, m) ==
    r.job = "complete" /\ m # None =>
        /\ l = "merge" => Joined(R, r.u, r.list, p, m)
        /\ l \in Renaming => Sound(R, m)

Carried(t) ==
    /\ Holds(races, pc[t], req[t], buf[t])
    /\ Joins(races, pc[t], req[t], pos[t], up[req[t].u].merge)

ObjectsSound == \A o \in Objects : obj[o] # None => Sound(races, obj[o])

(* No two completions merge the parts of one upload, unless that was noted. *)
Merges(l, r, u) == r.job = "complete" /\ r.u = u /\ l \in {"merge"} \cup Renaming

Solo ==
    Apart(races) =>
        \A s, t \in Threads, u \in Uploads :
            Merges(pc[s], req[s], u) /\ Merges(pc[t], req[t], u) => s = t

SoundInv == ObjectsSound /\ Solo /\ \A t \in Threads : Carried(t)

-----------------------------------------------------------------------------
(* More races allow more. *)
LEMMA RacesGrow ==
  ASSUME NEW R, NEW S, R \subseteq S
  PROVE  /\ Apart(S) => Apart(R)
         /\ Untouched(S) => Untouched(R) /\ Apart(S)
         /\ Unread(S) => Unread(R) /\ Untouched(S) /\ Apart(S)
  BY DEF Apart, Untouched, Unread

(* So what is sound stays so, *)
LEMMA SoundGrows ==
  ASSUME NEW R, NEW S, R \subseteq S, NEW f, Sound(R, f)
  PROVE  Sound(S, f)
  BY RacesGrow DEF Sound

(* what a request holds, *)
LEMMA HoldsGrows ==
  ASSUME NEW R, NEW S, R \subseteq S, NEW l, NEW r, NEW f, Holds(R, l, r, f)
  PROVE  Holds(S, l, r, f)
  BY RacesGrow, SoundGrows DEF Holds

(* and what a completion has merged. *)
LEMMA JoinsGrows ==
  ASSUME NEW R, NEW S, R \subseteq S, NEW l, NEW r, NEW p, NEW m, Joins(R, l, r, p, m)
  PROVE  Joins(S, l, r, p, m)
<1>1. Joined(R, r.u, r.list, p, m) => Joined(S, r.u, r.list, p, m)
  BY RacesGrow DEF Joined
<1> QED
  BY <1>1, SoundGrows DEF Joins

(* A request that does nothing, while merged files may go. *)
LEMMA CarriedOther ==
  ASSUME Base, races \subseteq races', NEW x \in Threads, Carried(x),
         pc'[x] = pc[x], req'[x] = req[x], buf'[x] \in {buf[x], None}, pos'[x] = pos[x],
         req[x].job = "complete" => up'[req[x].u].merge \in {up[req[x].u].merge, None}
  PROVE  Carried(x)'
<1>1. Holds(races', pc'[x], req'[x], buf'[x])
  <2>1. CASE buf'[x] = buf[x]
    BY <2>1, HoldsGrows DEF Carried
  <2>2. CASE buf'[x] = None
    BY <2>2 DEF Holds
  <2> QED
    BY <2>1, <2>2
<1>2. Joins(races', pc'[x], req'[x], pos'[x], up'[req[x].u].merge)
  <2>1. CASE up'[req[x].u].merge = up[req[x].u].merge
    BY <2>1, JoinsGrows DEF Carried
  <2>2. CASE up'[req[x].u].merge = None \/ req[x].job # "complete"
    BY <2>2 DEF Joins
  <2> QED
    BY <2>1, <2>2
<1> QED
  BY <1>1, <1>2 DEF Carried

(* All but t, in a step of t. *)
LEMMA CarriedOthers ==
  ASSUME Base, races \subseteq races', NEW t \in Threads, Others(t), Private(t), Unmerged,
         \A x \in Threads : Carried(x)
  PROVE  \A x \in Threads \ {t} : Carried(x)'
<1> SUFFICES ASSUME NEW x \in Threads \ {t}
             PROVE  Carried(x)'
  OBVIOUS
<1>1. /\ pc'[x] = pc[x] /\ req'[x] = req[x] /\ buf'[x] = buf[x] /\ pos'[x] = pos[x]
  BY DEF Others, Private, Actors
<1>2. req[x].job = "complete" => up'[req[x].u].merge \in {up[req[x].u].merge, None}
  BY AtFacts DEF Wants, Unmerged
<1> QED
  BY <1>1, <1>2, CarriedOther

(* A request that holds no file. *)
LEMMA CarriedIdle ==
  ASSUME NEW t \in Threads, pc'[t] \notin Busy
  PROVE  Carried(t)' /\ \A u \in Uploads : ~Merges(pc'[t], req'[t], u)
  BY DEF Carried, Holds, Joins, Busy, Renaming, Merges

(* Objects that go leave sound ones. *)
LEMMA ObjectsFewer ==
  ASSUME ObjectsSound, Fewer, races \subseteq races'
  PROVE  ObjectsSound'
  BY SoundGrows DEF ObjectsSound, Fewer

(* Nobody begins to merge. *)
LEMMA SoloKept ==
  ASSUME Solo, races \subseteq races',
         \A x \in Threads, u \in Uploads :
            Merges(pc'[x], req'[x], u) => Merges(pc[x], req[x], u)
  PROVE  Solo'
  BY RacesGrow DEF Solo

(* Nobody but t begins to. *)
LEMMA SoloOthers ==
  ASSUME Solo, races \subseteq races', NEW t \in Threads, Others(t),
         \A u \in Uploads : Merges(pc'[t], req'[t], u) => Merges(pc[t], req[t], u)
  PROVE  Solo'
<1>1. ASSUME NEW x \in Threads, NEW u \in Uploads, Merges(pc'[x], req'[x], u)
      PROVE  Merges(pc[x], req[x], u)
  <2>1. CASE x = t
    BY <1>1, <2>1
  <2>2. CASE x # t
    BY <1>1, <2>2 DEF Others, Actors
  <2> QED
    BY <2>1, <2>2
<1> QED
  BY <1>1, SoloKept

-----------------------------------------------------------------------------
(* A step of a request that comes out without a file. *)
LEMMA SoundCalm ==
  ASSUME Base, SoundInv, races \subseteq races', NEW t \in Threads, Calm(t)
  PROVE  SoundInv'
<1>1. ObjectsSound'
  BY ObjectsFewer DEF SoundInv, Calm
<1>2. Solo'
  BY CarriedIdle, SoloOthers DEF SoundInv, Calm
<1>3. \A x \in Threads : Carried(x)'
  BY CarriedIdle, CarriedOthers DEF SoundInv, Calm
<1> QED
  BY <1>1, <1>2, <1>3 DEF SoundInv

(* A step of no request. *)
LEMMA SoundStill ==
  ASSUME Base, SoundInv, races' = races, Still
  PROVE  SoundInv'
<1>1. ObjectsSound'
  BY ObjectsFewer DEF SoundInv, Still
<1>2. Solo'
  BY SoloKept DEF SoundInv, Still
<1>3. ASSUME NEW x \in Threads
      PROVE  Carried(x)'
  <2>1. req[x].job = "complete" => up'[req[x].u].merge \in {up[req[x].u].merge, None}
    BY AtFacts DEF Wants, Unmerged, Still
  <2> QED
    BY <2>1, CarriedOther DEF SoundInv, Still
<1> QED
  BY <1>1, <1>2, <1>3 DEF SoundInv

(* The loss of a temporary file. *)
LEMMA SoundLost ==
  ASSUME Base, SoundInv, races' = races, NEW t \in Threads, Lost(t)
  PROVE  SoundInv'
<1>1. ObjectsSound'
  BY ObjectsFewer DEF SoundInv, Lost
<1>2. Solo'
  BY SoloKept DEF SoundInv, Lost
<1>3. ASSUME NEW x \in Threads
      PROVE  Carried(x)'
  <2>1. req[x].job = "complete" => up'[req[x].u].merge \in {up[req[x].u].merge, None}
    BY AtFacts DEF Wants, Unmerged, Lost
  <2>2. /\ pc'[x] = pc[x] /\ req'[x] = req[x] /\ pos'[x] = pos[x]
        /\ buf'[x] \in {buf[x], None}
    BY DEF Lost, Private
  <2> QED
    BY <2>1, <2>2, CarriedOther DEF SoundInv
<1> QED
  BY <1>1, <1>2, <1>3 DEF SoundInv

(* A crash: the objects stay as they are. *)
LEMMA SoundCrash ==
  ASSUME Base, SoundInv, Crash
  PROVE  SoundInv'
<1>1. UNCHANGED <<obj, races>> /\ \A x \in Threads : pc'[x] \notin Busy
  BY CrashView DEF Busy, Renaming
<1>2. ObjectsSound'
  BY <1>1 DEF SoundInv, ObjectsSound
<1>3. Solo'
  BY <1>1, CarriedIdle, SoloKept DEF SoundInv
<1>4. \A x \in Threads : Carried(x)'
  BY <1>1, CarriedIdle
<1> QED
  BY <1>2, <1>3, <1>4 DEF SoundInv

(* A rename makes a sound file an object. *)
LEMMA SoundPlaces ==
  ASSUME Base, SoundInv, races \subseteq races', NEW t \in Threads, Places(t)
  PROVE  SoundInv'
<1>1. Sound(races, SourceOf(t))
  <2>1. Carried(t) /\ SourceOf(t) # None /\ pc[t] \in Renaming
    BY DEF SoundInv, Places
  <2>2. CASE req[t].job = "complete"
    BY <2>1, <2>2 DEF SourceOf, Carried, Joins
  <2>3. CASE req[t].job \in {"put", "copy"}
    BY <2>1, <2>3 DEF SourceOf, Carried, Holds
  <2> QED
    BY <2>2, <2>3 DEF Places
<1>2. ObjectsSound'
  <2> SUFFICES ASSUME NEW o \in Objects, obj'[o] # None
               PROVE  Sound(races', obj'[o])
    BY DEF ObjectsSound
  <2>1. CASE o = req[t].o
    BY <1>1, <2>1, SoundGrows DEF Places
  <2>2. CASE o # req[t].o
    BY <2>2, SoundGrows DEF Places, SoundInv, ObjectsSound
  <2> QED
    BY <2>1, <2>2
<1>3. Solo'
  BY CarriedIdle, SoloOthers DEF SoundInv, Places
<1>4. \A x \in Threads : Carried(x)'
  BY CarriedIdle, CarriedOthers DEF SoundInv, Places
<1> QED
  BY <1>2, <1>3, <1>4 DEF SoundInv

(* A request comes to a label with a file of its own that is what it should be. *)
LEMMA SoundMakes ==
  ASSUME Base, SoundInv, races \subseteq races', NEW t \in Threads, NEW l, NEW f,
         Makes(t, l, f), Holds(races', l, req[t], f), l # "merge",
         req[t].job = "complete" /\ l \in Renaming => pc[t] \in Renaming
  PROVE  SoundInv'
<1>1. ObjectsSound'
  BY ObjectsFewer DEF SoundInv, Makes
<1>2. \A u \in Uploads : Merges(pc'[t], req'[t], u) => Merges(pc[t], req[t], u)
  BY DEF Makes, Merges
<1>3. Solo'
  BY <1>2, SoloOthers DEF SoundInv, Makes
<1>4. Carried(t)'
  <2>1. Holds(races', pc'[t], req'[t], buf'[t])
    BY DEF Makes
  <2>2. Joins(races', pc'[t], req'[t], pos'[t], up'[req'[t].u].merge)
    <3>1. CASE req[t].job = "complete" /\ l \in Renaming
      <4>1. up'[req[t].u].merge \in {up[req[t].u].merge, None}
        BY <3>1, AtFacts DEF Wants, Makes, Unmerged
      <4>2. up[req[t].u].merge # None => Sound(races, up[req[t].u].merge)
        BY <3>1 DEF SoundInv, Carried, Joins
      <4> QED
        BY <3>1, <4>1, <4>2, SoundGrows DEF Makes, Joins, Renaming
    <3>2. CASE ~(req[t].job = "complete" /\ l \in Renaming)
      BY <3>2 DEF Makes, Joins
    <3> QED
      BY <3>1, <3>2
  <2> QED
    BY <2>1, <2>2 DEF Carried
<1>5. \A x \in Threads : Carried(x)'
  BY <1>4, CarriedOthers DEF SoundInv, Makes
<1> QED
  BY <1>1, <1>3, <1>5 DEF SoundInv

(***************************************************************************)
(* A completion writes its merged file.  Others that merge the same upload *)
(* see it too: there are none, or the overlap was noted.                   *)
(***************************************************************************)
LEMMA SoundWrites ==
  ASSUME Base, SoundInv, races \subseteq races', NEW t \in Threads, NEW l \in {"merge", "rename"},
         NEW m, Writes(t, l, req[t].u, m), Joins(races', l, req[t], pos'[t], m),
         \/ pc[t] = "merge"
         \/ Merging(req[t].u) # {} => "overlap" \in races'
  PROVE  SoundInv'
<1> DEFINE u == req[t].u
<1>1. u \in Uploads /\ req[t].job = "complete"
  BY DEF Writes
<1>2. ObjectsSound'
  BY ObjectsFewer DEF SoundInv, Writes, Fewer
<1>3. Apart(races') => \A x \in Threads \ {t} : ~Merges(pc[x], req[x], u)
  <2> SUFFICES ASSUME Apart(races'), NEW x \in Threads \ {t}, Merges(pc[x], req[x], u)
               PROVE  FALSE
    OBVIOUS
  <2>1. CASE pc[t] = "merge"
    BY <1>1, <2>1, RacesGrow DEF SoundInv, Solo, Merges
  <2>2. CASE Merging(u) # {} => "overlap" \in races'
    <3>1. x \in Merging(u)
      BY DEF Merges, Merging, Renaming
    <3> QED
      BY <2>2, <3>1 DEF Apart
  <2> QED
    BY <2>1, <2>2
<1>4. Solo'
  <2> SUFFICES ASSUME Apart(races'), NEW s \in Threads, NEW x \in Threads, NEW w \in Uploads,
                      Merges(pc'[s], req'[s], w), Merges(pc'[x], req'[x], w)
               PROVE  s = x
    BY DEF Solo
  <2>1. \A y \in Threads \ {t} : pc'[y] = pc[y] /\ req'[y] = req[y]
    BY DEF Writes, Others, Actors
  <2>2. req'[t].u = u
    BY DEF Writes
  <2>3. CASE s = t /\ x # t
    <3>1. w = u
      BY <2>2, <2>3 DEF Merges
    <3> QED
      BY <1>3, <2>1, <2>3, <3>1
  <2>4. CASE s # t /\ x = t
    <3>1. w = u
      BY <2>2, <2>4 DEF Merges
    <3> QED
      BY <1>3, <2>1, <2>4, <3>1
  <2>5. CASE s # t /\ x # t
    BY <2>1, <2>5, RacesGrow DEF SoundInv, Solo
  <2> QED
    BY <2>3, <2>4, <2>5
<1>5. Carried(t)'
  <2>1. Holds(races', pc'[t], req'[t], buf'[t])
    BY <1>1 DEF Writes, Holds, Renaming
  <2>2. Joins(races', pc'[t], req'[t], pos'[t], up'[req'[t].u].merge)
    BY DEF Writes
  <2> QED
    BY <2>1, <2>2 DEF Carried
<1>6. ASSUME NEW x \in Threads \ {t}
      PROVE  Carried(x)'
  <2>1. /\ pc'[x] = pc[x] /\ req'[x] = req[x] /\ buf'[x] = buf[x] /\ pos'[x] = pos[x]
    BY DEF Writes, Others, Private, Actors
  <2>2. CASE req[x].job = "complete" /\ req[x].u = u /\ pc[x] \in {"merge"} \cup Renaming
    <3>1. ~Apart(races') /\ ~Untouched(races')
      BY <1>3, <2>2 DEF Merges, Untouched, Apart
    <3>2. Joins(races', pc'[x], req'[x], pos'[x], up'[req'[x].u].merge)
      BY <3>1 DEF Joins, Joined, Sound
    <3>3. Holds(races', pc'[x], req'[x], buf'[x])
      BY <2>1, HoldsGrows DEF SoundInv, Carried
    <3> QED
      BY <3>2, <3>3 DEF Carried
  <2>3. CASE req[x].job = "complete" /\ req[x].u = u /\ pc[x] \notin {"merge"} \cup Renaming
    <3>1. Joins(races', pc'[x], req'[x], pos'[x], up'[req'[x].u].merge)
      BY <2>1, <2>3 DEF Joins
    <3>2. Holds(races', pc'[x], req'[x], buf'[x])
      BY <2>1, HoldsGrows DEF SoundInv, Carried
    <3> QED
      BY <3>1, <3>2 DEF Carried
  <2>4. CASE ~(req[x].job = "complete" /\ req[x].u = u)
    <3>1. req[x].job = "complete" => up'[req[x].u].merge = up[req[x].u].merge
      BY <2>4, AtFacts DEF Wants, Writes
    <3> QED
      BY <2>1, <3>1, CarriedOther DEF SoundInv
  <2> QED
    BY <2>2, <2>3, <2>4
<1> QED
  BY <1>2, <1>4, <1>5, <1>6 DEF SoundInv

-----------------------------------------------------------------------------
(* Whether a file is whole depends on its content alone. *)
LEMMA IntactData ==
  ASSUME NEW f, NEW g, f.data = g.data, Intact(f)
  PROVE  Intact(g)
  BY DEF Intact, Put, Merged

(* What a put writes is sound. *)
LEMMA PutSound ==
  ASSUME NEW R, NEW b \in Texts
  PROVE  Sound(R, PutFile(b))
<1>1. Put(PutFile(b))
  BY DEF Put
<1>2. PutFile(b).etag = PutFile(b).data
  BY PutFileType
<1> QED
  BY <1>1, <1>2 DEF Sound, Intact, Described

(* A temporary file of a put is sound; that of a copy is empty. *)
LEMMA CreateTmpSound ==
  ASSUME Base, SoundInv, NEW t \in Threads, CreateTmp(t)
  PROVE  SoundInv'
<1>1. req[t].job # "complete" /\ races \subseteq races'
  BY AtFacts, CreateTmpView DEF CreateTmp, At, Fits
<1>2. CASE Calm(t)
  BY <1>1, <1>2, SoundCalm
<1>3. CASE Makes(t, "copyRange", [data |-> Blank, etag |-> Blank])
  <2> DEFINE f == [data |-> Blank, etag |-> Blank]
  <2>1. f.etag = Blank
    OBVIOUS
  <2>2. Makes(t, "copyRange", f)
    BY <1>3
  <2> HIDE DEF f
  <2>3. Holds(races', "copyRange", req[t], f)
    BY <2>1 DEF Holds, Renaming
  <2> QED
    BY <1>1, <2>2, <2>3, SoundMakes
<1>4. CASE req[t].b \in Texts /\ Makes(t, "rename", PutFile(req[t].b))
  <2>1. Holds(races', "rename", req[t], PutFile(req[t].b))
    BY <1>4, PutSound DEF Holds
  <2> QED
    BY <1>1, <1>4, <2>1, SoundMakes
<1> QED
  BY <1>2, <1>3, <1>4, CreateTmpView

(* A copy has the content of an object, and no ETag yet. *)
LEMMA CopyRangeSound ==
  ASSUME Base, SoundInv, NEW t \in Threads, CopyRange(t)
  PROVE  SoundInv'
<1> DEFINE s == obj[req[t].src]
           f == [buf[t] EXCEPT !.data = s.data]
<1>1. req[t].job # "complete" /\ races' = races /\ pc[t] = "copyRange"
  BY AtFacts, CopyRangeView DEF CopyRange, At, Fits
<1>2. CASE Calm(t)
  BY <1>1, <1>2, SoundCalm
<1>3. CASE /\ buf[t] # None /\ req[t].src \in Objects /\ s # None
           /\ Makes(t, "copyEtag", f)
  <2>1. buf[t] \in File /\ s \in File
    BY <1>3 DEF Base, BufType, FsType
  <2>2. f.data = s.data /\ f.etag = buf[t].etag
    BY <2>1 DEF File
  <2>3. buf[t].etag = Blank
    BY <1>1, <1>3 DEF SoundInv, Carried, Holds
  <2>4. Sound(races, s)
    BY <1>3 DEF SoundInv, ObjectsSound
  <2> HIDE DEF f, s
  <2>5. Holds(races', "copyEtag", req[t], f)
    BY <1>1, <2>2, <2>3, <2>4, IntactData DEF Holds, Sound, Described, Renaming
  <2> QED
    BY <1>1, <1>3, <2>5, SoundMakes
<1> QED
  BY <1>2, <1>3, CopyRangeView

(* Its ETag is that of the object, which has the same content or was replaced. *)
LEMMA CopyEtagSound ==
  ASSUME Base, SoundInv, NEW t \in Threads, CopyEtag(t)
  PROVE  SoundInv'
<1> DEFINE s == obj[req[t].src]
           f == [buf[t] EXCEPT !.etag = s.etag]
<1>1. /\ req[t].job # "complete" /\ races \subseteq races' /\ pc[t] = "copyEtag"
      /\ req[t].src \in Objects
  BY AtFacts, CopyEtagView DEF CopyEtag, At, Fits
<1>2. buf[t] # None => Sound(races, buf[t])
  BY <1>1 DEF SoundInv, Carried, Holds
<1>3. CASE Makes(t, "rename", buf[t])
  <2>1. Holds(races', "rename", req[t], buf[t])
    BY <1>1, <1>2, SoundGrows DEF Holds
  <2> QED
    BY <1>1, <1>3, <2>1, SoundMakes
<1>4. CASE /\ buf[t] # None /\ s # None
           /\ s.data # buf[t].data => "source" \in races'
           /\ Makes(t, "rename", f)
  <2>1. buf[t] \in File /\ s \in File
    BY <1>1, <1>4 DEF Base, BufType, FsType
  <2>2. f.data = buf[t].data /\ f.etag = s.etag
    BY <2>1 DEF File
  <2>3. Sound(races', s) /\ Sound(races', buf[t])
    BY <1>1, <1>2, <1>4, SoundGrows DEF SoundInv, ObjectsSound
  <2>4. Untouched(races') => s.data = buf[t].data
    BY <1>4 DEF Untouched
  <2> HIDE DEF f, s
  <2>5. Sound(races', f)
    BY <2>2, <2>3, <2>4, IntactData DEF Sound, Described
  <2>6. Holds(races', "rename", req[t], f)
    BY <2>5 DEF Holds
  <2> QED
    BY <1>1, <1>4, <2>6, SoundMakes
<1> QED
  BY <1>3, <1>4, CopyEtagView

(* The renames. *)
LEMMA RenameSound ==
  ASSUME Base, SoundInv, NEW t \in Threads, Rename(t) \/ MkdirAll(t) \/ RenameAgain(t)
  PROVE  SoundInv'
<1>1. pc[t] \in Renaming
  BY DEF Rename, MkdirAll, RenameAgain, At, Renaming
<1>2. /\ races \subseteq races'
      /\ \/ Calm(t) \/ Places(t)
         \/ \E l \in {"mkdir", "rename2"} : Makes(t, l, buf[t])
  BY RenameView, MkdirView, RenameAgainView
<1>3. ASSUME NEW l \in {"mkdir", "rename2"}, Makes(t, l, buf[t])
      PROVE  SoundInv'
  <2>1. Holds(races, l, req[t], buf[t])
    BY <1>1 DEF SoundInv, Carried, Holds, Renaming
  <2>2. Holds(races', l, req[t], buf[t])
    BY <1>2, <2>1, HoldsGrows
  <2> QED
    BY <1>1, <1>2, <1>3, <2>2, SoundMakes
<1> QED
  BY <1>2, <1>3, SoundCalm, SoundPlaces

(* A get has the content of an object, *)
LEMMA GetStatSound ==
  ASSUME Base, SoundInv, NEW t \in Threads, GetStat(t)
  PROVE  SoundInv'
<1> DEFINE o == obj[req[t].o]
           f == [data |-> o.data, etag |-> Blank]
<1>1. req[t].job # "complete" /\ races' = races /\ req[t].o \in Objects
  BY AtFacts, GetStatView DEF GetStat, At, Fits
<1>2. CASE Calm(t)
  BY <1>1, <1>2, SoundCalm
<1>3. CASE o # None /\ Makes(t, "getEtag", f)
  <2>1. f.data = o.data /\ f.etag = Blank
    OBVIOUS
  <2>2. Sound(races, o)
    BY <1>1, <1>3 DEF SoundInv, ObjectsSound
  <2> HIDE DEF f, o
  <2>3. Holds(races', "getEtag", req[t], f)
    BY <1>1, <2>1, <2>2, IntactData DEF Holds, Sound, Described, Renaming
  <2> QED
    BY <1>1, <1>3, <2>3, SoundMakes
<1> QED
  BY <1>2, <1>3, GetStatView

(* its ETag or that of one that replaced it, *)
LEMMA GetEtagSound ==
  ASSUME Base, SoundInv, NEW t \in Threads, GetEtag(t)
  PROVE  SoundInv'
<1> DEFINE o == obj[req[t].o]
           f == [buf[t] EXCEPT !.etag = o.etag]
<1>1. /\ req[t].job # "complete" /\ races \subseteq races' /\ req[t].o \in Objects
      /\ buf[t] \in File /\ pc[t] = "getEtag"
  BY AtFacts, GetEtagView DEF GetEtag, At, Fits
<1>2. buf[t] # None => buf[t].etag = Blank /\ Sound(races', buf[t])
  BY <1>1, SoundGrows DEF SoundInv, Carried, Holds
<1>3. CASE Makes(t, "open", buf[t])
  <2>1. Holds(races', "open", req[t], buf[t])
    BY <1>2 DEF Holds, Sound, Described, Renaming
  <2> QED
    BY <1>1, <1>3, <2>1, SoundMakes
<1>4. CASE /\ o # None
           /\ o.data # buf[t].data => "read" \in races'
           /\ Makes(t, "open", f)
  <2>1. o \in File
    BY <1>1, <1>4 DEF Base, FsType
  <2>2. f.data = buf[t].data /\ f.etag = o.etag
    BY <1>1, <2>1 DEF File
  <2>3. Sound(races', o)
    BY <1>1, <1>4, SoundGrows DEF SoundInv, ObjectsSound
  <2>4. Unread(races') => o.data = buf[t].data /\ Untouched(races') /\ Apart(races')
    BY <1>4 DEF Unread, Untouched, Apart
  <2>5. buf[t] = None \/ Sound(races', buf[t])
    BY <1>2
  <2> HIDE DEF f, o
  <2>6. buf[t] # None
    BY <1>1, NoFileAssumption
  <2>7. Holds(races', "open", req[t], f)
    BY <2>2, <2>3, <2>4, <2>5, <2>6, IntactData DEF Holds, Sound, Described, Renaming
  <2> QED
    BY <1>1, <1>4, <2>7, SoundMakes
<1> QED
  BY <1>3, <1>4, GetEtagView

(* and no more of its content than there was, which is all of it. *)
LEMMA GetOpenSound ==
  ASSUME Base, SoundInv, NEW t \in Threads, GetOpen(t)
  PROVE  SoundInv'
<1> DEFINE o == obj[req[t].o]
           c == Limit(o.data, buf[t].data)
           f == [buf[t] EXCEPT !.data = c]
<1>1. /\ req[t].job # "complete" /\ races \subseteq races' /\ req[t].o \in Objects
      /\ buf[t] \in File /\ pc[t] = "open" /\ buf[t] # None
  BY AtFacts, GetOpenView, NoFileAssumption DEF GetOpen, At, Fits
<1>2. CASE Calm(t)
  BY <1>1, <1>2, SoundCalm
<1>3. CASE /\ o # None
           /\ o.data # buf[t].data => "read" \in races'
           /\ Makes(t, "reply", f)
  <2>1. o \in File
    BY <1>1, <1>3 DEF Base, FsType
  <2>2. o.data \in Content /\ buf[t].data \in Content
    BY <1>1, <2>1 DEF File
  <2>3. c \in Content /\ (o.data = buf[t].data => c = buf[t].data)
    BY <2>2, LimitType
  <2> HIDE DEF c
  <2>4. f.data = c /\ f.etag = buf[t].etag
    BY <1>1, <2>3 DEF File
  <2>5. Unread(races') => o.data = buf[t].data
    BY <1>3 DEF Unread
  <2>6. Unread(races') => Unread(races) /\ Apart(races)
    BY <1>1 DEF Unread, Apart
  <2>7. Unread(races') => Intact(buf[t]) /\ Described(buf[t])
    BY <1>1, <2>6 DEF SoundInv, Carried, Holds
  <2> HIDE DEF f, o
  <2>8. Unread(races') => Intact(f) /\ Described(f)
    BY <2>3, <2>4, <2>5, <2>7, IntactData DEF Described
  <2>9. Holds(races', "reply", req[t], f)
    BY <2>8 DEF Holds, Renaming
  <2> QED
    BY <1>1, <1>3, <2>9, SoundMakes
<1> QED
  BY <1>2, <1>3, GetOpenView

(* An empty file has the parts before the first. *)
LEMMA CreateMergeSound ==
  ASSUME Base, SoundInv, NEW t \in Threads, CreateMerge(t)
  PROVE  SoundInv'
<1> DEFINE m == [data |-> Blank, etag |-> Blank]
<1>1. races \subseteq races'
  BY CreateMergeView
<1>2. CASE Calm(t)
  BY <1>1, <1>2, SoundCalm
<1>3. CASE /\ Writes(t, "merge", req[t].u, m) /\ pos'[t] = 1
           /\ Merging(req[t].u) # {} => "overlap" \in races'
  <2>1. \A i \in Slots : ~(i < 1)
    BY DEF Slots
  <2>2. Joins(races', "merge", req[t], pos'[t], m)
    BY <1>3, <2>1 DEF Joins, Joined, Renaming
  <2> HIDE DEF m
  <2> QED
    BY <1>1, <1>3, <2>2, SoundWrites
<1> QED
  BY <1>2, <1>3, CreateMergeView

(* A part is added at its place, the one of the list or one that replaced it. *)
LEMMA MergePartSound ==
  ASSUME Base, SoundInv, NEW t \in Threads, MergePart(t)
  PROVE  SoundInv'
<1> DEFINE u == req[t].u
           i == pos[t]
           b == up[u].parts[i]
           m == up[u].merge
           f == [m EXCEPT !.data[i] = <<u, i, b>>]
<1>1. races \subseteq races'
  BY MergePartView
<1>2. CASE Calm(t)
  BY <1>1, <1>2, SoundCalm
<1>3. CASE /\ pc[t] = "merge" /\ i \in Slots /\ m \in File /\ pos'[t] = i + 1
           /\ b \in Texts /\ Writes(t, "merge", u, f)
           /\ b # req[t].list[i] => "reupload" \in races'
  <2>1. req[t].job = "complete" /\ u \in Uploads
    BY <1>3 DEF Writes
  <2>2. m # None /\ b # None
    BY <1>3, NoFileAssumption DEF Texts
  <2>3. Joined(races, u, req[t].list, i, m)
    BY <1>3, <2>1, <2>2 DEF SoundInv, Carried, Joins
  <2>4. <<u, i, b>> \in Blocks \cup {None}
    BY <1>3, <2>1 DEF Blocks
  <2>5. f.data = [m.data EXCEPT ![i] = <<u, i, b>>] /\ m.data \in Content
    BY <1>3, <2>4, DataType DEF File
  <2>6. f.data[i] = <<u, i, b>> /\ \A k \in Slots \ {i} : f.data[k] = m.data[k]
    BY <1>3, <2>5 DEF Content
  <2>7. Untouched(races') => b = req[t].list[i]
    BY <1>3 DEF Untouched
  <2>a. f.data[i] = Block(u, i, b)
    BY <2>2, <2>6 DEF Block
  <2> HIDE DEF f, m, b, i, u
  <2>8. Joined(races', u, req[t].list, i + 1, f)
    <3> SUFFICES ASSUME NEW k \in Slots, k < i + 1
                 PROVE  /\ Apart(races') => \E x \in Texts : f.data[k] = <<u, k, x>>
                        /\ Untouched(races') => f.data[k] = Block(u, k, req[t].list[k])
      BY DEF Joined
    <3>1. CASE k = i
      BY <1>3, <2>6, <2>7, <2>a, <3>1
    <3>2. CASE k # i
      <4>1. k < i
        BY <1>3, <3>2 DEF Slots
      <4>2. (Apart(races') => Apart(races)) /\ (Untouched(races') => Untouched(races))
        BY <1>1, RacesGrow
      <4> QED
        BY <2>3, <2>6, <3>2, <4>1, <4>2 DEF Joined
    <3> QED
      BY <3>1, <3>2
  <2>9. Joins(races', "merge", req[t], pos'[t], f)
    BY <1>3, <2>8 DEF Joins, Renaming, u
  <2> QED
    BY <1>1, <1>3, <2>9, SoundWrites DEF u
<1> QED
  BY <1>2, <1>3, MergePartView

(* With all parts in it the file is whole, and the ETag is that of the parts of the list. *)
LEMMA SetEtagSound ==
  ASSUME Base, SoundInv, NEW t \in Threads, SetEtag(t)
  PROVE  SoundInv'
<1> DEFINE u == req[t].u
           m == up[u].merge
           f == [m EXCEPT !.etag = Tag(t)]
<1>1. races' = races /\ pc[t] = "merge" /\ pos[t] = Parts + 1
  BY SetEtagView
<1>2. CASE m = None /\ Writes(t, "rename", u, m)
  <2>1. Joins(races', "rename", req[t], pos'[t], m)
    BY <1>2 DEF Joins
  <2> HIDE DEF m
  <2> QED
    BY <1>1, <1>2, <2>1, SoundWrites
<1>3. CASE m \in File /\ Writes(t, "rename", u, f)
  <2>1. req[t].job = "complete" /\ u \in Uploads
    BY <1>3 DEF Writes
  <2>2. m # None
    BY <1>3, NoFileAssumption
  <2>3. Joined(races, u, req[t].list, Parts + 1, m)
    BY <1>1, <2>1, <2>2 DEF SoundInv, Carried, Joins
  <2>4. m.data \in Content
    BY <1>3 DEF File
  <2>5. f.data = m.data /\ f.etag = Tag(t)
    BY <1>3 DEF File
  <2>6. \A k \in Slots : k < Parts + 1
    BY DEF Slots
  <2> HIDE DEF f, m
  <2>7. Apart(races) => Merged(f)
    BY <2>1, <2>3, <2>5, <2>6 DEF Joined, Merged
  <2>8. Untouched(races) => m.data = Tag(t)
    <3> SUFFICES ASSUME Untouched(races)
                 PROVE  m.data = Tag(t)
      OBVIOUS
    <3>1. \A k \in Slots : m.data[k] = Block(u, k, req[t].list[k])
      BY <2>3, <2>6 DEF Joined
    <3> QED
      BY <2>4, <3>1 DEF Tag, Content
  <2>9. Sound(races, f)
    BY <2>5, <2>7, <2>8 DEF Sound, Intact, Described
  <2>10. Joins(races', "rename", req[t], pos'[t], f)
    BY <1>1, <2>9 DEF Joins
  <2> QED
    BY <1>1, <1>3, <2>10, SoundWrites
<1> QED
  BY <1>2, <1>3, SetEtagView

-----------------------------------------------------------------------------
(* The initial states. *)
LEMMA InitBase ==
  ASSUME Init
  PROVE  Base /\ SoundInv
<1>1. PutFile(Stored) \in File /\ \A R : Sound(R, PutFile(Stored))
  BY PutFileType, PutSound DEF Texts
<1>2. NoUpload \in Upload /\ NoUpload.merge = None
  BY DEF NoUpload, Upload, Blank, PartFiles
<1>3. AllStored \in PartFiles
  BY DEF AllStored, PartFiles, Texts
<1>4. up \in [Uploads -> Upload]
  <2>1. [NoUpload EXCEPT !.live = TRUE, !.parts = AllStored]
        = [[NoUpload EXCEPT !.live = TRUE] EXCEPT !.parts = AllStored]
    OBVIOUS
  <2>2. [NoUpload EXCEPT !.live = TRUE, !.parts = AllStored] \in Upload
    BY <1>2, <1>3, <2>1 DEF Upload
  <2>3. {NoUpload, [NoUpload EXCEPT !.live = TRUE, !.parts = AllStored]} \subseteq Upload
    BY <1>2, <2>2
  <2>4. up \in [Uploads -> {NoUpload, [NoUpload EXCEPT !.live = TRUE, !.parts = AllStored]}]
    BY DEF Init
  <2> QED
    BY <2>3, <2>4
<1>5. nextU \in 1..(MaxUploads + 1)
  <2> DEFINE L == {u \in Uploads : up[u].live}
  <2>1. IsFiniteSet(Uploads) /\ Cardinality(Uploads) = MaxUploads
    BY FS_Interval DEF Uploads
  <2>2. L \subseteq Uploads
    OBVIOUS
  <2>3. nextU = Cardinality(L) + 1
    BY DEF Init
  <2> HIDE DEF L
  <2>4. IsFiniteSet(L) /\ Cardinality(L) <= Cardinality(Uploads)
    BY <2>1, <2>2, FS_Subset
  <2>5. Cardinality(L) \in Nat
    BY <2>4, FS_CardinalityType
  <2> QED
    BY <2>1, <2>3, <2>4, <2>5
<1>6. PICK f \in {None, PutFile(Stored)} : obj = [Nothing EXCEPT ![Present] = f]
  BY DEF Init
<1>7. \A o \in Objects : obj[o] \in {None, PutFile(Stored)}
  BY <1>6 DEF Nothing
<1>8. obj \in [Objects -> File \cup {None}]
  BY <1>1, <1>6 DEF Nothing
<1>9. FsType
  BY <1>4, <1>5, <1>8 DEF Init, FsType
<1>10. ReqType /\ Where
  BY NoRequestType DEF Init, ReqType, Where, Labels, Actors
<1>11. BufType /\ HistType /\ Reading
  BY <1>8 DEF Init, BufType, HistType, Reading, Actors
<1>12. ObjectsSound
  BY <1>1, <1>7 DEF ObjectsSound
<1>13. \A t \in Threads : pc[t] = "idle"
  BY DEF Init, Actors
<1>14. Solo /\ \A t \in Threads : Carried(t)
  BY <1>13 DEF Solo, Merges, Renaming, Carried, Holds, Joins
<1> QED
  BY <1>9, <1>10, <1>11, <1>12, <1>14 DEF Base, SoundInv

(* A step of a request. *)
LEMMA StepSound ==
  ASSUME Base, SoundInv, NEW t \in Threads, Step(t)
  PROVE  Base' /\ SoundInv'
<1>1. CASE CheckUpload(t)
  BY <1>1, CheckCalm, SoundCalm
<1>2. CASE CreateTmp(t)
  BY <1>2, CreateTmpView, CreateTmpSound
<1>3. CASE CopyRange(t)
  BY <1>3, CopyRangeView, CopyRangeSound
<1>4. CASE CopyEtag(t)
  BY <1>4, CopyEtagView, CopyEtagSound
<1>5. CASE Rename(t) \/ MkdirAll(t) \/ RenameAgain(t)
  BY <1>5, RenameView, MkdirView, RenameAgainView, RenameSound
<1>6. CASE UnlinkMerge(t) \/ DiscardMerge(t)
  BY <1>6, UnlinkCalm, SoundCalm
<1>7. CASE \/ StatDir(t) \/ RemoveDir(t) \/ ResetAtime(t) \/ MakeDir(t) \/ SetAtime(t)
           \/ StatPutDir(t) \/ StatObject(t)
  BY <1>7, DirCalm, SoundCalm
<1>8. CASE DeleteFile(t) \/ UndoComplete(t)
  BY <1>8, DeleteCalm, SoundCalm
<1>9. CASE GetStat(t)
  BY <1>9, GetStatView, GetStatSound
<1>10. CASE GetEtag(t)
  BY <1>10, GetEtagView, GetEtagSound
<1>11. CASE GetOpen(t)
  BY <1>11, GetOpenView, GetOpenSound
<1>12. CASE GetReply(t)
  BY <1>12, ReplyCalm, SoundCalm
<1>13. CASE CreateMerge(t)
  BY <1>13, CreateMergeView, CreateMergeSound
<1>14. CASE MergePart(t)
  BY <1>14, MergePartView, MergePartSound
<1>15. CASE SetEtag(t)
  BY <1>15, SetEtagView, SetEtagSound
<1> QED
  BY <1>1, <1>2, <1>3, <1>4, <1>5, <1>6, <1>7, <1>8, <1>9, <1>10, <1>11, <1>12, <1>13,
     <1>14, <1>15 DEF Step

(* Every step. *)
LEMMA NextSound ==
  ASSUME Base, SoundInv, [Next]_vars
  PROVE  Base' /\ SoundInv'
<1>1. ASSUME NEW t \in Threads, NEW j \in jobs, Arrive(t, j)
      PROVE  Base' /\ SoundInv'
  BY <1>1, ArriveCalm, SoundCalm
<1>2. ASSUME NEW t \in Threads, NewMultipartUpload(t)
      PROVE  Base' /\ SoundInv'
  BY <1>2, NewUploadStill, SoundStill
<1>3. ASSUME NEW t \in Threads, Step(t)
      PROVE  Base' /\ SoundInv'
  BY <1>3, StepSound
<1>4. ASSUME NEW t \in Threads, CleanTmp(t)
      PROVE  Base' /\ SoundInv'
  BY <1>4, CleanTmpView, SoundLost
<1>5. ASSUME NEW a \in Actors, RmrFile(a)
      PROVE  Base' /\ SoundInv'
  BY <1>5, RmrFileStill, SoundStill
<1>6. ASSUME NEW a \in Actors, RmrDir(a)
      PROVE  Base' /\ SoundInv'
  BY <1>6, RmrDirView, SoundCalm, SoundStill
<1>7. ASSUME NEW u \in Uploads, CleanUpload(u)
      PROVE  Base' /\ SoundInv'
  BY <1>7, CleanUploadStill, SoundStill
<1>8. CASE CleanLitter \/ UNCHANGED vars
  BY <1>8, CleanLitterStill, SoundStill
<1>9. CASE Crash
  BY <1>9, CrashView, SoundCrash
<1> QED
  BY <1>1, <1>2, <1>3, <1>4, <1>5, <1>6, <1>7, <1>8, <1>9 DEF Next, Rmr

(* The invariant. *)
LEMMA Invariance == Spec => [](Base /\ SoundInv)
<1>1. Init => Base /\ SoundInv
  BY InitBase
<1>2. (Base /\ SoundInv) /\ [Next]_vars => (Base /\ SoundInv)'
  BY NextSound
<1> QED
  BY <1>1, <1>2, PTL DEF Spec

(***************************************************************************)
(* The files, the uploads and the requests stay well typed: in particular  *)
(* a get past its Stat always has something to answer, and a request finds *)
(* in its record what its label needs.                                     *)
(***************************************************************************)
THEOREM TypeCorrect == Spec => []TypeOK
<1>1. Base => TypeOK
  BY DEF Base, FsType, ReqType, BufType, HistType, TypeOK
<1> QED
  BY <1>1, Invariance, PTL

(***************************************************************************)
(* Every object is one body or all parts of one upload: rename,            *)
(* CopyFileRange and O_EXCL keep it so, unless two completions overlapped. *)
(***************************************************************************)
THEOREM WholeObjects == Spec => []ObjectsWhole
<1>1. SoundInv => ObjectsWhole
  BY DEF SoundInv, ObjectsSound, Sound, Intact, Apart, ObjectsWhole
<1> QED
  BY <1>1, Invariance, PTL

(***************************************************************************)
(* The stored ETag is that of the content, or there is none, unless one of *)
(* the three races that EtagDescribesContent names occurred.               *)
(***************************************************************************)
THEOREM TrueEtags == Spec => []EtagDescribesContent
<1>1. SoundInv => EtagDescribesContent
  BY DEF SoundInv, ObjectsSound, Sound, Described, Untouched, EtagDescribesContent
<1> QED
  BY <1>1, Invariance, PTL

(***************************************************************************)
(* GetObjectNInfo answers with a whole object under its own ETag, or none, *)
(* unless the object was replaced between its three calls or is itself the *)
(* result of a race.                                                       *)
(***************************************************************************)
THEOREM TrueReplies == Spec => []RepliesMatch
<1>1. Base /\ SoundInv => RepliesMatch
  <2> SUFFICES ASSUME Base, SoundInv, races \cap {"read", "overlap", "reupload", "source"} = {},
                      NEW t \in Threads, pc[t] = "reply"
               PROVE  /\ Put(buf[t]) \/ Merged(buf[t])
                      /\ buf[t].etag \in {buf[t].data, Blank}
    BY DEF RepliesMatch
  <2>1. buf[t] # None
    BY NoFileAssumption DEF Base, Reading
  <2>2. Unread(races)
    BY DEF Unread
  <2> QED
    BY <2>1, <2>2 DEF SoundInv, Carried, Holds, Intact, Described
<1> QED
  BY <1>1, Invariance, PTL

-----------------------------------------------------------------------------
(***************************************************************************)
(* What was acknowledged.  The directory keeps its atime 0, not only its   *)
(* place: else the removal of an empty parent could take it without note.  *)
(***************************************************************************)
NoUndo(R) == R \cap {"undo", "ack"} = {}

NoTake(R) == R \cap {"dir", "atime"} = {}

Kept ==
    /\ NoUndo(races) => \A o \in Objects \cap acked : obj[o] # None
    /\ NoTake(races) => (Dir \in acked => dir = "object")

(* A step that takes no object away and acknowledges nothing. *)
LEMMA KeptSame ==
  ASSUME Kept, races \subseteq races', UNCHANGED <<dir, acked>>,
         \A o \in Objects : obj[o] # None => obj'[o] # None
  PROVE  Kept'
<1>1. (NoUndo(races') => NoUndo(races)) /\ (NoTake(races') => NoTake(races))
  BY DEF NoUndo, NoTake
<1> QED
  BY <1>1 DEF Kept

(* The renames put objects in place. *)
LEMMA KeptRename ==
  ASSUME Base, Kept, NEW t \in Threads, Rename(t) \/ RenameAgain(t)
  PROVE  Kept'
<1>1. races \subseteq races' /\ UNCHANGED <<dir, acked>>
  BY RenameView, RenameAgainView DEF Rename, RenameAgain
<1>2. /\ req[t].job \in {"put", "copy", "part", "complete"}
      /\ req[t].job # "part" => req[t].o \in Objects
  BY AtFacts DEF Rename, RenameAgain, At, Renaming, Fits, Wants
<1>3. \A o \in Objects : obj[o] # None => obj'[o] # None
  <2>1. CASE UNCHANGED obj
    BY <2>1
  <2>2. CASE CanRename(t) /\ Renamed(t) /\ req[t].job # "part"
    <3>1. obj' = [obj EXCEPT ![req[t].o] = SourceOf(t)] /\ SourceOf(t) # None
      BY <1>2, <2>2 DEF CanRename, Renamed
    <3> QED
      BY <1>2, <2>2, <3>1 DEF Base, FsType
  <2>3. CASE CanRename(t) /\ Renamed(t) /\ req[t].job = "part"
    BY <2>3 DEF Renamed
  <2> QED
    BY <2>1, <2>2, <2>3 DEF Rename, RenameAgain
<1> QED
  BY <1>1, <1>3, KeptSame

(* CopyObject acknowledges a copy it could not begin: that is the race "ack". *)
LEMMA KeptTmp ==
  ASSUME Base, Kept, NEW t \in Threads, CreateTmp(t)
  PROVE  Kept'
<1>1. UNCHANGED <<obj, dir>> /\ races \subseteq races'
  BY CreateTmpView DEF CreateTmp, fsVars
<1>2. CASE UNCHANGED acked
  BY <1>1, <1>2, KeptSame
<1>3. CASE Note("ack", TRUE)
  <2>1. ~NoUndo(races')
    BY <1>3 DEF Note, NoUndo
  <2>2. (NoTake(races') => NoTake(races)) /\ dir' = dir
    BY <1>1 DEF NoTake
  <2>3. Dir \in acked' => Dir \in acked
    <3>1. acked' = acked \/ (req[t].job = "copy" /\ acked' = acked \cup {req[t].o})
      BY DEF CreateTmp
    <3>2. req[t].job = "copy" => req[t].o \in Objects
      BY AtFacts DEF CreateTmp, At, Fits, Wants
    <3> QED
      BY <3>1, <3>2, NameAssumption
  <2> QED
    BY <2>1, <2>2, <2>3 DEF Kept
<1> QED
  BY <1>2, <1>3 DEF CreateTmp

(* Deletions take the name out of what was acknowledged, or note it. *)
LEMMA KeptDelete ==
  ASSUME Base, Kept, NEW t \in Threads, DeleteFile(t) \/ UndoComplete(t)
  PROVE  Kept'
<1>1. /\ obj' = [obj EXCEPT ![req[t].o] = None] /\ dir' = dir /\ races \subseteq races'
      /\ req[t].o \in Objects
  BY AtFacts, DeleteCalm DEF DeleteFile, UndoComplete, At, Fits, Wants
<1>2. obj'[req[t].o] = None /\ \A o \in Objects \ {req[t].o} : obj'[o] = obj[o]
  BY <1>1 DEF Base, FsType
<1>3. (NoUndo(races') => NoUndo(races)) /\ (NoTake(races') => NoTake(races))
  BY <1>1 DEF NoUndo, NoTake
<1>4. CASE DeleteFile(t)
  <2>1. acked' = acked \ {req[t].o}
    BY <1>4 DEF DeleteFile
  <2> QED
    BY <1>1, <1>2, <1>3, <2>1 DEF Kept
<1>5. CASE UndoComplete(t)
  <2>1. acked' = acked /\ (obj[req[t].o] # None => "undo" \in races')
    BY <1>5 DEF UndoComplete, Note
  <2>2. NoUndo(races') => obj[req[t].o] = None
    BY <2>1 DEF NoUndo
  <2> QED
    BY <1>1, <1>2, <1>3, <2>1, <2>2 DEF Kept
<1> QED
  BY <1>4, <1>5

(* The steps on the directory, and the last Stat of an object. *)
LEMMA KeptDir ==
  ASSUME Base, Kept, NEW t \in Threads,
         \/ StatDir(t) \/ RemoveDir(t) \/ ResetAtime(t) \/ MakeDir(t) \/ SetAtime(t)
         \/ StatPutDir(t) \/ StatObject(t)
  PROVE  Kept'
<1>1. races \subseteq races'
  BY DirCalm
<1>2. (NoUndo(races') => NoUndo(races)) /\ (NoTake(races') => NoTake(races))
  BY <1>1 DEF NoUndo, NoTake
<1>3. obj' = obj
  BY DEF StatDir, RemoveDir, ResetAtime, MakeDir, SetAtime, StatPutDir, StatObject, fsVars
<1>4. CASE StatDir(t)
  BY <1>1, <1>3, <1>4, KeptSame DEF StatDir, fsVars, history
<1>5. CASE RemoveDir(t)
  <2>1. req[t].job \in {"delete", "deleteDir"}
    BY <1>5, AtFacts DEF RemoveDir, At, Fits
  <2>2. /\ dir' = IF DirEmpty THEN "none" ELSE dir
        /\ acked' = IF DirEmpty /\ req[t].job = "deleteDir" THEN acked \ {Dir} ELSE acked
        /\ DirEmpty /\ dir = "object" /\ req[t].job = "delete" => "dir" \in races'
    BY <1>5 DEF RemoveDir, Note
  <2>3. CASE ~DirEmpty
    BY <1>1, <1>3, <2>2, <2>3, KeptSame
  <2>4. CASE DirEmpty /\ req[t].job = "deleteDir"
    BY <1>2, <1>3, <2>2, <2>4 DEF Kept
  <2>5. CASE DirEmpty /\ req[t].job = "delete"
    <3>1. NoTake(races') => dir # "object"
      BY <2>2, <2>5 DEF NoTake
    <3>2. acked' = acked
      BY <2>2, <2>5
    <3> QED
      BY <1>2, <1>3, <3>1, <3>2 DEF Kept
  <2> QED
    BY <2>1, <2>3, <2>4, <2>5
<1>6. CASE ResetAtime(t)
  BY <1>2, <1>3, <1>6 DEF ResetAtime, Kept
<1>7. CASE MakeDir(t)
  BY <1>2, <1>3, <1>7 DEF MakeDir, Kept, history
<1>8. CASE SetAtime(t)
  BY <1>2, <1>3, <1>8 DEF SetAtime, SetFileAtime, Kept, history
<1>9. CASE StatPutDir(t)
  <2>1. /\ acked' = IF dir = "none" THEN acked ELSE acked \cup {Dir}
        /\ dir = "implicit" => "atime" \in races'
        /\ dir' = dir /\ dir \in {"none", "implicit", "object"}
    BY <1>9 DEF StatPutDir, Note, fsVars, Base, FsType
  <2>2. NoTake(races') => dir # "implicit"
    BY <2>1 DEF NoTake
  <2>3. Objects \cap acked' = Objects \cap acked
    BY <2>1, NameAssumption
  <2> QED
    BY <1>2, <1>3, <2>1, <2>2, <2>3 DEF Kept
<1>10. CASE StatObject(t)
  <2>1. req[t].o \in Objects /\ dir' = dir
    BY <1>10, AtFacts DEF StatObject, At, Fits, Wants, fsVars
  <2>2. acked' = acked \/ (obj[req[t].o] # None /\ acked' = acked \cup {req[t].o})
    BY <1>10 DEF StatObject
  <2> QED
    BY <1>2, <1>3, <2>1, <2>2 DEF Kept
<1> QED
  BY <1>4, <1>5, <1>6, <1>7, <1>8, <1>9, <1>10

(* mkdirAll leaves a directory that is there as it is. *)
LEMMA KeptMkdir ==
  ASSUME Base, Kept, NEW t \in Threads, MkdirAll(t)
  PROVE  Kept'
<1>1. /\ UNCHANGED <<obj, acked, races>>
      /\ dir' = dir \/ (dir = "none" /\ dir' = "implicit")
  BY DEF MkdirAll, history
<1> QED
  BY <1>1 DEF Kept

(* Every other step leaves names, directory and acknowledgements alone. *)
LEMMA KeptNext ==
  ASSUME Base, SoundInv, Kept, [Next]_vars
  PROVE  Kept'
<1>1. ASSUME NEW t \in Threads, NEW j \in jobs, Arrive(t, j)
      PROVE  Kept'
  <2>1. PICK r : Begin(t, r)
    BY <1>1 DEF Arrive
  <2> QED
    BY <2>1, KeptSame DEF Begin, fsVars, history
<1>2. ASSUME NEW t \in Threads, NewMultipartUpload(t)
      PROVE  Kept'
  BY <1>2, KeptSame DEF NewMultipartUpload, history
<1>3. ASSUME NEW t \in Threads, Step(t)
      PROVE  Kept'
  <2>1. CASE CreateTmp(t)
    BY <2>1, KeptTmp
  <2>2. CASE Rename(t) \/ RenameAgain(t)
    BY <2>2, KeptRename
  <2>3. CASE MkdirAll(t)
    BY <2>3, KeptMkdir
  <2>4. CASE DeleteFile(t) \/ UndoComplete(t)
    BY <2>4, KeptDelete
  <2>5. CASE \/ StatDir(t) \/ RemoveDir(t) \/ ResetAtime(t) \/ MakeDir(t) \/ SetAtime(t)
             \/ StatPutDir(t) \/ StatObject(t)
    BY <2>5, KeptDir
  <2>6. CASE CheckUpload(t)
    BY <2>6, KeptSame DEF CheckUpload, fsVars
  <2>7. CASE CopyRange(t) \/ GetStat(t) \/ GetReply(t)
    BY <2>7, KeptSame DEF CopyRange, GetStat, GetReply, fsVars, history
  <2>8. CASE CopyEtag(t) \/ GetEtag(t) \/ GetOpen(t)
    <3>1. UNCHANGED <<obj, dir, acked>>
      BY <2>8 DEF CopyEtag, GetEtag, GetOpen, fsVars
    <3>2. races \subseteq races'
      BY <2>8, CopyEtagView, GetEtagView, GetOpenView
    <3> QED
      BY <3>1, <3>2, KeptSame
  <2>9. CASE UnlinkMerge(t) \/ DiscardMerge(t) \/ SetEtag(t)
    BY <2>9, KeptSame DEF UnlinkMerge, DiscardMerge, SetEtag, history
  <2>10. CASE CreateMerge(t) \/ MergePart(t)
    <3>1. UNCHANGED <<obj, dir, acked>>
      BY <2>10 DEF CreateMerge, MergePart
    <3>2. races \subseteq races'
      BY <2>10, CreateMergeView, MergePartView
    <3> QED
      BY <3>1, <3>2, KeptSame
  <2> QED
    BY <1>3, <2>1, <2>2, <2>3, <2>4, <2>5, <2>6, <2>7, <2>8, <2>9, <2>10 DEF Step
<1>4. ASSUME NEW t \in Threads, CleanTmp(t)
      PROVE  Kept'
  BY <1>4, KeptSame DEF CleanTmp, fsVars, history
<1>5. ASSUME NEW a \in Actors, RmrFile(a) \/ RmrDir(a)
      PROVE  Kept'
  BY <1>5, KeptSame DEF RmrFile, RmrDir, history
<1>6. ASSUME NEW u \in Uploads, CleanUpload(u)
      PROVE  Kept'
  BY <1>6, KeptSame DEF CleanUpload, fsVars, history
<1>7. CASE CleanLitter \/ Crash
  BY <1>7, KeptSame DEF CleanLitter, Crash, history
<1>8. CASE UNCHANGED vars
  BY <1>8, KeptSame DEF vars, fsVars, history
<1> QED
  BY <1>1, <1>2, <1>3, <1>4, <1>5, <1>6, <1>7, <1>8 DEF Next, Rmr

(***************************************************************************)
(* What PutObject, CopyObject or CompleteMultipartUpload acknowledged is   *)
(* there until it is deleted by its name, unless one of the races "undo"   *)
(* and "ack" occurred; so is an acknowledged directory, unless one of the  *)
(* races "dir" and "atime" did.                                            *)
(***************************************************************************)
THEOREM NothingAckedLost == Spec => []AckedPresent
<1>1. Init => Kept
  BY DEF Init, Kept
<1>2. Base /\ SoundInv /\ Kept /\ [Next]_vars => Kept'
  BY KeptNext
<1>3. Kept => AckedPresent
  BY DEF Kept, NoUndo, NoTake, AckedPresent
<1> QED
  BY <1>1, <1>2, <1>3, Invariance, PTL DEF Spec

==============================================================================
