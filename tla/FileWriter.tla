------------------------------ MODULE FileWriter ------------------------------
(***************************************************************************)
(* The write path of a JuiceFS file (pkg/vfs/writer.go), on which the      *)
(* gateway writes objects: handles on one inode share a fileWriter, which  *)
(* collects writes in slices of its chunks.  A slice is frozen, uploaded   *)
(* by a goroutine of its own (flushData) and committed to the metadata by  *)
(* the commit thread of its chunk, in the order of creation.               *)
(*                                                                         *)
(* One action is one critical section of the fileWriter's mutex, or a call *)
(* made without it.  Bytes are numbered by the write they come from; a     *)
(* file begins with zeros.  The length, mtime and buffers are left out.    *)
(***************************************************************************)
EXTENDS Naturals, Sequences, FiniteSets

CONSTANTS
    Threads,             \* goroutines with a handle each
    Chunks,              \* a file has chunks 0..(Chunks - 1)
    ChunkSize,           \* bytes of a chunk
    BlockSize,           \* bytes of a block: full blocks of a slice may be uploaded already
    Lookback,            \* slices that findWritableSlice leaves unfrozen (3)
    MaxSlices,           \* the limit of totalSlices (1000)
    Ranges,              \* offset and size of the writes
    MaxWrites,           \* bound on the writes
    Faults               \* what may fail, a subset of AllFaults

(* "slice": NewSlice, the upload or meta.Write fails, the last with or without effect; *)
(* "timeout": a flush gives up; "cancel": a waiting write is interrupted.              *)
AllFaults == {"slice", "timeout", "cancel"}

Indexes == 0..(Chunks - 1)
Offsets == 0..(ChunkSize - 1)

ASSUME SizeAssumption ==
    /\ Chunks \in Nat \ {0} /\ BlockSize \in Nat \ {0} /\ Lookback \in Nat
    /\ ChunkSize \in Nat \ {0}
    /\ \A r \in Ranges : /\ r \in Nat \X (Nat \ {0})
                         /\ r[1] + r[2] <= Chunks * ChunkSize
ASSUME BoundsAssumption == MaxSlices \in Nat \ {0} /\ MaxWrites \in Nat
ASSUME FaultAssumption == Faults \subseteq AllFaults
ASSUME ThreadAssumption == IsFiniteSet(Threads)

VARIABLES
    slices,     \* the slices of each chunk, oldest first; a chunk without any is not in f.chunks
    cpc,        \* each chunk's commit thread
    leaving,    \* commit threads that ended and have not called free yet
    content,    \* the bytes of each chunk according to the metadata
    ferr,       \* f.err
    refs,       \* f.refs; the fileWriter is in w.files while it is not 0
    pc,         \* each handle: its position in Write, Flush or Close
    writes,     \* writes so far
    truth       \* history: the bytes as written, until f.err is set

file == <<slices, cpc, leaving, content, ferr, refs>>
history == <<writes, truth>>
vars == <<file, pc, history>>

Slice == [off : Offsets, data : Seq(1..MaxWrites), frozen : BOOLEAN, done : BOOLEAN]

Bytes == [Indexes -> [Offsets -> 0..MaxWrites]]

Zeros == [c \in Indexes |-> [p \in Offsets |-> 0]]

Labels == {"closed", "idle", "write", "flush", "close", "free"}

TypeOK ==
    /\ slices \in [Indexes -> Seq(Slice)]
    /\ cpc \in [Indexes -> {"none", "wait", "pop", "popErr"}]
    /\ leaving \in Nat /\ refs \in Nat
    /\ content \in Bytes
    /\ ferr \in BOOLEAN
    /\ pc \in [Threads -> Labels]
    /\ writes \in 0..MaxWrites
    /\ truth \in Bytes
    /\ \A c \in Indexes : \A i \in 1..Len(slices[c]) :
          slices[c][i].data # <<>> /\ slices[c][i].off + Len(slices[c][i].data) <= ChunkSize

Init ==
    /\ slices = [c \in Indexes |-> <<>>]
    /\ cpc = [c \in Indexes |-> "none"]
    /\ leaving = 0
    /\ content = Zeros
    /\ ferr = FALSE
    /\ refs = 0
    /\ pc = [t \in Threads |-> "closed"]
    /\ writes = 0
    /\ truth = Zeros

At(t, label) == pc[t] = label

Goto(t, label) == pc' = [pc EXCEPT ![t] = label]

Pending == {c \in Indexes : slices[c] # <<>>}

(* flushwaiting counts these. *)
Flushing == {t \in Threads : pc[t] \in {"flush", "close"}}

(* dataWriter.Open: the first handle makes a new fileWriter. *)
Open(t) ==
    /\ At(t, "closed")
    /\ refs' = refs + 1
    /\ ferr' = (ferr /\ refs > 0)
    /\ truth' = IF refs = 0 THEN content ELSE truth
    /\ Goto(t, "idle")
    /\ UNCHANGED <<slices, cpc, leaving, content, writes>>

-----------------------------------------------------------------------------
totalSlices == Cardinality(UNION {{c} \X (1..Len(slices[c])) : c \in Indexes})

(***************************************************************************)
(* Write: the number of slices is checked first, without holding on to the *)
(* lock; then it waits until no flush is waiting.                          *)
(***************************************************************************)
WriteCheck(t) ==
    /\ At(t, "idle")
    /\ writes + Cardinality({u \in Threads : At(u, "write")}) < MaxWrites
    /\ totalSlices < MaxSlices
    /\ Goto(t, "write")
    /\ UNCHANGED <<file, history>>

End(s) == s.off + Len(s.data)

(* Bytes pos..(pos + size - 1) can be added to s: it has none after pos, or in its last block. *)
Fits(s, pos) ==
    /\ ~s.frozen
    /\ pos >= s.off + (Len(s.data) \div BlockSize) * BlockSize
    /\ pos <= End(s)

Overlaps(s, pos, size) == pos < End(s) /\ s.off < pos + size

(* Mutant: newer slices are not looked at for older data they would hide. *)
LastHit_FitsOnly(ss, pos, size) ==
    LET hits == {i \in 1..Len(ss) : Fits(ss[i], pos)}
    IN  IF hits = {} THEN 0 ELSE CHOOSE i \in hits : \A j \in hits : j <= i

(* findWritableSlice looks from the newest slice back, to the first that fits or overlaps. *)
LastHit(ss, pos, size) ==
    LET hits == {i \in 1..Len(ss) : Fits(ss[i], pos) \/ Overlaps(ss[i], pos, size)}
    IN  IF hits = {} THEN 0 ELSE CHOOSE i \in hits : \A j \in hits : j <= i

findWritableSlice(ss, pos, size) ==
    LET i == LastHit(ss, pos, size) IN IF i # 0 /\ Fits(ss[i], pos) THEN i ELSE 0

(* Those it has looked at that are further back than Lookback are frozen. *)
Looked(ss, pos, size) ==
    [i \in 1..Len(ss) |->
        [ss[i] EXCEPT !.frozen = \/ @
                                 \/ /\ i >= LastHit(ss, pos, size)
                                    /\ i # findWritableSlice(ss, pos, size)
                                    /\ Len(ss) - i > Lookback]]

(* The bytes of s with those of write n at pos; a slice that fills its chunk is frozen. *)
Written(s, pos, size, n) ==
    LET from == pos - s.off
        len  == IF from + size > Len(s.data) THEN from + size ELSE Len(s.data)
    IN  [s EXCEPT !.data = [k \in 1..len |-> IF k \in (from + 1)..(from + size) THEN n ELSE @[k]],
                  !.frozen = (len = ChunkSize)]

NewSlice(pos) ==
    [off |-> pos, data |-> <<>>, frozen |-> FALSE, done |-> FALSE]

writeChunk(ss, pos, size, n) ==
    LET i == findWritableSlice(ss, pos, size)
        looked == Looked(ss, pos, size)
    IN  IF i = 0 THEN Append(looked, Written(NewSlice(pos), pos, size, n))
        ELSE [looked EXCEPT ![i] = Written(ss[i], pos, size, n)]

(* Mutant: the last chunk's part is not cut at the chunk's end. *)
Piece_NotCut(c, off, size) ==
    LET first == IF off > c * ChunkSize THEN off ELSE c * ChunkSize
        end   == off + size
    IN  [pos  |-> first - c * ChunkSize,
         size |-> IF first < (c + 1) * ChunkSize /\ end > first THEN end - first ELSE 0]

(* The part of the bytes off..(off + size - 1) in chunk c: its first offset and its size. *)
Piece(c, off, size) ==
    LET first == IF off > c * ChunkSize THEN off ELSE c * ChunkSize
        end   == IF off + size < (c + 1) * ChunkSize THEN off + size ELSE (c + 1) * ChunkSize
    IN  [pos |-> first - c * ChunkSize, size |-> IF end > first THEN end - first ELSE 0]

(* A commit thread has a reference to the fileWriter. *)
RefsTaken(new) == Cardinality(new)

(* A chunk's first slice starts its commit thread. *)
Write(t, off, size) ==
    /\ At(t, "write")
    /\ Flushing = {}
    /\ LET n    == writes + 1
           P(c) == Piece(c, off, size)
           hit  == {c \in Indexes : P(c).size > 0}
           new  == hit \ Pending
       IN  /\ slices' = [c \in Indexes |->
                 IF c \in hit THEN writeChunk(slices[c], P(c).pos, P(c).size, n) ELSE slices[c]]
           /\ cpc' = [c \in Indexes |-> IF c \in new THEN "wait" ELSE cpc[c]]
           /\ refs' = refs + RefsTaken(new)
           /\ truth' = [c \in Indexes |-> [p \in Offsets |->
                 IF p \in P(c).pos..(P(c).pos + P(c).size - 1) /\ c \in hit /\ ~ferr THEN n
                 ELSE truth[c][p]]]
           /\ writes' = n
    /\ Goto(t, "idle")
    /\ UNCHANGED <<leaving, content, ferr>>

WriteInterrupted(t) ==
    /\ "cancel" \in Faults
    /\ At(t, "write")
    /\ Flushing # {}
    /\ Goto(t, "idle")
    /\ UNCHANGED <<file, history>>

-----------------------------------------------------------------------------
(***************************************************************************)
(* Flush, and Close, which flushes: every slice is frozen; the flush waits *)
(* until all chunks are committed, if there are any, or gives up.          *)
(***************************************************************************)
After(how) == IF how = "close" THEN "free" ELSE "idle"

(* Mutant: the newest slice, which may still grow, is left open. *)
Frozen_ButNewest(ss) == [i \in 1..Len(ss) |-> [ss[i] EXCEPT !.frozen = @ \/ i < Len(ss)]]

Frozen(ss) == [i \in 1..Len(ss) |-> [ss[i] EXCEPT !.frozen = TRUE]]

FlushBegin(t, how) ==
    /\ At(t, "idle")
    /\ slices' = [c \in Indexes |-> Frozen(slices[c])]
    /\ Goto(t, IF Pending = {} THEN After(how) ELSE how)
    /\ UNCHANGED <<cpc, leaving, content, ferr, refs, history>>

FlushEnd(t) ==
    /\ t \in Flushing
    /\ Pending = {}
    /\ Goto(t, After(pc[t]))
    /\ UNCHANGED <<file, history>>

FlushTimeout(t) ==
    /\ "timeout" \in Faults
    /\ t \in Flushing
    /\ Pending # {}
    /\ Goto(t, After(pc[t]))
    /\ UNCHANGED <<file, history>>

(* dataWriter.free at the end of Close. *)
CloseFree(t) ==
    /\ At(t, "free")
    /\ refs' = refs - 1
    /\ Goto(t, "closed")
    /\ UNCHANGED <<slices, cpc, leaving, content, ferr, history>>

-----------------------------------------------------------------------------
Update(c, i, s) == slices' = [slices EXCEPT ![c][i] = s]

SliceOnly == UNCHANGED <<cpc, leaving, content, ferr, refs, pc, history>>

(* Mutant: only slices with a whole block are frozen by their age. *)
Freeze_WholeBlocks(c, i) ==
    /\ ~slices[c][i].frozen
    /\ Len(slices[c][i].data) >= BlockSize
    /\ Update(c, i, [slices[c][i] EXCEPT !.frozen = TRUE])
    /\ SliceOnly

(* flushAll and the commit thread freeze slices by their age. *)
Freeze(c, i) ==
    /\ ~slices[c][i].frozen
    /\ Update(c, i, [slices[c][i] EXCEPT !.frozen = TRUE])
    /\ SliceOnly

(***************************************************************************)
(* flushData: prepareID, unless the slice has its id since it began, and   *)
(* Finish, in a goroutine of each slice; s.err is left to CommitWrite, the *)
(* only one that reads it.                                                 *)
(***************************************************************************)
flushData(c, i) ==
    /\ slices[c][i].frozen /\ ~slices[c][i].done
    /\ Update(c, i, [slices[c][i] EXCEPT !.done = TRUE])
    /\ SliceOnly

Covers(s, p) == s.off <= p /\ p < End(s)

Overlay(bytes, s) == [p \in Offsets |-> IF Covers(s, p) THEN s.data[p - s.off + 1] ELSE bytes[p]]

(***************************************************************************)
(* commitThread: the oldest slice, once done without an error, is written  *)
(* to the metadata (without the lock); it is taken from the list, and an   *)
(* error of either stays in f.err.                                         *)
(***************************************************************************)
CommitWrite(c) ==
    /\ cpc[c] = "wait"
    /\ slices[c][1].done
    /\ LET committed == [content EXCEPT ![c] = Overlay(@, slices[c][1])] IN
       \/ content' = committed /\ cpc' = [cpc EXCEPT ![c] = "pop"]
       \/ /\ "slice" \in Faults
          /\ ~ferr /\ \A d \in Indexes : cpc[d] # "popErr"   \* bound: one failure per fileWriter
          /\ content' \in {content, committed}
          /\ cpc' = [cpc EXCEPT ![c] = "popErr"]
    /\ UNCHANGED <<slices, leaving, ferr, refs, pc, history>>

(* Mutant: a slice that failed is tried again, after the others. *)
CommitPop_Requeues(c) ==
    /\ cpc[c] \in {"pop", "popErr"}
    /\ ferr' = (ferr \/ cpc[c] = "popErr")
    /\ slices' = [slices EXCEPT ![c] =
          IF cpc[c] = "popErr" /\ Len(@) > 1 THEN Append(Tail(@), Head(@)) ELSE Tail(@)]
    /\ cpc' = [cpc EXCEPT ![c] = IF slices'[c] = <<>> THEN "none" ELSE "wait"]
    /\ leaving' = IF slices'[c] = <<>> THEN leaving + 1 ELSE leaving
    /\ truth' = IF ferr' THEN Zeros ELSE truth
    /\ UNCHANGED <<content, refs, pc, writes>>

CommitPop(c) ==
    /\ cpc[c] \in {"pop", "popErr"}
    /\ ferr' = (ferr \/ cpc[c] = "popErr")
    /\ slices' = [slices EXCEPT ![c] = Tail(@)]
    /\ cpc' = [cpc EXCEPT ![c] = IF Len(slices[c]) = 1 THEN "none" ELSE "wait"]
    /\ leaving' = IF Len(slices[c]) = 1 THEN leaving + 1 ELSE leaving
    /\ truth' = IF ferr' THEN Zeros ELSE truth
    /\ UNCHANGED <<content, refs, pc, writes>>

(* The commit thread's deferred free. *)
CommitFree ==
    /\ leaving > 0
    /\ leaving' = leaving - 1
    /\ refs' = refs - 1
    /\ UNCHANGED <<slices, cpc, content, ferr, pc, history>>

SliceStep(c, i) == Freeze(c, i) \/ flushData(c, i)

Background ==
    \/ \E c \in Indexes : CommitWrite(c) \/ CommitPop(c)
    \/ \E c \in Indexes : \E i \in 1..Len(slices[c]) : SliceStep(c, i)
    \/ CommitFree

Next ==
    \/ \E t \in Threads : Open(t) \/ WriteCheck(t) \/ WriteInterrupted(t)
    \/ \E t \in Threads, r \in Ranges : Write(t, r[1], r[2])
    \/ \E t \in Threads, how \in {"flush", "close"} : FlushBegin(t, how)
    \/ \E t \in Threads : FlushEnd(t) \/ FlushTimeout(t) \/ CloseFree(t)
    \/ Background

Spec == Init /\ [][Next]_vars

(***************************************************************************)
(* The writer's own goroutines run, and every call to the object store and *)
(* to the metadata returns; slices are frozen by their age.                *)
(***************************************************************************)
FairSpec == Spec /\ WF_vars(Background)

-----------------------------------------------------------------------------
(* The byte a reader would find once all pending slices are committed. *)
Eventual(c, p) ==
    LET covering == {i \in 1..Len(slices[c]) : Covers(slices[c][i], p)}
        i == CHOOSE i \in covering : \A j \in covering : j <= i
    IN  IF covering = {} THEN content[c][p]
        ELSE slices[c][i].data[p - slices[c][i].off + 1]

(***************************************************************************)
(* The last write wins: wherever writes were collected, in however many    *)
(* slices, what the metadata holds and will hold after the pending commits *)
(* is what was written, in the order of the writes, until an error is      *)
(* recorded in f.err, which fails every later Write, Flush and Close.  So  *)
(* what a successful flush, which waits for the pending slices, reports is *)
(* in the metadata.                                                        *)
(***************************************************************************)
LastWriteWins ==
    ~ferr /\ (\A c \in Indexes : cpc[c] # "popErr") =>
        \A c \in Indexes, p \in Offsets : Eventual(c, p) = truth[c][p]

(* The fileWriter stays in w.files while it has slices. *)
WriterKept == Pending # {} => refs > 0

(* What a flush waits for is being uploaded, and committed by a thread. *)
FlushWaitsForUploads ==
    /\ \A c \in Pending : cpc[c] # "none"
    /\ Flushing # {} => \A c \in Indexes : \A i \in 1..Len(slices[c]) : slices[c][i].frozen

(***************************************************************************)
(* No slice is left to itself.  The fileWriter stays in w.files while it   *)
(* has slices: a handle opened meanwhile, after a flush that gave up too,  *)
(* writes through the same one.  Every chunk with slices has a commit      *)
(* thread, and while a flush waits every slice is frozen, that is, being   *)
(* uploaded: writes wait for the flushes, so that other handles add        *)
(* nothing to what a flush waits for, and it need not be told of new ones. *)
(***************************************************************************)
SlicesAttended == WriterKept /\ FlushWaitsForUploads

(* No commit puts an older write over a newer one. *)
CommitsInOrder ==
    [][\A c \in Indexes, p \in Offsets : content'[c][p] >= content[c][p]]_content

(***************************************************************************)
(* Slices do not stay behind: with or without a flush, every write reaches *)
(* the metadata, or an error, and every commit thread ends, so that a      *)
(* flush that waits for them has nothing left to wait for.                 *)
(***************************************************************************)
Drains == []<>(Pending = {} /\ leaving = 0)

==============================================================================
