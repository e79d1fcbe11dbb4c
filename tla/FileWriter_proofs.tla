--------------------------- MODULE FileWriter_proofs ---------------------------
(***************************************************************************)
(* Proofs about FileWriter, for any handles, sizes, ranges and faults.     *)
(***************************************************************************)
EXTENDS FileWriter, FiniteSetTheorems, SequenceTheorems, WellFoundedInduction, TLAPS

-----------------------------------------------------------------------------
(***************************************************************************)
(* The slices of a chunk.  A good one has data, and ends in its chunk; a   *)
(* slice that is done is frozen.                                           *)
(***************************************************************************)
Good(s) ==
    /\ s \in Slice /\ s.data # <<>> /\ End(s) <= ChunkSize
    /\ s.done => s.frozen

GoodSeq(ss) == ss \in Seq(Slice) /\ \A i \in 1..Len(ss) : Good(ss[i])

(* The byte of a slice at an offset it covers. *)
Byte(s, p) == s.data[p - s.off + 1]

(* r is s, frozen or uploaded perhaps. *)
Kin(s, r) ==
    /\ r \in Slice /\ r.off = s.off /\ r.data = s.data
    /\ s.done => r.done
    /\ r.done => r.frozen

(* A set of indexes that is not empty has a largest one: some set of those above an    *)
(* index is minimal, by the well-foundedness of strict inclusion among finite sets.    *)
LEMMA Largest ==
  ASSUME NEW n \in Nat, NEW H, H \subseteq 1..n, H # {}
  PROVE  \E i \in H : \A j \in H : j <= i
  <1> DEFINE Above(i) == {j \in H : i < j}
             T == {Above(i) : i \in H}
             R == StrictSubsetOrdering(1..n)
  <1>1. IsFiniteSet(1..n)
    BY FS_Interval
  <1>2. IsWellFoundedOn(R, SUBSET (1..n))
    BY <1>1, FS_StrictSubsetOrderingWellFounded, FS_FiniteSubsetsOfFinite
  <1>3. T \subseteq SUBSET (1..n) /\ T # {}
    OBVIOUS
  <1>4. PICK x \in T : \A y \in T : ~(<<y, x>> \in R)
    <2> HIDE DEF T, R
    <2> QED
      BY <1>2, <1>3, WFMin
  <1>5. PICK i \in H : x = Above(i)
    OBVIOUS
  <1>6. ASSUME NEW j \in H, i < j PROVE FALSE
    <2>0. H \subseteq Int /\ i \in Int /\ j \in Int
      OBVIOUS
    <2>a. \A k \in H : j < k => i < k
      BY <2>0, <1>6
    <2>1. Above(j) \subseteq Above(i) /\ j \in Above(i) /\ j \notin Above(j)
      <3>1. \A k : k \in Above(j) => k \in Above(i)
        BY <2>a
      <3>2. ~(j < j)
        BY <2>0
      <3>3. j \in Above(i) /\ j \notin Above(j)
        BY <1>6, <3>2
      <3> QED
        BY <3>1, <3>3
    <2>2. Above(j) \in SUBSET (1..n) /\ Above(i) \in SUBSET (1..n) /\ Above(j) \in T
      OBVIOUS
    <2>3. <<Above(j), Above(i)>> \in R
      <3>1. Above(j) # Above(i)
        BY <2>1
      <3> HIDE DEF Above
      <3> QED
        BY <2>1, <2>2, <3>1 DEF StrictSubsetOrdering
    <2> QED
      BY <1>4, <1>5, <2>2, <2>3
  <1>7. \A j \in H : j <= i
    BY <1>6
  <1> QED
    BY <1>7

(* A function on 1..n is a sequence. *)
LEMMA FcnIsSeq ==
  ASSUME NEW n \in Nat, NEW S, NEW f \in [1..n -> S]
  PROVE  f \in Seq(S) /\ Len(f) = n
  <1>1. f = [i \in 1..n |-> f[i]] /\ \A i \in 1..n : f[i] \in S
    OBVIOUS
  <1>2. [i \in 1..n |-> f[i]] \in Seq(S)
    BY <1>1
  <1>3. f \in Seq(S)
    BY <1>1, <1>2
  <1> QED
    BY <1>3

(* The numbers of a slice. *)
LEMMA SliceNumbers ==
  ASSUME NEW s \in Slice
  PROVE  /\ s.off \in Nat /\ s.off < ChunkSize /\ Len(s.data) \in Nat /\ End(s) \in Nat
         /\ s.data \in [1..Len(s.data) -> 1..MaxWrites]
         /\ s.frozen \in BOOLEAN /\ s.done \in BOOLEAN
         /\ s.data # <<>> <=> Len(s.data) > 0
  <1>1. s.off \in Offsets /\ s.data \in Seq(1..MaxWrites) /\ s.frozen \in BOOLEAN /\ s.done \in BOOLEAN
    BY DEF Slice
  <1>2. s.off \in Nat /\ s.off < ChunkSize
    BY <1>1, SizeAssumption DEF Offsets
  <1>3. Len(s.data) \in Nat /\ s.data \in [1..Len(s.data) -> 1..MaxWrites]
    BY <1>1, LenProperties
  <1>4. s.data # <<>> <=> Len(s.data) > 0
    BY <1>1, EmptySeq
  <1> QED
    BY <1>1, <1>2, <1>3, <1>4 DEF End

(* The slice findWritableSlice stops at is the newest that fits or overlaps. *)
LEMMA LastHitFacts ==
  ASSUME NEW ss \in Seq(Slice), NEW pos, NEW size
  PROVE  /\ LastHit(ss, pos, size) \in 0..Len(ss)
         /\ \A j \in 1..Len(ss) : j > LastHit(ss, pos, size) =>
                ~Fits(ss[j], pos) /\ ~Overlaps(ss[j], pos, size)
  <1> DEFINE hits == {i \in 1..Len(ss) : Fits(ss[i], pos) \/ Overlaps(ss[i], pos, size)}
  <1>1. Len(ss) \in Nat
    OBVIOUS
  <1>2. CASE hits = {}
    <2>1. LastHit(ss, pos, size) = 0
      BY <1>2 DEF LastHit
    <2> QED
      BY <1>1, <1>2, <2>1
  <1>3. CASE hits # {}
    <2>1. \E i \in hits : \A j \in hits : j <= i
      BY <1>1, <1>3, Largest
    <2> DEFINE i == LastHit(ss, pos, size)
    <2>2. i \in hits /\ \A j \in hits : j <= i
      BY <1>3, <2>1 DEF LastHit
    <2>3. \A j \in 1..Len(ss) : j > i => j \notin hits
      <3> HIDE DEF i
      <3> QED
        BY <1>1, <2>2
    <2> QED
      BY <2>2, <2>3
  <1> QED
    BY <1>2, <1>3

(***************************************************************************)
(* Writing to a slice, from a position it covers or ends at: what it       *)
(* covered is kept, the bytes of the write are the write's.                *)
(***************************************************************************)
LEMMA WrittenFacts ==
  ASSUME NEW s \in Slice, NEW pos \in Offsets, NEW size \in Nat \ {0}, NEW n \in 1..MaxWrites,
         ~s.done, s.off <= pos, pos <= End(s), End(s) <= ChunkSize, pos + size <= ChunkSize
  PROVE  /\ Good(Written(s, pos, size, n))
         /\ ~Written(s, pos, size, n).done
         /\ \A p \in Offsets :
               /\ p \in pos..(pos + size - 1) =>
                    Covers(Written(s, pos, size, n), p) /\ Byte(Written(s, pos, size, n), p) = n
               /\ p \notin pos..(pos + size - 1) =>
                    /\ Covers(Written(s, pos, size, n), p) <=> Covers(s, p)
                    /\ Covers(s, p) => Byte(Written(s, pos, size, n), p) = Byte(s, p)
  <1> DEFINE from == pos - s.off
             old  == Len(s.data)
             len  == IF from + size > old THEN from + size ELSE old
             data == [k \in 1..len |-> IF k \in (from + 1)..(from + size) THEN n ELSE s.data[k]]
             w    == Written(s, pos, size, n)
             In(p) == p \in pos..(pos + size - 1)
  <1>1. /\ s.off \in Nat /\ old \in Nat /\ End(s) = s.off + old /\ ChunkSize \in Nat
        /\ s.data \in [1..old -> 1..MaxWrites] /\ pos \in Nat /\ MaxWrites \in Nat
        /\ size \in Nat /\ size > 0
    BY SliceNumbers, SizeAssumption, BoundsAssumption DEF End, Offsets
  <1>2. /\ from \in Nat /\ len \in Nat /\ len > 0 /\ s.off + len <= ChunkSize
        /\ \A k \in 1..len : k \notin (from + 1)..(from + size) => k \in 1..old
        /\ \A p \in Nat :
              /\ In(p) =>
                    /\ s.off <= p /\ p < s.off + len
                    /\ p - s.off + 1 \in 1..len /\ p - s.off + 1 \in (from + 1)..(from + size)
              /\ ~In(p) =>
                    /\ (s.off <= p /\ p < s.off + len) <=> (s.off <= p /\ p < s.off + old)
                    /\ s.off <= p /\ p < s.off + old =>
                          /\ p - s.off + 1 \in 1..len
                          /\ p - s.off + 1 \notin (from + 1)..(from + size)
    <2>1. s.off + old <= ChunkSize /\ pos <= s.off + old
      BY <1>1
    <2>2. from = pos - s.off /\ len = IF from + size > old THEN from + size ELSE old
      OBVIOUS
    <2> DEFINE o == s.off
    <2>3. /\ o \in Nat /\ old \in Nat /\ pos \in Nat /\ size \in Nat /\ ChunkSize \in Nat /\ size > 0
          /\ o <= pos /\ pos <= o + old /\ o + old <= ChunkSize /\ pos + size <= ChunkSize
          /\ from = pos - o
      BY <1>1, <2>1
    <2> HIDE DEF old, from, len, o
    <2>4. /\ from \in Nat /\ len \in Nat /\ len > 0 /\ o + len <= ChunkSize
          /\ \A k \in 1..len : k \notin (from + 1)..(from + size) => k \in 1..old
          /\ \A p \in Nat :
              /\ In(p) =>
                    /\ o <= p /\ p < o + len
                    /\ p - o + 1 \in 1..len /\ p - o + 1 \in (from + 1)..(from + size)
              /\ ~In(p) =>
                    /\ (o <= p /\ p < o + len) <=> (o <= p /\ p < o + old)
                    /\ o <= p /\ p < o + old =>
                          p - o + 1 \in 1..len /\ p - o + 1 \notin (from + 1)..(from + size)
      BY <2>2, <2>3
    <2> QED
      BY <2>4, Zenon DEF o
  <1>3. w = [s EXCEPT !.data = data, !.frozen = (len = ChunkSize)]
    BY DEF Written
  <1>4. data \in [1..len -> 1..MaxWrites]
    <2> HIDE DEF from, old, len
    <2> QED
      BY <1>1, <1>2 DEF data
  <1>5. data \in Seq(1..MaxWrites) /\ Len(data) = len /\ data # <<>>
    <2>1. len \in Nat /\ len > 0
      BY <1>2
    <2> HIDE DEF data, len, from
    <2>2. data \in Seq(1..MaxWrites) /\ Len(data) = len
      BY <2>1, <1>4, FcnIsSeq
    <2> QED
      BY <2>1, <2>2, EmptySeq
  <1>6. /\ w \in Slice /\ w.off = s.off /\ w.data = data /\ ~w.done
    <2> HIDE DEF data, len, from, w
    <2> QED
      BY <1>3, <1>5 DEF Slice
  <1>7. End(w) = s.off + len
    BY <1>5, <1>6 DEF End
  <1>8. Good(w)
    BY <1>2, <1>5, <1>6, <1>7 DEF Good
  <1>9. ASSUME NEW p \in Offsets
        PROVE  /\ In(p) => Covers(w, p) /\ Byte(w, p) = n
               /\ ~In(p) =>
                    /\ Covers(w, p) <=> Covers(s, p)
                    /\ Covers(s, p) => Byte(w, p) = Byte(s, p)
    <2> DEFINE k == p - s.off + 1
    <2>1. p \in Nat
      BY SizeAssumption DEF Offsets
    <2>2. Covers(w, p) <=> (s.off <= p /\ p < s.off + len)
      BY <1>6, <1>7 DEF Covers
    <2>3. Covers(s, p) <=> (s.off <= p /\ p < s.off + old)
      BY <1>1 DEF Covers
    <2>4. Byte(w, p) = data[k] /\ Byte(s, p) = s.data[k]
      BY <1>6 DEF Byte
    <2>5. /\ In(p) => s.off <= p /\ p < s.off + len /\ k \in 1..len /\ k \in (from + 1)..(from + size)
          /\ ~In(p) =>
               /\ (s.off <= p /\ p < s.off + len) <=> (s.off <= p /\ p < s.off + old)
               /\ s.off <= p /\ p < s.off + old => k \in 1..len /\ k \notin (from + 1)..(from + size)
      <3> HIDE DEF from, len, old, In
      <3> QED
        BY <1>2, <2>1
    <2>7. k \in 1..len => data[k] = IF k \in (from + 1)..(from + size) THEN n ELSE s.data[k]
      BY DEF data
    <2> HIDE DEF data, k, w, len, from, old, In
    <2> QED
      BY <2>2, <2>3, <2>4, <2>5, <2>7
  <1> QED
    BY <1>6, <1>8, <1>9

(* Slices that are frozen or uploaded cover what they covered, with the same bytes. *)
LEMMA KinFacts ==
  ASSUME NEW s, NEW r, Kin(s, r)
  PROVE  /\ Good(s) => Good(r)
         /\ End(r) = End(s)
         /\ \A p : (Covers(r, p) <=> Covers(s, p)) /\ Byte(r, p) = Byte(s, p)
  BY DEF Kin, Good, End, Covers, Byte

KinSeq(ss, rr) ==
    rr \in Seq(Slice) /\ Len(rr) = Len(ss) /\ \A i \in 1..Len(ss) : Kin(ss[i], rr[i])

(* findWritableSlice freezes slices, no more. *)
LEMMA LookedFacts ==
  ASSUME NEW ss, GoodSeq(ss), NEW pos, NEW size
  PROVE  KinSeq(ss, Looked(ss, pos, size))
  <1> DEFINE Old(i) == i >= LastHit(ss, pos, size) /\ i # findWritableSlice(ss, pos, size)
                         /\ Len(ss) - i > Lookback
             e(i) == [ss[i] EXCEPT !.frozen = @ \/ Old(i)]
             rr == [i \in 1..Len(ss) |-> e(i)]
  <1>1. Looked(ss, pos, size) = rr
    BY DEF Looked
  <1>2. ASSUME NEW i \in 1..Len(ss) PROVE e(i) \in Slice /\ Kin(ss[i], e(i))
    <2>1. ss[i] \in Slice /\ (ss[i].done => ss[i].frozen)
      BY DEF GoodSeq, Good
    <2>2. ss[i].frozen \in BOOLEAN /\ ss[i].done \in BOOLEAN
      BY <2>1, SliceNumbers
    <2>3. (ss[i].frozen \/ Old(i)) \in BOOLEAN
      OBVIOUS
    <2> HIDE DEF Old
    <2>4. e(i) \in Slice /\ e(i).off = ss[i].off /\ e(i).data = ss[i].data /\ e(i).done = ss[i].done
          /\ e(i).frozen = (ss[i].frozen \/ Old(i))
      BY <2>1, <2>3 DEF Slice
    <2> QED
      BY <2>1, <2>4 DEF Kin
  <1> HIDE DEF e
  <1>3. rr \in [1..Len(ss) -> Slice] /\ Len(ss) \in Nat
    BY <1>2 DEF GoodSeq
  <1>4. rr \in Seq(Slice) /\ Len(rr) = Len(ss)
    BY <1>3, FcnIsSeq
  <1>5. \A i \in 1..Len(ss) : Kin(ss[i], rr[i])
    BY <1>2
  <1> QED
    BY <1>1, <1>4, <1>5 DEF KinSeq

(***************************************************************************)
(* What a write does to the slices of a chunk: slice i, an old one that is *)
(* not done or a new one behind the others, gets the bytes of the write,   *)
(* no later one covers any of them; all else is as it was.                 *)
(***************************************************************************)
Put(ss, rr, i, pos, size, n) ==
    /\ GoodSeq(rr)
    /\ Len(rr) \in {Len(ss), Len(ss) + 1}
    /\ i \in 1..Len(rr)
    /\ i <= Len(ss) => ~ss[i].done
    /\ ~rr[i].done
    /\ \A j \in 1..Len(rr) : j # i => j <= Len(ss) /\ Kin(ss[j], rr[j])
    /\ \A p \in Offsets :
          /\ p \in pos..(pos + size - 1) =>
                /\ Covers(rr[i], p) /\ Byte(rr[i], p) = n
                /\ \A j \in 1..Len(rr) : j > i => ~Covers(rr[j], p)
          /\ p \notin pos..(pos + size - 1) =>
                /\ Covers(rr[i], p) <=> i <= Len(ss) /\ Covers(ss[i], p)
                /\ Covers(rr[i], p) => Byte(rr[i], p) = Byte(ss[i], p)

(* A write for which findWritableSlice finds no slice. *)
LEMMA PutNew ==
  ASSUME NEW ss, GoodSeq(ss), NEW pos \in Offsets, NEW size \in Nat \ {0}, NEW n \in 1..MaxWrites,
         pos + size <= ChunkSize, findWritableSlice(ss, pos, size) = 0
  PROVE  Put(ss, writeChunk(ss, pos, size, n), Len(ss) + 1, pos, size, n)
  <1> DEFINE lk == Looked(ss, pos, size)
             s == NewSlice(pos)
             w == Written(s, pos, size, n)
             rr == Append(lk, w)
             m == Len(ss) + 1
  <1>1. writeChunk(ss, pos, size, n) = rr
    BY DEF writeChunk
  <1>2. KinSeq(ss, lk) /\ Len(ss) \in Nat
    BY LookedFacts DEF GoodSeq
  <1>3. /\ s \in Slice /\ ~s.done /\ s.off = pos /\ Len(s.data) = 0 /\ End(s) = pos
        /\ pos <= pos /\ pos <= ChunkSize
    BY SizeAssumption DEF NewSlice, Slice, End, Offsets
  <1>4. /\ Good(w) /\ ~w.done
        /\ \A p \in Offsets :
              /\ p \in pos..(pos + size - 1) => Covers(w, p) /\ Byte(w, p) = n
              /\ p \notin pos..(pos + size - 1) => ~Covers(w, p)
    <2>1. \A p \in Offsets : ~Covers(s, p)
      BY <1>3, SizeAssumption DEF Covers, Offsets
    <2> HIDE DEF s
    <2> QED
      BY <1>3, <2>1, WrittenFacts
  <1> HIDE DEF w, lk
  <1>5. lk \in Seq(Slice) /\ w \in Slice /\ Len(lk) = Len(ss)
    BY <1>2, <1>4 DEF KinSeq, Good
  <1>6. /\ rr \in Seq(Slice) /\ Len(rr) = m /\ rr[m] = w
        /\ \A j \in 1..Len(ss) : rr[j] = lk[j]
    BY <1>5
  <1> HIDE DEF rr
  <1>7. \A j \in 1..m : j # m => j \in 1..Len(ss) /\ j <= Len(ss)
    BY <1>2
  <1>8. \A j \in 1..Len(ss) : Kin(ss[j], rr[j]) /\ Good(rr[j])
    BY <1>2, <1>6, KinFacts DEF KinSeq, GoodSeq
  <1>9. GoodSeq(rr)
    BY <1>4, <1>6, <1>7, <1>8 DEF GoodSeq
  <1>10. m \in 1..m /\ ~(m <= Len(ss)) /\ \A j \in 1..m : ~(j > m)
    BY <1>2
  <1> HIDE DEF m
  <1>11. Len(rr) \in {Len(ss), Len(ss) + 1}
    BY <1>6 DEF m
  <1>12. Put(ss, rr, m, pos, size, n)
    BY <1>4, <1>6, <1>7, <1>8, <1>9, <1>10, <1>11, Zenon DEF Put
  <1> QED
    BY <1>1, <1>12 DEF m

(* A write into the slice that findWritableSlice finds. *)
LEMMA PutOld ==
  ASSUME NEW ss, GoodSeq(ss), NEW pos \in Offsets, NEW size \in Nat \ {0}, NEW n \in 1..MaxWrites,
         pos + size <= ChunkSize, NEW i, i = findWritableSlice(ss, pos, size), i # 0
  PROVE  Put(ss, writeChunk(ss, pos, size, n), i, pos, size, n)
  <1> DEFINE lk == Looked(ss, pos, size)
             w == Written(ss[i], pos, size, n)
             rr == [lk EXCEPT ![i] = w]
  <1>1. writeChunk(ss, pos, size, n) = rr
    BY DEF writeChunk
  <1>2. KinSeq(ss, lk) /\ Len(ss) \in Nat /\ ss \in Seq(Slice)
    BY LookedFacts DEF GoodSeq
  <1>3. /\ i \in 1..Len(ss) /\ Fits(ss[i], pos)
        /\ \A j \in 1..Len(ss) : j > i => ~Overlaps(ss[j], pos, size)
    <2>1. i = LastHit(ss, pos, size) /\ Fits(ss[i], pos)
      BY DEF findWritableSlice
    <2>2. i \in 0..Len(ss) /\ \A j \in 1..Len(ss) : j > i => ~Overlaps(ss[j], pos, size)
      BY <1>2, <2>1, LastHitFacts
    <2> QED
      BY <1>2, <2>1, <2>2
  <1>4. Good(ss[i]) /\ ss[i] \in Slice /\ ~ss[i].done /\ End(ss[i]) <= ChunkSize /\ pos <= End(ss[i])
    BY <1>3 DEF GoodSeq, Good, Fits
  <1>5. ss[i].off <= pos
    <2> DEFINE d == Len(ss[i].data)
               o == ss[i].off
    <2>1. o \in Nat /\ d \in Nat /\ pos \in Nat /\ BlockSize \in Nat \ {0}
      BY <1>4, SliceNumbers, SizeAssumption DEF Offsets
    <2>2. pos >= o + (d \div BlockSize) * BlockSize
      BY <1>3 DEF Fits
    <2> HIDE DEF d, o
    <2>3. (d \div BlockSize) \in Nat
      BY <2>1
    <2>4. (d \div BlockSize) * BlockSize \in Nat
      BY <2>1, <2>3
    <2>5. o <= pos
      BY <2>1, <2>2, <2>4
    <2> QED
      BY <2>5 DEF o
  <1>6. /\ Good(w) /\ ~w.done
        /\ \A p \in Offsets :
              /\ p \in pos..(pos + size - 1) => Covers(w, p) /\ Byte(w, p) = n
              /\ p \notin pos..(pos + size - 1) =>
                    /\ Covers(w, p) <=> Covers(ss[i], p)
                    /\ Covers(ss[i], p) => Byte(w, p) = Byte(ss[i], p)
    BY <1>4, <1>5, WrittenFacts
  <1> HIDE DEF w, lk
  <1>7. lk \in Seq(Slice) /\ w \in Slice /\ Len(lk) = Len(ss)
    BY <1>2, <1>6 DEF KinSeq, Good
  <1>8. /\ rr \in Seq(Slice) /\ Len(rr) = Len(ss) /\ rr[i] = w
        /\ \A j \in 1..Len(ss) : j # i => rr[j] = lk[j]
    BY <1>3, <1>7, ExceptSeq
  <1> HIDE DEF rr
  <1>9. \A j \in 1..Len(ss) : j # i => Kin(ss[j], rr[j]) /\ Good(rr[j])
    BY <1>2, <1>8, KinFacts DEF KinSeq, GoodSeq
  <1>10. GoodSeq(rr)
    BY <1>6, <1>8, <1>9 DEF GoodSeq
  <1>11. ASSUME NEW p \in Offsets, p \in pos..(pos + size - 1), NEW j \in 1..Len(ss), j > i, Covers(rr[j], p)
         PROVE  FALSE
    <2>1. j # i
      BY <1>3, <1>11
    <2>2. Covers(ss[j], p) /\ ss[j] \in Slice
      BY <1>9, <1>11, <2>1, KinFacts DEF GoodSeq, Good
    <2> DEFINE e == End(ss[j])
               o == ss[j].off
    <2>3. o \in Nat /\ e \in Nat /\ o <= p /\ p < e
      BY <2>2, SliceNumbers DEF Covers
    <2>4. ~(pos < e /\ o < pos + size)
      BY <1>3, <1>11 DEF Overlaps
    <2>5. pos \in Nat /\ p \in Nat /\ size \in Nat /\ pos <= p /\ p < pos + size
      BY <1>11, SizeAssumption DEF Offsets
    <2> HIDE DEF e, o
    <2> QED
      BY <2>3, <2>4, <2>5
  <1>12. \A j \in 1..Len(rr) : j <= Len(ss)
    BY <1>2, <1>8
  <1>13. Len(rr) \in {Len(ss), Len(ss) + 1} /\ i <= Len(ss)
    BY <1>2, <1>3, <1>8
  <1>14. Put(ss, rr, i, pos, size, n)
    BY <1>3, <1>4, <1>6, <1>8, <1>9, <1>10, <1>11, <1>12, <1>13, Zenon DEF Put
  <1> QED
    BY <1>1, <1>14

(* The part of a write in a chunk lies in the chunk. *)
LEMMA PieceFacts ==
  ASSUME NEW c \in Indexes, NEW r \in Ranges, Piece(c, r[1], r[2]).size > 0
  PROVE  /\ Piece(c, r[1], r[2]).pos \in Offsets
         /\ Piece(c, r[1], r[2]).size \in Nat \ {0}
         /\ Piece(c, r[1], r[2]).pos + Piece(c, r[1], r[2]).size <= ChunkSize
  <1> DEFINE off == r[1]
             size == r[2]
             m == c * ChunkSize
             e == (c + 1) * ChunkSize
             first == IF off > m THEN off ELSE m
             end == IF off + size < e THEN off + size ELSE e
             z == IF end > first THEN end - first ELSE 0
             P == Piece(c, r[1], r[2])
  <1>1. c \in Nat /\ ChunkSize \in Nat /\ ChunkSize > 0 /\ off \in Nat /\ size \in Nat
    BY SizeAssumption DEF Indexes
  <1>2. m \in Nat /\ e = m + ChunkSize
    BY <1>1
  <1>3. P.pos = first - m /\ P.size = z
    BY DEF Piece
  <1> HIDE DEF m, e, off, size, P
  <1>4. z > 0 => first - m \in Nat /\ first - m < ChunkSize /\ z \in Nat /\ first - m + z <= ChunkSize
    BY <1>1, <1>2
  <1> HIDE DEF first, z
  <1>5. P.size > 0
    BY DEF P
  <1>6. P.pos \in Nat /\ P.pos < ChunkSize /\ P.size \in Nat /\ P.pos + P.size <= ChunkSize
    BY <1>3, <1>4, <1>5
  <1>7. P.pos \in Offsets
    BY <1>1, <1>6 DEF Offsets
  <1>8. P.size \in Nat \ {0}
    BY <1>5, <1>6
  <1> QED
    BY <1>6, <1>7, <1>8 DEF P

-----------------------------------------------------------------------------
(***************************************************************************)
(* The base invariant.  A chunk has a commit thread as long as it has      *)
(* slices, and the slice the thread takes away is done; a write that       *)
(* passed its check is within the bound; and every handle, every commit    *)
(* thread and every thread about to leave has one reference.               *)
(***************************************************************************)
Writers == {t \in Threads : At(t, "write")}

Handles == {t \in Threads : pc[t] # "closed"}

SlicesType == slices \in [Indexes -> Seq(Slice)] /\ \A c \in Indexes : GoodSeq(slices[c])

CommitType ==
    /\ cpc \in [Indexes -> {"none", "wait", "pop", "popErr"}]
    /\ \A c \in Indexes : /\ cpc[c] = "none" <=> slices[c] = <<>>
                          /\ cpc[c] \in {"pop", "popErr"} => slices[c][1].done

BytesType == content \in Bytes /\ truth \in Bytes /\ ferr \in BOOLEAN

WritesType ==
    /\ pc \in [Threads -> Labels]
    /\ writes \in Nat /\ writes + Cardinality(Writers) <= MaxWrites

RefsType ==
    /\ leaving \in Nat /\ refs \in Nat
    /\ refs = Cardinality(Handles) + Cardinality(Pending) + leaving

Base == SlicesType /\ CommitType /\ BytesType /\ WritesType /\ RefsType

(* The sets that are counted are finite. *)
LEMMA Finite ==
  /\ IsFiniteSet(Indexes) /\ IsFiniteSet(Threads)
  /\ \A T : T \subseteq Threads => IsFiniteSet(T) /\ Cardinality(T) \in Nat
  /\ \A C : C \subseteq Indexes => IsFiniteSet(C) /\ Cardinality(C) \in Nat
  <1>1. IsFiniteSet(Indexes) /\ IsFiniteSet(Threads)
    BY FS_Interval, SizeAssumption, ThreadAssumption DEF Indexes
  <1> QED
    BY <1>1, FS_Subset, FS_CardinalityType

(* The references keep the writer while a chunk has slices. *)
LEMMA PendingReferenced ==
  ASSUME RefsType
  PROVE  /\ Pending # {} => refs > 0
         /\ Handles # {} => refs > 0
         /\ leaving > 0 => refs > 0
  <1>1. Pending \subseteq Indexes /\ Handles \subseteq Threads
    BY DEF Pending, Handles
  <1>2. /\ Cardinality(Pending) \in Nat /\ Cardinality(Handles) \in Nat
        /\ Pending # {} => Cardinality(Pending) > 0
        /\ Handles # {} => Cardinality(Handles) > 0
    <2>1. /\ Cardinality(Pending) \in Nat /\ Cardinality(Handles) \in Nat
          /\ IsFiniteSet(Pending) /\ IsFiniteSet(Handles)
      BY <1>1, Finite
    <2> QED
      BY <2>1, FS_EmptySet
  <1> QED
    BY <1>2 DEF RefsType

(* A write that is about to be made is within the bound. *)
LEMMA WriteInBound ==
  ASSUME WritesType, NEW t \in Threads, At(t, "write")
  PROVE  writes + 1 \in 1..MaxWrites
  <1>1. Writers \subseteq Threads /\ t \in Writers
    BY DEF Writers
  <1>2. Cardinality(Writers) \in Nat /\ Cardinality(Writers) > 0
    <2>1. Cardinality(Writers) \in Nat /\ IsFiniteSet(Writers)
      BY <1>1, Finite
    <2> QED
      BY <1>1, <2>1, FS_EmptySet
  <1> QED
    BY <1>2, BoundsAssumption DEF WritesType

-----------------------------------------------------------------------------
(***************************************************************************)
(* What a step does to a chunk: it leaves it, but for slices it freezes or *)
(* finds uploaded; writes to it; commits its oldest slice, perhaps with an *)
(* error; or takes that slice away.                                        *)
(***************************************************************************)
Same(c) ==
    /\ KinSeq(slices[c], slices'[c])
    /\ cpc'[c] = cpc[c]
    /\ content'[c] = content[c]

Wrote(c, i, pos, size) ==
    /\ Put(slices[c], slices'[c], i, pos, size, writes + 1)
    /\ writes' = writes + 1
    /\ cpc'[c] = IF slices[c] = <<>> THEN "wait" ELSE cpc[c]
    /\ content'[c] = content[c]
    /\ ~ferr' => \A p \in Offsets :
          truth'[c][p] = IF p \in pos..(pos + size - 1) THEN writes + 1 ELSE truth[c][p]

Commits(c) ==
    /\ cpc[c] = "wait"
    /\ slices[c][1].done
    /\ slices'[c] = slices[c]
    /\ \/ cpc'[c] = "pop" /\ content'[c] = Overlay(content[c], slices[c][1])
       \/ cpc'[c] = "popErr" /\ content'[c] \in {content[c], Overlay(content[c], slices[c][1])}

Pops(c) ==
    /\ cpc[c] \in {"pop", "popErr"}
    /\ slices'[c] = Tail(slices[c])
    /\ cpc'[c] = IF Len(slices[c]) = 1 THEN "none" ELSE "wait"
    /\ content'[c] = content[c]
    /\ cpc[c] = "popErr" => ferr'

(* Where nothing is written, the history is kept until an error is recorded. *)
Kept(c) == ~ferr' => truth'[c] = truth[c]

View(c) ==
    \/ Same(c) /\ Kept(c)
    \/ \E i \in Nat, pos \in Offsets, size \in Nat : Wrote(c, i, pos, size)
    \/ Commits(c) /\ Kept(c)
    \/ Pops(c) /\ Kept(c)

(* The first handle on a file that nobody has open begins a new history. *)
Anew == \A c \in Indexes : Same(c) /\ slices[c] = <<>> /\ truth'[c] = content[c]

Shapes == slices' = [c \in Indexes |-> slices'[c]] /\ cpc' = [c \in Indexes |-> cpc'[c]]

Step ==
    /\ Shapes
    /\ writes' \in {writes, writes + 1}
    /\ \/ Anew
       \/ (ferr => ferr') /\ \A c \in Indexes : View(c)

(* A sequence of good slices is its own kin. *)
LEMMA KinSelf ==
  ASSUME NEW ss, GoodSeq(ss)
  PROVE  KinSeq(ss, ss)
  BY DEF GoodSeq, Good, KinSeq, Kin

(* Steps that leave the chunks alone. *)
LEMMA StepSame ==
  ASSUME Base, UNCHANGED <<slices, cpc, content, ferr, writes, truth>>
  PROVE  Step
  <1>1. Shapes
    BY DEF Base, SlicesType, CommitType, Shapes
  <1>2. ASSUME NEW c \in Indexes PROVE Same(c) /\ Kept(c)
    BY KinSelf DEF Base, SlicesType, Same, Kept
  <1> QED
    BY <1>1, <1>2 DEF Step, View

(* Open. *)
LEMMA StepOpen ==
  ASSUME Base, NEW t \in Threads, Open(t)
  PROVE  Step
  <1>1. Shapes
    BY DEF Base, SlicesType, CommitType, Shapes, Open
  <1>2. \A c \in Indexes : Same(c)
    BY KinSelf DEF Base, SlicesType, Same, Open
  <1>3. CASE refs = 0
    <2>1. \A c \in Indexes : slices[c] = <<>> /\ truth'[c] = content[c]
      BY <1>3, PendingReferenced DEF Base, Pending, Open
    <2>2. Anew
      BY <1>2, <2>1 DEF Anew
    <2> QED
      BY <1>1, <2>2 DEF Step, Open
  <1>4. CASE refs # 0
    <2>1. refs > 0
      BY <1>4 DEF Base, RefsType
    <2>2. ferr' = ferr /\ truth' = truth
      BY <1>4, <2>1 DEF Open, Base, BytesType
    <2> QED
      BY <1>1, <1>2, <2>2 DEF Step, Kept, View, Open
  <1> QED
    BY <1>3, <1>4

(* Write. *)
LEMMA StepWrite ==
  ASSUME Base, NEW t \in Threads, NEW r \in Ranges, Write(t, r[1], r[2])
  PROVE  Step
  <1> DEFINE n == writes + 1
             P(c) == Piece(c, r[1], r[2])
             hit == {c \in Indexes : P(c).size > 0}
             In(c, p) == p \in P(c).pos..(P(c).pos + P(c).size - 1)
  <1>1. /\ slices' = [c \in Indexes |->
               IF c \in hit THEN writeChunk(slices[c], P(c).pos, P(c).size, n) ELSE slices[c]]
        /\ cpc' = [c \in Indexes |-> IF c \in hit \ Pending THEN "wait" ELSE cpc[c]]
        /\ truth' = [c \in Indexes |-> [p \in Offsets |->
               IF In(c, p) /\ c \in hit /\ ~ferr THEN n ELSE truth[c][p]]]
        /\ writes' = n /\ content' = content /\ ferr' = ferr
        /\ At(t, "write")
    BY DEF Write
  <1>2. n \in 1..MaxWrites
    BY <1>1, WriteInBound DEF Base
  <1>3. Shapes
    BY <1>1 DEF Shapes
  <1>4. ASSUME NEW c \in Indexes, c \notin hit PROVE Same(c) /\ Kept(c)
    <2>1. slices'[c] = slices[c] /\ cpc'[c] = cpc[c]
      BY <1>1, <1>4
    <2>2. truth'[c] = [p \in Offsets |-> truth[c][p]]
      BY <1>1, <1>4
    <2>3. truth'[c] = truth[c]
      BY <2>2 DEF Base, BytesType, Bytes
    <2> QED
      BY <1>1, <2>1, <2>3, KinSelf DEF Base, SlicesType, Same, Kept
  <1>5. ASSUME NEW c \in hit PROVE \E i \in Nat, pos \in Offsets, size \in Nat : Wrote(c, i, pos, size)
    <2> DEFINE ss == slices[c]
               pos == P(c).pos
               size == P(c).size
               i == findWritableSlice(ss, pos, size)
    <2>1. c \in Indexes /\ size > 0
      OBVIOUS
    <2>2. pos \in Offsets /\ size \in Nat \ {0} /\ pos + size <= ChunkSize
      BY <2>1, PieceFacts
    <2>3. GoodSeq(ss) /\ slices'[c] = writeChunk(ss, pos, size, n)
      BY <1>1, <2>1 DEF Base, SlicesType
    <2>4. cpc'[c] = IF ss = <<>> THEN "wait" ELSE cpc[c]
      BY <1>1, <2>1 DEF Pending
    <2>5. ~ferr' => \A p \in Offsets :
             truth'[c][p] = IF p \in pos..(pos + size - 1) THEN n ELSE truth[c][p]
      BY <1>1, <2>1
    <2> HIDE DEF n, ss, pos, size, P, hit
    <2>6. \E k \in Nat : Put(ss, slices'[c], k, pos, size, n)
      <3>1. CASE i = 0
        <4>1. Put(ss, slices'[c], Len(ss) + 1, pos, size, n)
          BY <1>2, <2>2, <2>3, <3>1, PutNew
        <4>2. Len(ss) + 1 \in Nat
          BY <2>3 DEF GoodSeq
        <4> QED
          BY <4>1, <4>2
      <3>2. CASE i # 0
        <4>1. Put(ss, slices'[c], i, pos, size, n)
          BY <1>2, <2>2, <2>3, <3>2, PutOld
        <4>2. i \in 1..Len(slices'[c]) /\ Len(slices'[c]) \in Nat
          BY <4>1 DEF Put, GoodSeq
        <4>3. i \in Nat
          BY <4>2
        <4> QED
          BY <4>1, <4>3
      <3> QED
        BY <3>1, <3>2
    <2>7. PICK k \in Nat : Put(ss, slices'[c], k, pos, size, n)
      BY <2>6
    <2>8. Wrote(c, k, pos, size)
      BY <1>1, <2>1, <2>4, <2>5, <2>7 DEF Wrote, n, ss
    <2> QED
      BY <2>2, <2>8
  <1>6. \A c \in Indexes : View(c)
    <2> HIDE DEF hit
    <2> QED
      BY <1>4, <1>5 DEF View
  <1> QED
    BY <1>1, <1>3, <1>6 DEF Step

(* Freezing every slice. *)
LEMMA FrozenKin ==
  ASSUME NEW ss, GoodSeq(ss)
  PROVE  KinSeq(ss, Frozen(ss))
  <1> DEFINE e(i) == [ss[i] EXCEPT !.frozen = TRUE]
             rr == [i \in 1..Len(ss) |-> e(i)]
  <1>1. Frozen(ss) = rr
    BY DEF Frozen
  <1>2. ASSUME NEW i \in 1..Len(ss) PROVE e(i) \in Slice /\ Kin(ss[i], e(i))
    <2>1. ss[i] \in Slice
      BY DEF GoodSeq, Good
    <2> QED
      BY <2>1 DEF Slice, Kin
  <1> HIDE DEF e
  <1>3. rr \in [1..Len(ss) -> Slice] /\ Len(ss) \in Nat
    BY <1>2 DEF GoodSeq
  <1>4. rr \in Seq(Slice) /\ Len(rr) = Len(ss)
    BY <1>3, FcnIsSeq
  <1> QED
    BY <1>1, <1>2, <1>4 DEF KinSeq

(* FlushBegin. *)
LEMMA StepFlush ==
  ASSUME Base, NEW t \in Threads, NEW how, FlushBegin(t, how)
  PROVE  Step
  <1>1. Shapes
    BY DEF Base, CommitType, Shapes, FlushBegin
  <1>2. ASSUME NEW c \in Indexes PROVE Same(c) /\ Kept(c)
    <2>1. slices'[c] = Frozen(slices[c]) /\ GoodSeq(slices[c])
      BY DEF FlushBegin, Base, SlicesType
    <2> QED
      BY <2>1, FrozenKin DEF Same, Kept, FlushBegin, history
  <1> QED
    BY <1>1, <1>2 DEF Step, View, FlushBegin, history

(* Freeze and flushData. *)
LEMMA StepSlice ==
  ASSUME Base, NEW c \in Indexes, NEW i \in 1..Len(slices[c]), SliceStep(c, i)
  PROVE  Step
  <1>1. PICK s : s \in Slice /\ Kin(slices[c][i], s) /\ Update(c, i, s) /\ SliceOnly
    <2>1. slices[c][i] \in Slice /\ (slices[c][i].done => slices[c][i].frozen)
      BY DEF Base, SlicesType, GoodSeq, Good
    <2>2. CASE Freeze(c, i)
      <3> DEFINE s == [slices[c][i] EXCEPT !.frozen = TRUE]
      <3>1. s \in Slice /\ Kin(slices[c][i], s)
        BY <2>1 DEF Slice, Kin
      <3> QED
        BY <2>2, <3>1 DEF Freeze
    <2>3. CASE flushData(c, i)
      <3> DEFINE s == [slices[c][i] EXCEPT !.done = TRUE]
      <3>1. s \in Slice /\ Kin(slices[c][i], s)
        BY <2>1, <2>3 DEF Slice, Kin, flushData
      <3> QED
        BY <2>3, <3>1 DEF flushData
    <2> QED
      BY <2>2, <2>3 DEF SliceStep
  <1> DEFINE ss == slices[c]
             rr == [ss EXCEPT ![i] = s]
  <1>2. ss \in Seq(Slice) /\ GoodSeq(ss)
    BY DEF Base, SlicesType
  <1>3. slices' = [slices EXCEPT ![c] = rr]
    BY <1>1 DEF Update
  <1>4. /\ rr \in Seq(Slice) /\ Len(rr) = Len(ss)
        /\ \A j \in 1..Len(ss) : rr[j] = IF j = i THEN s ELSE ss[j]
    <2> HIDE DEF ss
    <2>1. i \in 1..Len(ss)
      BY DEF ss
    <2> QED
      BY <1>1, <1>2, <2>1, ExceptSeq
  <1> HIDE DEF rr
  <1>5. KinSeq(ss, rr)
    <2>1. \A j \in 1..Len(ss) : Kin(ss[j], ss[j])
      BY <1>2, KinSelf DEF KinSeq
    <2> QED
      BY <1>1, <1>4, <2>1 DEF KinSeq
  <1>6. \A d \in Indexes : slices'[d] = IF d = c THEN rr ELSE slices[d]
    BY <1>3 DEF Base, SlicesType
  <1>7. \A d \in Indexes : KinSeq(slices[d], slices'[d])
    BY <1>5, <1>6, KinSelf DEF Base, SlicesType
  <1>8. Shapes
    BY <1>1, <1>3 DEF Base, SlicesType, CommitType, Shapes, SliceOnly
  <1> QED
    BY <1>1, <1>7, <1>8 DEF Step, View, Same, Kept, SliceOnly, history

(* CommitWrite. *)
LEMMA StepCommit ==
  ASSUME Base, NEW c \in Indexes, CommitWrite(c)
  PROVE  Step
  <1>1. Shapes
    <2>1. DOMAIN cpc' = Indexes /\ cpc' = [d \in DOMAIN cpc' |-> cpc'[d]]
      BY DEF Base, CommitType, CommitWrite
    <2> QED
      BY <2>1 DEF Base, SlicesType, Shapes, CommitWrite
  <1>2. Commits(c) /\ Kept(c)
    <2>1. content[c] \in [Offsets -> 0..MaxWrites] /\ content \in [Indexes -> [Offsets -> 0..MaxWrites]]
      BY DEF Base, BytesType, Bytes
    <2>2. cpc \in [Indexes -> {"none", "wait", "pop", "popErr"}]
      BY DEF Base, CommitType
    <2> QED
      BY <2>1, <2>2 DEF CommitWrite, Commits, Kept, history
  <1>3. ASSUME NEW d \in Indexes, d # c PROVE Same(d) /\ Kept(d)
    <2>1. content'[d] = content[d]
      BY <1>3 DEF Base, BytesType, Bytes, CommitWrite
    <2>2. cpc'[d] = cpc[d]
      BY <1>3 DEF Base, CommitType, CommitWrite
    <2> QED
      BY <2>1, <2>2, KinSelf DEF Same, Kept, CommitWrite, Base, SlicesType, history
  <1> QED
    BY <1>1, <1>2, <1>3 DEF Step, View, CommitWrite, history

(* CommitPop. *)
LEMMA StepPop ==
  ASSUME Base, NEW c \in Indexes, CommitPop(c)
  PROVE  Step
  <1>1. Shapes
    BY DEF Base, SlicesType, CommitType, Shapes, CommitPop
  <1>2. \A d \in Indexes : Kept(d)
    BY DEF CommitPop, Kept
  <1>3. Pops(c)
    BY DEF Pops, CommitPop, Base, SlicesType, CommitType
  <1>4. ASSUME NEW d \in Indexes, d # c PROVE Same(d)
    BY <1>4, KinSelf DEF Same, CommitPop, Base, SlicesType, CommitType
  <1>5. (ferr => ferr') /\ writes' = writes
    BY DEF CommitPop
  <1> QED
    BY <1>1, <1>2, <1>3, <1>4, <1>5 DEF Step, View

(* Every step is one of these. *)
LEMMA NextSteps ==
  ASSUME Base, [Next]_vars
  PROVE  Step
  <1> USE DEF file, history
  <1>1. ASSUME NEW t \in Threads, Open(t) PROVE Step
    BY <1>1, StepOpen
  <1>2. ASSUME NEW t \in Threads, WriteCheck(t) \/ WriteInterrupted(t) \/ FlushEnd(t)
                                    \/ FlushTimeout(t) \/ CloseFree(t) PROVE Step
    <2>1. UNCHANGED <<slices, cpc, content, ferr, writes, truth>>
      BY <1>2 DEF WriteCheck, WriteInterrupted, FlushEnd, FlushTimeout, CloseFree
    <2> QED
      BY <2>1, StepSame
  <1>3. ASSUME NEW t \in Threads, NEW r \in Ranges, Write(t, r[1], r[2]) PROVE Step
    BY <1>3, StepWrite
  <1>4. ASSUME NEW t \in Threads, NEW how \in {"flush", "close"}, FlushBegin(t, how) PROVE Step
    BY <1>4, StepFlush
  <1>5. ASSUME Background PROVE Step
    <2>1. ASSUME NEW c \in Indexes, CommitWrite(c) \/ CommitPop(c) PROVE Step
      BY <2>1, StepCommit, StepPop
    <2>2. ASSUME NEW c \in Indexes, NEW i \in 1..Len(slices[c]), SliceStep(c, i) PROVE Step
      BY <2>2, StepSlice
    <2>3. ASSUME CommitFree PROVE Step
      BY <2>3, StepSame DEF CommitFree
    <2> QED
      BY <1>5, <2>1, <2>2, <2>3 DEF Background
  <1>6. ASSUME UNCHANGED vars PROVE Step
    BY <1>6, StepSame DEF vars
  <1> QED
    BY <1>1, <1>2, <1>3, <1>4, <1>5, <1>6 DEF Next

-----------------------------------------------------------------------------
(* The base invariant is kept, part by part. *)
LEMMA TailGood ==
  ASSUME NEW ss, GoodSeq(ss), ss # <<>>
  PROVE  /\ GoodSeq(Tail(ss))
         /\ Len(ss) \in Nat /\ Len(ss) > 0 /\ Len(Tail(ss)) = Len(ss) - 1
         /\ \A i \in 1..Len(Tail(ss)) : i + 1 \in 1..Len(ss) /\ Tail(ss)[i] = ss[i + 1]
         /\ Tail(ss) = <<>> <=> Len(ss) = 1
  <1>1. ss \in Seq(Slice) /\ Len(ss) \in Nat /\ Len(ss) > 0
    BY EmptySeq DEF GoodSeq
  <1>2. /\ Tail(ss) \in Seq(Slice) /\ Len(Tail(ss)) = Len(ss) - 1
        /\ \A i \in 1..Len(Tail(ss)) : Tail(ss)[i] = ss[i + 1]
    BY <1>1, HeadTailProperties
  <1> DEFINE tt == Tail(ss)
  <1> HIDE DEF tt
  <1>3. \A i \in 1..Len(Tail(ss)) : i + 1 \in 1..Len(ss)
    BY <1>1, <1>2
  <1>4. \A i \in 1..Len(Tail(ss)) : Good(Tail(ss)[i])
    BY <1>2, <1>3 DEF GoodSeq
  <1>5. Tail(ss) = <<>> <=> Len(Tail(ss)) = 0
    BY <1>2, EmptySeq
  <1> QED
    BY <1>1, <1>2, <1>3, <1>4, <1>5 DEF GoodSeq

(* The slices of a chunk, step by step: shared by the parts of the invariant. *)
LEMMA ChunkCases ==
  ASSUME Step, NEW c \in Indexes
  PROVE  \/ Same(c)
         \/ \E i \in Nat, pos \in Offsets, size \in Nat : Wrote(c, i, pos, size)
         \/ Commits(c)
         \/ Pops(c)
  BY DEF Step, Anew, View

(* The slices stay good. *)
LEMMA SlicesKept ==
  ASSUME Base, Step
  PROVE  SlicesType'
  <1>1. ASSUME NEW c \in Indexes PROVE GoodSeq(slices'[c])
    <2>1. GoodSeq(slices[c]) /\ (cpc[c] = "none" <=> slices[c] = <<>>)
      BY DEF Base, SlicesType, CommitType
    <2>2. CASE Same(c)
      BY <2>1, <2>2, KinFacts DEF Same, KinSeq, GoodSeq
    <2>3. CASE \E i \in Nat, pos \in Offsets, size \in Nat : Wrote(c, i, pos, size)
      BY <2>3 DEF Wrote, Put
    <2>4. CASE Commits(c)
      BY <2>1, <2>4 DEF Commits
    <2>5. CASE Pops(c)
      BY <2>1, <2>5, TailGood DEF Pops
    <2> QED
      BY <2>2, <2>3, <2>4, <2>5, ChunkCases
  <1>2. slices' = [c \in Indexes |-> slices'[c]]
    BY DEF Step, Shapes
  <1>3. \A c \in Indexes : slices'[c] \in Seq(Slice)
    BY <1>1 DEF GoodSeq
  <1>4. slices' \in [Indexes -> Seq(Slice)]
    BY <1>2, <1>3
  <1> QED
    BY <1>1, <1>4 DEF SlicesType

(* A chunk keeps its commit thread while it has slices. *)
LEMMA CommitKept ==
  ASSUME Base, Step
  PROVE  CommitType'
  <1> DEFINE L == {"none", "wait", "pop", "popErr"}
  <1>1. ASSUME NEW c \in Indexes
        PROVE  /\ cpc'[c] \in L
               /\ cpc'[c] = "none" <=> slices'[c] = <<>>
               /\ cpc'[c] \in {"pop", "popErr"} => slices'[c][1].done
    <2> DEFINE ss == slices[c]
               rr == slices'[c]
    <2>1. /\ GoodSeq(ss) /\ ss \in Seq(Slice) /\ Len(ss) \in Nat /\ cpc[c] \in L
          /\ cpc[c] = "none" <=> ss = <<>>
          /\ cpc[c] \in {"pop", "popErr"} => ss[1].done
          /\ ss = <<>> <=> Len(ss) = 0
      <3>1. GoodSeq(ss) /\ ss \in Seq(Slice)
        BY DEF Base, SlicesType
      <3>2. ss = <<>> <=> Len(ss) = 0
        BY <3>1, EmptySeq
      <3> QED
        BY <3>1, <3>2 DEF Base, CommitType
    <2>2. rr \in Seq(Slice) /\ Len(rr) \in Nat /\ (rr = <<>> <=> Len(rr) = 0)
      <3>1. rr \in Seq(Slice)
        BY SlicesKept DEF SlicesType
      <3> QED
        BY <3>1, EmptySeq
    <2> HIDE DEF ss, rr
    <2>3. CASE Same(c)
      <3>1. Len(rr) = Len(ss) /\ cpc'[c] = cpc[c] /\ \A i \in 1..Len(ss) : Kin(ss[i], rr[i])
        BY <2>3 DEF Same, KinSeq, ss, rr
      <3>2. ss # <<>> => Kin(ss[1], rr[1])
        BY <2>1, <3>1
      <3> QED
        BY <2>1, <2>2, <3>1, <3>2 DEF Kin, rr, ss
    <2>4. CASE \E i \in Nat, pos \in Offsets, size \in Nat : Wrote(c, i, pos, size)
      <3>1. PICK i \in Nat, pos \in Offsets, size \in Nat : Wrote(c, i, pos, size)
        BY <2>4
      <3>2. Put(ss, rr, i, pos, size, writes + 1) /\ cpc'[c] = IF ss = <<>> THEN "wait" ELSE cpc[c]
        BY <3>1 DEF Wrote, ss, rr
      <3>3. Len(rr) > 0 /\ (Len(rr) = Len(ss) \/ Len(rr) = Len(ss) + 1)
        BY <2>1, <2>2, <3>2 DEF Put
      <3>4. cpc'[c] \in {"pop", "popErr"} => rr[1].done
        <4> SUFFICES ASSUME cpc'[c] \in {"pop", "popErr"} PROVE rr[1].done
          OBVIOUS
        <4>1. ss # <<>> /\ ss[1].done /\ 1 <= Len(ss)
          BY <2>1, <3>2
        <4>2. i # 1 /\ 1 \in 1..Len(rr)
          BY <2>2, <3>2, <3>3, <4>1 DEF Put
        <4>3. Kin(ss[1], rr[1])
          BY <3>2, <4>2 DEF Put
        <4> QED
          BY <4>1, <4>3 DEF Kin
      <3> QED
        BY <2>1, <2>2, <3>2, <3>3, <3>4 DEF rr
    <2>5. CASE Commits(c)
      BY <2>1, <2>5 DEF Commits, ss
    <2>6. CASE Pops(c)
      <3>1. ss # <<>> /\ rr = Tail(ss) /\ cpc'[c] = IF Len(ss) = 1 THEN "none" ELSE "wait"
        BY <2>1, <2>6 DEF Pops, ss, rr
      <3>2. rr = <<>> <=> Len(ss) = 1
        BY <2>1, <3>1, TailGood
      <3> QED
        BY <3>1, <3>2 DEF rr
    <2> QED
      BY <2>3, <2>4, <2>5, <2>6, ChunkCases
  <1>2. cpc' = [c \in Indexes |-> cpc'[c]]
    BY DEF Step, Shapes
  <1>3. cpc' \in [Indexes -> L]
    BY <1>1, <1>2
  <1> QED
    BY <1>1, <1>3 DEF CommitType

(* A byte of a slice is that of a write. *)
LEMMA ByteType ==
  ASSUME NEW s \in Slice, NEW p \in Offsets, Covers(s, p)
  PROVE  Byte(s, p) \in 1..MaxWrites
  <1> DEFINE o == s.off
             d == Len(s.data)
  <1>1. o \in Nat /\ d \in Nat /\ s.data \in [1..d -> 1..MaxWrites] /\ p \in Nat /\ o <= p /\ p < o + d
    BY SliceNumbers, SizeAssumption DEF Covers, End, Offsets
  <1> HIDE DEF o, d
  <1>2. p - o + 1 \in 1..d
    BY <1>1
  <1>3. s.data[p - o + 1] \in 1..MaxWrites
    BY <1>1, <1>2
  <1> QED
    BY <1>3 DEF Byte, o

(* A slice laid over the bytes of a chunk. *)
LEMMA OverlayFacts ==
  ASSUME NEW b \in [Offsets -> 0..MaxWrites], NEW s \in Slice
  PROVE  /\ Overlay(b, s) \in [Offsets -> 0..MaxWrites]
         /\ \A p \in Offsets : Overlay(b, s)[p] = IF Covers(s, p) THEN Byte(s, p) ELSE b[p]
  <1>1. Overlay(b, s) = [p \in Offsets |-> IF Covers(s, p) THEN Byte(s, p) ELSE b[p]]
    BY DEF Overlay, Byte
  <1>2. \A p \in Offsets : Covers(s, p) => Byte(s, p) \in 0..MaxWrites
    <2>1. MaxWrites \in Nat
      BY BoundsAssumption
    <2> QED
      BY <2>1, ByteType
  <1> QED
    BY <1>1, <1>2

(* A new file reads as zeros, and every byte of it has a value. *)
LEMMA ZerosType == Zeros \in Bytes
  BY BoundsAssumption DEF Zeros, Bytes

(* The bytes of the metadata and of the history stay bytes of writes. *)
LEMMA BytesKept ==
  ASSUME Base, [Next]_vars
  PROVE  BytesType'
  <1> USE DEF file, history
  <1> DEFINE B == [Offsets -> 0..MaxWrites]
  <1>1. /\ content \in [Indexes -> B] /\ truth \in [Indexes -> B] /\ ferr \in BOOLEAN
        /\ content \in Bytes /\ truth \in Bytes
    BY DEF Base, BytesType, Bytes
  <1>2. ASSUME UNCHANGED <<content, ferr, truth>> PROVE BytesType'
    BY <1>1, <1>2 DEF BytesType
  <1>3. ASSUME NEW t \in Threads, Open(t) PROVE BytesType'
    BY <1>1, <1>3 DEF Open, BytesType
  <1>4. ASSUME NEW t \in Threads, NEW r \in Ranges, Write(t, r[1], r[2]) PROVE BytesType'
    <2>1. writes + 1 \in 0..MaxWrites
      BY <1>4, WriteInBound, BoundsAssumption DEF Base, Write
    <2> DEFINE P(c) == Piece(c, r[1], r[2])
               In(c, p) == /\ p \in P(c).pos..(P(c).pos + P(c).size - 1)
                           /\ c \in {d \in Indexes : P(d).size > 0} /\ ~ferr
    <2>2. /\ content' = content /\ ferr' = ferr
          /\ truth' = [c \in Indexes |-> [p \in Offsets |->
                         IF In(c, p) THEN writes + 1 ELSE truth[c][p]]]
      BY <1>4 DEF Write
    <2> HIDE DEF In
    <2>3. truth' \in Bytes
      BY <1>1, <2>1, <2>2 DEF Bytes
    <2> QED
      BY <1>1, <2>2, <2>3 DEF BytesType
  <1>5. ASSUME NEW c \in Indexes, CommitWrite(c) PROVE BytesType'
    <2> DEFINE s == slices[c][1]
               committed == [content EXCEPT ![c] = Overlay(@, s)]
    <2>1. s \in Slice
      <3>1. slices[c] \in Seq(Slice) /\ slices[c] # <<>>
        BY <1>5 DEF Base, SlicesType, CommitType, CommitWrite
      <3>2. 1 \in 1..Len(slices[c])
        BY <3>1, EmptySeq
      <3> QED
        BY <3>1, <3>2, ElementOfSeq
    <2>2. content[c] \in B
      BY <1>1
    <2>3. Overlay(content[c], s) \in B
      BY <2>1, <2>2, OverlayFacts
    <2>4. committed \in [Indexes -> B]
      BY <1>1, <2>3
    <2>5. content' \in {content, committed} /\ truth' = truth /\ ferr' = ferr
      BY <1>5 DEF CommitWrite
    <2> HIDE DEF committed
    <2> QED
      BY <1>1, <2>4, <2>5 DEF BytesType, Bytes
  <1>6. ASSUME NEW c \in Indexes, CommitPop(c) PROVE BytesType'
    BY <1>1, <1>6, ZerosType DEF CommitPop, BytesType
  <1> QED
    BY <1>2, <1>3, <1>4, <1>5, <1>6
       DEF Next, vars, WriteCheck, WriteInterrupted, FlushBegin, FlushEnd, FlushTimeout, CloseFree,
           Background, SliceStep, Freeze, flushData, SliceOnly, CommitFree

(* Adding an element to a set of threads or chunks, or taking one away. *)
LEMMA Counting ==
  ASSUME NEW S, IsFiniteSet(S), NEW x
  PROVE  /\ x \notin S => Cardinality(S \cup {x}) = Cardinality(S) + 1
         /\ x \in S => Cardinality(S \ {x}) = Cardinality(S) - 1
         /\ Cardinality(S) \in Nat
  BY FS_AddElement, FS_RemoveElement, FS_CardinalityType

(* The handles and the writers after a step of one thread. *)
LEMMA Moves ==
  ASSUME Base, NEW t \in Threads, NEW l \in Labels, Goto(t, l)
  PROVE  /\ pc' \in [Threads -> Labels]
         /\ Handles' = IF l = "closed" THEN Handles \ {t} ELSE Handles \cup {t}
         /\ Writers' = IF l = "write" THEN Writers \cup {t} ELSE Writers \ {t}
  <1>1. pc \in [Threads -> Labels]
    BY DEF Base, WritesType
  <1>2. pc' = [pc EXCEPT ![t] = l]
    BY DEF Goto
  <1>3. pc' \in [Threads -> Labels]
    BY <1>1, <1>2
  <1>4. \A u \in Threads : pc'[u] = IF u = t THEN l ELSE pc[u]
    BY <1>1, <1>2
  <1> QED
    BY <1>3, <1>4 DEF Handles, Writers, At

(* The bound on the writes. *)
LEMMA WritesKept ==
  ASSUME Base, [Next]_vars
  PROVE  WritesType'
  <1> USE DEF file, history
  <1>1. /\ IsFiniteSet(Writers) /\ Cardinality(Writers) \in Nat /\ writes \in Nat /\ MaxWrites \in Nat
        /\ writes + Cardinality(Writers) <= MaxWrites /\ pc \in [Threads -> Labels]
    BY Finite, BoundsAssumption DEF Base, WritesType, Writers
  <1>2. ASSUME NEW t \in Threads, NEW l \in Labels, Goto(t, l), ~At(t, "write"), l # "write",
               writes' = writes
        PROVE  WritesType'
    <2>1. Writers' = Writers
      BY <1>2, Moves DEF Writers
    <2> QED
      BY <1>1, <1>2, <2>1, Moves DEF WritesType
  <1>3. ASSUME NEW t \in Threads, WriteCheck(t) PROVE WritesType'
    <2>1. /\ "write" \in Labels /\ Goto(t, "write") /\ writes' = writes /\ t \notin Writers
          /\ writes + Cardinality(Writers) < MaxWrites
      BY <1>3 DEF WriteCheck, Labels, Writers, At
    <2>2. Writers' = Writers \cup {t} /\ pc' \in [Threads -> Labels]
      BY <2>1, Moves
    <2>3. Cardinality(Writers') = Cardinality(Writers) + 1
      BY <1>1, <2>1, <2>2, Counting
    <2> QED
      BY <1>1, <2>1, <2>2, <2>3 DEF WritesType
  <1>4. ASSUME NEW t \in Threads, At(t, "write"), Goto(t, "idle"), writes' \in {writes, writes + 1}
        PROVE  WritesType'
    <2>1. "idle" \in Labels /\ t \in Writers
      BY <1>4 DEF Labels, Writers
    <2>2. Writers' = Writers \ {t} /\ pc' \in [Threads -> Labels]
      BY <1>4, <2>1, Moves
    <2>3. Cardinality(Writers') = Cardinality(Writers) - 1
      BY <1>1, <2>1, <2>2, Counting
    <2> QED
      BY <1>1, <1>4, <2>2, <2>3 DEF WritesType
  <1>5. ASSUME UNCHANGED <<pc, writes>> PROVE WritesType'
    <2>1. Writers' = Writers
      BY <1>5 DEF Writers, At
    <2> QED
      BY <1>1, <1>5, <2>1 DEF WritesType
  <1>6. \A how : After(how) \in Labels /\ After(how) # "write"
    BY DEF After, Labels
  <1>7. ASSUME NEW t \in Threads, Open(t) \/ CloseFree(t) \/ FlushEnd(t) \/ FlushTimeout(t)
        PROVE  WritesType'
    <2>1. CASE Open(t)
      <3>1. Goto(t, "idle") /\ "idle" \in Labels /\ ~At(t, "write") /\ writes' = writes
        BY <2>1 DEF Open, Labels, At
      <3> QED
        BY <3>1, <1>2
    <2>2. CASE CloseFree(t)
      <3>1. Goto(t, "closed") /\ "closed" \in Labels /\ ~At(t, "write") /\ writes' = writes
        BY <2>2 DEF CloseFree, Labels, At
      <3> QED
        BY <3>1, <1>2
    <2>3. CASE FlushEnd(t) \/ FlushTimeout(t)
      <3>1. Goto(t, After(pc[t])) /\ ~At(t, "write") /\ writes' = writes
        BY <2>3 DEF FlushEnd, FlushTimeout, Flushing, At
      <3> QED
        BY <3>1, <1>2, <1>6
    <2> QED
      BY <1>7, <2>1, <2>2, <2>3
  <1>8. ASSUME NEW t \in Threads, NEW how \in {"flush", "close"}, FlushBegin(t, how) PROVE WritesType'
    <2> DEFINE l == IF Pending = {} THEN After(how) ELSE how
    <2>1. Goto(t, l) /\ ~At(t, "write") /\ writes' = writes
      BY <1>8 DEF FlushBegin, At
    <2>2. l \in Labels /\ l # "write"
      BY <1>6 DEF Labels
    <2> HIDE DEF l
    <2> QED
      BY <2>1, <2>2, <1>2
  <1>9. ASSUME NEW t \in Threads, WriteInterrupted(t) PROVE WritesType'
    BY <1>4, <1>9 DEF WriteInterrupted
  <1>10. ASSUME NEW t \in Threads, NEW r \in Ranges, Write(t, r[1], r[2]) PROVE WritesType'
    BY <1>4, <1>10 DEF Write
  <1>11. ASSUME Background \/ UNCHANGED vars PROVE WritesType'
    BY <1>5, <1>11 DEF Background, SliceStep, Freeze, flushData, SliceOnly, CommitFree, CommitWrite,
                       CommitPop, vars
  <1> QED
    BY <1>3, <1>7, <1>8, <1>9, <1>10, <1>11 DEF Next

(* The chunks with slices are those with a commit thread. *)
LEMMA PendingThreads ==
  ASSUME CommitType
  PROVE  Pending = {c \in Indexes : cpc[c] # "none"}
  BY DEF CommitType, Pending

(* The references. *)
LEMMA RefsKept ==
  ASSUME Base, [Next]_vars
  PROVE  RefsType'
  <1> USE DEF file, history
  <1> DEFINE H == Cardinality(Handles)
             C == Cardinality(Pending)
  <1>1. /\ IsFiniteSet(Handles) /\ H \in Nat /\ IsFiniteSet(Pending) /\ C \in Nat
        /\ leaving \in Nat /\ refs \in Nat /\ refs = H + C + leaving
    BY Finite DEF Base, RefsType, Handles, Pending
  <1>2. /\ Pending = {c \in Indexes : cpc[c] # "none"}
        /\ Pending' = {c \in Indexes : cpc'[c] # "none"}
        /\ cpc \in [Indexes -> {"none", "wait", "pop", "popErr"}]
    <2>1. CommitType /\ CommitType'
      BY NextSteps, CommitKept DEF Base
    <2>2. Pending' = {c \in Indexes : cpc'[c] # "none"}
      BY <2>1 DEF CommitType, Pending
    <2> QED
      BY <2>1, <2>2, PendingThreads DEF CommitType
  <1> HIDE DEF H, C
  <1>3. ASSUME Handles' = Handles, Pending' = Pending, UNCHANGED <<leaving, refs>> PROVE RefsType'
    BY <1>1, <1>3 DEF RefsType, H, C
  <1>4. ASSUME NEW t \in Threads, NEW l \in Labels, Goto(t, l), ~At(t, "closed"), l # "closed"
        PROVE  Handles' = Handles
    BY <1>4, Moves DEF Handles, At
  <1>5. \A how : After(how) \in Labels /\ After(how) # "closed"
    BY DEF After, Labels
  <1>6. cpc' = cpc => Pending' = Pending
    BY <1>2
  <1>7. pc' = pc => Handles' = Handles
    BY DEF Handles
  <1>8. ASSUME NEW t \in Threads, Open(t) PROVE RefsType'
    <2>1. /\ "idle" \in Labels /\ Goto(t, "idle") /\ t \notin Handles /\ refs' = refs + 1
          /\ leaving' = leaving /\ cpc' = cpc
      BY <1>8 DEF Open, Labels, Handles, At
    <2>2. Handles' = Handles \cup {t}
      BY <2>1, Moves
    <2>3. Cardinality(Handles') = H + 1
      BY <1>1, <2>1, <2>2, Counting DEF H
    <2> QED
      BY <1>1, <1>6, <2>1, <2>3 DEF RefsType, C
  <1>9. ASSUME NEW t \in Threads, CloseFree(t) PROVE RefsType'
    <2>1. /\ "closed" \in Labels /\ Goto(t, "closed") /\ t \in Handles /\ refs' = refs - 1
          /\ leaving' = leaving /\ cpc' = cpc
      BY <1>9 DEF CloseFree, Labels, Handles, At
    <2>2. Handles' = Handles \ {t}
      BY <2>1, Moves
    <2>3. Cardinality(Handles') = H - 1
      BY <1>1, <2>1, <2>2, Counting DEF H
    <2>4. refs > 0
      BY <2>1, PendingReferenced DEF Base
    <2> QED
      BY <1>1, <1>6, <2>1, <2>3, <2>4 DEF RefsType, C
  <1>10. ASSUME NEW t \in Threads, WriteCheck(t) \/ WriteInterrupted(t) \/ FlushEnd(t) \/ FlushTimeout(t)
         PROVE  RefsType'
    <2>1. cpc' = cpc /\ UNCHANGED <<leaving, refs>>
      BY <1>10 DEF WriteCheck, WriteInterrupted, FlushEnd, FlushTimeout
    <2>2. PICK l \in Labels : l # "closed" /\ Goto(t, l) /\ ~At(t, "closed")
      <3>1. CASE WriteCheck(t) \/ WriteInterrupted(t)
        <4>1. "write" \in Labels /\ "idle" \in Labels
          BY DEF Labels
        <4> QED
          BY <3>1, <4>1 DEF WriteCheck, WriteInterrupted, At
      <3>2. CASE FlushEnd(t) \/ FlushTimeout(t)
        BY <1>5, <3>2 DEF FlushEnd, FlushTimeout, Flushing, At
      <3> QED
        BY <1>10, <3>1, <3>2
    <2>3. Handles' = Handles
      BY <1>4, <2>2
    <2> QED
      BY <1>3, <1>6, <2>1, <2>3
  <1>11. ASSUME NEW t \in Threads, NEW how \in {"flush", "close"}, FlushBegin(t, how) PROVE RefsType'
    <2> DEFINE l == IF Pending = {} THEN After(how) ELSE how
    <2>1. Goto(t, l) /\ ~At(t, "closed") /\ cpc' = cpc /\ UNCHANGED <<leaving, refs>>
      BY <1>11 DEF FlushBegin, At
    <2>2. l \in Labels /\ l # "closed"
      BY <1>5 DEF Labels
    <2> HIDE DEF l
    <2>3. Handles' = Handles
      BY <1>4, <2>1, <2>2
    <2> QED
      BY <1>3, <1>6, <2>1, <2>3
  <1>12. ASSUME NEW t \in Threads, NEW r \in Ranges, Write(t, r[1], r[2]) PROVE RefsType'
    <2> DEFINE hit == {c \in Indexes : Piece(c, r[1], r[2]).size > 0}
               new == hit \ Pending
    <2>1. /\ cpc' = [c \in Indexes |-> IF c \in new THEN "wait" ELSE cpc[c]]
          /\ refs' = refs + Cardinality(new)
          /\ Goto(t, "idle") /\ ~At(t, "closed") /\ leaving' = leaving
      BY <1>12 DEF Write, RefsTaken, At
    <2>2. Handles' = Handles
      <3>1. "idle" \in Labels
        BY DEF Labels
      <3> QED
        BY <1>4, <2>1, <3>1
    <2>3. new \subseteq Indexes /\ new \cap Pending = {}
      OBVIOUS
    <2> HIDE DEF new
    <2>4. Pending' = Pending \cup new
      BY <1>2, <2>1, <2>3
    <2>5. IsFiniteSet(new) /\ Cardinality(new) \in Nat
      BY <2>3, Finite
    <2>6. Cardinality(Pending') = C + Cardinality(new)
      <3>1. Cardinality(Pending \cap new) = 0
        BY <2>3, FS_EmptySet
      <3>2. Cardinality(Pending \cup new) = C + Cardinality(new) - Cardinality(Pending \cap new)
        BY <1>1, <2>5, FS_Union DEF C
      <3> QED
        BY <1>1, <2>4, <2>5, <3>1, <3>2
    <2> QED
      BY <1>1, <2>1, <2>2, <2>5, <2>6 DEF RefsType, H
  <1>13. ASSUME NEW c \in Indexes, CommitWrite(c) PROVE RefsType'
    <2>1. Pending' = Pending
      BY <1>2, <1>13 DEF CommitWrite
    <2> QED
      BY <1>3, <1>7, <1>13, <2>1 DEF CommitWrite
  <1>14. ASSUME NEW c \in Indexes, CommitPop(c) PROVE RefsType'
    <2>1. CASE Len(slices[c]) = 1
      <3>1. Pending' = Pending \ {c} /\ c \in Pending
        BY <1>2, <1>14, <2>1 DEF CommitPop
      <3>2. Cardinality(Pending') = C - 1
        BY <1>1, <3>1, Counting DEF C
      <3>3. leaving' = leaving + 1 /\ refs' = refs /\ pc' = pc
        BY <1>14, <2>1 DEF CommitPop
      <3> QED
        BY <1>1, <1>7, <3>2, <3>3 DEF RefsType, H
    <2>2. CASE Len(slices[c]) # 1
      <3>1. Pending' = Pending
        BY <1>2, <1>14, <2>2 DEF CommitPop
      <3>2. leaving' = leaving /\ refs' = refs /\ pc' = pc
        BY <1>14, <2>2 DEF CommitPop
      <3> QED
        BY <1>3, <1>7, <3>1, <3>2
    <2> QED
      BY <2>1, <2>2
  <1>15. ASSUME CommitFree PROVE RefsType'
    <2>1. leaving > 0 /\ leaving' = leaving - 1 /\ refs' = refs - 1 /\ pc' = pc /\ cpc' = cpc
      BY <1>15 DEF CommitFree
    <2>2. refs > 0
      BY <2>1, PendingReferenced DEF Base
    <2>3. leaving' \in Nat /\ refs' \in Nat /\ refs' = H + C + leaving'
      BY <1>1, <2>1, <2>2
    <2> QED
      BY <1>6, <1>7, <2>1, <2>3 DEF RefsType, H, C
  <1>16. ASSUME NEW c \in Indexes, NEW i, SliceStep(c, i) PROVE RefsType'
    <2>1. UNCHANGED <<cpc, pc, leaving, refs>>
      BY <1>16 DEF SliceStep, Freeze, flushData, SliceOnly
    <2> QED
      BY <1>3, <1>6, <1>7, <2>1
  <1>17. ASSUME UNCHANGED vars PROVE RefsType'
    BY <1>3, <1>6, <1>7, <1>17 DEF vars
  <1> QED
    BY <1>8, <1>9, <1>10, <1>11, <1>12, <1>13, <1>14, <1>15, <1>16, <1>17 DEF Next, Background

(* The base invariant holds at the start. *)
LEMMA InitBase ==
  ASSUME Init
  PROVE  Base
  <1>1. SlicesType
    BY EmptySeq DEF Init, SlicesType, GoodSeq
  <1>2. CommitType
    BY DEF Init, CommitType
  <1>3. BytesType
    BY ZerosType DEF Init, BytesType
  <1>4. WritesType
    <2>1. Writers = {}
      BY DEF Init, Writers, At
    <2>2. Cardinality(Writers) = 0
      BY <2>1, FS_EmptySet
    <2> QED
      BY <2>2, BoundsAssumption DEF Init, WritesType, Labels
  <1>5. RefsType
    <2>1. Handles = {} /\ Pending = {}
      BY DEF Init, Handles, Pending
    <2>2. Cardinality(Handles) = 0 /\ Cardinality(Pending) = 0
      BY <2>1, FS_EmptySet
    <2> QED
      BY <2>2 DEF Init, RefsType
  <1> QED
    BY <1>1, <1>2, <1>3, <1>4, <1>5 DEF Base

(* The base invariant is kept by every step. *)
LEMMA NextBase ==
  ASSUME Base, [Next]_vars
  PROVE  Base'
  BY NextSteps, SlicesKept, CommitKept, BytesKept, WritesKept, RefsKept DEF Base

(* The base invariant is an invariant. *)
LEMMA BaseHolds == Spec => []Base
  BY InitBase, NextBase, PTL DEF Spec

(***************************************************************************)
(* Type correctness: among others, whatever overlapping writes, flushes,   *)
(* time-outs and failures there are, every slice has data, ends in its     *)
(* chunk and holds bytes of writes only, and f.refs never goes below 0.    *)
(***************************************************************************)
THEOREM TypeCorrect == Spec => []TypeOK
  <1>1. Base => TypeOK
    <2> SUFFICES ASSUME Base PROVE TypeOK
      OBVIOUS
    <2>1. writes \in 0..MaxWrites
      <3>1. Cardinality(Writers) \in Nat
        BY Finite DEF Writers
      <3> QED
        BY <3>1, BoundsAssumption DEF Base, WritesType
    <2>2. \A c \in Indexes : \A i \in 1..Len(slices[c]) :
            slices[c][i].data # <<>> /\ slices[c][i].off + Len(slices[c][i].data) <= ChunkSize
      BY DEF Base, SlicesType, GoodSeq, Good, End
    <2> QED
      BY <2>1, <2>2 DEF Base, SlicesType, CommitType, BytesType, WritesType, RefsType, TypeOK
  <1> QED
    BY <1>1, BaseHolds, PTL

(* The writer is kept: a commit thread's own reference holds it when every handle is closed. *)
LEMMA WriterReferenced == Spec => []WriterKept
  <1>1. Base => WriterKept
    BY PendingReferenced DEF Base, WriterKept
  <1> QED
    BY <1>1, BaseHolds, PTL

-----------------------------------------------------------------------------
(***************************************************************************)
(* The order of the bytes: of two slices of a chunk that cover an offset   *)
(* the later holds the later write there, the metadata holds none later    *)
(* than any of them, and none is later than the last write.                *)
(***************************************************************************)
InOrder(ss, b, w) ==
    \A p \in Offsets :
        /\ b[p] <= w
        /\ \A i \in 1..Len(ss) : Covers(ss[i], p) => b[p] <= Byte(ss[i], p) /\ Byte(ss[i], p) <= w
        /\ \A i, j \in 1..Len(ss) :
              i < j /\ Covers(ss[i], p) /\ Covers(ss[j], p) => Byte(ss[i], p) <= Byte(ss[j], p)

Ordered == \A c \in Indexes : InOrder(slices[c], content[c], writes)

(* What covers an offset after a write. *)
LEMMA PutCovers ==
  ASSUME NEW ss, NEW rr, NEW i, NEW pos, NEW size, NEW n, Put(ss, rr, i, pos, size, n),
         Len(ss) \in Nat, NEW p \in Offsets
  PROVE  /\ p \in pos..(pos + size - 1) => \A j \in 1..Len(rr) : Covers(rr[j], p) =>
               \/ j = i /\ Byte(rr[j], p) = n
               \/ /\ j # i /\ ~(j > i)
                  /\ j \in 1..Len(ss) /\ Covers(ss[j], p) /\ Byte(rr[j], p) = Byte(ss[j], p)
         /\ p \notin pos..(pos + size - 1) => \A j \in 1..Len(rr) :
               /\ Covers(rr[j], p) <=> j \in 1..Len(ss) /\ Covers(ss[j], p)
               /\ Covers(rr[j], p) => Byte(rr[j], p) = Byte(ss[j], p)
         /\ \A j \in 1..Len(ss) : j \in 1..Len(rr)
  <1>1. /\ i \in 1..Len(rr)
        /\ \A j \in 1..Len(rr) : j # i => j <= Len(ss) /\ Kin(ss[j], rr[j])
        /\ p \in pos..(pos + size - 1) =>
                /\ Covers(rr[i], p) /\ Byte(rr[i], p) = n
                /\ \A j \in 1..Len(rr) : j > i => ~Covers(rr[j], p)
        /\ p \notin pos..(pos + size - 1) =>
                /\ Covers(rr[i], p) <=> i <= Len(ss) /\ Covers(ss[i], p)
                /\ Covers(rr[i], p) => Byte(rr[i], p) = Byte(ss[i], p)
        /\ Len(rr) \in {Len(ss), Len(ss) + 1}
    BY DEF Put
  <1>2. \A j \in 1..Len(rr) : j # i =>
           /\ j \in 1..Len(ss) /\ (Covers(rr[j], p) <=> Covers(ss[j], p)) /\ Byte(rr[j], p) = Byte(ss[j], p)
    <2>1. \A j \in 1..Len(rr) : j # i => j \in 1..Len(ss)
      BY <1>1
    <2> QED
      BY <1>1, <2>1, KinFacts
  <1>3. \A j \in 1..Len(ss) : j \in 1..Len(rr)
    BY <1>1
  <1>4. i <= Len(ss) => i \in 1..Len(ss)
    BY <1>1
  <1>5. i \in 1..Len(ss) => i <= Len(ss)
    OBVIOUS
  <1> QED
    BY <1>1, <1>2, <1>3, <1>4, <1>5, Zenon

(* Freezing and uploading keep the order. *)
LEMMA OrderKin ==
  ASSUME NEW ss, NEW rr, KinSeq(ss, rr), NEW b \in [Offsets -> Nat], GoodSeq(ss),
         NEW w \in Nat, NEW v \in Nat, w <= v, InOrder(ss, b, w)
  PROVE  InOrder(rr, b, v)
  <1>1. \A i \in 1..Len(rr) : \A p \in Offsets :
           i \in 1..Len(ss) /\ (Covers(rr[i], p) <=> Covers(ss[i], p)) /\ Byte(rr[i], p) = Byte(ss[i], p)
    BY KinFacts DEF KinSeq
  <1>2. \A i \in 1..Len(ss) : \A p \in Offsets : Covers(ss[i], p) => Byte(ss[i], p) \in Nat
    BY ByteType, BoundsAssumption DEF GoodSeq, Good
  <1> SUFFICES ASSUME NEW p \in Offsets
               PROVE  /\ b[p] <= v
                      /\ \A i \in 1..Len(rr) : Covers(rr[i], p) => b[p] <= Byte(rr[i], p) /\ Byte(rr[i], p) <= v
                      /\ \A i, j \in 1..Len(rr) :
                            i < j /\ Covers(rr[i], p) /\ Covers(rr[j], p) => Byte(rr[i], p) <= Byte(rr[j], p)
    BY DEF InOrder
  <1>3. b[p] <= v
    BY DEF InOrder
  <1>4. \A i \in 1..Len(rr) : Covers(rr[i], p) => b[p] <= Byte(rr[i], p) /\ Byte(rr[i], p) <= v
    <2> SUFFICES ASSUME NEW i \in 1..Len(rr), Covers(rr[i], p)
                 PROVE  b[p] <= Byte(rr[i], p) /\ Byte(rr[i], p) <= v
      OBVIOUS
    <2>1. /\ Byte(ss[i], p) \in Nat /\ b[p] <= Byte(ss[i], p) /\ Byte(ss[i], p) <= w
          /\ Byte(rr[i], p) = Byte(ss[i], p)
      BY <1>1, <1>2 DEF InOrder
    <2> QED
      BY <2>1
  <1>5. \A i, j \in 1..Len(rr) :
           i < j /\ Covers(rr[i], p) /\ Covers(rr[j], p) => Byte(rr[i], p) <= Byte(rr[j], p)
    BY <1>1, Zenon DEF InOrder
  <1> QED
    BY <1>3, <1>4, <1>5

(* A write keeps the order: it is the last, and no later slice covers its bytes. *)
LEMMA OrderPut ==
  ASSUME NEW ss, NEW rr, GoodSeq(ss), NEW b \in [Offsets -> Nat], NEW w \in Nat,
         NEW i, NEW pos, NEW size, Put(ss, rr, i, pos, size, w + 1), InOrder(ss, b, w)
  PROVE  InOrder(rr, b, w + 1)
  <1>1. Len(ss) \in Nat /\ GoodSeq(rr) /\ Len(rr) \in Nat /\ i \in 1..Len(rr)
    BY DEF GoodSeq, Put
  <1>2. \A j \in 1..Len(rr) : \A p \in Offsets : Covers(rr[j], p) => Byte(rr[j], p) \in Nat
    BY <1>1, ByteType, BoundsAssumption DEF GoodSeq, Good
  <1> SUFFICES ASSUME NEW p \in Offsets
               PROVE  /\ b[p] <= w + 1
                      /\ \A j \in 1..Len(rr) :
                            Covers(rr[j], p) => b[p] <= Byte(rr[j], p) /\ Byte(rr[j], p) <= w + 1
                      /\ \A j, k \in 1..Len(rr) :
                            j < k /\ Covers(rr[j], p) /\ Covers(rr[k], p) => Byte(rr[j], p) <= Byte(rr[k], p)
    BY DEF InOrder
  <1> DEFINE In == p \in pos..(pos + size - 1)
             Same1(j) == j \in 1..Len(ss) /\ Covers(ss[j], p) /\ Byte(rr[j], p) = Byte(ss[j], p)
             New(j) == In /\ j = i /\ Byte(rr[j], p) = w + 1
  <1>3. \A j \in 1..Len(rr) : Covers(rr[j], p) => New(j) \/ Same1(j)
    BY <1>1, PutCovers
  <1>4. In => \A k \in 1..Len(rr) : k > i => ~Covers(rr[k], p)
    BY DEF Put
  <1> HIDE DEF In
  <1>5. b[p] \in Nat /\ b[p] <= w
    BY DEF InOrder
  <1>6. ASSUME NEW j \in 1..Len(rr), Covers(rr[j], p)
        PROVE  b[p] <= Byte(rr[j], p) /\ Byte(rr[j], p) <= w + 1
    <2>1. CASE New(j)
      BY <1>5, <2>1
    <2>2. CASE Same1(j)
      <3>1. /\ b[p] <= Byte(rr[j], p) /\ Byte(rr[j], p) <= w /\ Byte(rr[j], p) \in Nat
        BY <1>2, <1>6, <2>2 DEF InOrder
      <3> QED
        BY <1>5, <3>1
    <2> QED
      BY <1>3, <1>6, <2>1, <2>2
  <1>7. ASSUME NEW j \in 1..Len(rr), NEW k \in 1..Len(rr), j < k, Covers(rr[j], p), Covers(rr[k], p)
        PROVE  Byte(rr[j], p) <= Byte(rr[k], p)
    <2>1. CASE New(k)
      BY <1>6, <1>7, <2>1
    <2>2. CASE New(j)
      <3>1. k > i
        BY <1>1, <1>7, <2>2
      <3> QED
        BY <1>4, <1>7, <2>2, <3>1
    <2>3. CASE Same1(j) /\ Same1(k)
      <3>1. Byte(ss[j], p) <= Byte(ss[k], p)
        BY <1>7, <2>3 DEF InOrder
      <3> QED
        BY <2>3, <3>1
    <2> QED
      BY <1>3, <1>7, <2>1, <2>2, <2>3
  <1>8. b[p] <= w + 1
    BY <1>5
  <1> QED
    BY <1>6, <1>7, <1>8

(* A commit of the oldest slice keeps the order and takes no byte back. *)
LEMMA OrderCommit ==
  ASSUME NEW ss, GoodSeq(ss), ss # <<>>, NEW b \in [Offsets -> 0..MaxWrites], NEW w \in Nat,
         InOrder(ss, b, w)
  PROVE  /\ InOrder(ss, Overlay(b, ss[1]), w)
         /\ \A p \in Offsets : Overlay(b, ss[1])[p] >= b[p]
  <1> DEFINE o == Overlay(b, ss[1])
  <1>1. 1 \in 1..Len(ss) /\ Len(ss) \in Nat /\ ss[1] \in Slice
    <2>1. 1 \in 1..Len(ss) /\ Len(ss) \in Nat
      BY EmptySeq DEF GoodSeq
    <2> QED
      BY <2>1 DEF GoodSeq, Good
  <1>2. \A p \in Offsets : o[p] = IF Covers(ss[1], p) THEN Byte(ss[1], p) ELSE b[p]
    BY <1>1, OverlayFacts
  <1>3. \A j \in 1..Len(ss) : \A p \in Offsets : Covers(ss[j], p) => Byte(ss[j], p) \in Nat
    BY ByteType, BoundsAssumption DEF GoodSeq, Good
  <1> HIDE DEF o
  <1>4. ASSUME NEW p \in Offsets
        PROVE  /\ o[p] >= b[p] /\ o[p] <= w
               /\ \A j \in 1..Len(ss) : Covers(ss[j], p) => o[p] <= Byte(ss[j], p)
    <2>1. b[p] \in Nat /\ b[p] <= w
      BY BoundsAssumption DEF InOrder
    <2>2. \A j \in 1..Len(ss) : Covers(ss[j], p) => b[p] <= Byte(ss[j], p) /\ Byte(ss[j], p) <= w
      BY DEF InOrder
    <2>3. \A j \in 1..Len(ss) : Covers(ss[1], p) /\ Covers(ss[j], p) => Byte(ss[1], p) <= Byte(ss[j], p)
      <3> SUFFICES ASSUME NEW j \in 1..Len(ss), Covers(ss[1], p), Covers(ss[j], p)
                   PROVE  Byte(ss[1], p) <= Byte(ss[j], p)
        OBVIOUS
      <3>1. CASE j = 1
        BY <1>1, <1>3, <3>1
      <3>2. CASE j # 1
        <4>1. 1 < j
          BY <1>1, <3>2
        <4> QED
          BY <1>1, <4>1 DEF InOrder
      <3> QED
        BY <3>1, <3>2
    <2>4. CASE Covers(ss[1], p)
      BY <1>1, <1>2, <1>3, <2>1, <2>2, <2>3, <2>4
    <2>5. CASE ~Covers(ss[1], p)
      BY <1>2, <2>1, <2>2, <2>5
    <2> QED
      BY <2>4, <2>5
  <1>5. InOrder(ss, o, w)
    BY <1>4 DEF InOrder
  <1> QED
    BY <1>4, <1>5 DEF o

(* What is left after a slice is taken away is in order. *)
LEMMA OrderTail ==
  ASSUME NEW ss, GoodSeq(ss), ss # <<>>, NEW b, NEW w, InOrder(ss, b, w)
  PROVE  InOrder(Tail(ss), b, w)
  <1> DEFINE tt == Tail(ss)
  <1>1. /\ \A i \in 1..Len(tt) : i + 1 \in 1..Len(ss) /\ tt[i] = ss[i + 1]
        /\ Len(tt) \in Nat
    BY TailGood DEF GoodSeq
  <1>2. \A i, j \in 1..Len(tt) : i < j => i + 1 < j + 1
    BY <1>1
  <1> HIDE DEF tt
  <1>3. InOrder(tt, b, w)
    BY <1>1, <1>2, Zenon DEF InOrder
  <1> QED
    BY <1>3 DEF tt

(* Bytes are numbers. *)
LEMMA BytesNat ==
  ASSUME Base, NEW c \in Indexes
  PROVE  content[c] \in [Offsets -> 0..MaxWrites] /\ content[c] \in [Offsets -> Nat] /\ writes \in Nat
  BY BoundsAssumption DEF Base, BytesType, Bytes, WritesType

(* The order is kept by every step, which takes no byte of a chunk back. *)
LEMMA NextOrdered ==
  ASSUME Base, Step, Ordered, NEW c \in Indexes
  PROVE  /\ InOrder(slices'[c], content'[c], writes')
         /\ \A p \in Offsets : content'[c][p] >= content[c][p]
  <1> DEFINE ss == slices[c]
             b == content[c]
  <1>1. /\ GoodSeq(ss) /\ b \in [Offsets -> 0..MaxWrites] /\ b \in [Offsets -> Nat]
        /\ writes \in Nat /\ writes' \in Nat /\ writes <= writes' /\ InOrder(ss, b, writes)
        /\ cpc[c] = "none" <=> ss = <<>>
    <2>1. writes' \in {writes, writes + 1}
      BY DEF Step
    <2> QED
      BY <2>1, BytesNat DEF Base, SlicesType, CommitType, Ordered
  <1>2. \A p \in Offsets : b[p] >= b[p]
    BY <1>1
  <1>3. CASE Same(c)
    BY <1>1, <1>2, <1>3, OrderKin DEF Same
  <1>4. CASE \E i \in Nat, pos \in Offsets, size \in Nat : Wrote(c, i, pos, size)
    <2>1. PICK i \in Nat, pos \in Offsets, size \in Nat : Wrote(c, i, pos, size)
      BY <1>4
    <2>2. /\ Put(ss, slices'[c], i, pos, size, writes + 1) /\ writes' = writes + 1
          /\ content'[c] = b
      BY <2>1 DEF Wrote
    <2> QED
      BY <1>1, <1>2, <2>2, OrderPut
  <1>5. CASE Commits(c)
    <2>1. /\ ss # <<>> /\ slices'[c] = ss /\ content'[c] \in {b, Overlay(b, ss[1])}
      BY <1>1, <1>5 DEF Commits
    <2>2. KinSeq(ss, ss)
      BY <1>1, KinSelf
    <2>3. CASE content'[c] = b
      BY <1>1, <1>2, <2>1, <2>2, <2>3, OrderKin
    <2>4. CASE content'[c] = Overlay(b, ss[1])
      <3>1. ss[1] \in Slice
        <4>1. 1 \in 1..Len(ss)
          BY <1>1, <2>1, EmptySeq DEF GoodSeq
        <4> QED
          BY <1>1, <4>1 DEF GoodSeq, Good
      <3>2. Overlay(b, ss[1]) \in [Offsets -> Nat]
        BY <1>1, <3>1, OverlayFacts, BoundsAssumption
      <3>3. /\ InOrder(ss, Overlay(b, ss[1]), writes)
            /\ \A p \in Offsets : Overlay(b, ss[1])[p] >= b[p]
        BY <1>1, <2>1, OrderCommit
      <3> HIDE DEF ss, b
      <3>4. InOrder(ss, Overlay(b, ss[1]), writes')
        BY <1>1, <2>2, <3>2, <3>3, OrderKin
      <3> QED
        BY <2>1, <2>4, <3>3, <3>4 DEF b
    <2> QED
      BY <2>1, <2>3, <2>4
  <1>6. CASE Pops(c)
    <2>1. ss # <<>> /\ slices'[c] = Tail(ss) /\ content'[c] = b
      BY <1>1, <1>6 DEF Pops
    <2>2. KinSeq(Tail(ss), Tail(ss)) /\ GoodSeq(Tail(ss))
      BY <1>1, <2>1, TailGood, KinSelf
    <2>3. InOrder(Tail(ss), b, writes)
      BY <1>1, <2>1, OrderTail
    <2>4. InOrder(Tail(ss), b, writes')
      BY <1>1, <2>2, <2>3, OrderKin
    <2> QED
      BY <1>2, <2>1, <2>4
  <1> QED
    BY <1>3, <1>4, <1>5, <1>6, ChunkCases

(* The order of the bytes is an invariant. *)
LEMMA OrderedHolds == Spec => [](Base /\ Ordered)
  <1>1. Init => Base /\ Ordered
    <2> SUFFICES ASSUME Init PROVE Ordered
      BY InitBase
    <2>1. \A c \in Indexes : slices[c] = <<>> /\ \A p \in Offsets : content[c][p] = 0
      BY DEF Init, Zeros
    <2>2. writes = 0 /\ Len(<<>>) = 0
      BY DEF Init
    <2> QED
      BY <2>1, <2>2 DEF Ordered, InOrder
  <1>2. Base /\ Ordered /\ [Next]_vars => (Base /\ Ordered)'
    <2> SUFFICES ASSUME Base, Ordered, [Next]_vars PROVE Base' /\ Ordered'
      OBVIOUS
    <2>1. Step
      BY NextSteps
    <2>2. \A c \in Indexes : InOrder(slices'[c], content'[c], writes')
      BY <2>1, NextOrdered
    <2>3. Ordered'
      BY <2>2 DEF Ordered
    <2> QED
      BY <2>3, NextBase
  <1> QED
    BY <1>1, <1>2, PTL DEF Spec

(***************************************************************************)
(* No commit puts an older write over a newer one, whatever the goroutines *)
(* that upload the slices do, and with commits that fail with or without   *)
(* effect: a chunk's slices are committed from the oldest, and a write     *)
(* goes into an older slice only where no newer one has bytes.             *)
(***************************************************************************)
THEOREM InOrderCommits == Spec => CommitsInOrder
  <1>1. Base /\ Ordered /\ [Next]_vars =>
          [\A c \in Indexes, p \in Offsets : content'[c][p] >= content[c][p]]_content
    BY NextSteps, NextOrdered
  <1> QED
    BY <1>1, OrderedHolds, PTL DEF Spec, CommitsInOrder

-----------------------------------------------------------------------------
(***************************************************************************)
(* The last write: as long as no error is recorded or about to be, the     *)
(* newest slice that covers an offset holds what was last written there,   *)
(* the metadata does where no slice covers it.  A slice that was committed *)
(* and not yet taken away is in the metadata.                              *)
(***************************************************************************)
Newest(ss, i, p) == Covers(ss[i], p) /\ \A j \in 1..Len(ss) : j > i => ~Covers(ss[j], p)

Wins(ss, b, tr) ==
    \A p \in Offsets :
        /\ (\A i \in 1..Len(ss) : ~Covers(ss[i], p)) => b[p] = tr[p]
        /\ \A i \in 1..Len(ss) : Newest(ss, i, p) => Byte(ss[i], p) = tr[p]

Committed(ss, b) == \A p \in Offsets : Covers(ss[1], p) => b[p] = Byte(ss[1], p)

Clean == ~ferr /\ \A c \in Indexes : cpc[c] # "popErr"

Latest ==
    /\ \A c \in Indexes : cpc[c] = "pop" => Committed(slices[c], content[c])
    /\ Clean => \A c \in Indexes : Wins(slices[c], content[c], truth[c])

(* Freezing and uploading change no byte. *)
LEMMA WinsKin ==
  ASSUME NEW ss, NEW rr, KinSeq(ss, rr), NEW b, NEW tr, Wins(ss, b, tr)
  PROVE  Wins(rr, b, tr)
  <1>1. \A i \in 1..Len(rr) : \A p \in Offsets :
           (Covers(rr[i], p) <=> Covers(ss[i], p)) /\ Byte(rr[i], p) = Byte(ss[i], p)
    BY KinFacts DEF KinSeq
  <1>2. Len(rr) = Len(ss)
    BY DEF KinSeq
  <1>3. \A i \in 1..Len(rr) : \A p \in Offsets : Newest(rr, i, p) <=> Newest(ss, i, p)
    BY <1>1, <1>2, Zenon DEF Newest
  <1> QED
    BY <1>1, <1>2, <1>3, Zenon DEF Wins

(* A write: its bytes are those of the newest slice, and the others stay the last ones. *)
LEMMA WinsPut ==
  ASSUME NEW ss, NEW rr, NEW i, NEW pos, NEW size, NEW n, Put(ss, rr, i, pos, size, n),
         Len(ss) \in Nat, NEW b, NEW tr, NEW tr2, Wins(ss, b, tr),
         \A p \in Offsets : tr2[p] = IF p \in pos..(pos + size - 1) THEN n ELSE tr[p]
  PROVE  Wins(rr, b, tr2)
  <1>1. i \in 1..Len(rr) /\ Len(rr) \in Nat
    BY DEF Put, GoodSeq
  <1>2. ASSUME NEW p \in Offsets, p \in pos..(pos + size - 1)
        PROVE  /\ (\A j \in 1..Len(rr) : ~Covers(rr[j], p)) => b[p] = tr2[p]
               /\ \A j \in 1..Len(rr) : Newest(rr, j, p) => Byte(rr[j], p) = tr2[p]
    <2>1. Covers(rr[i], p) /\ Byte(rr[i], p) = n /\ tr2[p] = n
          /\ \A j \in 1..Len(rr) : j > i => ~Covers(rr[j], p)
      BY <1>2 DEF Put
    <2>2. ASSUME NEW j \in 1..Len(rr), Newest(rr, j, p) PROVE j = i
      <3>1. ~(j > i) /\ ~(i > j)
        BY <1>1, <2>1, <2>2 DEF Newest
      <3> QED
        BY <1>1, <3>1
    <2> QED
      BY <1>1, <2>1, <2>2
  <1>3. ASSUME NEW p \in Offsets, p \notin pos..(pos + size - 1)
        PROVE  /\ (\A j \in 1..Len(rr) : ~Covers(rr[j], p)) => b[p] = tr2[p]
               /\ \A j \in 1..Len(rr) : Newest(rr, j, p) => Byte(rr[j], p) = tr2[p]
    <2>1. tr2[p] = tr[p]
      BY <1>3
    <2>2. /\ \A j \in 1..Len(rr) :
                /\ Covers(rr[j], p) <=> j \in 1..Len(ss) /\ Covers(ss[j], p)
                /\ Covers(rr[j], p) => Byte(rr[j], p) = Byte(ss[j], p)
          /\ \A j \in 1..Len(ss) : j \in 1..Len(rr)
      BY <1>3, PutCovers
    <2>3. ASSUME NEW j \in 1..Len(rr), Newest(rr, j, p)
          PROVE  j \in 1..Len(ss) /\ Newest(ss, j, p) /\ Byte(rr[j], p) = Byte(ss[j], p)
      BY <2>2, <2>3, Zenon DEF Newest
    <2>4. (\A j \in 1..Len(rr) : ~Covers(rr[j], p)) => (\A j \in 1..Len(ss) : ~Covers(ss[j], p))
      BY <2>2, Zenon
    <2> QED
      BY <2>1, <2>3, <2>4, Zenon DEF Wins
  <1> QED
    BY <1>2, <1>3, Zenon DEF Wins

(* A commit changes the metadata only where a slice covers it. *)
LEMMA WinsCommit ==
  ASSUME NEW ss, GoodSeq(ss), ss # <<>>, NEW b \in [Offsets -> 0..MaxWrites], NEW tr, Wins(ss, b, tr)
  PROVE  Wins(ss, Overlay(b, ss[1]), tr)
  <1>1. 1 \in 1..Len(ss) /\ ss[1] \in Slice
    <2>1. 1 \in 1..Len(ss)
      BY EmptySeq DEF GoodSeq
    <2> QED
      BY <2>1 DEF GoodSeq, Good
  <1>2. \A p \in Offsets : Overlay(b, ss[1])[p] = IF Covers(ss[1], p) THEN Byte(ss[1], p) ELSE b[p]
    BY <1>1, OverlayFacts
  <1> QED
    BY <1>1, <1>2, Zenon DEF Wins

(* Taking away a slice that the metadata holds. *)
LEMMA WinsTail ==
  ASSUME NEW ss, GoodSeq(ss), ss # <<>>, NEW b, NEW tr, Wins(ss, b, tr), Committed(ss, b)
  PROVE  Wins(Tail(ss), b, tr)
  <1> DEFINE tt == Tail(ss)
  <1>1. /\ Len(tt) \in Nat /\ Len(ss) \in Nat /\ Len(ss) > 0 /\ Len(tt) = Len(ss) - 1
        /\ \A i \in 1..Len(tt) : i + 1 \in 1..Len(ss) /\ tt[i] = ss[i + 1]
    BY TailGood DEF GoodSeq
  <1> HIDE DEF tt
  <1>2. \A j \in 1..Len(ss) : j # 1 => j - 1 \in 1..Len(tt) /\ (j - 1) + 1 = j
    BY <1>1
  <1>3. \A j \in 1..Len(ss) : j # 1 => j - 1 \in 1..Len(tt) /\ tt[j - 1] = ss[j]
    BY <1>1, <1>2
  <1>4. \A i \in 1..Len(tt), j \in 1..Len(ss) : j > i + 1 => j # 1 /\ j - 1 > i
    BY <1>1
  <1>5. 1 \in 1..Len(ss) /\ \A j \in 1..Len(ss) : j > 1 => j # 1
    BY <1>1
  <1> SUFFICES ASSUME NEW p \in Offsets
               PROVE  /\ (\A i \in 1..Len(tt) : ~Covers(tt[i], p)) => b[p] = tr[p]
                      /\ \A i \in 1..Len(tt) : Newest(tt, i, p) => Byte(tt[i], p) = tr[p]
    BY DEF Wins, tt
  <1>6. ASSUME \A i \in 1..Len(tt) : ~Covers(tt[i], p) PROVE b[p] = tr[p]
    <2>1. \A j \in 1..Len(ss) : j # 1 => ~Covers(ss[j], p)
      BY <1>3, <1>6
    <2>2. CASE Covers(ss[1], p)
      <3>1. Newest(ss, 1, p)
        BY <1>5, <2>1, <2>2 DEF Newest
      <3> QED
        BY <1>5, <2>2, <3>1, Zenon DEF Wins, Committed
    <2>3. CASE ~Covers(ss[1], p)
      <3>1. \A j \in 1..Len(ss) : ~Covers(ss[j], p)
        BY <2>1, <2>3
      <3> QED
        BY <3>1 DEF Wins
    <2> QED
      BY <2>2, <2>3
  <1>7. ASSUME NEW i \in 1..Len(tt), Newest(tt, i, p) PROVE Byte(tt[i], p) = tr[p]
    <2>1. i + 1 \in 1..Len(ss) /\ tt[i] = ss[i + 1]
      BY <1>1
    <2>2. Newest(ss, i + 1, p)
      BY <1>3, <1>4, <1>7, <2>1, Zenon DEF Newest
    <2> QED
      BY <2>1, <2>2 DEF Wins
  <1> QED
    BY <1>6, <1>7

(* The oldest slice of a chunk whose commit is under way is not written to. *)
LEMMA OldestKept ==
  ASSUME Base, NEW c \in Indexes, cpc[c] \in {"pop", "popErr"}, ~Pops(c), Step
  PROVE  Kin(slices[c][1], slices'[c][1]) /\ content'[c] = content[c] /\ cpc'[c] = cpc[c]
  <1>1. /\ slices[c] # <<>> /\ slices[c][1].done /\ GoodSeq(slices[c])
    BY DEF Base, SlicesType, CommitType
  <1>2. 1 \in 1..Len(slices[c]) /\ Len(slices[c]) \in Nat
    BY <1>1, EmptySeq DEF GoodSeq
  <1>3. CASE Same(c)
    BY <1>2, <1>3 DEF Same, KinSeq
  <1>4. CASE \E i \in Nat, pos \in Offsets, size \in Nat : Wrote(c, i, pos, size)
    <2>1. PICK i \in Nat, pos \in Offsets, size \in Nat : Wrote(c, i, pos, size)
      BY <1>4
    <2>2. Put(slices[c], slices'[c], i, pos, size, writes + 1)
      BY <2>1 DEF Wrote
    <2>3. i # 1 /\ 1 \in 1..Len(slices'[c])
      BY <1>1, <1>2, <2>2 DEF Put
    <2> QED
      BY <1>1, <2>1, <2>2, <2>3 DEF Put, Wrote
  <1>5. CASE Commits(c)
    BY <1>5 DEF Commits
  <1> QED
    BY <1>3, <1>4, <1>5, ChunkCases

(* What was committed stays in the metadata until its slice is taken away. *)
LEMMA CommittedKept ==
  ASSUME Base, Step, Latest, NEW c \in Indexes, cpc'[c] = "pop"
  PROVE  Committed(slices'[c], content'[c])
  <1>1. CASE Commits(c)
    <2>1. /\ slices'[c] = slices[c] /\ content'[c] = Overlay(content[c], slices[c][1]) /\ slices[c] # <<>>
          /\ GoodSeq(slices[c]) /\ content[c] \in [Offsets -> 0..MaxWrites]
      BY <1>1, BytesNat DEF Commits, Base, SlicesType, CommitType
    <2>2. slices[c][1] \in Slice
      <3>1. 1 \in 1..Len(slices[c])
        BY <2>1, EmptySeq DEF GoodSeq
      <3> QED
        BY <2>1, <3>1 DEF GoodSeq, Good
    <2> QED
      BY <2>1, <2>2, OverlayFacts DEF Committed
  <1>2. CASE ~Commits(c)
    <2>1. ~Pops(c)
      BY DEF Pops
    <2>2. cpc[c] = "pop"
      BY <1>2, <2>1, ChunkCases DEF Same, Wrote
    <2>3. Kin(slices[c][1], slices'[c][1]) /\ content'[c] = content[c]
      BY <2>1, <2>2, OldestKept
    <2>4. Committed(slices[c], content[c])
      BY <2>2 DEF Latest
    <2> QED
      BY <2>3, <2>4, KinFacts DEF Committed
  <1> QED
    BY <1>1, <1>2

(* Every step that leaves the writer without an error keeps the last writes. *)
LEMMA WinsKept ==
  ASSUME Base, Step, Latest, Clean', NEW c \in Indexes
  PROVE  Wins(slices'[c], content'[c], truth'[c])
  <1> DEFINE ss == slices[c]
             b == content[c]
  <1>1. /\ GoodSeq(ss) /\ Len(ss) \in Nat /\ b \in [Offsets -> 0..MaxWrites]
        /\ cpc[c] = "none" <=> ss = <<>>
    BY BytesNat DEF Base, SlicesType, CommitType, GoodSeq
  <1>2. CASE Anew
    <2>1. Len(slices'[c]) = 0 /\ content'[c] = truth'[c]
      BY <1>2 DEF Anew, Same, KinSeq
    <2>2. 1..Len(slices'[c]) = {}
      BY <2>1
    <2> QED
      BY <2>1, <2>2 DEF Wins
  <1>3. CASE (ferr => ferr') /\ \A d \in Indexes : View(d)
    <2>1. ~ferr' /\ ~ferr
      BY <1>3 DEF Clean
    <2>2. ASSUME NEW d \in Indexes, cpc[d] = "popErr" PROVE FALSE
      <3>1. ~Pops(d)
        BY <2>1, <2>2 DEF Pops
      <3>2. cpc'[d] = "popErr"
        BY <2>2, <3>1, OldestKept
      <3> QED
        BY <3>2 DEF Clean
    <2>3. Clean
      BY <2>1, <2>2 DEF Clean
    <2>4. Wins(ss, b, truth[c])
      BY <2>3 DEF Latest
    <2>5. CASE Same(c) /\ Kept(c)
      BY <2>1, <2>4, <2>5, WinsKin DEF Same, Kept
    <2>6. CASE \E i \in Nat, pos \in Offsets, size \in Nat : Wrote(c, i, pos, size)
      <3>1. PICK i \in Nat, pos \in Offsets, size \in Nat : Wrote(c, i, pos, size)
        BY <2>6
      <3>2. /\ Put(ss, slices'[c], i, pos, size, writes + 1) /\ content'[c] = b
            /\ \A p \in Offsets : truth'[c][p] =
                  IF p \in pos..(pos + size - 1) THEN writes + 1 ELSE truth[c][p]
        BY <2>1, <3>1 DEF Wrote
      <3> QED
        BY <1>1, <2>4, <3>2, WinsPut
    <2>7. CASE Commits(c) /\ Kept(c)
      <3>1. /\ cpc'[c] = "pop" /\ slices'[c] = ss /\ content'[c] = Overlay(b, ss[1])
            /\ truth'[c] = truth[c] /\ ss # <<>>
        BY <1>1, <2>1, <2>7 DEF Commits, Kept, Clean
      <3> QED
        BY <1>1, <2>4, <3>1, WinsCommit
    <2>8. CASE Pops(c) /\ Kept(c)
      <3>1. /\ cpc[c] = "pop" /\ slices'[c] = Tail(ss) /\ content'[c] = b
            /\ truth'[c] = truth[c] /\ ss # <<>>
        BY <1>1, <2>1, <2>2, <2>8 DEF Pops, Kept
      <3>2. Committed(ss, b)
        BY <3>1 DEF Latest
      <3> QED
        BY <1>1, <2>4, <3>1, <3>2, WinsTail
    <2> QED
      BY <1>3, <2>5, <2>6, <2>7, <2>8 DEF View
  <1> QED
    BY <1>2, <1>3 DEF Step

(* The newest slices hold the last writes: an invariant. *)
LEMMA LatestHolds == Spec => [](Base /\ Latest)
  <1>1. Init => Base /\ Latest
    <2> SUFFICES ASSUME Init PROVE Latest
      BY InitBase
    <2>1. \A c \in Indexes : /\ slices[c] = <<>> /\ cpc[c] = "none"
                             /\ content[c] = truth[c]
      BY DEF Init
    <2>2. 1..Len(<<>>) = {}
      OBVIOUS
    <2> QED
      BY <2>1, <2>2 DEF Latest, Wins
  <1>2. Base /\ Latest /\ [Next]_vars => (Base /\ Latest)'
    <2> SUFFICES ASSUME Base, Latest, [Next]_vars PROVE Base' /\ Latest'
      OBVIOUS
    <2>1. Step
      BY NextSteps
    <2>2. \A c \in Indexes : cpc'[c] = "pop" => Committed(slices'[c], content'[c])
      BY <2>1, CommittedKept
    <2>3. Clean' => \A c \in Indexes : Wins(slices'[c], content'[c], truth'[c])
      BY <2>1, WinsKept
    <2>4. Latest'
      BY <2>2, <2>3 DEF Latest
    <2> QED
      BY <2>4, NextBase
  <1> QED
    BY <1>1, <1>2, PTL DEF Spec

(***************************************************************************)
(* The last write wins, for any number of handles, chunks, slices and      *)
(* writes: until an error is recorded, what the metadata holds, and will   *)
(* hold after the pending commits, at every offset is what was written     *)
(* there last, however findWritableSlice distributed the writes and in     *)
(* whatever order the slices were uploaded.                                *)
(***************************************************************************)
THEOREM LastWins == Spec => []LastWriteWins
  <1>1. Base /\ Latest => LastWriteWins
    <2> SUFFICES ASSUME Base, Latest, Clean, NEW c \in Indexes, NEW p \in Offsets
                 PROVE  Eventual(c, p) = truth[c][p]
      BY DEF LastWriteWins, Clean
    <2> DEFINE ss == slices[c]
               covering == {i \in 1..Len(ss) : Covers(ss[i], p)}
    <2>1. Wins(ss, content[c], truth[c]) /\ Len(ss) \in Nat
      BY DEF Latest, Base, SlicesType
    <2>2. CASE covering = {}
      <3>1. Eventual(c, p) = content[c][p]
        BY <2>2 DEF Eventual
      <3>2. \A i \in 1..Len(ss) : ~Covers(ss[i], p)
        BY <2>2
      <3> QED
        BY <2>1, <3>1, <3>2 DEF Wins
    <2>3. CASE covering # {}
      <3> DEFINE i == CHOOSE i \in covering : \A j \in covering : j <= i
      <3>1. \E k \in covering : \A j \in covering : j <= k
        BY <2>1, <2>3, Largest
      <3>2. i \in covering /\ \A j \in covering : j <= i
        BY <3>1
      <3>3. Eventual(c, p) = Byte(ss[i], p)
        BY <2>3 DEF Eventual, Byte
      <3> HIDE DEF i
      <3>4. i \in 1..Len(ss) /\ Newest(ss, i, p)
        <4>1. \A j \in 1..Len(ss) : j > i => j \notin covering
          BY <2>1, <3>2
        <4> QED
          BY <3>2, <4>1 DEF Newest
      <3> QED
        BY <2>1, <3>3, <3>4 DEF Wins
    <2> QED
      BY <2>2, <2>3
  <1> QED
    BY <1>1, LatestHolds, PTL

-----------------------------------------------------------------------------
(* What a flush waits for. *)
AllFrozen == \A c \in Indexes : \A i \in 1..Len(slices[c]) : slices[c][i].frozen

FlushFrozen == Flushing # {} => AllFrozen

(* Freezing or uploading a slice leaves the frozen ones frozen. *)
LEMMA SliceStepFrozen ==
  ASSUME Base, AllFrozen, NEW c \in Indexes, NEW i \in 1..Len(slices[c]), SliceStep(c, i)
  PROVE  AllFrozen'
  <1>1. slices \in [Indexes -> Seq(Slice)] /\ slices[c][i] \in Slice
    BY DEF Base, SlicesType, GoodSeq, Good
  <1>2. PICK s : s \in Slice /\ s.frozen /\ Update(c, i, s)
    <2>1. flushData(c, i)
      BY DEF AllFrozen, SliceStep, Freeze
    <2> DEFINE s == [slices[c][i] EXCEPT !.done = TRUE]
    <2>2. s \in Slice /\ s.frozen
      BY <1>1, <2>1 DEF Slice, flushData
    <2> QED
      BY <2>1, <2>2 DEF flushData
  <1> DEFINE ss == slices[c]
             rr == [ss EXCEPT ![i] = s]
  <1>3. ss \in Seq(Slice)
    BY <1>1
  <1>4. slices' = [slices EXCEPT ![c] = rr]
    BY <1>2 DEF Update
  <1>5. Len(rr) = Len(ss) /\ \A j \in 1..Len(ss) : rr[j] = IF j = i THEN s ELSE ss[j]
    <2> HIDE DEF ss
    <2>1. i \in 1..Len(ss)
      BY DEF ss
    <2> QED
      BY <1>2, <1>3, <2>1, ExceptSeq
  <1> HIDE DEF rr
  <1>6. \A d \in Indexes : slices'[d] = IF d = c THEN rr ELSE slices[d]
    BY <1>1, <1>4
  <1>7. \A j \in 1..Len(rr) : rr[j].frozen
    BY <1>2, <1>5 DEF AllFrozen
  <1> QED
    BY <1>6, <1>7 DEF AllFrozen

(* The slices that are left when the oldest is taken away are frozen if all were. *)
LEMMA CommitPopFrozen ==
  ASSUME Base, AllFrozen, NEW c \in Indexes, CommitPop(c)
  PROVE  AllFrozen'
  <1> DEFINE ss == slices[c]
  <1>1. GoodSeq(ss) /\ ss # <<>>
    BY DEF Base, SlicesType, CommitType, CommitPop
  <1>2. \A d \in Indexes : slices'[d] = IF d = c THEN Tail(ss) ELSE slices[d]
    BY DEF Base, SlicesType, CommitPop
  <1>3. \A i \in 1..Len(Tail(ss)) : Tail(ss)[i].frozen
    <2>1. \A i \in 1..Len(ss) : ss[i].frozen
      BY DEF AllFrozen
    <2> HIDE DEF ss
    <2> QED
      BY <1>1, <2>1, TailGood
  <1> HIDE DEF ss
  <1> QED
    BY <1>2, <1>3 DEF AllFrozen

(* FlushBegin freezes every slice. *)
LEMMA FlushBeginFrozen ==
  ASSUME Base, NEW t \in Threads, NEW how, FlushBegin(t, how)
  PROVE  AllFrozen'
  <1>1. ASSUME NEW c \in Indexes, NEW i \in 1..Len(slices'[c]) PROVE slices'[c][i].frozen
    <2> DEFINE ss == slices[c]
               e(k) == [ss[k] EXCEPT !.frozen = TRUE]
    <2>1. slices'[c] = [k \in 1..Len(ss) |-> e(k)]
      BY DEF FlushBegin, Frozen
    <2>2. \A k \in 1..Len(ss) : ss[k] \in Slice
      BY DEF Base, SlicesType, GoodSeq, Good
    <2>3. \A k \in 1..Len(ss) : e(k) \in Slice /\ e(k).frozen
      BY <2>2 DEF Slice
    <2>4. Len(ss) \in Nat
      BY DEF Base, SlicesType
    <2> HIDE DEF e, ss
    <2>5. slices'[c] \in [1..Len(ss) -> Slice]
      BY <2>1, <2>3
    <2>6. Len(slices'[c]) = Len(ss)
      BY <2>4, <2>5, FcnIsSeq
    <2> QED
      BY <2>1, <2>3, <2>6
  <1> QED
    BY <1>1 DEF AllFrozen

(* Every step: while a flush waits no slice is added that is not frozen. *)
LEMMA FlushFrozenStep ==
  ASSUME Base, FlushFrozen, [Next]_vars
  PROVE  FlushFrozen'
  <1>1. pc \in [Threads -> Labels]
    BY DEF Base, WritesType
  <1>2. ASSUME UNCHANGED slices, Flushing' \subseteq Flushing PROVE FlushFrozen'
    BY <1>2 DEF FlushFrozen, AllFrozen
  <1>3. ASSUME NEW t \in Threads, Open(t) \/ WriteCheck(t) \/ WriteInterrupted(t) \/ CloseFree(t)
        PROVE  FlushFrozen'
    BY <1>1, <1>2, <1>3 DEF Open, WriteCheck, WriteInterrupted, CloseFree, file, Goto, At, Flushing
  <1>4. ASSUME NEW t \in Threads, FlushEnd(t) \/ FlushTimeout(t) PROVE FlushFrozen'
    BY <1>1, <1>2, <1>4 DEF FlushEnd, FlushTimeout, file, Goto, After, Flushing
  <1>5. ASSUME NEW t \in Threads, NEW r \in Ranges, Write(t, r[1], r[2]) PROVE FlushFrozen'
    <2>1. Flushing = {} /\ pc' = [pc EXCEPT ![t] = "idle"]
      BY <1>5 DEF Write, Goto
    <2>2. Flushing' = {}
      BY <1>1, <2>1 DEF Flushing
    <2> QED
      BY <2>2 DEF FlushFrozen
  <1>6. ASSUME NEW t \in Threads, NEW how \in {"flush", "close"}, FlushBegin(t, how) PROVE FlushFrozen'
    BY <1>6, FlushBeginFrozen DEF FlushFrozen
  <1>7. ASSUME Background PROVE FlushFrozen'
    <2>1. ASSUME NEW c \in Indexes, CommitWrite(c) PROVE FlushFrozen'
      BY <1>2, <2>1 DEF CommitWrite, Flushing
    <2>2. ASSUME NEW c \in Indexes, CommitPop(c) PROVE FlushFrozen'
      <3>1. Flushing' = Flushing
        BY <2>2 DEF CommitPop, Flushing
      <3> QED
        BY <2>2, <3>1, CommitPopFrozen DEF FlushFrozen
    <2>3. ASSUME NEW c \in Indexes, NEW i \in 1..Len(slices[c]), SliceStep(c, i) PROVE FlushFrozen'
      <3>1. Flushing' = Flushing
        BY <2>3 DEF SliceStep, Freeze, flushData, SliceOnly, Flushing
      <3> QED
        BY <2>3, <3>1, SliceStepFrozen DEF FlushFrozen
    <2>4. ASSUME CommitFree PROVE FlushFrozen'
      BY <1>2, <2>4 DEF CommitFree, Flushing
    <2> QED
      BY <1>7, <2>1, <2>2, <2>3, <2>4 DEF Background
  <1>8. ASSUME UNCHANGED vars PROVE FlushFrozen'
    BY <1>2, <1>8 DEF vars, file, Flushing
  <1> QED
    BY <1>3, <1>4, <1>5, <1>6, <1>7, <1>8 DEF Next

(* A flush that waits waits for frozen slices, of chunks that have a commit thread. *)
LEMMA FlushAttended == Spec => []FlushWaitsForUploads
  <1>1. Init => FlushFrozen
    BY DEF Init, FlushFrozen, Flushing
  <1>2. Base /\ FlushFrozen /\ [Next]_vars => FlushFrozen'
    BY FlushFrozenStep
  <1>3. Base /\ FlushFrozen => FlushWaitsForUploads
    BY DEF Base, CommitType, FlushFrozen, AllFrozen, FlushWaitsForUploads, Pending
  <1> QED
    BY <1>1, <1>2, <1>3, BaseHolds, PTL DEF Spec

(***************************************************************************)
(* With any handles writing, flushing and giving up, the fileWriter stays  *)
(* referenced while a chunk has slices (a commit thread's own reference,   *)
(* taken with the first slice and given back after the last, holds it when *)
(* every handle is closed), and a flush that waits waits for slices that   *)
(* are frozen and chunks that have a commit thread: the part of Drains     *)
(* that does not depend on the scheduler.                                  *)
(***************************************************************************)
THEOREM NoSliceLeft == Spec => []SlicesAttended
  BY WriterReferenced, FlushAttended, PTL DEF SlicesAttended

==============================================================================
