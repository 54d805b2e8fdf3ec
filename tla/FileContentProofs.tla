------------------------- MODULE FileContentProofs --------------------------
(***************************************************************************)
(* Why reads on one handle add up to the file and the block cache keeps    *)
(* its limit, for files, blocks, pages, requests and caches of any size    *)
(* and any number of handlers and revisions.                               *)
(***************************************************************************)
EXTENDS FileContent, SequenceTheorems, FiniteSetTheorems, TLAPS

(* The blocks an answer holds so far end before this one.                   *)
Gathered(w) == IF w.pc \in {"writing", "locking", "evicting"} THEN w.idx + 1 ELSE w.idx

(* Where the first block and the last gathered end in the file.             *)
From(w) == StartBlock(w) * BlockSize
Upto(w) == Least(size[w.rev], Gathered(w) * BlockSize)

Room(f, u) == IF f <= u THEN u - f ELSE 0

Busy(w) == w.pc \notin {"idle", "revision"}

(* A handler is at a block of its range; when the range has bytes at all,   *)
(* the block they begin in is among those it goes through.                  *)
RangeOK(w) ==
  /\ w.pc # "idle" => w.length > 0
  /\ w.pc = "revision" => ~ w.offline
  /\ Busy(w) => /\ StartBlock(w) <= w.idx
                /\ w.offline => w.last = EndBlock(w)
                /\ w.offset < size[w.rev] => StartBlock(w) <= w.last

RangeInv == \A h \in Handlers : RangeOK(work[h])

(* The handler the client waits for reads on from the handle's offset, and  *)
(* holds the blocks it went through, whole unless it noted otherwise.       *)
ReaderOK(hd, w) ==
  /\ hd.open /\ ~ hd.eof /\ w.pc # "idle" /\ w.offset = hd.offset
  /\ w.pc = "revision" => w.buf = << >> /\ ~ w.torn
  /\ Busy(w) => /\ Len(w.buf) <= Room(From(w), Upto(w))
                /\ ~ w.torn => w.buf = SubSeq(Content(w.rev), From(w) + 1, Upto(w))

ReaderInv == \A h \in Handlers : reader = h => ReaderOK(handle, work[h])

(* What the client has read.                                                *)
HandleInv ==
  ~ handle.spoiled =>
    \/ handle.rev = NoRev /\ handle.data = << >> /\ handle.offset = 0 /\ ~ handle.eof
    \/ /\ handle.rev \in Revisions /\ handle.offset <= size[handle.rev]
       /\ handle.data = SubSeq(Content(handle.rev), 1, handle.offset)
       /\ handle.eof => handle.offset = size[handle.rev]

FileInv == TypeOK /\ RangeInv /\ ReaderInv /\ HandleInv

-----------------------------------------------------------------------------
(* Blocks and offsets.                                                      *)
LEMMA DivFacts ==
  ASSUME NEW a \in Nat
  PROVE  /\ a \div BlockSize \in Nat /\ (a \div BlockSize) * BlockSize \in Nat
         /\ (a \div BlockSize) * BlockSize <= a
         /\ a < (a \div BlockSize + 1) * BlockSize
BY SizesAssumption

(* Block boundaries follow each other.                                      *)
LEMMA BoundaryFacts ==
  ASSUME NEW i \in Nat, NEW j \in Nat
  PROVE  /\ i * BlockSize \in Nat
         /\ (i + 1) * BlockSize = i * BlockSize + BlockSize
         /\ i <= j => i * BlockSize <= j * BlockSize
BY SizesAssumption

(* The bytes of a revision.                                                 *)
LEMMA ContentFacts ==
  ASSUME ServerType, NEW r \in Revisions
  PROVE  /\ size[r] \in Nat /\ Content(r) \in Seq(Bytes) /\ Len(Content(r)) = size[r]
         /\ r \in Nat
<1>1. size[r] \in Nat /\ r \in Nat
  <2>1. size[r] \in FileSizes
    BY DEF ServerType
  <2>2. r \in Nat
    BY SizesAssumption DEF Revisions
  <2> QED BY <2>1, <2>2, SizesAssumption
<1>2. Content(r) \in [1 .. size[r] -> Bytes]
  BY <1>1 DEF Content, Bytes
<1> QED BY <1>1, <1>2

(* A stretch of a revision.                                                 *)
LEMMA StretchFacts ==
  ASSUME ServerType, NEW r \in Revisions, NEW m \in Nat, NEW n \in Nat, n <= size[r]
  PROVE  /\ SubSeq(Content(r), m + 1, n) \in Seq(Bytes)
         /\ Len(SubSeq(Content(r), m + 1, n)) = IF m <= n THEN n - m ELSE 0
         /\ m >= n => SubSeq(Content(r), m + 1, n) = << >>
<1>1. size[r] \in Nat /\ Content(r) \in Seq(Bytes) /\ Len(Content(r)) = size[r]
  BY ContentFacts
<1>2. \A i \in m + 1 .. n : Content(r)[i] \in Bytes
  BY <1>1
<1>3. /\ SubSeq(Content(r), m + 1, n) \in Seq(Bytes)
      /\ Len(SubSeq(Content(r), m + 1, n)) = IF m + 1 <= n THEN n - (m + 1) + 1 ELSE 0
  BY <1>2, SubSeqProperties
<1>4. m >= n => SubSeq(Content(r), m + 1, n) = << >>
  BY SubSeqEmpty
<1> QED BY <1>3, <1>4

(* The bytes of a block.                                                    *)
LEMMA BlockFacts ==
  ASSUME ServerType, NEW r \in Revisions, NEW i \in Nat
  PROVE  /\ Block(r, i) = SubSeq(Content(r), i * BlockSize + 1, Least(size[r], (i + 1) * BlockSize))
         /\ Block(r, i) \in Seq(Bytes) /\ Len(Block(r, i)) \in Nat
         /\ Least(size[r], i * BlockSize) \in Nat /\ Least(size[r], (i + 1) * BlockSize) \in Nat
         /\ Least(size[r], i * BlockSize) + Len(Block(r, i)) = Least(size[r], (i + 1) * BlockSize)
<1>1. size[r] \in Nat
  BY ContentFacts
<1>2. /\ i * BlockSize \in Nat /\ (i + 1) * BlockSize \in Nat /\ BlockSize \in Nat
      /\ (i + 1) * BlockSize = i * BlockSize + BlockSize
  BY BoundaryFacts, SizesAssumption
<1> DEFINE m == i * BlockSize
           n == Least(size[r], (i + 1) * BlockSize)
<1>3. m \in Nat /\ n \in Nat /\ n <= size[r] /\ m = i * BlockSize
  BY <1>1, <1>2 DEF Least
<1>4. Block(r, i) = SubSeq(Content(r), m + 1, n)
  BY DEF Block
<1> HIDE DEF m, n
<1>5. Block(r, i) \in Seq(Bytes) /\ Len(Block(r, i)) = IF m <= n THEN n - m ELSE 0
  <2>1. /\ SubSeq(Content(r), m + 1, n) \in Seq(Bytes)
        /\ Len(SubSeq(Content(r), m + 1, n)) = IF m <= n THEN n - m ELSE 0
    BY <1>3, StretchFacts
  <2> QED BY <1>4, <2>1
<1>6. (m <= size[r] => m <= n) /\ (m > size[r] => n = size[r])
  BY <1>1, <1>2, <1>3 DEF Least, n
<1>7. Least(size[r], m) \in Nat /\ Least(size[r], m) + Len(Block(r, i)) = n
  BY <1>1, <1>3, <1>5, <1>6 DEF Least
<1>8. Len(Block(r, i)) \in Nat
  BY <1>5
<1> QED BY <1>3, <1>4, <1>5, <1>7, <1>8 DEF m, n

(* One block more.                                                          *)
LEMMA ExtendFacts ==
  ASSUME ServerType, NEW r \in Revisions, NEW f \in Nat, NEW i \in Nat, f <= i * BlockSize
  PROVE  SubSeq(Content(r), f + 1, Least(size[r], i * BlockSize)) \o Block(r, i)
           = SubSeq(Content(r), f + 1, Least(size[r], (i + 1) * BlockSize))
<1> DEFINE m == i * BlockSize
           n == Least(size[r], (i + 1) * BlockSize)
           C == Content(r)
<1>1. size[r] \in Nat /\ C \in Seq(Bytes) /\ Len(C) = size[r]
  BY ContentFacts
<1>2. m \in Nat /\ n \in Nat /\ m = i * BlockSize /\ n <= size[r] /\ (m <= size[r] => m <= n)
      /\ (m > size[r] => n = size[r])
  <2>1. BlockSize \in Nat /\ m \in Nat /\ (i + 1) * BlockSize = m + BlockSize
    BY BoundaryFacts, SizesAssumption
  <2> QED BY <1>1, <2>1 DEF Least
<1>3. Block(r, i) = SubSeq(C, m + 1, n)
  BY DEF Block
<1> HIDE DEF m, n, C
<1>4. CASE m <= size[r]
  <2>1. Least(size[r], m) = m
    BY <1>1, <1>2, <1>4 DEF Least
  <2>2. f + 1 \in 1 .. Len(C) + 1 /\ m \in f + 1 - 1 .. Len(C) /\ n \in m .. Len(C)
    BY <1>1, <1>2, <1>4
  <2>3. SubSeq(C, f + 1, m) \o SubSeq(C, m + 1, n) = SubSeq(C, f + 1, n)
    BY <1>1, <2>2, ConcatAdjacentSubSeq
  <2>4. SubSeq(C, f + 1, Least(size[r], m)) \o Block(r, i) = SubSeq(C, f + 1, n)
    BY <1>3, <2>1, <2>3
  <2> QED BY <2>4 DEF C, m, n
<1>5. CASE m > size[r]
  <2>1. Least(size[r], m) = size[r] /\ n = size[r]
    BY <1>1, <1>2, <1>5 DEF Least
  <2>2. Block(r, i) = << >>
    BY <1>1, <1>2, <1>3, <1>5, <2>1, SubSeqEmpty
  <2>3. SubSeq(C, f + 1, size[r]) \in Seq(Bytes)
    BY <1>1, StretchFacts DEF C
  <2>4. SubSeq(C, f + 1, size[r]) \o << >> = SubSeq(C, f + 1, size[r])
    BY <2>3, ConcatEmptySeq
  <2>5. SubSeq(C, f + 1, Least(size[r], m)) \o Block(r, i) = SubSeq(C, f + 1, n)
    BY <2>1, <2>2, <2>4
  <2> QED BY <2>5 DEF C, m, n
<1>6. m <= size[r] \/ m > size[r]
  BY <1>1, <1>2
<1> QED BY <1>4, <1>5, <1>6

(* Removing a key from a list without doubles, and putting it last.         *)
LEMMA RemoveFacts ==
  ASSUME NEW S, NEW s \in Seq(S), NEW e, IsInjective(s)
  PROVE  LET r == RemoveFirst(s, e)
         IN  r \in Seq(S) /\ IsInjective(r) /\ Range(r) = Range(s) \ {e}
<1>0. DOMAIN s = 1 .. Len(s) /\ Len(s) \in Nat
  OBVIOUS
<1>1. CASE ~ \E i \in 1 .. Len(s) : s[i] = e
  <2>1. RemoveFirst(s, e) = s
    BY <1>1 DEF RemoveFirst
  <2>2. e \notin Range(s)
    BY <1>0, <1>1 DEF Range
  <2> QED BY <2>1, <2>2
<1>2. CASE \E i \in 1 .. Len(s) : s[i] = e
  <2>1. PICK i \in 1 .. Len(s) : s[i] = e
    BY <1>2
  <2>2. {j \in 1 .. Len(s) : s[j] = e} = {i}
    BY <1>0, <2>1 DEF IsInjective
  <2>3. Min({i}) = i
    BY <2>1 DEF Min
  <2>4. SelectInSeq(s, LAMBDA v : v = e) = i
    BY <2>2, <2>3 DEF SelectInSeq
  <2> DEFINE a == SubSeq(s, 1, i - 1)
             b == SubSeq(s, i + 1, Len(s))
             r == a \o b
  <2>5. RemoveFirst(s, e) = r
    BY <1>2, <2>4 DEF RemoveFirst, RemoveAt
  <2>6. /\ a \in Seq(S) /\ Len(a) = i - 1 /\ \A j \in 1 .. i - 1 : a[j] = s[j]
        /\ b \in Seq(S) /\ Len(b) = Len(s) - i /\ \A j \in 1 .. Len(s) - i : b[j] = s[i + j]
    <3>1. a \in Seq(S) /\ Len(a) = i - 1 /\ \A j \in 1 .. i - 1 : a[j] = s[j]
      BY <2>1
    <3>2. b \in Seq(S) /\ Len(b) = Len(s) - i /\ \A j \in 1 .. Len(s) - i : b[j] = s[i + j]
      BY <2>1
    <3> QED BY <3>1, <3>2
  <2> HIDE DEF a, b
  <2>7. /\ r \in Seq(S) /\ Len(r) = Len(a) + Len(b)
        /\ \A j \in 1 .. Len(a) + Len(b) : r[j] = IF j <= Len(a) THEN a[j] ELSE b[j - Len(a)]
    BY <2>6, ConcatProperties
  <2> HIDE DEF r
  <2>8. /\ Len(r) = Len(s) - 1 /\ DOMAIN r = 1 .. Len(s) - 1
        /\ \A j \in 1 .. Len(s) - 1 : r[j] = IF j < i THEN s[j] ELSE s[j + 1]
    <3>1. Len(r) = Len(s) - 1
      BY <1>0, <2>1, <2>6, <2>7
    <3>2. ASSUME NEW j \in 1 .. Len(s) - 1 PROVE r[j] = IF j < i THEN s[j] ELSE s[j + 1]
      <4>1. j \in 1 .. Len(a) + Len(b) /\ (j <= Len(a) <=> j < i)
        BY <1>0, <2>1, <2>6
      <4>2. CASE j < i
        BY <2>6, <2>7, <4>1, <4>2
      <4>3. CASE ~ j < i
        <5>1. j - Len(a) \in 1 .. Len(s) - i /\ i + (j - Len(a)) = j + 1
          BY <1>0, <2>1, <2>6, <4>3
        <5>2. r[j] = b[j - Len(a)]
          BY <2>7, <4>1, <4>3
        <5> QED BY <2>6, <4>3, <5>1, <5>2
      <4> QED BY <4>2, <4>3
    <3> QED BY <2>7, <3>1, <3>2
  <2>9. IsInjective(r)
    <3> SUFFICES ASSUME NEW j \in 1 .. Len(s) - 1, NEW k \in 1 .. Len(s) - 1, r[j] = r[k]
                 PROVE  j = k
      BY <2>8 DEF IsInjective
    <3> DEFINE at(n) == IF n < i THEN n ELSE n + 1
    <3>1. at(j) \in 1 .. Len(s) /\ at(k) \in 1 .. Len(s) /\ (at(j) = at(k) => j = k)
      BY <1>0, <2>1
    <3>2. r[j] = s[at(j)] /\ r[k] = s[at(k)]
      BY <2>8
    <3> HIDE DEF at
    <3> QED BY <1>0, <3>1, <3>2 DEF IsInjective
  <2>10. Range(r) = Range(s) \ {e}
    <3>1. ASSUME NEW x \in Range(r) PROVE x \in Range(s) /\ x # e
      <4>1. PICK j \in 1 .. Len(s) - 1 : r[j] = x
        BY <2>8 DEF Range
      <4>2. PICK k \in 1 .. Len(s) : k # i /\ s[k] = x
        BY <1>0, <2>1, <2>8, <4>1
      <4> QED BY <1>0, <2>1, <4>2 DEF Range, IsInjective
    <3>2. ASSUME NEW x \in Range(s), x # e PROVE x \in Range(r)
      <4>1. PICK k \in 1 .. Len(s) : s[k] = x
        BY <1>0 DEF Range
      <4>2. k # i
        BY <2>1, <3>2, <4>1
      <4>3. CASE k < i
        <5>1. k \in 1 .. Len(s) - 1 /\ r[k] = x
          BY <1>0, <2>1, <2>8, <4>1, <4>3
        <5> QED BY <2>8, <5>1 DEF Range
      <4>4. CASE k > i
        <5>1. k - 1 \in 1 .. Len(s) - 1 /\ r[k - 1] = s[k - 1 + 1] /\ k - 1 + 1 = k
          BY <1>0, <2>1, <2>8, <4>1, <4>4
        <5> QED BY <2>8, <4>1, <5>1 DEF Range
      <4> QED BY <2>1, <4>1, <4>2, <4>3, <4>4
    <3> QED BY <3>1, <3>2
  <2> QED BY <2>5, <2>7, <2>9, <2>10
<1> QED BY <1>1, <1>2

(* The list of block files once one was used.                               *)
LEMMA TouchedFacts ==
  ASSUME CacheType, NEW k \in Keys
  PROVE  Touched(k) \in Seq(Keys) /\ IsInjective(Touched(k)) /\ Range(Touched(k)) = Range(order) \cup {k}
<1> DEFINE r == RemoveFirst(order, k)
<1>1. r \in Seq(Keys) /\ IsInjective(r) /\ Range(r) = Range(order) \ {k}
  BY RemoveFacts DEF CacheType
<1>2. Touched(k) = Append(r, k)
  BY DEF Touched
<1> HIDE DEF r
<1>3. /\ Append(r, k) \in Seq(Keys) /\ Len(Append(r, k)) = Len(r) + 1 /\ Len(r) \in Nat
      /\ DOMAIN Append(r, k) = 1 .. Len(r) + 1 /\ DOMAIN r = 1 .. Len(r)
      /\ \A i \in 1 .. Len(r) : Append(r, k)[i] = r[i]
      /\ Append(r, k)[Len(r) + 1] = k
  BY <1>1, AppendProperties
<1> DEFINE t == Append(r, k)
<1> HIDE DEF t
<1>4. \A i \in 1 .. Len(r) : r[i] # k
  BY <1>1, <1>3 DEF Range
<1>5. \A i \in 1 .. Len(r) + 1 : i \in 1 .. Len(r) \/ i = Len(r) + 1
  BY <1>3
<1>6. IsInjective(t)
  BY <1>1, <1>3, <1>4, <1>5 DEF IsInjective, t
<1>7. Range(t) = Range(r) \cup {k}
  <2>1. ASSUME NEW x \in Range(t) PROVE x \in Range(r) \cup {k}
    BY <1>3, <1>5 DEF Range, t
  <2>2. ASSUME NEW x \in Range(r) PROVE x \in Range(t)
    BY <1>3 DEF Range, t
  <2>3. k \in Range(t)
    <3>1. Len(r) + 1 \in 1 .. Len(r) + 1
      BY <1>3
    <3> QED BY <1>3, <3>1 DEF Range, t
  <2> QED BY <2>1, <2>2, <2>3
<1> QED BY <1>1, <1>2, <1>3, <1>6, <1>7 DEF t

-----------------------------------------------------------------------------
(* The fields of a handler's record.                                        *)
LEMMA WorkFields ==
  ASSUME NEW w, IsWork(w)
  PROVE  /\ w.pc \in Pcs /\ w.rev \in Revisions /\ w.offset \in Nat /\ w.length \in Nat
         /\ w.idx \in Nat /\ w.last \in Int /\ w.offline \in BOOLEAN /\ w.torn \in BOOLEAN
         /\ w.buf \in Seq(Bytes) /\ w.files \in Seq(Keys \X Nat) /\ w.total \in Int
BY DEF IsWork

(* What was said of a handler's record says the same after a step: the      *)
(* sizes of revisions never change.                                         *)
LEMMA Unmoved ==
  ASSUME size' = size
  PROVE  /\ \A w : RangeOK(w)' <=> RangeOK(w)
         /\ \A hd, w : ReaderOK(hd, w)' <=> ReaderOK(hd, w)
         /\ \A r, i : Block(r, i)' = Block(r, i)
         /\ \A r : Content(r)' = Content(r)
<1>1. \A r : Content(r)' = Content(r)
  BY DEF Content
<1>2. \A r, i : Block(r, i)' = Block(r, i)
  BY <1>1 DEF Block
<1>3. \A w : EndBlock(w)' = EndBlock(w) /\ StartBlock(w)' = StartBlock(w) /\ Busy(w)' = Busy(w)
  BY DEF EndBlock, StartBlock, Busy
<1>4. \A w : Upto(w)' = Upto(w) /\ From(w)' = From(w)
  BY DEF Upto, From, Gathered, StartBlock
<1>5. \A w : RangeOK(w)' <=> RangeOK(w)
  BY <1>3 DEF RangeOK
<1>6. \A hd, w : ReaderOK(hd, w)' <=> ReaderOK(hd, w)
  BY <1>1, <1>3, <1>4 DEF ReaderOK
<1> QED BY <1>1, <1>2, <1>5, <1>6

(* A step of one handler keeps the invariant when the handler's new record  *)
(* is in order: the others', and the client's, are not its business.        *)
LEMMA HandlerMoves ==
  ASSUME FileInv, NEW h \in Handlers, NEW w, IsWork(w), Do(h, w), size' = size, head' = head,
         HandleType', HandleInv', CacheType',
         RangeOK(w), reader' = h => ReaderOK(handle', w),
         reader' \in Handlers \cup {Nobody},
         \A g \in Handlers \ {h} : reader' = g => reader = g /\ handle' = handle,
         mu' \in Handlers \cup {Nobody}, w.pc = "evicting" <=> mu' = h,
         \A g \in Handlers \ {h} : mu' = g <=> mu = g
  PROVE  FileInv'
<1>0. ServerType /\ WorkType /\ RangeInv /\ ReaderInv
  BY DEF FileInv, TypeOK
<1>1. /\ DOMAIN work' = Handlers /\ work'[h] = w
      /\ \A g \in Handlers \ {h} : work'[g] = work[g]
  BY <1>0 DEF Do, WorkType
<1>2. ServerType'
  BY <1>0 DEF ServerType
<1>3. WorkType'
  <2>1. \A g \in Handlers : IsWork(work'[g])
    BY <1>0, <1>1 DEF WorkType
  <2>2. \A g \in Handlers : work'[g].pc = "evicting" <=> mu' = g
    BY <1>0, <1>1 DEF WorkType
  <2>3. (\A g \in Handlers : IsWork(work[g]))' <=> \A g \in Handlers : IsWork(work'[g])
    BY DEF IsWork
  <2> QED BY <1>1, <2>1, <2>2, <2>3 DEF WorkType
<1>4. RangeInv'
  <2>1. \A g \in Handlers : RangeOK(work'[g])
    BY <1>0, <1>1 DEF RangeInv
  <2>2. \A g \in Handlers : RangeOK(work[g])' <=> RangeOK(work'[g])
    BY DEF RangeOK, Busy, StartBlock, EndBlock
  <2> QED BY <2>1, <2>2 DEF RangeInv
<1>5. ReaderInv'
  <2>1. \A g \in Handlers : reader' = g => ReaderOK(handle', work'[g])
    BY <1>0, <1>1 DEF ReaderInv
  <2>2. \A g \in Handlers : ReaderOK(handle, work[g])' <=> ReaderOK(handle', work'[g])
    BY DEF ReaderOK, Busy, StartBlock, Upto, From, Gathered, Content
  <2> QED BY <2>1, <2>2 DEF ReaderInv
<1> QED BY <1>2, <1>3, <1>4, <1>5 DEF FileInv, TypeOK

(* The same for a step that leaves the client and the mutex alone.          *)
LEMMA HandlerMovesAlone ==
  ASSUME FileInv, NEW h \in Handlers, NEW w, IsWork(w), Do(h, w), CacheType',
         UNCHANGED <<size, head, handle, reader, mu>>,
         RangeOK(w), reader = h => ReaderOK(handle, w), w.pc = "evicting" <=> mu = h
  PROVE  FileInv'
<1>1. HandleType' /\ HandleInv'
  <2>1. \A r : Content(r)' = Content(r)
    BY DEF Content
  <2> QED BY <2>1 DEF FileInv, TypeOK, HandleType, HandleInv
<1>2. reader' \in Handlers \cup {Nobody} /\ mu' \in Handlers \cup {Nobody}
  BY DEF FileInv, TypeOK, WorkType
<1> QED BY <1>1, <1>2, HandlerMoves

(* What a handler's step needs to know of its record.                       *)
LEMMA HandlerAt ==
  ASSUME FileInv, NEW h \in Handlers
  PROVE  /\ IsWork(work[h]) /\ RangeOK(work[h]) /\ ServerType /\ CacheType
         /\ reader = h => ReaderOK(handle, work[h])
         /\ work[h].pc = "evicting" <=> mu = h
BY DEF FileInv, TypeOK, WorkType, RangeInv, ReaderInv

(* The cache is left alone.                                                 *)
LEMMA CacheUnmoved ==
  ASSUME FileInv, UNCHANGED <<size, blocks, order>>,
         mishaps' \in 0 .. MaxMishaps, excess' \in BOOLEAN
  PROVE  CacheType'
<1>1. \A r, i : Block(r, i)' = Block(r, i)
  BY Unmoved
<1>2. \A k \in DOMAIN blocks : Block(k[1], k[2])' = Block(k[1], k[2])
  BY <1>1
<1> QED BY <1>2 DEF FileInv, TypeOK, CacheType

(* The blocks a range begins and ends in.                                   *)
LEMMA RangeFacts ==
  ASSUME ServerType, NEW w, IsWork(w)
  PROVE  /\ StartBlock(w) \in Nat /\ From(w) \in Nat /\ From(w) <= w.offset
         /\ w.offset < (StartBlock(w) + 1) * BlockSize
         /\ EndBlock(w) \in Nat /\ BlockCount(w.rev) \in Nat /\ size[w.rev] \in Nat
         /\ w.offset < size[w.rev] => StartBlock(w) < BlockCount(w.rev)
         /\ w.offset < size[w.rev] /\ w.length > 0 => StartBlock(w) <= EndBlock(w)
<1> DEFINE o == w.offset
           z == size[w.rev]
           q == o \div BlockSize
<1>0. o \in Nat /\ w.length \in Nat /\ w.rev \in Revisions /\ z \in Nat
  BY WorkFields, ContentFacts
<1>1. BlockSize \in Nat \ {0}
  BY SizesAssumption
<1>2. q \in Nat /\ q * BlockSize \in Nat /\ q * BlockSize <= o /\ o < (q + 1) * BlockSize
  BY <1>0, DivFacts
<1>3. StartBlock(w) = q /\ From(w) = q * BlockSize
  BY DEF StartBlock, From
<1> HIDE DEF q
<1>4. BlockCount(w.rev) \in Nat /\ (o < z => q < BlockCount(w.rev))
  <2> DEFINE a == z + BlockSize - 1
             p == a \div BlockSize
  <2>1. a \in Nat /\ BlockCount(w.rev) = p
    BY <1>0, <1>1 DEF BlockCount
  <2>2. p \in Nat /\ a < (p + 1) * BlockSize
    BY <2>1, DivFacts
  <2>3. (q + 1) * BlockSize = q * BlockSize + BlockSize
    BY <1>2, BoundaryFacts
  <2> HIDE DEF p
  <2>4. ASSUME o < z, p <= q PROVE FALSE
    <3>1. (p + 1) * BlockSize <= (q + 1) * BlockSize
      BY <1>2, <2>2, <2>4, BoundaryFacts
    <3>2. (p + 1) * BlockSize \in Nat
      BY <2>2, BoundaryFacts
    <3> QED BY <1>0, <1>1, <1>2, <2>1, <2>2, <2>3, <2>4, <3>1, <3>2
  <2> QED BY <1>2, <2>1, <2>2, <2>4
<1>5. EndBlock(w) \in Nat /\ (o < z /\ w.length > 0 => q <= EndBlock(w))
  <2> DEFINE e == Least(z, o + w.length)
             p == (e - 1) \div BlockSize
  <2>1. e \in Nat /\ (o < z /\ w.length > 0 => o <= e - 1)
    BY <1>0 DEF Least
  <2>2. EndBlock(w) = IF e = 0 THEN 0 ELSE p
    BY DEF EndBlock
  <2> HIDE DEF e
  <2>3. CASE e = 0
    BY <1>0, <2>1, <2>2, <2>3
  <2>4. CASE e # 0
    <3>1. e - 1 \in Nat
      BY <2>1, <2>4
    <3>2. p \in Nat /\ e - 1 < (p + 1) * BlockSize
      BY <3>1, DivFacts
    <3> HIDE DEF p
    <3>3. ASSUME o <= e - 1, p + 1 <= q PROVE FALSE
      <4>1. (p + 1) * BlockSize <= q * BlockSize /\ (p + 1) * BlockSize \in Nat
        BY <1>2, <3>2, <3>3, BoundaryFacts
      <4> QED BY <1>0, <1>2, <2>1, <3>2, <3>3, <4>1
    <3> QED BY <1>2, <2>1, <2>2, <2>4, <3>2, <3>3
  <2> QED BY <2>3, <2>4
<1> QED BY <1>0, <1>2, <1>3, <1>4, <1>5

(* The list of blocks, or the range, is known.                              *)
LEMMA GetRevisionStep ==
  ASSUME FileInv, NEW h \in Handlers, GetRevision(h)
  PROVE  FileInv'
<1> DEFINE w0 == work[h]
           online == [w0 EXCEPT !.pc = "blocks", !.idx = StartBlock(w0),
                        !.last = Least(StartBlock(w0) + PageSize, BlockCount(w0.rev)) - 1]
           offline == [w0 EXCEPT !.pc = "blocks", !.idx = StartBlock(w0),
                        !.last = EndBlock(w0), !.offline = TRUE]
<1>0. /\ IsWork(w0) /\ RangeOK(w0) /\ ServerType /\ w0.pc = "revision"
      /\ reader = h => ReaderOK(handle, w0)
      /\ mu # h
      /\ UNCHANGED <<size, head, handle, reader, blocks, order, mu, mishaps, excess>>
  BY HandlerAt DEF GetRevision, cacheVars
<1>1. CacheType'
  BY <1>0, CacheUnmoved DEF FileInv, TypeOK, CacheType
<1>2. /\ StartBlock(w0) \in Nat /\ EndBlock(w0) \in Nat /\ BlockCount(w0.rev) \in Nat
      /\ From(w0) \in Nat /\ size[w0.rev] \in Nat
      /\ w0.offset < size[w0.rev] => StartBlock(w0) < BlockCount(w0.rev)
      /\ w0.offset < size[w0.rev] /\ w0.length > 0 => StartBlock(w0) <= EndBlock(w0)
  BY <1>0, RangeFacts
<1>3. PageSize \in Nat \ {0}
  BY SizesAssumption
<1>4. ASSUME NEW last \in Int, NEW off \in BOOLEAN, NEW w,
             w = [w0 EXCEPT !.pc = "blocks", !.idx = StartBlock(w0), !.last = last, !.offline = off],
             off => last = EndBlock(w0),
             w0.offset < size[w0.rev] => StartBlock(w0) <= last,
             Do(h, w)
      PROVE  FileInv'
  <2>1. IsWork(w)
    BY <1>0, <1>2, <1>4 DEF IsWork, Pcs
  <2>2. /\ w.pc = "blocks" /\ w.idx = StartBlock(w0) /\ w.last = last /\ w.offline = off
        /\ w.rev = w0.rev /\ w.offset = w0.offset /\ w.length = w0.length /\ w.buf = w0.buf
        /\ w.torn = w0.torn
    BY <1>0, <1>4 DEF IsWork
  <2>3. StartBlock(w) = StartBlock(w0) /\ EndBlock(w) = EndBlock(w0) /\ From(w) = From(w0)
    BY <2>2 DEF StartBlock, EndBlock, From
  <2>4. RangeOK(w)
    BY <1>0, <1>2, <1>4, <2>2, <2>3 DEF RangeOK
  <2>5. ASSUME reader = h PROVE ReaderOK(handle, w)
    <3>1. w.buf = << >> /\ Len(<< >>) = 0 /\ w.offset = handle.offset /\ handle.open /\ ~ handle.eof
      BY <1>0, <2>2, <2>5 DEF ReaderOK
    <3>2. Upto(w) = Least(size[w0.rev], From(w0)) /\ From(w) = From(w0)
      BY <2>2, <2>3 DEF Upto, Gathered, From
    <3>3. Upto(w) \in Nat /\ Upto(w) <= From(w0) /\ Upto(w) <= size[w0.rev]
      BY <1>2, <3>2 DEF Least
    <3>4. SubSeq(Content(w.rev), From(w) + 1, Upto(w)) = << >>
      BY <1>0, <1>2, <2>2, <3>2, <3>3, StretchFacts, WorkFields
    <3>5. Len(w.buf) <= Room(From(w), Upto(w))
      BY <1>2, <3>1, <3>2, <3>3 DEF Room
    <3> QED BY <2>2, <3>1, <3>4, <3>5 DEF ReaderOK
  <2> QED BY <1>0, <1>1, <1>4, <2>1, <2>2, <2>4, <2>5, HandlerMovesAlone
<1>5. Do(h, online) \/ Do(h, offline)
  <2> DEFINE w == [w0 EXCEPT !.pc = "blocks", !.idx = StartBlock(w0)]
  <2>1. \/ Do(h, [w EXCEPT !.last = Least(w.idx + PageSize, BlockCount(w.rev)) - 1])
        \/ Do(h, [w EXCEPT !.last = EndBlock(w), !.offline = TRUE])
    BY DEF GetRevision
  <2>2. w.idx = StartBlock(w0) /\ w.rev = w0.rev /\ w.offset = w0.offset /\ w.length = w0.length
    BY <1>0 DEF IsWork
  <2>3. EndBlock(w) = EndBlock(w0)
    BY <2>2 DEF EndBlock
  <2>4. \A x : [w EXCEPT !.last = x] = [w0 EXCEPT !.pc = "blocks", !.idx = StartBlock(w0), !.last = x]
    OBVIOUS
  <2>5. \A x : [w EXCEPT !.last = x, !.offline = TRUE]
             = [w0 EXCEPT !.pc = "blocks", !.idx = StartBlock(w0), !.last = x, !.offline = TRUE]
    OBVIOUS
  <2> HIDE DEF w
  <2> QED BY <2>1, <2>2, <2>3, <2>4, <2>5
<1>6. CASE Do(h, online)
  <2> DEFINE last == Least(StartBlock(w0) + PageSize, BlockCount(w0.rev)) - 1
  <2>1. last \in Int /\ (w0.offset < size[w0.rev] => StartBlock(w0) <= last)
    BY <1>2, <1>3 DEF Least
  <2>2. online = [w0 EXCEPT !.pc = "blocks", !.idx = StartBlock(w0), !.last = last, !.offline = FALSE]
    BY <1>0 DEF IsWork, RangeOK
  <2> HIDE DEF last, online
  <2> QED BY <1>4, <1>6, <2>1, <2>2
<1>7. CASE Do(h, offline)
  <2>1. w0.offset < size[w0.rev] => StartBlock(w0) <= EndBlock(w0)
    BY <1>0, <1>2 DEF RangeOK
  <2> DEFINE last == EndBlock(w0)
  <2>2. last \in Int /\ last = EndBlock(w0) /\ (w0.offset < size[w0.rev] => StartBlock(w0) <= last)
    BY <1>2, <2>1
  <2>3. offline = [w0 EXCEPT !.pc = "blocks", !.idx = StartBlock(w0), !.last = last, !.offline = TRUE]
    OBVIOUS
  <2> HIDE DEF last, offline
  <2> QED BY <1>4, <1>7, <2>2, <2>3
<1> QED BY <1>5, <1>6, <1>7

(* The length of an answer that got the first n bytes of a block.           *)
LEMMA GatheredLength ==
  ASSUME NEW a \in Seq(Bytes), NEW b \in Seq(Bytes), NEW n \in 0 .. Len(b), NEW c,
         c = a \o SubSeq(b, 1, n)
  PROVE  Len(c) = Len(a) + n /\ n \in Nat /\ n <= Len(b)
<1>1. SubSeq(b, 1, n) \in Seq(Bytes) /\ Len(SubSeq(b, 1, n)) = n
  OBVIOUS
<1>2. Len(a \o SubSeq(b, 1, n)) = Len(a) + Len(SubSeq(b, 1, n))
  BY <1>1, ConcatProperties
<1> QED BY <1>1, <1>2

(* What is added to an answer: the bytes, or nothing when nobody waits.      *)
LEMMA CollectFacts ==
  ASSUME NEW h, work[h].buf \in Seq(Bytes), NEW b \in Seq(Bytes)
  PROVE  /\ Collect(h, b) \in Seq(Bytes)
         /\ reader = h => Collect(h, b) = work[h].buf \o b
<1>1. work[h].buf \o b \in Seq(Bytes)
  BY ConcatProperties
<1>2. << >> \in Seq(Bytes)
  OBVIOUS
<1> QED BY <1>1, <1>2, Zenon DEF Collect

(* It fits: l bytes held from f up to u, n more of a block of b up to v.    *)
LEMMA RoomFacts ==
  ASSUME NEW l \in Nat, NEW b \in Nat, NEW f \in Nat, NEW u \in Nat, NEW v \in Nat,
         NEW n \in Nat, NEW z \in Nat,
         l <= Room(f, u), u + b = v, v <= z, f > u => u = z, n <= b
  PROVE  l + n <= Room(f, v)
BY DEF Room

(* What the reader holds once it has a block, or the beginning of one.      *)
LEMMA GatherFacts ==
  ASSUME ServerType, NEW w0, NEW w, IsWork(w0), IsWork(w), RangeOK(w0), ReaderOK(handle, w0),
         w0.pc \in {"blocks", "download"}, Busy(w),
         w.rev = w0.rev, w.offset = w0.offset, Gathered(w) = w0.idx + 1,
         NEW n \in 0 .. Len(Block(w0.rev, w0.idx)),
         w.buf = w0.buf \o SubSeq(Block(w0.rev, w0.idx), 1, n),
         ~ w.torn => ~ w0.torn /\ n = Len(Block(w0.rev, w0.idx))
  PROVE  ReaderOK(handle, w)
<1> DEFINE r == w0.rev
           i == w0.idx
           B == Block(r, i)
           f == From(w0)
           u == Least(size[r], i * BlockSize)
           v == Least(size[r], (i + 1) * BlockSize)
<1>0. /\ r \in Revisions /\ i \in Nat /\ w0.buf \in Seq(Bytes) /\ f \in Nat /\ size[r] \in Nat
      /\ StartBlock(w0) \in Nat
  BY WorkFields, RangeFacts
<1>1. B \in Seq(Bytes) /\ Len(B) \in Nat /\ u \in Nat /\ v \in Nat /\ u + Len(B) = v
  BY <1>0, BlockFacts
<1>2. i * BlockSize \in Nat /\ f <= i * BlockSize
  <2>1. StartBlock(w0) <= i
    BY DEF RangeOK, Busy
  <2> QED BY <1>0, <2>1, BoundaryFacts DEF From
<1>3. Upto(w0) = u /\ Upto(w) = v /\ From(w) = f
  BY DEF Upto, From, Gathered, StartBlock
<1>4. Len(w0.buf) <= Room(f, u) /\ Len(w0.buf) \in Nat
  BY <1>0, <1>3 DEF ReaderOK, Busy
<1>5. v <= size[r] /\ (f > u => u = size[r])
  BY <1>0, <1>1, <1>2 DEF Least
<1>6. /\ SubSeq(B, 1, n) \in Seq(Bytes) /\ Len(SubSeq(B, 1, n)) = n
      /\ n = Len(B) => SubSeq(B, 1, n) = B
  <2>1. SubSeq(B, 1, n) \in Seq(Bytes) /\ Len(SubSeq(B, 1, n)) = n
    BY <1>1
  <2>2. SubSeq(B, 1, Len(B)) = B
    BY <1>1, SubSeqFull
  <2> QED BY <2>1, <2>2
<1>7. Len(w.buf) = Len(w0.buf) + n /\ n \in Nat /\ n <= Len(B)
  <2>2. w.buf = w0.buf \o SubSeq(B, 1, n) /\ n \in 0 .. Len(B)
    OBVIOUS
  <2> HIDE DEF B
  <2> QED BY <1>0, <1>1, <2>2, GatheredLength, Zenon
<1> HIDE DEF r, i, B, f, u, v
<1>8. Len(w.buf) <= Room(f, v)
  <2> DEFINE l == Len(w0.buf)
             b == Len(B)
  <2>1. /\ l \in Nat /\ b \in Nat /\ f \in Nat /\ u \in Nat /\ v \in Nat /\ n \in Nat
        /\ l <= Room(f, u) /\ u + b = v /\ v <= size[r] /\ size[r] \in Nat
        /\ (f > u => u = size[r]) /\ n <= b /\ Len(w.buf) = l + n
    BY <1>0, <1>1, <1>4, <1>5, <1>7
  <2> HIDE DEF l, b
  <2>2. l + n <= Room(f, v)
    BY <2>1, RoomFacts, Zenon
  <2> QED BY <2>1, <2>2, Zenon
<1>9. ASSUME ~ w.torn PROVE w.buf = SubSeq(Content(r), f + 1, v)
  <2>1. w0.buf = SubSeq(Content(r), f + 1, u)
    BY <1>3, <1>9 DEF ReaderOK, Busy, r, f
  <2>2. w.buf = w0.buf \o B
    BY <1>6, <1>9 DEF B, r, i
  <2>3. SubSeq(Content(r), f + 1, u) \o B = SubSeq(Content(r), f + 1, v)
    BY <1>0, <1>2, ExtendFacts DEF u, v, B
  <2> QED BY <2>1, <2>2, <2>3
<1>10. handle.open /\ ~ handle.eof /\ w.offset = handle.offset
  BY DEF ReaderOK
<1> QED BY <1>3, <1>8, <1>9, <1>10 DEF ReaderOK, Busy, r

(* The cache when a block's file is used, made, written or removed.         *)
LEMMA CacheMoves ==
  ASSUME FileInv, size' = size, mishaps' \in 0 .. MaxMishaps, excess' \in BOOLEAN,
         order' \in Seq(Keys), IsInjective(order'), Range(order') = DOMAIN blocks',
         DOMAIN blocks' \subseteq Keys,
         \A k \in DOMAIN blocks' : blocks'[k] \in 0 .. Len(Block(k[1], k[2]))
  PROVE  CacheType'
<1>1. \A r, i : Block(r, i)' = Block(r, i)
  BY Unmoved
<1>2. \A k \in DOMAIN blocks' : Block(k[1], k[2])' = Block(k[1], k[2])
  BY <1>1
<1>3. IsInjective(order)' /\ Range(order)' = DOMAIN blocks'
  BY DEF IsInjective, Range
<1> QED BY <1>2, <1>3 DEF CacheType

(* What the cache's type says of the block a handler is at.                 *)
LEMMA CacheFacts ==
  ASSUME FileInv, NEW w, IsWork(w)
  PROVE  /\ Key(w) \in Keys /\ Key(w)[1] = w.rev /\ Key(w)[2] = w.idx
         /\ Len(Block(w.rev, w.idx)) \in Nat
         /\ mishaps \in 0 .. MaxMishaps /\ excess \in BOOLEAN
         /\ order \in Seq(Keys) /\ IsInjective(order) /\ Range(order) = DOMAIN blocks
         /\ DOMAIN blocks \subseteq Keys
         /\ \A k \in DOMAIN blocks : blocks[k] \in 0 .. Len(Block(k[1], k[2]))
         /\ Touched(Key(w)) \in Seq(Keys) /\ IsInjective(Touched(Key(w)))
         /\ Range(Touched(Key(w))) = DOMAIN blocks \cup {Key(w)}
<1>1. ServerType /\ CacheType
  BY DEF FileInv, TypeOK
<1>2. w.rev \in Revisions /\ w.idx \in Nat
  BY WorkFields
<1>3. Key(w) \in Keys /\ Key(w)[1] = w.rev /\ Key(w)[2] = w.idx
  BY <1>2 DEF Key, Keys
<1>4. Len(Block(w.rev, w.idx)) \in Nat
  BY <1>1, <1>2, BlockFacts
<1>5. /\ mishaps \in 0 .. MaxMishaps /\ excess \in BOOLEAN
      /\ order \in Seq(Keys) /\ IsInjective(order) /\ Range(order) = DOMAIN blocks
      /\ DOMAIN blocks \subseteq Keys
      /\ \A k \in DOMAIN blocks : blocks[k] \in 0 .. Len(Block(k[1], k[2]))
  BY <1>1 DEF CacheType
<1>6. /\ Touched(Key(w)) \in Seq(Keys) /\ IsInjective(Touched(Key(w)))
      /\ Range(Touched(Key(w))) = Range(order) \cup {Key(w)}
  BY <1>1, <1>3, TouchedFacts
<1> QED BY <1>3, <1>4, <1>5, <1>6

(* A block is found: its file's bytes, torn when they are too few.          *)
LEMMA GetBlockStep ==
  ASSUME FileInv, NEW h \in Handlers, GetBlock(h)
  PROVE  FileInv'
<1> DEFINE w0 == work[h]
           k == Key(w0)
           B == Block(w0.rev, w0.idx)
           n == blocks[k]
           b == Collect(h, SubSeq(B, 1, n))
           t == w0.torn \/ (reader = h /\ n < Len(B))
           w == [w0 EXCEPT !.idx = @ + 1, !.buf = b, !.torn = t]
<1>0. /\ IsWork(w0) /\ RangeOK(w0) /\ ServerType /\ w0.pc = "blocks" /\ mu # h
      /\ reader = h => ReaderOK(handle, w0)
      /\ UNCHANGED <<size, head, handle, reader, blocks, mu, mishaps, excess>>
  BY HandlerAt DEF GetBlock, AtBlock
<1>1. k \in DOMAIN blocks /\ Do(h, w) /\ order' = Touched(k)
  BY DEF GetBlock
<1>2. w0.idx \in Nat /\ w0.rev \in Revisions /\ w0.buf \in Seq(Bytes) /\ w0.torn \in BOOLEAN
  BY <1>0, WorkFields
<1>3. n \in 0 .. Len(B) /\ Len(B) \in Nat /\ B \in Seq(Bytes)
  BY <1>0, <1>1, <1>2, CacheFacts, BlockFacts
<1>4. CacheType'
  <2>1. Range(Touched(k)) = DOMAIN blocks
    BY <1>0, <1>1, CacheFacts
  <2>2. /\ Touched(k) \in Seq(Keys) /\ IsInjective(Touched(k)) /\ DOMAIN blocks \subseteq Keys
        /\ mishaps \in 0 .. MaxMishaps /\ excess \in BOOLEAN
        /\ \A x \in DOMAIN blocks : blocks[x] \in 0 .. Len(Block(x[1], x[2]))
    BY <1>0, CacheFacts
  <2> HIDE DEF k
  <2> QED BY <1>0, <1>1, <2>1, <2>2, CacheMoves
<1>5. b \in Seq(Bytes) /\ (reader = h => b = w0.buf \o SubSeq(B, 1, n))
  <2>1. SubSeq(B, 1, n) \in Seq(Bytes)
    BY <1>3
  <2> QED BY <1>2, <2>1, CollectFacts, Zenon
<1>6. t \in BOOLEAN
  BY <1>2
<1> HIDE DEF B, n, b, t
<1>7. /\ IsWork(w) /\ w.pc = "blocks" /\ w.idx = w0.idx + 1 /\ w.buf = b /\ w.torn = t
      /\ w.rev = w0.rev /\ w.offset = w0.offset /\ w.length = w0.length /\ w.last = w0.last
      /\ w.offline = w0.offline
  <2>1. w0.idx + 1 \in Nat
    BY <1>2
  <2> QED BY <1>0, <1>5, <1>6, <2>1 DEF IsWork
<1> HIDE DEF w
<1>8. RangeOK(w)
  <2>1. StartBlock(w) = StartBlock(w0) /\ EndBlock(w) = EndBlock(w0) /\ StartBlock(w0) \in Nat
    BY <1>0, <1>7, RangeFacts DEF StartBlock, EndBlock
  <2> QED BY <1>0, <1>2, <1>7, <2>1 DEF RangeOK, Busy
<1>9. ASSUME reader = h PROVE ReaderOK(handle, w)
  <2>1. Busy(w) /\ Gathered(w) = w0.idx + 1
    BY <1>7 DEF Busy, Gathered
  <2>2. ~ w.torn => ~ w0.torn /\ n = Len(B)
    <3>1. ~ n < Len(B) => n = Len(B)
      BY <1>3
    <3> QED BY <1>7, <1>9, <3>1, Zenon DEF t
  <2>3. w.buf = w0.buf \o SubSeq(B, 1, n)
    BY <1>5, <1>7, <1>9
  <2> QED BY <1>0, <1>3, <1>7, <1>9, <2>1, <2>2, <2>3, GatherFacts DEF B
<1> QED BY <1>0, <1>1, <1>4, <1>7, <1>8, <1>9, HandlerMovesAlone

(* A step that moves a handler on, with what it holds the same.             *)
LEMMA MovesOn ==
  ASSUME FileInv, NEW h \in Handlers, NEW w, IsWork(w), Do(h, w), CacheType',
         UNCHANGED <<size, head, handle, reader>>, mu' \in Handlers \cup {Nobody},
         w.pc = "evicting" <=> mu' = h, \A g \in Handlers \ {h} : mu' = g <=> mu = g,
         Busy(work[h]), Busy(w), Gathered(w) = Gathered(work[h]), work[h].idx <= w.idx,
         w.rev = work[h].rev, w.offset = work[h].offset, w.length = work[h].length,
         w.last = work[h].last, w.offline = work[h].offline, w.buf = work[h].buf,
         w.torn = work[h].torn
  PROVE  FileInv'
<1> DEFINE w0 == work[h]
<1>0. IsWork(w0) /\ RangeOK(w0) /\ ServerType /\ (reader = h => ReaderOK(handle, w0))
  BY HandlerAt
<1>1. StartBlock(w) = StartBlock(w0) /\ EndBlock(w) = EndBlock(w0) /\ StartBlock(w0) \in Nat
      /\ Upto(w) = Upto(w0) /\ From(w) = From(w0)
  BY <1>0, RangeFacts DEF StartBlock, EndBlock, Upto, From
<1>2. w.idx \in Nat /\ w0.idx \in Nat
  BY <1>0, WorkFields
<1>3. RangeOK(w)
  BY <1>0, <1>1, <1>2 DEF RangeOK, Busy
<1>4. reader = h => ReaderOK(handle, w)
  BY <1>0, <1>1 DEF ReaderOK, Busy
<1>5. HandleType' /\ HandleInv'
  <2>1. \A r : Content(r)' = Content(r)
    BY Unmoved
  <2> QED BY <2>1 DEF FileInv, TypeOK, HandleType, HandleInv
<1>6. reader' \in Handlers \cup {Nobody}
  BY DEF FileInv, TypeOK, WorkType
<1> QED BY <1>3, <1>4, <1>5, <1>6, HandlerMoves

(* The block is asked of Proton.                                            *)
LEMMA MissBlockStep ==
  ASSUME FileInv, NEW h \in Handlers, MissBlock(h)
  PROVE  FileInv'
<1> DEFINE w0 == work[h]
           w == [w0 EXCEPT !.pc = "download"]
<1>0. /\ IsWork(w0) /\ w0.pc = "blocks" /\ mu # h /\ mu \in Handlers \cup {Nobody} /\ Do(h, w)
      /\ UNCHANGED <<size, head, handle, reader, blocks, order, mu, mishaps, excess>>
  BY HandlerAt DEF MissBlock, AtBlock, cacheVars, FileInv, TypeOK, WorkType
<1>1. CacheType'
  BY <1>0, CacheUnmoved, CacheFacts
<1>2. /\ IsWork(w) /\ w.pc = "download" /\ w.idx = w0.idx /\ w.buf = w0.buf /\ w.torn = w0.torn
      /\ w.rev = w0.rev /\ w.offset = w0.offset /\ w.length = w0.length /\ w.last = w0.last
      /\ w.offline = w0.offline /\ w.idx \in Nat
  BY <1>0 DEF IsWork, Pcs
<1>3. Busy(w0) /\ Busy(w) /\ Gathered(w) = Gathered(w0) /\ w0.idx <= w.idx
  BY <1>0, <1>2 DEF Busy, Gathered
<1> HIDE DEF w
<1> QED BY <1>0, <1>1, <1>2, <1>3, MovesOn

(* A block from Proton is added to the answer; its file is made, or is not. *)
LEMMA PutBlockStep ==
  ASSUME FileInv, NEW h \in Handlers, PutBlock(h)
  PROVE  FileInv'
<1> DEFINE w0 == work[h]
           k == Key(w0)
           B == Block(w0.rev, w0.idx)
           b == Collect(h, B)
           made == [w0 EXCEPT !.buf = b, !.pc = "writing"]
           not == [w0 EXCEPT !.buf = b, !.pc = "blocks", !.idx = @ + 1]
           more == [x \in DOMAIN blocks \cup {k} |-> IF x = k THEN 0 ELSE blocks[x]]
<1>0. /\ IsWork(w0) /\ RangeOK(w0) /\ ServerType /\ w0.pc = "download" /\ mu # h
      /\ reader = h => ReaderOK(handle, w0)
      /\ UNCHANGED <<size, head, handle, reader, mu, mishaps, excess>>
  BY HandlerAt DEF PutBlock
<1>1. \/ Do(h, made) /\ blocks' = more /\ order' = Touched(k)
      \/ Do(h, not) /\ UNCHANGED <<blocks, order>>
  <2> DEFINE u == [w0 EXCEPT !.buf = b]
  <2>1. Key(u) = k /\ u.idx = w0.idx
    BY <1>0 DEF IsWork, Key
  <2>2. made = [u EXCEPT !.pc = "writing"] /\ not = [u EXCEPT !.pc = "blocks", !.idx = @ + 1]
    BY <2>1
  <2>3. \/ /\ Do(h, [u EXCEPT !.pc = "writing"])
           /\ blocks' = [x \in DOMAIN blocks \cup {Key(u)} |-> IF x = Key(u) THEN 0 ELSE blocks[x]]
           /\ order' = Touched(Key(u))
        \/ Do(h, [u EXCEPT !.pc = "blocks", !.idx = @ + 1]) /\ UNCHANGED <<blocks, order>>
    BY DEF PutBlock
  <2> QED BY <2>1, <2>2, <2>3
<1>2. w0.idx \in Nat /\ w0.rev \in Revisions /\ w0.buf \in Seq(Bytes) /\ w0.torn \in BOOLEAN
  BY <1>0, WorkFields
<1>3. /\ B \in Seq(Bytes) /\ Len(B) \in Nat /\ SubSeq(B, 1, Len(B)) = B
      /\ Len(B) \in 0 .. Len(B)
  <2>1. B \in Seq(Bytes) /\ Len(B) \in Nat
    BY <1>0, <1>2, BlockFacts
  <2> QED BY <2>1, SubSeqFull
<1>4. b \in Seq(Bytes) /\ (reader = h => b = w0.buf \o SubSeq(B, 1, Len(B)))
  <2>1. b \in Seq(Bytes) /\ (reader = h => b = w0.buf \o B)
    BY <1>2, <1>3, CollectFacts, Zenon
  <2> QED BY <1>3, <2>1, Zenon
<1>5. CacheType'
  <2>1. /\ Touched(k) \in Seq(Keys) /\ IsInjective(Touched(k)) /\ DOMAIN blocks \subseteq Keys
        /\ Range(Touched(k)) = DOMAIN blocks \cup {k} /\ k \in Keys
        /\ mishaps \in 0 .. MaxMishaps /\ excess \in BOOLEAN
        /\ \A x \in DOMAIN blocks : blocks[x] \in 0 .. Len(Block(x[1], x[2]))
        /\ 0 \in 0 .. Len(Block(k[1], k[2]))
    BY <1>0, CacheFacts
  <2>2. CASE UNCHANGED <<blocks, order>>
    BY <1>0, <2>1, <2>2, CacheUnmoved
  <2>3. CASE blocks' = more /\ order' = Touched(k)
    <3> HIDE DEF k
    <3>1. DOMAIN blocks' = DOMAIN blocks \cup {k}
      BY <2>3
    <3>2. \A x \in DOMAIN blocks' : blocks'[x] \in 0 .. Len(Block(x[1], x[2]))
      BY <2>1, <2>3, <3>1
    <3> QED BY <1>0, <2>1, <2>3, <3>1, <3>2, CacheMoves
  <2> QED BY <1>1, <2>2, <2>3
<1> HIDE DEF B, b
<1>6. ASSUME NEW w, IsWork(w), Do(h, w), w.buf = b, w.pc \in {"writing", "blocks"},
             Gathered(w) = w0.idx + 1, w0.idx <= w.idx,
             w.torn = w0.torn, w.rev = w0.rev, w.offset = w0.offset, w.length = w0.length,
             w.last = w0.last, w.offline = w0.offline
      PROVE  FileInv'
  <2>1. StartBlock(w) = StartBlock(w0) /\ EndBlock(w) = EndBlock(w0) /\ StartBlock(w0) \in Nat
    BY <1>0, <1>6, RangeFacts DEF StartBlock, EndBlock
  <2>2. w.idx \in Nat
    BY <1>6, WorkFields
  <2>3. RangeOK(w)
    BY <1>0, <1>2, <1>6, <2>1, <2>2 DEF RangeOK, Busy
  <2>4. ASSUME reader = h PROVE ReaderOK(handle, w)
    <3>1. Busy(w)
      BY <1>6 DEF Busy
    <3>2. w.buf = w0.buf \o SubSeq(B, 1, Len(B))
      BY <1>4, <1>6, <2>4
    <3> QED BY <1>0, <1>3, <1>6, <2>4, <3>1, <3>2, GatherFacts DEF B
  <2>5. w.pc # "evicting"
    BY <1>6
  <2> QED BY <1>0, <1>5, <1>6, <2>3, <2>4, <2>5, HandlerMovesAlone
<1>7. CASE Do(h, made)
  <2>1. /\ IsWork(made) /\ made.pc = "writing" /\ made.idx = w0.idx /\ made.buf = b
        /\ made.torn = w0.torn /\ made.rev = w0.rev /\ made.offset = w0.offset
        /\ made.length = w0.length /\ made.last = w0.last /\ made.offline = w0.offline
    BY <1>0, <1>4 DEF IsWork, Pcs
  <2>2. Gathered(made) = w0.idx + 1 /\ w0.idx <= made.idx
    BY <1>2, <2>1 DEF Gathered
  <2> HIDE DEF made
  <2> QED BY <1>6, <1>7, <2>1, <2>2
<1>8. CASE Do(h, not)
  <2>1. /\ IsWork(not) /\ not.pc = "blocks" /\ not.idx = w0.idx + 1 /\ not.buf = b
        /\ not.torn = w0.torn /\ not.rev = w0.rev /\ not.offset = w0.offset
        /\ not.length = w0.length /\ not.last = w0.last /\ not.offline = w0.offline
    <3>1. w0.idx + 1 \in Nat
      BY <1>2
    <3> QED BY <1>0, <1>4, <3>1 DEF IsWork, Pcs
  <2>2. Gathered(not) = w0.idx + 1 /\ w0.idx <= not.idx
    BY <1>2, <2>1 DEF Gathered
  <2> HIDE DEF not
  <2> QED BY <1>6, <1>8, <2>1, <2>2
<1> QED BY <1>1, <1>7, <1>8

(* Bytes are stored in a block's file, if it is still there.                *)
LEMMA StoreFacts ==
  ASSUME FileInv, NEW w, IsWork(w), NEW n \in 0 .. Len(Block(w.rev, w.idx)), Store(Key(w), n),
         size' = size, mishaps' \in 0 .. MaxMishaps, excess' \in BOOLEAN
  PROVE  CacheType'
<1> DEFINE k == Key(w)
<1>1. /\ Touched(k) \in Seq(Keys) /\ IsInjective(Touched(k)) /\ DOMAIN blocks \subseteq Keys
      /\ Range(Touched(k)) = DOMAIN blocks \cup {k}
      /\ \A x \in DOMAIN blocks : blocks[x] \in 0 .. Len(Block(x[1], x[2]))
      /\ n \in 0 .. Len(Block(k[1], k[2]))
  BY CacheFacts
<1>2. /\ blocks' = IF k \in DOMAIN blocks THEN [blocks EXCEPT ![k] = n] ELSE blocks
      /\ order' = IF k \in DOMAIN blocks THEN Touched(k) ELSE order
  BY DEF Store
<1> HIDE DEF k
<1>3. CASE k \in DOMAIN blocks
  <2>1. blocks' = [blocks EXCEPT ![k] = n] /\ order' = Touched(k)
    BY <1>2, <1>3
  <2>2. DOMAIN blocks' = DOMAIN blocks
    BY <2>1
  <2>3. \A x \in DOMAIN blocks' : blocks'[x] \in 0 .. Len(Block(x[1], x[2]))
    BY <1>1, <2>1, <2>2
  <2>4. Range(order') = DOMAIN blocks' /\ order' \in Seq(Keys) /\ IsInjective(order')
    BY <1>1, <1>3, <2>1, <2>2
  <2> QED BY <1>1, <2>2, <2>3, <2>4, CacheMoves
<1>4. CASE k \notin DOMAIN blocks
  BY <1>2, <1>4, CacheUnmoved
<1> QED BY <1>3, <1>4

(* The bytes of the block are written.                                      *)
LEMMA WriteBlockStep ==
  ASSUME FileInv, NEW h \in Handlers, WriteBlock(h)
  PROVE  FileInv'
<1> DEFINE w0 == work[h]
           w == [w0 EXCEPT !.pc = "locking"]
<1>0. /\ IsWork(w0) /\ w0.pc = "writing" /\ mu # h /\ mu \in Handlers \cup {Nobody} /\ Do(h, w)
      /\ Store(Key(w0), Len(Block(w0.rev, w0.idx)))
      /\ UNCHANGED <<size, head, handle, reader, mu, mishaps, excess>>
  BY HandlerAt DEF WriteBlock, FileInv, TypeOK, WorkType
<1>1. CacheType'
  <2>1. /\ mishaps \in 0 .. MaxMishaps /\ excess \in BOOLEAN
        /\ Len(Block(w0.rev, w0.idx)) \in 0 .. Len(Block(w0.rev, w0.idx))
    BY <1>0, CacheFacts
  <2> QED BY <1>0, <2>1, StoreFacts
<1>2. /\ IsWork(w) /\ w.pc = "locking" /\ w.idx = w0.idx /\ w.buf = w0.buf /\ w.torn = w0.torn
      /\ w.rev = w0.rev /\ w.offset = w0.offset /\ w.length = w0.length /\ w.last = w0.last
      /\ w.offline = w0.offline /\ w.idx \in Nat
  BY <1>0 DEF IsWork, Pcs
<1>3. Busy(w0) /\ Busy(w) /\ Gathered(w) = Gathered(w0) /\ w0.idx <= w.idx
  BY <1>0, <1>2 DEF Busy, Gathered
<1> HIDE DEF w
<1> QED BY <1>0, <1>1, <1>2, <1>3, MovesOn

(* The write fails part of the way.                                         *)
LEMMA WriteFailsStep ==
  ASSUME FileInv, NEW h \in Handlers, WriteFails(h)
  PROVE  FileInv'
<1> DEFINE w0 == work[h]
           w == [w0 EXCEPT !.pc = "blocks", !.idx = @ + 1]
<1>0. /\ IsWork(w0) /\ w0.pc = "writing" /\ mu # h /\ mu \in Handlers \cup {Nobody} /\ Do(h, w)
      /\ UNCHANGED <<size, head, handle, reader, mu>>
      /\ mishaps < MaxMishaps /\ mishaps' = mishaps + 1 /\ excess' = TRUE
  BY HandlerAt DEF WriteFails, FileInv, TypeOK, WorkType
<1>1. CacheType'
  <2>1. PICK n \in 0 .. Len(Block(w0.rev, w0.idx)) - 1 : Store(Key(w0), n)
    BY DEF WriteFails
  <2>2. n \in 0 .. Len(Block(w0.rev, w0.idx)) /\ mishaps' \in 0 .. MaxMishaps
    BY <1>0, <2>1, CacheFacts, SizesAssumption
  <2> QED BY <1>0, <2>1, <2>2, StoreFacts
<1>2. /\ IsWork(w) /\ w.pc = "blocks" /\ w.idx = w0.idx + 1 /\ w.buf = w0.buf /\ w.torn = w0.torn
      /\ w.rev = w0.rev /\ w.offset = w0.offset /\ w.length = w0.length /\ w.last = w0.last
      /\ w.offline = w0.offline /\ w0.idx \in Nat
  <2>1. w0.idx \in Nat /\ w0.idx + 1 \in Nat
    BY <1>0, WorkFields
  <2> QED BY <1>0, <2>1 DEF IsWork, Pcs
<1>3. Busy(w0) /\ Busy(w) /\ Gathered(w) = Gathered(w0) /\ w0.idx <= w.idx
  BY <1>0, <1>2 DEF Busy, Gathered
<1> HIDE DEF w
<1> QED BY <1>0, <1>1, <1>2, <1>3, MovesOn

(* The bytes of block files, and of the files a walk has listed.            *)
StoredBytes == UNION {{k} \X (1 .. blocks[k]) : k \in DOMAIN blocks}
Listed(files) == UNION {{files[i][1]} \X (1 .. files[i][2]) : i \in DOMAIN files}

(* A file's bytes are as many as its size.                                  *)
LEMMA FileBytes ==
  ASSUME NEW k, NEW n \in Nat
  PROVE  IsFiniteSet({k} \X (1 .. n)) /\ Cardinality({k} \X (1 .. n)) = n
<1>1. IsFiniteSet({k}) /\ Cardinality({k}) = 1
  BY FS_Singleton
<1>2. IsFiniteSet(1 .. n) /\ Cardinality(1 .. n) = n
  BY FS_Interval
<1> DEFINE S == {k}
           T == 1 .. n
<1> HIDE DEF S, T
<1>3. IsFiniteSet(S \X T) /\ Cardinality(S \X T) = Cardinality(S) * Cardinality(T)
  <2>1. IsFiniteSet(S) /\ IsFiniteSet(T)
    BY <1>1, <1>2 DEF S, T
  <2> QED BY <2>1, FS_Product
<1>4. Cardinality(S) * Cardinality(T) = n
  BY <1>1, <1>2 DEF S, T
<1> QED BY <1>3, <1>4 DEF S, T

(* A list of files has finitely many bytes.                                 *)
LEMMA ListedFinite ==
  ASSUME NEW fs \in Seq(Keys \X Nat)
  PROVE  IsFiniteSet(Listed(fs)) /\ Cardinality(Listed(fs)) \in Nat
<1> DEFINE D == 1 .. Len(fs)
           B == [i \in D |-> {fs[i][1]} \X (1 .. fs[i][2])]
           T == {B[i] : i \in D}
<1>1. IsFiniteSet(D) /\ DOMAIN fs = D
  BY LenProperties, FS_Interval
<1>2. B \in Surjection(D, T)
  BY DEF Surjection
<1>3. \A i \in D : fs[i] \in Keys \X Nat
  BY ElementOfSeq
<1>4. \A i \in D : IsFiniteSet(B[i])
  <2> SUFFICES ASSUME NEW i \in D PROVE IsFiniteSet({fs[i][1]} \X (1 .. fs[i][2]))
    OBVIOUS
  <2>1. fs[i][2] \in Nat
    BY <1>3
  <2> QED BY <2>1, FileBytes
<1>5. Listed(fs) = UNION T
  BY <1>1 DEF Listed
<1> HIDE DEF B, D
<1>6. IsFiniteSet(T)
  <2> HIDE DEF T
  <2> QED BY <1>1, <1>2, FS_Surjection
<1>7. \A S \in T : IsFiniteSet(S)
  BY <1>4
<1> HIDE DEF T
<1>8. IsFiniteSet(UNION T)
  BY <1>6, <1>7, FS_UNION
<1> QED BY <1>5, <1>8, FS_CardinalityType

(* A walk lists every file with its size.                                   *)
LEMMA WalkLists ==
  ASSUME ServerType, CacheType, NEW all, all = [i \in DOMAIN order |-> <<order[i], blocks[order[i]]>>]
  PROVE  /\ all \in Seq(Keys \X Nat) /\ Listed(all) = StoredBytes
         /\ \A i, j \in DOMAIN all : all[i][1] = all[j][1] => i = j
<1>1. /\ order \in Seq(Keys) /\ Range(order) = DOMAIN blocks /\ DOMAIN blocks \subseteq Keys
      /\ \A k \in DOMAIN blocks : blocks[k] \in 0 .. Len(Block(k[1], k[2]))
  BY DEF CacheType
<1>2. DOMAIN order = 1 .. Len(order) /\ Len(order) \in Nat
  BY <1>1
<1>3. \A i \in DOMAIN order : order[i] \in Keys /\ blocks[order[i]] \in Nat
  <2>1. SUFFICES ASSUME NEW i \in DOMAIN order PROVE order[i] \in Keys /\ blocks[order[i]] \in Nat
    OBVIOUS
  <2>2. order[i] \in DOMAIN blocks
    BY <1>1 DEF Range
  <2>3. order[i][1] \in Revisions /\ order[i][2] \in Nat /\ order[i] \in Keys
    BY <1>1, <2>2 DEF Keys
  <2>4. Len(Block(order[i][1], order[i][2])) \in Nat
    BY <2>3, BlockFacts
  <2> QED BY <1>1, <2>2, <2>3, <2>4
<1>4. all \in [1 .. Len(order) -> Keys \X Nat]
  BY <1>2, <1>3
<1>5. all \in Seq(Keys \X Nat)
  BY <1>2, <1>4
<1>6. DOMAIN all = DOMAIN order /\ \A i \in DOMAIN order : all[i][1] = order[i] /\ all[i][2] = blocks[order[i]]
  OBVIOUS
<1>7. Listed(all) = UNION {{order[i]} \X (1 .. blocks[order[i]]) : i \in DOMAIN order}
  BY <1>6, Zenon DEF Listed
<1>8. Listed(all) = StoredBytes
  <2>1. DOMAIN blocks = {order[i] : i \in DOMAIN order}
    BY <1>1 DEF Range
  <2> QED BY <1>7, <2>1, Zenon DEF StoredBytes
<1>9. \A i, j \in DOMAIN all : all[i][1] = all[j][1] => i = j
  BY <1>6 DEF CacheType, IsInjective
<1> QED BY <1>5, <1>8, <1>9

(* The bytes in block files are finitely many.                              *)
LEMMA StoredFacts ==
  ASSUME ServerType, CacheType
  PROVE  IsFiniteSet(StoredBytes) /\ Stored = Cardinality(StoredBytes) /\ Stored \in Nat
<1>1. PICK all : all = [i \in DOMAIN order |-> <<order[i], blocks[order[i]]>>]
  OBVIOUS
<1>2. all \in Seq(Keys \X Nat) /\ Listed(all) = StoredBytes
  BY <1>1, WalkLists
<1>3. IsFiniteSet(StoredBytes) /\ Cardinality(StoredBytes) \in Nat
  BY <1>2, ListedFinite
<1> QED BY <1>3 DEF Stored, StoredBytes

(* Eviction begins: the names and sizes of the files there are.             *)
LEMMA WalkBlocksStep ==
  ASSUME FileInv, NEW h \in Handlers, WalkBlocks(h)
  PROVE  FileInv'
<1> DEFINE w0 == work[h]
           fs == IF Stored > MaxCache THEN [i \in DOMAIN order |-> <<order[i], blocks[order[i]]>>]
                 ELSE << >>
           w == [w0 EXCEPT !.pc = "evicting", !.files = fs, !.total = Stored]
<1>0. /\ IsWork(w0) /\ w0.pc = "locking" /\ mu = Nobody /\ mu' = h /\ Do(h, w)
      /\ UNCHANGED <<size, head, handle, reader, blocks, order, mishaps>> /\ excess' = FALSE
  BY HandlerAt DEF WalkBlocks, Walk
<1>1. CacheType'
  BY <1>0, CacheUnmoved, CacheFacts
<1>2. fs \in Seq(Keys \X Nat) /\ Stored \in Int
  <2> DEFINE all == [i \in DOMAIN order |-> <<order[i], blocks[order[i]]>>]
  <2>1. ServerType /\ CacheType
    BY HandlerAt
  <2>2. all \in Seq(Keys \X Nat)
    BY <2>1, WalkLists
  <2>3. << >> \in Seq(Keys \X Nat)
    OBVIOUS
  <2> HIDE DEF all
  <2>4. fs = all \/ fs = << >>
    BY DEF all
  <2>5. Stored \in Int
    BY <2>1, StoredFacts
  <2> HIDE DEF fs
  <2> QED BY <2>2, <2>3, <2>4, <2>5
<1> HIDE DEF fs
<1>3. /\ IsWork(w) /\ w.pc = "evicting" /\ w.idx = w0.idx /\ w.buf = w0.buf /\ w.torn = w0.torn
      /\ w.rev = w0.rev /\ w.offset = w0.offset /\ w.length = w0.length /\ w.last = w0.last
      /\ w.offline = w0.offline /\ w.idx \in Nat
  BY <1>0, <1>2 DEF IsWork, Pcs
<1>4. Busy(w0) /\ Busy(w) /\ Gathered(w) = Gathered(w0) /\ w0.idx <= w.idx
  BY <1>0, <1>3 DEF Busy, Gathered
<1>5. mu' \in Handlers \cup {Nobody} /\ \A g \in Handlers \ {h} : mu' = g <=> mu = g
  BY <1>0, HandlersAssumption
<1> HIDE DEF w
<1> QED BY <1>0, <1>1, <1>3, <1>4, <1>5, MovesOn

(* A file of the walk is removed.                                           *)
LEMMA EvictOneStep ==
  ASSUME FileInv, NEW h \in Handlers, EvictOne(h)
  PROVE  FileInv'
<1> DEFINE w0 == work[h]
           f == Head(w0.files)
           t == IF f[1] \in DOMAIN blocks THEN w0.total - f[2] ELSE w0.total
           w == [w0 EXCEPT !.files = Tail(@), !.total = t]
<1>0. /\ IsWork(w0) /\ w0.pc = "evicting" /\ mu = h /\ w0.files # << >> /\ Forget(f[1])
      /\ UNCHANGED <<size, head, handle, reader, mu, mishaps, excess>>
  BY HandlerAt DEF EvictOne
<1>1. Do(h, w)
  <2>1. Do(h, [w0 EXCEPT !.files = Tail(@),
                         !.total = IF f[1] \in DOMAIN blocks THEN @ - f[2] ELSE @])
    BY DEF EvictOne
  <2> QED BY <1>0, <2>1 DEF IsWork
<1>2. CacheType'
  <2> DEFINE k == f[1]
  <2>1. /\ order \in Seq(Keys) /\ IsInjective(order) /\ Range(order) = DOMAIN blocks
        /\ DOMAIN blocks \subseteq Keys /\ mishaps \in 0 .. MaxMishaps /\ excess \in BOOLEAN
        /\ \A x \in DOMAIN blocks : blocks[x] \in 0 .. Len(Block(x[1], x[2]))
    BY <1>0, CacheFacts
  <2>2. blocks' = [x \in DOMAIN blocks \ {k} |-> blocks[x]] /\ order' = RemoveFirst(order, k)
    BY <1>0 DEF Forget
  <2> HIDE DEF k
  <2>3. order' \in Seq(Keys) /\ IsInjective(order') /\ Range(order') = Range(order) \ {k}
    BY <2>1, <2>2, RemoveFacts
  <2>4. DOMAIN blocks' = DOMAIN blocks \ {k}
    BY <2>2
  <2>5. \A x \in DOMAIN blocks' : blocks'[x] \in 0 .. Len(Block(x[1], x[2]))
    BY <2>1, <2>2, <2>4
  <2>6. Range(order') = DOMAIN blocks' /\ DOMAIN blocks' \subseteq Keys
    BY <2>1, <2>3, <2>4
  <2> QED BY <1>0, <2>1, <2>3, <2>5, <2>6, CacheMoves
<1> HIDE DEF f, t
<1>3. Tail(w0.files) \in Seq(Keys \X Nat) /\ t \in Int
  <2>1. w0.files \in Seq(Keys \X Nat) /\ w0.files # << >> /\ w0.total \in Int
    BY <1>0, WorkFields
  <2>2. f \in Keys \X Nat
    BY <2>1 DEF f
  <2>3. f[2] \in Int
    BY <2>2
  <2> QED BY <2>1, <2>3 DEF t
<1>4. /\ IsWork(w) /\ w.pc = "evicting" /\ w.idx = w0.idx /\ w.buf = w0.buf /\ w.torn = w0.torn
      /\ w.rev = w0.rev /\ w.offset = w0.offset /\ w.length = w0.length /\ w.last = w0.last
      /\ w.offline = w0.offline /\ w.idx \in Nat
  BY <1>0, <1>3 DEF IsWork
<1>5. Busy(w0) /\ Busy(w) /\ Gathered(w) = Gathered(w0) /\ w0.idx <= w.idx
  BY <1>0, <1>4 DEF Busy, Gathered
<1> HIDE DEF w
<1> QED BY <1>0, <1>1, <1>2, <1>4, <1>5, MovesOn

(* Eviction is done.                                                        *)
LEMMA EvictedStep ==
  ASSUME FileInv, NEW h \in Handlers, Evicted(h)
  PROVE  FileInv'
<1> DEFINE w0 == work[h]
           w == [w0 EXCEPT !.pc = "blocks", !.idx = @ + 1, !.files = << >>, !.total = 0]
<1>0. /\ IsWork(w0) /\ w0.pc = "evicting" /\ mu = h /\ mu' = Nobody /\ Do(h, w)
      /\ UNCHANGED <<size, head, handle, reader, blocks, order, mishaps, excess>>
  BY HandlerAt DEF Evicted
<1>1. CacheType'
  BY <1>0, CacheUnmoved, CacheFacts
<1>2. /\ IsWork(w) /\ w.pc = "blocks" /\ w.idx = w0.idx + 1 /\ w.buf = w0.buf /\ w.torn = w0.torn
      /\ w.rev = w0.rev /\ w.offset = w0.offset /\ w.length = w0.length /\ w.last = w0.last
      /\ w.offline = w0.offline /\ w0.idx \in Nat
  <2>1. w0.idx \in Nat /\ w0.idx + 1 \in Nat /\ << >> \in Seq(Keys \X Nat) /\ 0 \in Int
    BY <1>0, WorkFields
  <2> QED BY <1>0, <2>1 DEF IsWork, Pcs
<1>3. Busy(w0) /\ Busy(w) /\ Gathered(w) = Gathered(w0) /\ w0.idx <= w.idx
  BY <1>0, <1>2 DEF Busy, Gathered
<1>4. mu' # h /\ \A g \in Handlers \ {h} : mu' = g <=> mu = g
  BY <1>0, HandlersAssumption
<1> HIDE DEF w
<1> QED BY <1>0, <1>1, <1>2, <1>3, <1>4, MovesOn

-----------------------------------------------------------------------------
(* A handler with nothing to do.                                            *)
LEMMA IdleFacts ==
  /\ IsWork(Idle) /\ RangeOK(Idle) /\ Idle.pc = "idle"
<1>1. 1 \in Revisions
  BY SizesAssumption DEF Revisions
<1>2. << >> \in Seq(Bytes) /\ << >> \in Seq(Keys \X Nat) /\ -1 \in Int
  OBVIOUS
<1>3. IsWork(Idle)
  BY <1>1, <1>2 DEF IsWork, Idle, Pcs
<1>4. Idle.pc = "idle"
  BY DEF Idle
<1> QED BY <1>3, <1>4 DEF RangeOK, Busy

(* A handler is done, and whoever waited for it no longer does.             *)
LEMMA HandlerEnds ==
  ASSUME FileInv, NEW h \in Handlers, mu # h, Do(h, Idle),
         reader' = IF reader = h THEN Nobody ELSE reader,
         UNCHANGED <<size, head, cacheVars>>, HandleType', HandleInv',
         reader # h => handle' = handle
  PROVE  FileInv'
<1>0. UNCHANGED <<blocks, order, mu, mishaps, excess>>
  BY DEF cacheVars
<1>1. CacheType'
  BY <1>0, CacheUnmoved DEF FileInv, TypeOK, CacheType
<1>2. reader \in Handlers \cup {Nobody} /\ mu \in Handlers \cup {Nobody}
  BY DEF FileInv, TypeOK, WorkType
<1>3. /\ reader' # h /\ reader' \in Handlers \cup {Nobody}
      /\ \A g \in Handlers \ {h} : reader' = g => reader = g /\ handle' = handle
  BY <1>2, HandlersAssumption
<1> QED BY <1>0, <1>1, <1>2, <1>3, IdleFacts, HandlerMoves

(* A request that fails leaves the client where it was.                     *)
LEMMA FailStep ==
  ASSUME FileInv, NEW h \in Handlers, Fail(h), work[h].pc # "evicting"
  PROVE  FileInv'
<1>1. HandleType' /\ HandleInv'
  <2>1. \A r : Content(r)' = Content(r)
    BY Unmoved DEF Fail
  <2> QED BY <2>1 DEF Fail, FileInv, TypeOK, HandleType, HandleInv
<1>2. mu # h
  BY HandlerAt
<1> QED BY <1>1, <1>2, HandlerEnds DEF Fail

(* A read begins at the handle's offset.                                    *)
LEMMA ReadStep ==
  ASSUME FileInv, NEW h \in Handlers, Read(h)
  PROVE  FileInv'
<1>0. /\ handle.open /\ ~ handle.eof /\ reader = Nobody /\ work[h].pc = "idle" /\ reader' = h
      /\ UNCHANGED <<size, head, handle, blocks, order, mu, mishaps, excess>>
  BY DEF Read, cacheVars
<1>1. PICK n \in Requests, r \in {q \in Revisions : q <= head} :
        Do(h, [Idle EXCEPT !.pc = "revision", !.rev = r, !.offset = handle.offset, !.length = n])
  BY DEF Read
<1> DEFINE w == [Idle EXCEPT !.pc = "revision", !.rev = r, !.offset = handle.offset, !.length = n]
<1>2. /\ handle.offset \in Nat /\ n \in Nat /\ n > 0 /\ r \in Revisions
      /\ mu # h /\ mu \in Handlers \cup {Nobody}
  BY <1>0, SizesAssumption, HandlerAt DEF FileInv, TypeOK, HandleType, WorkType
<1>3. /\ IsWork(w) /\ w.pc = "revision" /\ w.length = n /\ w.offset = handle.offset
      /\ w.buf = << >> /\ w.torn = FALSE /\ w.offline = FALSE
  BY <1>2, IdleFacts DEF IsWork, Pcs, Idle
<1>4. Do(h, w)
  BY <1>1
<1> HIDE DEF w
<1>5. RangeOK(w) /\ ReaderOK(handle, w)
  BY <1>0, <1>2, <1>3 DEF RangeOK, ReaderOK, Busy
<1>6. CacheType'
  BY <1>0, CacheUnmoved DEF FileInv, TypeOK, CacheType
<1>7. HandleType' /\ HandleInv'
  <2>1. \A g : Content(g)' = Content(g)
    BY <1>0, Unmoved
  <2> QED BY <1>0, <2>1 DEF FileInv, TypeOK, HandleType, HandleInv
<1> QED BY <1>0, <1>2, <1>3, <1>4, <1>5, <1>6, <1>7, HandlerMoves

(* The job is cancelled: the handler goes on for nobody.                    *)
LEMMA CancelReadStep ==
  ASSUME FileInv, CancelRead
  PROVE  FileInv'
<1>1. reader \in Handlers /\ mu \in Handlers \cup {Nobody}
  BY DEF CancelRead, FileInv, TypeOK, WorkType
<1>2. PICK h \in Handlers : h = reader
  BY <1>1
<1> DEFINE w0 == work[h]
           w == [w0 EXCEPT !.buf = << >>, !.torn = FALSE]
<1>3. /\ Do(h, w) /\ reader' = Nobody /\ mishaps < MaxMishaps /\ mishaps' = mishaps + 1
      /\ UNCHANGED <<size, head, handle, blocks, order, mu, excess>>
  BY <1>2 DEF CancelRead
<1>4. IsWork(w0) /\ RangeOK(w0) /\ (w0.pc = "evicting" <=> mu = h)
  BY HandlerAt
<1>5. /\ IsWork(w) /\ w.pc = w0.pc /\ w.idx = w0.idx
      /\ w.rev = w0.rev /\ w.offset = w0.offset /\ w.length = w0.length /\ w.last = w0.last
      /\ w.offline = w0.offline
  <2>1. << >> \in Seq(Bytes)
    OBVIOUS
  <2> QED BY <1>4, <2>1 DEF IsWork
<1> HIDE DEF w
<1>6. RangeOK(w)
  <2>1. StartBlock(w) = StartBlock(w0) /\ EndBlock(w) = EndBlock(w0)
    BY <1>5 DEF StartBlock, EndBlock
  <2> QED BY <1>4, <1>5, <2>1 DEF RangeOK, Busy
<1>7. CacheType'
  <2>1. mishaps' \in 0 .. MaxMishaps /\ excess' \in BOOLEAN
    BY <1>3, SizesAssumption DEF FileInv, TypeOK, CacheType
  <2> QED BY <1>3, <2>1, CacheUnmoved
<1>8. HandleType' /\ HandleInv'
  <2>1. \A g : Content(g)' = Content(g)
    BY <1>3, Unmoved
  <2> QED BY <1>3, <2>1 DEF FileInv, TypeOK, HandleType, HandleInv
<1>9. Nobody # h /\ \A g \in Handlers : reader' # g
  BY <1>3, HandlersAssumption
<1> QED BY <1>1, <1>3, <1>4, <1>5, <1>6, <1>7, <1>8, <1>9, HandlerMoves

(* The bytes cut out of a stretch of a revision are the file's own.         *)
LEMMA CutBytes ==
  ASSUME NEW C \in Seq(Bytes), NEW f \in Nat, NEW u \in Nat, NEW t \in Nat, NEW n \in Nat,
         NEW o \in Nat, NEW e \in Nat, u <= Len(C), n > 0, o = f + t, e = t + n, o + n <= u
  PROVE  SubSeq(SubSeq(C, f + 1, u), t + 1, e) = SubSeq(C, o + 1, o + n)
<1>1. /\ f + 1 \in 1 .. Len(C) /\ u \in 1 .. Len(C)
      /\ t + 1 \in 1 .. u - (f + 1) + 1 /\ t + n \in 1 .. u - (f + 1) + 1
  OBVIOUS
<1>2. SubSeq(SubSeq(C, f + 1, u), t + 1, t + n) = SubSeq(C, f + 1 + (t + 1) - 1, f + 1 + (t + n) - 1)
  BY <1>1, SubSeqOfSubSeq
<1>3. f + 1 + (t + 1) - 1 = o + 1 /\ f + 1 + (t + n) - 1 = o + n
  OBVIOUS
<1> QED BY <1>2, <1>3

(* What the client gets of a finished answer: as many bytes as are taken    *)
(* lie within the revision, they follow what was read before, and none is   *)
(* the end of the file.                                                     *)
LEMMA AnswerFacts ==
  ASSUME ServerType, NEW w, IsWork(w), RangeOK(w), ReaderOK(handle, w),
         w.pc = "blocks", w.idx > w.last
  PROVE  LET s == SliceRange(w)
             n == Len(s)
         IN  /\ s \in Seq(Bytes) /\ n \in Nat /\ n <= w.length
             /\ n > 0 => w.offset + n <= size[w.rev]
             /\ ~ w.torn => /\ n > 0 => s = SubSeq(Content(w.rev), w.offset + 1, w.offset + n)
                            /\ n = 0 => size[w.rev] <= w.offset
<1> DEFINE o == w.offset
           f == From(w)
           u == Upto(w)
           b == Len(w.buf)
           e == Least(b, o - f + w.length)
           s == SliceRange(w)
           C == Content(w.rev)
<1>0. /\ o \in Nat /\ w.length \in Nat /\ w.rev \in Revisions /\ w.idx \in Nat /\ w.last \in Int
      /\ w.buf \in Seq(Bytes) /\ b \in Nat
  BY WorkFields
<1>1. f \in Nat /\ f <= o /\ size[w.rev] \in Nat /\ StartBlock(w) \in Nat
      /\ o < (StartBlock(w) + 1) * BlockSize
  BY RangeFacts
<1>2. C \in Seq(Bytes) /\ Len(C) = size[w.rev]
  BY <1>0, ContentFacts
<1>3. u = Least(size[w.rev], w.idx * BlockSize) /\ w.idx * BlockSize \in Nat
  BY <1>0, BoundaryFacts DEF Upto, Gathered
<1>4. u \in Nat /\ u <= size[w.rev]
  BY <1>1, <1>3 DEF Least
<1>5. o < size[w.rev] => o < u
  <2>1. SUFFICES ASSUME o < size[w.rev] PROVE o < w.idx * BlockSize
    BY <1>1, <1>3 DEF Least
  <2>2. StartBlock(w) <= w.last
    BY <2>1 DEF RangeOK, Busy
  <2>3. StartBlock(w) + 1 <= w.idx /\ StartBlock(w) + 1 \in Nat
    BY <1>0, <1>1, <2>2
  <2>4. (StartBlock(w) + 1) * BlockSize <= w.idx * BlockSize /\ (StartBlock(w) + 1) * BlockSize \in Nat
    BY <1>0, <2>3, BoundaryFacts
  <2> QED BY <1>0, <1>1, <1>3, <2>4
<1>6. b <= Room(f, u) /\ w.length > 0 /\ (~ w.torn => w.buf = SubSeq(C, f + 1, u))
  BY DEF ReaderOK, RangeOK, Busy
<1>7. s = SubSeq(w.buf, o - f + 1, e)
  BY DEF SliceRange, From
<1> DEFINE t == o - f
           n == Room(t, e)
<1> HIDE DEF o, f, u, s, C, b
<1>8. t \in Nat /\ e \in Nat /\ e <= b /\ n \in Nat /\ t = o - f
  <2>1. t \in Nat
    BY <1>0, <1>1
  <2>2. e \in Nat /\ e <= b
    BY <1>0, <2>1 DEF Least
  <2> HIDE DEF e, t
  <2>3. n \in Nat
    BY <2>1, <2>2 DEF Room
  <2> QED BY <2>1, <2>2, <2>3 DEF t
<1>9. /\ n <= w.length /\ (n > 0 => o + n <= u /\ e = t + n)
      /\ b = Room(f, u) /\ o < u => n > 0
  <2>1. n = Room(t, e) /\ e = Least(b, t + w.length) /\ f + t = o
    BY <1>0, <1>1, <1>8
  <2> HIDE DEF n, e, t
  <2>2. /\ n <= w.length /\ (n > 0 => f + t + n <= u /\ e = t + n)
        /\ b = Room(f, u) /\ f + t < u => n > 0
    <3>1. /\ f \in Nat /\ u \in Nat /\ t \in Nat /\ b \in Nat /\ w.length \in Nat
          /\ e \in Nat /\ n \in Nat /\ b <= Room(f, u) /\ w.length > 0
      BY <1>0, <1>1, <1>4, <1>6, <1>8
    <3> DEFINE l == w.length
    <3> HIDE DEF l
    <3>2. /\ n <= l /\ (n > 0 => f + t + n <= u /\ e = t + n)
          /\ b = Room(f, u) /\ f + t < u => n > 0
      BY <2>1, <3>1 DEF l, Room, Least
    <3> QED BY <3>2 DEF l
  <2> QED BY <2>1, <2>2, Zenon
<1> HIDE DEF t, e, n
<1>10. s \in Seq(Bytes) /\ Len(s) = n
  <2>1. \A i \in t + 1 .. e : w.buf[i] \in Bytes
    BY <1>0, <1>8 DEF b
  <2>2. /\ SubSeq(w.buf, t + 1, e) \in Seq(Bytes)
        /\ Len(SubSeq(w.buf, t + 1, e)) = IF t + 1 <= e THEN e - (t + 1) + 1 ELSE 0
    BY <1>8, <2>1, SubSeqProperties
  <2>3. (IF t + 1 <= e THEN e - (t + 1) + 1 ELSE 0) = n
    BY <1>8 DEF Room, n
  <2> QED BY <1>7, <1>8, <2>2, <2>3
<1>11. n > 0 => o + n <= size[w.rev]
  BY <1>0, <1>1, <1>4, <1>8, <1>9
<1>12. ASSUME ~ w.torn, n > 0 PROVE s = SubSeq(C, o + 1, o + n)
  <2>1. s = SubSeq(SubSeq(C, f + 1, u), t + 1, e)
    BY <1>6, <1>7, <1>8, <1>12, Zenon
  <2>2. /\ C \in Seq(Bytes) /\ f \in Nat /\ u \in Nat /\ t \in Nat /\ n \in Nat /\ n > 0
        /\ o \in Nat /\ e \in Nat /\ o = f + t /\ e = t + n /\ o + n <= u /\ u <= Len(C)
    BY <1>0, <1>1, <1>2, <1>4, <1>8, <1>9, <1>12
  <2>3. SubSeq(SubSeq(C, f + 1, u), t + 1, e) = SubSeq(C, o + 1, o + n)
    BY <2>2, CutBytes
  <2> QED BY <2>1, <2>3
<1>13. ASSUME ~ w.torn, n = 0 PROVE size[w.rev] <= o
  <2>1. Len(SubSeq(C, f + 1, u)) = Room(f, u)
    BY <1>0, <1>1, <1>4, StretchFacts DEF C, Room
  <2>2. b = Room(f, u)
    BY <1>6, <1>13, <2>1 DEF b
  <2>3. ~ o < u
    BY <1>9, <1>13, <2>2
  <2> QED BY <1>0, <1>1, <1>5, <2>3
<1> QED BY <1>8, <1>9, <1>10, <1>11, <1>12, <1>13 DEF o, s, C

(* The client reads on: an answer's bytes follow the ones it has.           *)
LEMMA AdvanceFacts ==
  ASSUME ServerType, HandleType, HandleInv, NEW w, IsWork(w), RangeOK(w), ReaderOK(handle, w),
         w.pc = "blocks", w.idx > w.last,
         handle' = Advance(w, SliceRange(w)), size' = size
  PROVE  HandleType' /\ HandleInv'
<1> DEFINE s == SliceRange(w)
           n == Len(s)
           o == handle.offset
           r == w.rev
           C == Content(r)
           sp == handle.spoiled \/ w.torn \/ handle.rev \notin {NoRev, r}
           rv == IF sp THEN NoRev ELSE r
           dt == IF sp THEN << >> ELSE handle.data \o s
<1>0. /\ r \in Revisions /\ size[r] \in Nat /\ C \in Seq(Bytes) /\ Len(C) = size[r]
      /\ r # NoRev
  <2>1. r \in Revisions
    BY WorkFields
  <2>2. r # NoRev
    BY <2>1, SizesAssumption DEF Revisions, NoRev
  <2> QED BY <2>1, <2>2, ContentFacts
<1>1. /\ handle \in [open : BOOLEAN, offset : Nat, eof : BOOLEAN, rev : Revisions \cup {NoRev},
                     data : Seq(Bytes), spoiled : BOOLEAN]
      /\ o \in Nat /\ handle.data \in Seq(Bytes) /\ handle.spoiled \in BOOLEAN
      /\ w.torn \in BOOLEAN /\ w.offset = o /\ w.length \in Nat
  BY WorkFields DEF HandleType, ReaderOK
<1>2. /\ s \in Seq(Bytes) /\ n \in Nat /\ n <= w.length
      /\ n > 0 => o + n <= size[r]
      /\ ~ w.torn => /\ n > 0 => s = SubSeq(C, o + 1, o + n)
                     /\ n = 0 => size[r] <= o
  BY <1>1, AnswerFacts
<1>3. SubSeq(s, 1, Least(Len(s), w.length)) = s
  <2> HIDE DEF s
  <2>1. Least(Len(s), w.length) = Len(s)
    BY <1>1, <1>2 DEF Least
  <2> QED BY <1>2, <2>1, SubSeqFull
<1>4. sp \in BOOLEAN
  BY <1>1
<1>5. dt \in Seq(Bytes) /\ rv \in Revisions \cup {NoRev}
  <2> HIDE DEF s, sp
  <2>1. handle.data \o s \in Seq(Bytes)
    BY <1>1, <1>2, ConcatProperties
  <2>2. << >> \in Seq(Bytes)
    OBVIOUS
  <2> QED BY <1>0, <2>1, <2>2, Zenon
<1>6. handle' = [handle EXCEPT !.eof = s = << >>, !.spoiled = sp, !.rev = rv, !.data = dt,
                               !.offset = o + n]
  <2>1. handle' = [[handle EXCEPT !.eof = s = << >>, !.spoiled = sp, !.rev = rv, !.data = dt]
                    EXCEPT !.offset = @ + n]
    BY <1>3 DEF Advance, Consume
  <2> HIDE DEF s, sp, rv, dt, n, o
  <2> QED BY <1>1, <2>1 DEF o
<1> HIDE DEF s, sp, rv, dt, n, o
<1>7. /\ handle' \in [open : BOOLEAN, offset : Nat, eof : BOOLEAN, rev : Revisions \cup {NoRev},
                      data : Seq(Bytes), spoiled : BOOLEAN]
      /\ handle'.eof = (s = << >>) /\ handle'.spoiled = sp /\ handle'.rev = rv
      /\ handle'.data = dt /\ handle'.offset = o + n
  <2>1. o + n \in Nat /\ (s = << >>) \in BOOLEAN
    BY <1>1, <1>2
  <2> QED BY <1>1, <1>4, <1>5, <1>6, <2>1
<1>8. HandleType'
  <2>1. PICK q \in Revisions : o <= size[q]
    BY DEF HandleType, o
  <2>2. CASE n = 0
    <3>1. o + n = o
      BY <1>1, <2>2
    <3>2. handle'.offset <= size'[q]
      BY <1>7, <2>1, <3>1
    <3> QED BY <1>7, <3>2 DEF HandleType
  <2>3. CASE n > 0
    <3>1. handle'.offset <= size'[r]
      BY <1>2, <1>7, <2>3
    <3> QED BY <1>0, <1>7, <3>1 DEF HandleType
  <2>4. n = 0 \/ n > 0
    BY <1>2
  <2> QED BY <2>2, <2>3, <2>4
<1>9. ASSUME ~ sp
      PROVE  /\ rv = r /\ o + n <= size[r] /\ dt = SubSeq(C, 1, o + n)
             /\ s = << >> => o + n = size[r]
  <2>1. /\ ~ handle.spoiled /\ ~ w.torn /\ (handle.rev = NoRev \/ handle.rev = r)
        /\ rv = r /\ dt = handle.data \o s
    BY <1>9 DEF sp, rv, dt
  <2>2. o <= size[r] /\ handle.data = SubSeq(C, 1, o)
    <3>1. CASE handle.rev = NoRev
      <4>1. handle.data = << >> /\ o = 0
        BY <2>1, <3>1, SizesAssumption DEF HandleInv, o, NoRev, Revisions
      <4>2. SubSeq(C, 1, 0) = << >>
        BY SubSeqEmpty
      <4> QED BY <1>0, <4>1, <4>2
    <3>2. CASE handle.rev = r
      BY <1>0, <2>1, <3>2 DEF HandleInv, o, C
    <3> QED BY <2>1, <3>1, <3>2
  <2>3. CASE n = 0
    <3>1. s = << >> /\ o + n = o /\ size[r] <= o
      BY <1>1, <1>2, <2>1, <2>3, EmptySeq DEF n
    <3>2. handle.data \o << >> = handle.data
      BY <1>1, ConcatEmptySeq
    <3>3. dt = SubSeq(C, 1, o)
      BY <2>1, <2>2, <3>1, <3>2
    <3>4. o = size[r]
      BY <1>0, <1>1, <2>2, <3>1
    <3> QED BY <1>0, <2>1, <2>2, <3>1, <3>3, <3>4
  <2>4. CASE n > 0
    <3>1. s = SubSeq(C, o + 1, o + n) /\ o + n <= size[r]
      BY <1>2, <2>1, <2>4
    <3>2. 1 \in 1 .. Len(C) + 1 /\ o \in 1 - 1 .. Len(C) /\ o + n \in o .. Len(C)
      BY <1>0, <1>1, <1>2, <2>2, <3>1
    <3>3. SubSeq(C, 1, o) \o SubSeq(C, o + 1, o + n) = SubSeq(C, 1, o + n)
      BY <1>0, <3>2, ConcatAdjacentSubSeq
    <3>4. dt = SubSeq(C, 1, o + n)
      BY <2>1, <2>2, <3>1, <3>3
    <3>5. s # << >>
      BY <2>4 DEF n
    <3> QED BY <2>1, <3>1, <3>4, <3>5
  <2>5. n = 0 \/ n > 0
    BY <1>2
  <2> QED BY <2>3, <2>4, <2>5
<1>10. HandleInv'
  <2>1. SUFFICES ASSUME ~ sp PROVE HandleInv'
    BY <1>7 DEF HandleInv
  <2>2. Content(r)' = C
    BY Unmoved DEF C
  <2>3. /\ handle'.rev = r /\ handle'.offset <= size'[r] /\ handle'.data = SubSeq(C, 1, handle'.offset)
        /\ handle'.eof => handle'.offset = size'[r]
    BY <1>7, <1>9, <2>1
  <2> HIDE DEF C
  <2>4. Content(handle.rev)' = C
    BY <2>3 DEF Content, C
  <2> QED BY <1>0, <2>3, <2>4 DEF HandleInv
<1> QED BY <1>8, <1>10

(* A handler's answer.                                                      *)
LEMMA AnswerStep ==
  ASSUME FileInv, NEW h \in Handlers, Answer(h)
  PROVE  FileInv'
<1>0. /\ work[h].pc = "blocks" /\ work[h].idx > work[h].last /\ Do(h, Idle)
      /\ handle' = (IF reader = h THEN Advance(work[h], SliceRange(work[h])) ELSE handle)
      /\ reader' = (IF reader = h THEN Nobody ELSE reader)
      /\ UNCHANGED <<size, head, cacheVars>>
  BY DEF Answer
<1>1. /\ mu # h /\ IsWork(work[h]) /\ RangeOK(work[h]) /\ ServerType
      /\ reader = h => ReaderOK(handle, work[h])
  BY <1>0, HandlerAt
<1>2. HandleType /\ HandleInv
  BY DEF FileInv, TypeOK
<1>3. HandleType' /\ HandleInv'
  <2>1. CASE reader = h
    <3> DEFINE w == work[h]
    <3>1. handle' = Advance(w, SliceRange(w)) /\ size' = size
      BY <1>0, <2>1
    <3> QED BY <1>0, <1>1, <1>2, <2>1, <3>1, AdvanceFacts
  <2>2. CASE reader # h
    <3>1. \A g : Content(g)' = Content(g)
      BY <1>0, Unmoved
    <3> QED BY <1>0, <1>2, <2>2, <3>1 DEF HandleType, HandleInv
  <2> QED BY <2>1, <2>2
<1> QED BY <1>0, <1>1, <1>3, HandlerEnds

-----------------------------------------------------------------------------
(* A step that is not a handler's, and that leaves a handle being read      *)
(* alone.                                                                   *)
LEMMA HandlersStay ==
  ASSUME FileInv, size' = size, head' \in Revisions, UNCHANGED <<work, reader, mu>>,
         HandleType', HandleInv', CacheType', reader \in Handlers => handle' = handle
  PROVE  FileInv'
<1>0. ServerType /\ WorkType /\ RangeInv /\ ReaderInv
  BY DEF FileInv, TypeOK
<1>1. ServerType'
  BY <1>0 DEF ServerType
<1>2. WorkType'
  BY <1>0 DEF WorkType, IsWork
<1>3. RangeInv'
  BY <1>0 DEF RangeInv, RangeOK, Busy, StartBlock, EndBlock
<1>4. ReaderInv'
  <2>1. \A g \in Handlers : reader' = g => ReaderOK(handle', work'[g])
    BY <1>0 DEF ReaderInv
  <2>2. \A g \in Handlers : ReaderOK(handle, work[g])' <=> ReaderOK(handle', work'[g])
    BY DEF ReaderOK, Busy, StartBlock, Upto, From, Gathered, Content
  <2> QED BY <2>1, <2>2 DEF ReaderInv
<1> QED BY <1>1, <1>2, <1>3, <1>4 DEF FileInv, TypeOK

(* A handle fresh from its open, or closed.                                 *)
LEMMA FreshHandle ==
  ASSUME ServerType, size' = size, handle' \in {Closed, [Closed EXCEPT !.open = TRUE]}
  PROVE  HandleType' /\ HandleInv'
<1>1. /\ handle' \in [open : BOOLEAN, offset : Nat, eof : BOOLEAN, rev : Revisions \cup {NoRev},
                      data : Seq(Bytes), spoiled : BOOLEAN]
      /\ handle'.offset = 0 /\ handle'.rev = NoRev /\ handle'.data = << >> /\ ~ handle'.eof
  <2>1. << >> \in Seq(Bytes)
    OBVIOUS
  <2>2. CASE handle' = Closed
    BY <2>1, <2>2 DEF Closed
  <2>3. CASE handle' = [Closed EXCEPT !.open = TRUE]
    BY <2>1, <2>3 DEF Closed
  <2> QED BY <2>2, <2>3
<1>2. 1 \in Revisions /\ size[1] \in Nat
  BY SizesAssumption DEF ServerType, Revisions
<1>3. handle'.offset <= size'[1]
  BY <1>1, <1>2
<1> QED BY <1>1, <1>2, <1>3 DEF HandleType, HandleInv

(* The handle and the cache are left alone.                                 *)
LEMMA ClientUnmoved ==
  ASSUME FileInv, UNCHANGED <<size, handle>>
  PROVE  HandleType' /\ HandleInv'
<1>1. \A g : Content(g)' = Content(g)
  BY Unmoved
<1> QED BY <1>1 DEF FileInv, TypeOK, HandleType, HandleInv

(* A handle is opened, or closed.                                           *)
LEMMA OpenCloseStep ==
  ASSUME FileInv, OpenForRead \/ CloseRead
  PROVE  FileInv'
<1>0. /\ UNCHANGED <<size, head, reader, work, blocks, order, mu, mishaps, excess>>
      /\ handle' \in {Closed, [Closed EXCEPT !.open = TRUE]}
  BY DEF OpenForRead, CloseRead, cacheVars
<1>1. ServerType /\ CacheType /\ head \in Revisions
  BY DEF FileInv, TypeOK, ServerType
<1>2. reader \notin Handlers
  BY HandlersAssumption DEF OpenForRead, CloseRead, FileInv, ReaderInv, ReaderOK
<1>3. HandleType' /\ HandleInv'
  BY <1>0, <1>1, FreshHandle
<1>4. CacheType'
  BY <1>0, <1>1, CacheUnmoved DEF CacheType
<1> QED BY <1>0, <1>1, <1>2, <1>3, <1>4, HandlersStay

(* The file gets a new revision.                                            *)
LEMMA NewRevisionStep ==
  ASSUME FileInv, NewRevision
  PROVE  FileInv'
<1>0. /\ UNCHANGED <<size, handle, reader, work, blocks, order, mu, mishaps, excess>>
      /\ head < MaxRevisions /\ head' = head + 1
  BY DEF NewRevision, cacheVars
<1>1. head' \in Revisions
  BY <1>0, SizesAssumption DEF FileInv, TypeOK, ServerType, Revisions
<1>2. CacheType'
  BY <1>0, CacheUnmoved DEF FileInv, TypeOK, CacheType
<1> QED BY <1>0, <1>1, <1>2, ClientUnmoved, HandlersStay

(* The file's blocks are dropped.                                           *)
LEMMA InvalidateLinkStep ==
  ASSUME FileInv, InvalidateLink
  PROVE  FileInv'
<1>0. /\ UNCHANGED <<size, head, handle, reader, work, mu, mishaps, excess>>
      /\ blocks' = << >> /\ order' = << >>
  BY DEF InvalidateLink
<1>1. head' \in Revisions
  BY <1>0 DEF FileInv, TypeOK, ServerType
<1>2. CacheType'
  <2>1. DOMAIN << >> = {} /\ << >> \in Seq(Keys)
    OBVIOUS
  <2>2. IsInjective(<< >>) /\ Range(<< >>) = {}
    BY <2>1 DEF IsInjective, Range
  <2>3. mishaps' \in 0 .. MaxMishaps /\ excess' \in BOOLEAN
    BY <1>0 DEF FileInv, TypeOK, CacheType
  <2> QED BY <1>0, <2>1, <2>2, <2>3, CacheMoves
<1> QED BY <1>0, <1>1, <1>2, ClientUnmoved, HandlersStay

(* The helper dies.                                                         *)
LEMMA HelperCrashStep ==
  ASSUME FileInv, HelperCrash
  PROVE  FileInv'
<1>0. /\ UNCHANGED <<size, head, blocks, order>> /\ mishaps < MaxMishaps /\ mishaps' = mishaps + 1
      /\ excess' = TRUE /\ work' = [h \in Handlers |-> Idle] /\ handle' = Closed
      /\ reader' = Nobody /\ mu' = Nobody
  BY DEF HelperCrash
<1>1. ServerType /\ ServerType'
  BY <1>0 DEF FileInv, TypeOK, ServerType
<1>2. CacheType'
  <2>1. mishaps' \in 0 .. MaxMishaps /\ excess' \in BOOLEAN
    BY <1>0, SizesAssumption DEF FileInv, TypeOK, CacheType
  <2> QED BY <1>0, <2>1, CacheUnmoved
<1>3. HandleType' /\ HandleInv'
  BY <1>0, <1>1, FreshHandle
<1>4. \A h \in Handlers : work'[h] = Idle /\ reader' # h /\ mu' # h
  BY <1>0, HandlersAssumption
<1>5. WorkType'
  <2>1. \A h \in Handlers : IsWork(work[h])'
    BY <1>4, IdleFacts DEF IsWork
  <2> QED BY <1>0, <1>4, <2>1, IdleFacts DEF WorkType
<1>6. RangeInv'
  BY <1>4, IdleFacts DEF RangeInv, RangeOK, Busy
<1>7. ReaderInv'
  BY <1>4 DEF ReaderInv
<1> QED BY <1>1, <1>2, <1>3, <1>5, <1>6, <1>7 DEF FileInv, TypeOK

(* The invariant at the start.                                              *)
LEMMA FileInit == Init => FileInv
<1> SUFFICES ASSUME Init PROVE FileInv
  OBVIOUS
<1>0. 1 \in Revisions
  BY SizesAssumption DEF Revisions
<1>1. ServerType
  BY <1>0 DEF Init, ServerType
<1>2. HandleType /\ HandleInv
  <2>1. << >> \in Seq(Bytes)
    OBVIOUS
  <2>2. /\ handle \in [open : BOOLEAN, offset : Nat, eof : BOOLEAN, rev : Revisions \cup {NoRev},
                       data : Seq(Bytes), spoiled : BOOLEAN]
        /\ handle.offset = 0 /\ handle.rev = NoRev /\ handle.data = << >> /\ ~ handle.eof
    BY <2>1 DEF Init, Closed
  <2>3. handle.offset <= size[1]
    BY <1>0, <1>1, <2>2, ContentFacts
  <2> QED BY <1>0, <2>2, <2>3 DEF HandleType, HandleInv
<1>3. \A h \in Handlers : work[h] = Idle /\ reader # h /\ mu # h
  BY HandlersAssumption DEF Init
<1>4. WorkType
  BY <1>3, IdleFacts DEF Init, WorkType
<1>5. CacheType
  <2>1. DOMAIN << >> = {} /\ << >> \in Seq(Keys)
    OBVIOUS
  <2>2. IsInjective(<< >>) /\ Range(<< >>) = {}
    BY <2>1 DEF IsInjective, Range
  <2>3. blocks = << >> /\ order = << >> /\ mishaps \in 0 .. MaxMishaps /\ excess \in BOOLEAN
    <3>1. blocks = << >> /\ order = << >> /\ mishaps = 0 /\ excess = FALSE
      BY DEF Init
    <3>2. 0 \in 0 .. MaxMishaps
      BY SizesAssumption
    <3> QED BY <3>1, <3>2, Zenon
  <2> QED BY <2>1, <2>2, <2>3 DEF CacheType
<1>6. RangeInv
  BY <1>3, IdleFacts DEF RangeInv
<1>7. ReaderInv
  BY <1>3 DEF ReaderInv
<1> QED BY <1>1, <1>2, <1>4, <1>5, <1>6, <1>7 DEF FileInv, TypeOK

(* Every step keeps the invariant.                                          *)
LEMMA FileStep == FileInv /\ [Next]_vars => FileInv'
<1> SUFFICES ASSUME FileInv, [Next]_vars PROVE FileInv'
  OBVIOUS
<1>1. CASE OpenForRead \/ CloseRead
  BY <1>1, OpenCloseStep
<1>2. CASE CancelRead
  BY <1>2, CancelReadStep
<1>3. CASE NewRevision
  BY <1>3, NewRevisionStep
<1>4. CASE InvalidateLink
  BY <1>4, InvalidateLinkStep
<1>5. CASE HelperCrash
  BY <1>5, HelperCrashStep
<1>6. ASSUME NEW h \in Handlers, Read(h) \/ HandlerStep(h) PROVE FileInv'
  <2>1. CASE Read(h)
    BY <2>1, ReadStep
  <2>2. CASE GetRevision(h)
    BY <2>2, GetRevisionStep
  <2>3. CASE GetBlock(h)
    BY <2>3, GetBlockStep
  <2>4. CASE MissBlock(h)
    BY <2>4, MissBlockStep
  <2>5. CASE Refused(h)
    BY <2>5, FailStep DEF Refused
  <2>6. CASE OfflineMiss(h)
    BY <2>6, FailStep DEF OfflineMiss, AtBlock
  <2>7. CASE PutBlock(h)
    BY <2>7, PutBlockStep
  <2>8. CASE WriteBlock(h)
    BY <2>8, WriteBlockStep
  <2>9. CASE WriteFails(h)
    BY <2>9, WriteFailsStep
  <2>10. CASE WalkBlocks(h)
    BY <2>10, WalkBlocksStep
  <2>11. CASE EvictOne(h)
    BY <2>11, EvictOneStep
  <2>12. CASE Evicted(h)
    BY <2>12, EvictedStep
  <2>13. CASE Answer(h)
    BY <2>13, AnswerStep
  <2> QED BY <1>6, <2>1, <2>2, <2>3, <2>4, <2>5, <2>6, <2>7, <2>8, <2>9, <2>10, <2>11, <2>12, <2>13
          DEF HandlerStep
<1>7. CASE UNCHANGED vars
  <2>1. UNCHANGED <<size, head, handle, reader, work, blocks, order, mu, mishaps, excess>>
    BY <1>7 DEF vars
  <2>2. CacheType' /\ head' \in Revisions
    BY <2>1, CacheUnmoved DEF FileInv, TypeOK, ServerType, CacheType
  <2> QED BY <2>1, <2>2, ClientUnmoved, HandlersStay
<1> QED BY <1>1, <1>2, <1>3, <1>4, <1>5, <1>6, <1>7 DEF Next

(* Every reachable state satisfies the invariant.                           *)
LEMMA FileInductive == Spec => []FileInv
BY FileInit, FileStep, PTL DEF Spec

-----------------------------------------------------------------------------
(* Whatever handlers, cancelled reads, evictions and crashes do, the        *)
(* handle, the handlers' records and the cache keep their types: no handle  *)
(* beyond the end of every revision, no block file longer than its block,   *)
(* and the eviction mutex (BlockCache.mu) with one holder at most.          *)
THEOREM FileTypeCorrect == Spec => []TypeOK
<1>1. FileInv => TypeOK
  BY DEF FileInv
<1> QED BY <1>1, FileInductive, PTL

(* Reads on one handle add up to the file, for files, blocks, pages and     *)
(* requests of any size: do_read's offset, ReadFileContent's block range    *)
(* and sliceRange fit together whether blocks come from Proton or from the  *)
(* cache, and end of file is told where the file ends and nowhere else.     *)
THEOREM ReadsAddUpAlways == Spec => []ReadsAddUp
<1>1. FileInv => ReadsAddUp
  <2> SUFFICES ASSUME FileInv, handle.rev # NoRev, ~ handle.spoiled
               PROVE  /\ IsPrefix(handle.data, Content(handle.rev))
                      /\ Len(handle.data) = handle.offset
                      /\ handle.eof => handle.data = Content(handle.rev)
    BY DEF ReadsAddUp
  <2> DEFINE r == handle.rev
             o == handle.offset
             C == Content(r)
             d == handle.data
  <2>1. /\ r \in Revisions /\ o <= size[r] /\ d = SubSeq(C, 1, o)
        /\ handle.eof => o = size[r]
    BY DEF FileInv, HandleInv
  <2>2. o \in Nat /\ d \in Seq(Bytes)
    BY DEF FileInv, TypeOK, HandleType
  <2>3. size[r] \in Nat /\ C \in Seq(Bytes) /\ Len(C) = size[r]
    BY <2>1, ContentFacts DEF FileInv, TypeOK
  <2> HIDE DEF r, o, C, d
  <2>4. Len(d) = o
    BY <2>1, <2>2, <2>3
  <2>5. SubSeq(d, 1, Len(d)) = d
    BY <2>2, SubSeqFull
  <2>6. IsPrefix(d, C)
    BY <2>1, <2>3, <2>4, <2>5 DEF IsPrefix
  <2>7. ASSUME handle.eof PROVE d = C
    BY <2>1, <2>3, <2>7, SubSeqFull
  <2> QED BY <2>4, <2>6, <2>7 DEF r, o, C, d
<1> QED BY <1>1, FileInductive, PTL

(* A block that readFromCache misses holds bytes of the range.              *)
LEMMA MissedBlockFacts ==
  ASSUME ServerType, NEW w, IsWork(w), RangeOK(w), w.pc = "blocks", w.offline, w.idx <= w.last
  PROVE  LET asked == w.offset + 1 .. Least(size[w.rev], w.offset + w.length)
             held == w.idx * BlockSize + 1 .. (w.idx + 1) * BlockSize
         IN  asked = {} \/ asked \cap held # {}
<1> DEFINE o == w.offset
           e == Least(size[w.rev], o + w.length)
           m == w.idx * BlockSize
           n == (w.idx + 1) * BlockSize
<1>0. /\ o \in Nat /\ w.length \in Nat /\ w.idx \in Nat /\ w.last \in Int /\ size[w.rev] \in Nat
      /\ StartBlock(w) \in Nat /\ o < (StartBlock(w) + 1) * BlockSize
  BY WorkFields, RangeFacts
<1>1. e \in Nat
  BY <1>0 DEF Least
<1>2. m \in Nat /\ n = m + BlockSize /\ BlockSize \in Nat \ {0}
  BY <1>0, BoundaryFacts, SizesAssumption
<1>3. StartBlock(w) <= w.idx /\ w.idx <= EndBlock(w)
  BY DEF RangeOK, Busy
<1>4. o < n
  <2>1. /\ (StartBlock(w) + 1) * BlockSize <= (w.idx + 1) * BlockSize
        /\ (StartBlock(w) + 1) * BlockSize \in Nat
    BY <1>0, <1>3, BoundaryFacts
  <2> QED BY <1>0, <1>2, <2>1
<1>5. ASSUME o < e PROVE m < e
  <2> DEFINE p == (e - 1) \div BlockSize
  <2>1. EndBlock(w) = p
    BY <1>0, <1>1, <1>5 DEF EndBlock
  <2>2. e - 1 \in Nat
    BY <1>0, <1>1, <1>5
  <2>3. p \in Nat /\ p * BlockSize \in Nat /\ p * BlockSize <= e - 1
    BY <2>2, DivFacts
  <2> HIDE DEF p
  <2>4. m <= p * BlockSize
    BY <1>0, <1>3, <2>1, <2>3, BoundaryFacts
  <2> QED BY <1>1, <1>2, <2>3, <2>4
<1> HIDE DEF m, n, e, o
<1>6. CASE ~ o < e
  <2>1. o + 1 .. e = {}
    BY <1>0, <1>1, <1>6
  <2> QED BY <2>1 DEF o, e
<1>7. CASE o < e
  <2> DEFINE x == IF o < m THEN m + 1 ELSE o + 1
  <2>1. x \in o + 1 .. e /\ x \in m + 1 .. n
    BY <1>0, <1>1, <1>2, <1>4, <1>5, <1>7
  <2> HIDE DEF x
  <2>2. (o + 1 .. e) \cap (m + 1 .. n) # {}
    BY <2>1
  <2> QED BY <2>2 DEF o, e, m, n
<1> QED BY <1>6, <1>7

(* A read fails for want of the network only when the cache lacks a block   *)
(* that holds bytes asked for: endBlock0 of readFromCache reaches no        *)
(* further than the range, for every offset, length and size.               *)
THEOREM OfflineMissesAreReal == Spec => OfflineOnlyWhenMissing
<1>1. FileInv /\ [Next]_vars =>
        [\A h \in Handlers : OfflineMiss(h) =>
           LET w == work[h]
               asked == w.offset + 1 .. Least(size[w.rev], w.offset + w.length)
               held == w.idx * BlockSize + 1 .. (w.idx + 1) * BlockSize
           IN  asked = {} \/ asked \cap held # {}]_vars
  <2> SUFFICES ASSUME FileInv, NEW h \in Handlers, OfflineMiss(h)
               PROVE  LET w == work[h]
                          asked == w.offset + 1 .. Least(size[w.rev], w.offset + w.length)
                          held == w.idx * BlockSize + 1 .. (w.idx + 1) * BlockSize
                      IN  asked = {} \/ asked \cap held # {}
    OBVIOUS
  <2>1. /\ work[h].pc = "blocks" /\ work[h].offline /\ work[h].idx <= work[h].last
        /\ IsWork(work[h]) /\ RangeOK(work[h]) /\ ServerType
    BY HandlerAt DEF OfflineMiss, AtBlock
  <2> QED BY <2>1, MissedBlockFacts
<1> QED BY <1>1, FileInductive, PTL DEF Spec, OfflineOnlyWhenMissing

-----------------------------------------------------------------------------
(* What evictIfNeeded has yet to look at holds every byte there is, and its *)
(* own count has not fallen below those bytes.                              *)
Accounted(stored, files, total) ==
  /\ \A i, j \in DOMAIN files : files[i][1] = files[j][1] => i = j
  /\ stored \subseteq Listed(files)
  /\ Cardinality(Listed(files)) <= total

(* Too much is stored only while someone is about to walk the cache, or is  *)
(* removing files by a walk since which no block was completed.             *)
BoundInv ==
  ~ excess =>
    \/ \E h \in Handlers : work[h].pc = "locking"
    \/ Stored <= MaxCache
    \/ \E h \in Handlers : mu = h /\ Accounted(StoredBytes, work[h].files, work[h].total)

(* The files that remain of a list without its first.                       *)
LEMMA ListedTail ==
  ASSUME NEW fs \in Seq(Keys \X Nat), fs # << >>,
         \A i, j \in DOMAIN fs : fs[i][1] = fs[j][1] => i = j
  PROVE  /\ \A i, j \in DOMAIN Tail(fs) : Tail(fs)[i][1] = Tail(fs)[j][1] => i = j
         /\ Listed(Tail(fs)) = Listed(fs) \ ({Head(fs)[1]} \X (1 .. Head(fs)[2]))
         /\ Cardinality(Listed(Tail(fs))) = Cardinality(Listed(fs)) - Head(fs)[2]
         /\ \A x \in Listed(fs) : x[1] # Head(fs)[1] => x \in Listed(Tail(fs))
<1> DEFINE t == Tail(fs)
           f == fs[1]
           B(i) == {fs[i][1]} \X (1 .. fs[i][2])
           first == B(1)
<1>1. PICK n \in Nat : Len(fs) = n + 1
  <2>1. Len(fs) \in Nat /\ Len(fs) # 0
    BY EmptySeq, LenProperties
  <2>2. Len(fs) - 1 \in Nat /\ Len(fs) = (Len(fs) - 1) + 1
    BY <2>1
  <2> QED BY <2>2
<1>2. DOMAIN fs = 1 .. n + 1 /\ DOMAIN t = 1 .. n /\ \A i \in 1 .. n : t[i] = fs[i + 1]
  BY <1>1, HeadTailProperties, LenProperties
<1>3. Head(fs) = f /\ f \in Keys \X Nat
  BY <1>1, ElementOfSeq
<1> HIDE DEF t
<1>4. \A i \in 1 .. n + 1 : i = 1 \/ (i - 1 \in 1 .. n /\ (i - 1) + 1 = i)
  OBVIOUS
<1>5. \A i \in 1 .. n : i + 1 \in 1 .. n + 1 /\ i + 1 # 1
  OBVIOUS
<1>6. 1 \in 1 .. n + 1
  OBVIOUS
<1>7. \A i, j \in DOMAIN t : t[i][1] = t[j][1] => i = j
  <2> SUFFICES ASSUME NEW i \in 1 .. n, NEW j \in 1 .. n, t[i][1] = t[j][1] PROVE i = j
    BY <1>2
  <2>1. fs[i + 1][1] = fs[j + 1][1]
    BY <1>2
  <2>2. i + 1 = j + 1
    BY <1>2, <1>5, <2>1
  <2> QED BY <2>2
<1>8. \A x : x \in Listed(fs) <=> \E i \in 1 .. n + 1 : x \in B(i)
  <2>1. Listed(fs) = UNION {B(i) : i \in 1 .. n + 1}
    BY <1>2 DEF Listed
  <2> HIDE DEF B
  <2> QED BY <2>1
<1>9. \A x : x \in Listed(t) <=> \E i \in 1 .. n : x \in B(i + 1)
  <2>1. \A i \in 1 .. n : {t[i][1]} \X (1 .. t[i][2]) = B(i + 1)
    BY <1>2
  <2>2. Listed(t) = UNION {{t[i][1]} \X (1 .. t[i][2]) : i \in 1 .. n}
    BY <1>2 DEF Listed
  <2> HIDE DEF B
  <2>3. \A x : x \in Listed(t) <=> \E i \in 1 .. n : x \in {t[i][1]} \X (1 .. t[i][2])
    BY <2>2, Zenon
  <2> QED BY <2>1, <2>3, Zenon
<1>10. \A i \in 1 .. n + 1 : \A x : x \in B(i) => x[1] = fs[i][1]
  OBVIOUS
<1> HIDE DEF B
<1>11. Listed(t) = Listed(fs) \ first
  <2>1. ASSUME NEW x \in Listed(t) PROVE x \in Listed(fs) /\ x \notin first
    <3>1. PICK i \in 1 .. n : x \in B(i + 1)
      BY <1>9
    <3>2. x[1] = fs[i + 1][1] /\ (x \in first => x[1] = fs[1][1])
      BY <1>5, <1>6, <1>10, <3>1
    <3>3. x \notin first
      BY <1>2, <1>5, <1>6, <3>2
    <3> QED BY <1>5, <1>8, <3>1, <3>3
  <2>2. ASSUME NEW x \in Listed(fs), x \notin first PROVE x \in Listed(t)
    <3>1. PICK i \in 1 .. n + 1 : x \in B(i)
      BY <1>8
    <3>2. i # 1
      BY <2>2, <3>1
    <3>3. i - 1 \in 1 .. n /\ x \in B((i - 1) + 1)
      BY <1>4, <3>1, <3>2
    <3> QED BY <1>9, <3>3
  <2> QED BY <2>1, <2>2
<1>12. first \subseteq Listed(fs)
  BY <1>6, <1>8
<1>13. IsFiniteSet(Listed(fs)) /\ Cardinality(Listed(fs)) \in Nat
  BY ListedFinite
<1>14. Cardinality(first) = f[2]
  BY <1>3, FileBytes DEF B
<1>15. Cardinality(Listed(t)) = Cardinality(Listed(fs)) - f[2]
  <2>1. Listed(fs) \cap first = first
    BY <1>12
  <2> HIDE DEF first
  <2>2. Cardinality(Listed(fs) \ first) = Cardinality(Listed(fs)) - Cardinality(Listed(fs) \cap first)
    BY <1>13, FS_Difference
  <2> QED BY <1>11, <1>14, <2>1, <2>2, Zenon
<1>16. \A x \in Listed(fs) : x[1] # f[1] => x \in Listed(t)
  BY <1>6, <1>10, <1>11
<1> QED BY <1>3, <1>7, <1>11, <1>15, <1>16 DEF t, B

(* Fewer bytes stored.                                                      *)
LEMMA StoresLess ==
  ASSUME FileInv, FileInv', StoredBytes' \subseteq StoredBytes
  PROVE  Stored' <= Stored /\ Stored \in Nat /\ Stored' \in Nat
<1>1. IsFiniteSet(StoredBytes) /\ Stored = Cardinality(StoredBytes) /\ Stored \in Nat
  BY StoredFacts DEF FileInv, TypeOK
<1>2. (ServerType /\ CacheType => Stored = Cardinality(StoredBytes) /\ Stored \in Nat)'
  BY StoredFacts, PTL
<1>3. Stored' = Cardinality(StoredBytes') /\ Stored' \in Nat
  BY <1>2 DEF FileInv, TypeOK
<1>4. Cardinality(StoredBytes') <= Cardinality(StoredBytes)
  BY <1>1, FS_Subset
<1> QED BY <1>1, <1>3, <1>4

(* A step that completes no block and leaves eviction alone.                *)
LEMMA BoundStays ==
  ASSUME FileInv, FileInv', BoundInv, StoredBytes' \subseteq StoredBytes, UNCHANGED <<mu, excess>>,
         \A g \in Handlers : work[g].pc = "locking" => work'[g].pc = "locking",
         \A g \in Handlers : mu = g => work'[g].files = work[g].files /\ work'[g].total = work[g].total
  PROVE  BoundInv'
<1> SUFFICES ASSUME ~ excess
             PROVE  \/ \E h \in Handlers : work'[h].pc = "locking"
                    \/ Stored' <= MaxCache
                    \/ \E h \in Handlers : mu = h /\ Accounted(StoredBytes', work'[h].files, work'[h].total)
  BY DEF BoundInv
<1>1. CASE \E h \in Handlers : work[h].pc = "locking"
  BY <1>1
<1>2. CASE Stored <= MaxCache
  <2>1. Stored' <= Stored /\ Stored \in Nat /\ Stored' \in Nat
    BY StoresLess
  <2>2. Stored' <= MaxCache
    BY <1>2, <2>1, SizesAssumption
  <2> QED BY <2>2
<1>3. CASE \E h \in Handlers : mu = h /\ Accounted(StoredBytes, work[h].files, work[h].total)
  <2>1. PICK h \in Handlers : mu = h /\ Accounted(StoredBytes, work[h].files, work[h].total)
    BY <1>3
  <2>2. Accounted(StoredBytes', work[h].files, work[h].total)
    BY <2>1 DEF Accounted
  <2> QED BY <2>1, <2>2
<1> QED BY <1>1, <1>2, <1>3 DEF BoundInv

(* The same for a step of a handler that neither waits to walk nor evicts.  *)
LEMMA BoundStaysBy ==
  ASSUME FileInv, FileInv', BoundInv, StoredBytes' \subseteq StoredBytes, UNCHANGED <<mu, excess>>,
         NEW h \in Handlers, work[h].pc \notin {"locking", "evicting"}, NEW w, Do(h, w)
  PROVE  BoundInv'
<1>1. mu # h /\ DOMAIN work = Handlers
  BY DEF FileInv, TypeOK, WorkType
<1>2. \A g \in Handlers \ {h} : work'[g] = work[g]
  BY <1>1 DEF Do
<1> QED BY <1>1, <1>2, BoundStays

(* Emptying a block's file, making an empty one or removing some.           *)
LEMMA BytesGo ==
  ASSUME \A k \in DOMAIN blocks' : blocks'[k] = 0 \/ (k \in DOMAIN blocks /\ blocks'[k] = blocks[k])
  PROVE  StoredBytes' \subseteq StoredBytes
<1> SUFFICES ASSUME NEW x \in StoredBytes' PROVE x \in StoredBytes
  OBVIOUS
<1>1. PICK k \in DOMAIN blocks' : x \in {k} \X (1 .. blocks'[k])
  BY DEF StoredBytes
<1>2. blocks'[k] # 0
  <2>1. 1 .. 0 = {}
    OBVIOUS
  <2> QED BY <1>1, <2>1
<1>3. k \in DOMAIN blocks /\ x \in {k} \X (1 .. blocks[k])
  BY <1>1, <1>2
<1> QED BY <1>3, Zenon DEF StoredBytes

(* A file of the walk is removed: the bytes there are and the count of them *)
(* fall together.                                                           *)
LEMMA EvictOneBound ==
  ASSUME FileInv, FileInv', BoundInv, NEW h \in Handlers, EvictOne(h)
  PROVE  BoundInv'
<1> DEFINE fs == work[h].files
           f == Head(fs)
           t == IF f[1] \in DOMAIN blocks THEN work[h].total - f[2] ELSE work[h].total
<1>0. /\ IsWork(work[h]) /\ work[h].pc = "evicting" /\ mu = h /\ fs # << >> /\ Forget(f[1])
      /\ UNCHANGED <<mu, excess>> /\ DOMAIN work = Handlers
  BY HandlerAt DEF EvictOne, FileInv, TypeOK, WorkType
<1>1. /\ work'[h].files = Tail(fs) /\ work'[h].total = t
      /\ \A g \in Handlers \ {h} : work'[g] = work[g]
  <2>1. Do(h, [work[h] EXCEPT !.files = Tail(@),
                              !.total = IF f[1] \in DOMAIN blocks THEN @ - f[2] ELSE @])
    BY DEF EvictOne
  <2> QED BY <1>0, <2>1 DEF Do, IsWork
<1>2. DOMAIN blocks' = DOMAIN blocks \ {f[1]} /\ \A k \in DOMAIN blocks' : blocks'[k] = blocks[k]
  BY <1>0 DEF Forget
<1>3. StoredBytes' \subseteq StoredBytes
  BY <1>2, BytesGo
<1> SUFFICES ASSUME ~ excess
             PROVE  \/ \E g \in Handlers : work'[g].pc = "locking"
                    \/ Stored' <= MaxCache
                    \/ Accounted(StoredBytes', work'[h].files, work'[h].total)
  BY <1>0 DEF BoundInv
<1>4. CASE \E g \in Handlers : work[g].pc = "locking"
  BY <1>0, <1>1, <1>4
<1>5. CASE Stored <= MaxCache
  <2>1. Stored' <= Stored /\ Stored \in Nat /\ Stored' \in Nat
    BY <1>3, StoresLess
  <2> QED BY <1>5, <2>1, SizesAssumption
<1>6. CASE Accounted(StoredBytes, fs, work[h].total)
  <2>1. fs \in Seq(Keys \X Nat) /\ work[h].total \in Int
    BY <1>0, WorkFields
  <2>2. /\ \A i, j \in DOMAIN fs : fs[i][1] = fs[j][1] => i = j
        /\ StoredBytes \subseteq Listed(fs) /\ Cardinality(Listed(fs)) <= work[h].total
    BY <1>6 DEF Accounted
  <2>3. f \in Keys \X Nat /\ f[2] \in Nat
    <3>1. f \in Keys \X Nat
      BY <1>0, <2>1
    <3> QED BY <3>1
  <2>4. Cardinality(Listed(fs)) \in Nat
    BY <2>1, ListedFinite
  <2> HIDE DEF fs
  <2>5. /\ \A i, j \in DOMAIN Tail(fs) : Tail(fs)[i][1] = Tail(fs)[j][1] => i = j
        /\ Cardinality(Listed(Tail(fs))) = Cardinality(Listed(fs)) - f[2]
        /\ \A x \in Listed(fs) : x[1] # f[1] => x \in Listed(Tail(fs))
    BY <1>0, <2>1, <2>2, ListedTail
  <2> HIDE DEF f
  <2>6. StoredBytes' \subseteq Listed(Tail(fs))
    <3> SUFFICES ASSUME NEW x \in StoredBytes' PROVE x \in Listed(Tail(fs))
      OBVIOUS
    <3>1. PICK k \in DOMAIN blocks' : x \in {k} \X (1 .. blocks'[k])
      BY DEF StoredBytes
    <3>2. x[1] # f[1]
      BY <1>2, <3>1
    <3> QED BY <1>3, <2>2, <2>5, <3>2
  <2>7. Cardinality(Listed(Tail(fs))) <= t
    BY <2>1, <2>2, <2>3, <2>4, <2>5
  <2> HIDE DEF t
  <2>8. Accounted(StoredBytes', Tail(fs), t)
    BY <2>5, <2>6, <2>7 DEF Accounted
  <2> QED BY <1>1, <2>8
<1> QED BY <1>0, <1>4, <1>5, <1>6 DEF BoundInv

(* Eviction begins: what it lists is what there is.                         *)
LEMMA WalkBlocksBound ==
  ASSUME FileInv, NEW h \in Handlers, WalkBlocks(h)
  PROVE  BoundInv'
<1> DEFINE all == [i \in DOMAIN order |-> <<order[i], blocks[order[i]]>>]
           fs == IF Stored > MaxCache THEN all ELSE << >>
<1>0. ServerType /\ CacheType /\ IsWork(work[h]) /\ DOMAIN work = Handlers
  BY HandlerAt DEF FileInv, TypeOK, WorkType
<1>1. /\ Do(h, [work[h] EXCEPT !.pc = "evicting", !.files = fs, !.total = Stored])
      /\ mu' = h /\ blocks' = blocks
  BY DEF WalkBlocks, Walk
<1>2. StoredBytes' = StoredBytes /\ Stored' = Stored
  BY <1>1 DEF StoredBytes, Stored
<1>3. work'[h].files = fs /\ work'[h].total = Stored
  BY <1>0, <1>1 DEF Do, IsWork
<1>4. Stored = Cardinality(StoredBytes) /\ Stored \in Nat
  BY <1>0, StoredFacts
<1>5. CASE Stored <= MaxCache
  BY <1>2, <1>5 DEF BoundInv
<1>6. CASE Stored > MaxCache
  <2>1. fs = all
    BY <1>6
  <2>2. Listed(all) = StoredBytes /\ \A i, j \in DOMAIN all : all[i][1] = all[j][1] => i = j
    BY <1>0, WalkLists
  <2> HIDE DEF all, fs
  <2>3. Accounted(StoredBytes, all, Stored)
    BY <1>4, <2>2 DEF Accounted
  <2>4. Accounted(StoredBytes', work'[h].files, work'[h].total)
    BY <1>2, <1>3, <2>1, <2>3
  <2> QED BY <1>1, <2>4 DEF BoundInv
<1>7. Stored <= MaxCache \/ Stored > MaxCache
  BY <1>4, SizesAssumption
<1> QED BY <1>5, <1>6, <1>7

(* Eviction is done: nothing is left to remove, or enough was.              *)
LEMMA EvictedBound ==
  ASSUME FileInv, BoundInv, NEW h \in Handlers, Evicted(h)
  PROVE  BoundInv'
<1> DEFINE fs == work[h].files
<1>0. /\ ServerType /\ CacheType /\ IsWork(work[h]) /\ DOMAIN work = Handlers
      /\ work[h].pc = "evicting" /\ mu = h
  BY HandlerAt DEF FileInv, TypeOK, WorkType, Evicted
<1>1. /\ UNCHANGED <<blocks, excess>> /\ (fs = << >> \/ work[h].total <= EvictTo)
      /\ \A g \in Handlers \ {h} : work'[g] = work[g]
  BY <1>0 DEF Evicted, Do
<1>2. Stored' = Stored
  BY <1>1 DEF Stored
<1> SUFFICES ASSUME ~ excess
             PROVE  (\E g \in Handlers : work'[g].pc = "locking") \/ Stored <= MaxCache
  BY <1>1, <1>2 DEF BoundInv
<1>3. CASE \E g \in Handlers : work[g].pc = "locking"
  BY <1>0, <1>1, <1>3
<1>4. CASE Accounted(StoredBytes, fs, work[h].total)
  <2>1. IsFiniteSet(StoredBytes) /\ Stored = Cardinality(StoredBytes) /\ Stored \in Nat
    BY <1>0, StoredFacts
  <2>2. fs \in Seq(Keys \X Nat) /\ work[h].total \in Int
    BY <1>0, WorkFields
  <2>3. StoredBytes \subseteq Listed(fs) /\ Cardinality(Listed(fs)) <= work[h].total
    BY <1>4 DEF Accounted
  <2>4. CASE fs = << >>
    <3>1. Listed(fs) = {}
      BY <2>4 DEF Listed
    <3>2. StoredBytes = {}
      BY <2>3, <3>1
    <3>3. Stored = 0
      BY <2>1, <3>2, FS_EmptySet
    <3> QED BY <3>3, SizesAssumption
  <2>5. CASE work[h].total <= EvictTo
    <3>1. IsFiniteSet(Listed(fs)) /\ Cardinality(Listed(fs)) \in Nat
      BY <2>2, ListedFinite
    <3>2. Cardinality(StoredBytes) <= Cardinality(Listed(fs))
      BY <2>3, <3>1, FS_Subset
    <3> QED BY <2>1, <2>2, <2>3, <2>5, <3>1, <3>2, SizesAssumption
  <2> QED BY <1>1, <2>4, <2>5
<1> QED BY <1>0, <1>3, <1>4 DEF BoundInv

(* Every step keeps too much from being stored unattended.                  *)
LEMMA BoundStep == FileInv /\ FileInv' /\ BoundInv /\ [Next]_vars => BoundInv'
<1> SUFFICES ASSUME FileInv, FileInv', BoundInv, [Next]_vars PROVE BoundInv'
  OBVIOUS
<1>0. DOMAIN work = Handlers /\ (\A h \in Handlers : IsWork(work[h])) /\ reader \in Handlers \cup {Nobody}
  BY DEF FileInv, TypeOK, WorkType
<1>1. ASSUME UNCHANGED blocks PROVE StoredBytes' \subseteq StoredBytes
  BY <1>1 DEF StoredBytes
<1>2. CASE OpenForRead \/ CloseRead \/ NewRevision \/ UNCHANGED vars
  <2>1. UNCHANGED <<work, blocks, mu, excess>>
    BY <1>2 DEF OpenForRead, CloseRead, NewRevision, vars, cacheVars
  <2> QED BY <1>1, <2>1, BoundStays
<1>3. CASE CancelRead
  <2>1. /\ UNCHANGED <<blocks, mu, excess>> /\ reader \in Handlers
        /\ Do(reader, [work[reader] EXCEPT !.buf = << >>, !.torn = FALSE])
    BY <1>0, <1>3 DEF CancelRead
  <2>2. \A g \in Handlers : /\ work'[g].pc = work[g].pc /\ work'[g].files = work[g].files
                            /\ work'[g].total = work[g].total
    BY <1>0, <2>1 DEF Do, IsWork
  <2> QED BY <1>1, <2>1, <2>2, BoundStays
<1>4. CASE InvalidateLink
  <2>1. UNCHANGED <<work, mu, excess>> /\ blocks' = << >>
    BY <1>4 DEF InvalidateLink
  <2>2. StoredBytes' \subseteq StoredBytes
    BY <2>1, BytesGo
  <2> QED BY <2>1, <2>2, BoundStays
<1>5. CASE HelperCrash
  BY <1>5 DEF HelperCrash, BoundInv
<1>6. ASSUME NEW h \in Handlers, Read(h) \/ HandlerStep(h) PROVE BoundInv'
  <2>1. CASE Read(h) \/ GetRevision(h) \/ MissBlock(h) \/ Refused(h) \/ OfflineMiss(h) \/ Answer(h)
             \/ GetBlock(h)
    <3>1. /\ UNCHANGED <<blocks, mu, excess>> /\ (\E w : Do(h, w))
          /\ work[h].pc \notin {"locking", "evicting"}
      BY <2>1 DEF Read, GetRevision, MissBlock, Refused, OfflineMiss, Answer, GetBlock, Fail, AtBlock,
                  cacheVars
    <3> QED BY <1>1, <3>1, BoundStaysBy
  <2>2. CASE PutBlock(h)
    <3>1. UNCHANGED <<mu, excess>> /\ (\E w : Do(h, w)) /\ work[h].pc \notin {"locking", "evicting"}
      BY <2>2 DEF PutBlock
    <3>2. \A k \in DOMAIN blocks' : blocks'[k] = 0 \/ (k \in DOMAIN blocks /\ blocks'[k] = blocks[k])
      <4>1. PICK k : \/ blocks' = [x \in DOMAIN blocks \cup {k} |-> IF x = k THEN 0 ELSE blocks[x]]
                     \/ blocks' = blocks
        BY <2>2 DEF PutBlock
      <4> QED BY <4>1
    <3>3. StoredBytes' \subseteq StoredBytes
      BY <3>2, BytesGo
    <3> QED BY <3>1, <3>3, BoundStaysBy
  <2>3. CASE WriteBlock(h)
    <3>1. work'[h].pc = "locking"
      BY <1>0, <2>3 DEF WriteBlock, Do, IsWork
    <3> QED BY <3>1 DEF BoundInv
  <2>4. CASE WriteFails(h)
    BY <2>4 DEF WriteFails, BoundInv
  <2>5. CASE WalkBlocks(h)
    BY <2>5, WalkBlocksBound
  <2>6. CASE EvictOne(h)
    BY <2>6, EvictOneBound
  <2>7. CASE Evicted(h)
    BY <2>7, EvictedBound
  <2> QED BY <1>6, <2>1, <2>2, <2>3, <2>4, <2>5, <2>6, <2>7 DEF HandlerStep
<1> QED BY <1>2, <1>3, <1>4, <1>5, <1>6 DEF Next

(* The block cache keeps its limit, whatever its size and the blocks': when *)
(* no PutBlock is under way what is stored fits, though evictIfNeeded goes  *)
(* by a walk that puts, invalidations and other handlers' writes have       *)
(* overtaken -- unless a put was cut short since the last walk.             *)
THEOREM CacheAlwaysBounded == Spec => []CacheBounded
<1>1. Init => BoundInv
  <2> SUFFICES ASSUME Init PROVE Stored <= MaxCache
    BY DEF BoundInv
  <2>1. blocks = << >> /\ FileInv
    BY FileInit DEF Init
  <2>2. StoredBytes = {}
    BY <2>1 DEF StoredBytes
  <2>3. Stored = Cardinality(StoredBytes)
    BY <2>1, StoredFacts DEF FileInv, TypeOK
  <2>4. Stored = 0
    BY <2>2, <2>3, FS_EmptySet
  <2> QED BY <2>4, SizesAssumption
<1>2. FileInv /\ BoundInv => CacheBounded
  <2> SUFFICES ASSUME FileInv, BoundInv, ~ excess,
                      \A h \in Handlers : work[h].pc \notin {"writing", "locking", "evicting"}
               PROVE  Stored <= MaxCache
    BY DEF CacheBounded
  <2>1. \A h \in Handlers : mu # h
    BY DEF FileInv, TypeOK, WorkType
  <2> QED BY <2>1 DEF BoundInv
<1> QED BY <1>1, <1>2, BoundStep, FileInductive, PTL DEF Spec
=============================================================================
