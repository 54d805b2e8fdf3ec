---------------------------- MODULE FileContent -----------------------------
(***************************************************************************)
(* Reading one file: the backend's handle (backend/gvfsbackendproton.c),   *)
(* the ReadFile handler with ReadFileContent (helper/drive/session.go) and *)
(* the block cache on disk (helper/drive/blockcache.go).                   *)
(*                                                                         *)
(* A cancelled read leaves its handler running beside the next one; the    *)
(* poller drops the blocks of a file at any moment; the helper may die at  *)
(* any step, with files on disk as they are.  A byte is its revision and   *)
(* its place there, so that a byte out of place shows.                     *)
(***************************************************************************)
EXTENDS Integers, Sequences, FiniteSets, SequencesExt

CONSTANTS
  Handlers,      \* handler goroutines: the attached one and abandoned ones
  Nobody,        \* the backend waits for none of them; the mutex is free
  BlockSize,     \* protonBlockSize
  PageSize,      \* blocks GetRevision is asked for (500 in the code)
  MaxCache,      \* BlockCache.maxSize
  EvictTo,       \* what evictIfNeeded brings the cache down to (90 %)
  FileSizes,     \* sizes a revision may have
  Requests,      \* bytes_requested
  MaxRevisions,  \* bound: revisions of the file
  MaxMishaps     \* bound: cancelled reads, failed writes and helper crashes

ASSUME SizesAssumption ==
  /\ BlockSize \in Nat \ {0} /\ PageSize \in Nat \ {0}
  /\ MaxCache \in Nat /\ EvictTo \in 0 .. MaxCache
  /\ FileSizes \subseteq Nat /\ Requests \subseteq Nat \ {0}
  /\ MaxRevisions \in Nat \ {0} /\ MaxMishaps \in Nat

ASSUME HandlersAssumption == Nobody \notin Handlers

Revisions == 1 .. MaxRevisions
NoRev == 0
Bytes == Revisions \X Nat

VARIABLES
  size,     \* the server: bytes of each revision
  head,     \* the active revision
  handle,   \* the backend's ProtonHandle and what its client has read
  reader,   \* the handler whose answer the backend waits for
  work,     \* what each handler is at
  blocks,   \* the cache: <<revision, index>> to the number of bytes stored
  order,    \* its keys, least recently used first (the files' mtimes)
  mu,       \* holder of BlockCache.mu
  mishaps,
  excess    \* history: a block was left without the eviction that follows

vars == <<size, head, handle, reader, work, blocks, order, mu, mishaps, excess>>
cacheVars == <<blocks, order, mu, mishaps, excess>>

Keys == Revisions \X Nat

(* handle.rev, data and spoiled are history: what the client has read, and  *)
(* whether two revisions or a block not yet whole had a part in it (then    *)
(* the bytes are no longer kept).                                           *)
Closed == [open |-> FALSE, offset |-> 0, eof |-> FALSE, rev |-> NoRev, data |-> << >>,
           spoiled |-> FALSE]
Idle == [pc |-> "idle", rev |-> 1, offset |-> 0, length |-> 0, idx |-> 0, last |-> -1,
         offline |-> FALSE, buf |-> << >>, torn |-> FALSE, files |-> << >>, total |-> 0]

Pcs == {"idle", "revision", "blocks", "download", "writing", "locking", "evicting"}

Init ==
  /\ size \in [Revisions -> FileSizes]
  /\ head = 1
  /\ handle = Closed
  /\ reader = Nobody
  /\ work = [h \in Handlers |-> Idle]
  /\ blocks = << >> /\ order = << >>
  /\ mu = Nobody
  /\ mishaps = 0 /\ excess = FALSE

Least(i, j) == IF i < j THEN i ELSE j
Content(r) == [i \in 1 .. size[r] |-> <<r, i>>]
Block(r, i) == SubSeq(Content(r), i * BlockSize + 1, Least(size[r], (i + 1) * BlockSize))
BlockCount(r) == (size[r] + BlockSize - 1) \div BlockSize

(* What a handler may be at.                                                *)
IsWork(w) ==
  w \in [pc : Pcs, rev : Revisions, offset : Nat, length : Nat, idx : Nat, last : Int,
         offline : BOOLEAN, buf : Seq(Bytes), torn : BOOLEAN, files : Seq(Keys \X Nat),
         total : Int]

ServerType == size \in [Revisions -> FileSizes] /\ head \in Revisions

(* No handle is beyond the end of every revision.                           *)
HandleType ==
  /\ handle \in [open : BOOLEAN, offset : Nat, eof : BOOLEAN, rev : Revisions \cup {NoRev},
                 data : Seq(Bytes), spoiled : BOOLEAN]
  /\ \E r \in Revisions : handle.offset <= size[r]

WorkType ==
  /\ reader \in Handlers \cup {Nobody} /\ mu \in Handlers \cup {Nobody}
  /\ DOMAIN work = Handlers /\ \A h \in Handlers : IsWork(work[h])
  /\ \A h \in Handlers : work[h].pc = "evicting" <=> mu = h

(* No block file is longer than its block, and order has each once.         *)
CacheType ==
  /\ DOMAIN blocks \subseteq Keys
  /\ \A k \in DOMAIN blocks : blocks[k] \in 0 .. Len(Block(k[1], k[2]))
  /\ order \in Seq(Keys) /\ Range(order) = DOMAIN blocks /\ IsInjective(order)
  /\ mishaps \in 0 .. MaxMishaps /\ excess \in BOOLEAN

TypeOK == ServerType /\ HandleType /\ WorkType /\ CacheType

Do(h, w) == work' = [work EXCEPT ![h] = w]

-----------------------------------------------------------------------------
(* The backend.                                                            *)

(* do_open_for_read found a file.                                          *)
OpenForRead ==
  /\ ~ handle.open
  /\ handle' = [Closed EXCEPT !.open = TRUE]
  /\ UNCHANGED <<size, head, reader, work, cacheVars>>

(* do_read; the handler stats the path, which gives the active revision or, *)
(* from the metadata cache, an earlier one.                                 *)
Read(h) ==
  /\ handle.open /\ ~ handle.eof /\ reader = Nobody
  /\ work[h].pc = "idle"
  /\ \E n \in Requests, r \in {q \in Revisions : q <= head} :
       Do(h, [Idle EXCEPT !.pc = "revision", !.rev = r, !.offset = handle.offset, !.length = n])
  /\ reader' = h
  /\ UNCHANGED <<size, head, handle, cacheVars>>

Consume(w, got) ==
  LET spoiled == handle.spoiled \/ w.torn \/ handle.rev \notin {NoRev, w.rev}
  IN  [handle EXCEPT !.eof = got = << >>, !.spoiled = spoiled,
                     !.rev = IF spoiled THEN NoRev ELSE w.rev,
                     !.data = IF spoiled THEN << >> ELSE @ \o got]

(* Mutant: the offset moves on by what was asked for.                       *)
AdvanceByRequest(w, data) ==
  LET got == SubSeq(data, 1, Least(Len(data), w.length))
  IN  [Consume(w, got) EXCEPT !.offset = @ + w.length]

(* proton_rpc_read_file took MIN (dlen, length) bytes; the offset moves on  *)
(* by as many.  The answer's eof is not looked at: no bytes end the file.   *)
Advance(w, data) ==
  LET got == SubSeq(data, 1, Least(Len(data), w.length))
  IN  [Consume(w, got) EXCEPT !.offset = @ + Len(got)]

(* The job is cancelled: nobody waits for the handler any more, nor for the *)
(* bytes it has so far.                                                    *)
CancelRead ==
  /\ reader # Nobody /\ mishaps < MaxMishaps
  /\ reader' = Nobody
  /\ Do(reader, [work[reader] EXCEPT !.buf = << >>, !.torn = FALSE])
  /\ mishaps' = mishaps + 1
  /\ UNCHANGED <<size, head, handle, blocks, order, mu, excess>>

CloseRead ==
  /\ handle.open /\ reader = Nobody
  /\ handle' = Closed
  /\ UNCHANGED <<size, head, reader, work, cacheVars>>

-----------------------------------------------------------------------------
(* ReadFileContent.                                                        *)

StartBlock(w) == w.offset \div BlockSize

(* Mutant: the range's end is taken for its last byte.                      *)
EndBlockPast(w) ==
  Least(size[w.rev], w.offset + w.length) \div BlockSize

(* endBlock0 of readFromCache; Go's division turns -1 into 0.  link.Size is *)
(* taken to be the size of the content.                                     *)
EndBlock(w) ==
  LET endByte == Least(size[w.rev], w.offset + w.length)
  IN  IF endByte = 0 THEN 0 ELSE (endByte - 1) \div BlockSize

(* sliceRange.                                                             *)
SliceRange(w) ==
  LET trimStart == w.offset - StartBlock(w) * BlockSize
  IN  SubSeq(w.buf, trimStart + 1, Least(Len(w.buf), trimStart + w.length))

(* GetRevision: the blocks from offset's on, to the end of the file or of   *)
(* the page; when Proton cannot be reached, what the range asks for.  A     *)
(* cancelled request counts as unreachable.                                 *)
GetRevision(h) ==
  /\ work[h].pc = "revision"
  /\ LET w == [work[h] EXCEPT !.pc = "blocks", !.idx = StartBlock(work[h])]
     IN  \/ Do(h, [w EXCEPT !.last = Least(w.idx + PageSize, BlockCount(w.rev)) - 1])
         \/ Do(h, [w EXCEPT !.last = EndBlock(w), !.offline = TRUE])
  /\ UNCHANGED <<size, head, handle, reader, cacheVars>>

Key(w) == <<w.rev, w.idx>>
AtBlock(h) == work[h].pc = "blocks" /\ work[h].idx <= work[h].last

(* What an answer holds so far; nobody will read an abandoned one.          *)
Collect(h, bytes) == IF reader = h THEN work[h].buf \o bytes ELSE << >>

(* A block's file is used: it is the latest.                                *)
Touched(k) == Append(RemoveFirst(order, k), k)

(* The file as it is: its bytes need not be all there yet, or ever.         *)
GetBlock(h) ==
  /\ AtBlock(h)
  /\ LET w == work[h] k == Key(w) whole == Block(w.rev, w.idx)
     IN  /\ k \in DOMAIN blocks
         /\ Do(h, [w EXCEPT !.idx = @ + 1, !.buf = Collect(h, SubSeq(whole, 1, blocks[k])),
                            !.torn = @ \/ (reader = h /\ blocks[k] < Len(whole))])
         /\ order' = Touched(k)
  /\ UNCHANGED <<size, head, handle, reader, blocks, mu, mishaps, excess>>

(* The request fails, by an answer of Proton or for want of one.            *)
Fail(h) ==
  /\ Do(h, Idle)
  /\ reader' = IF reader = h THEN Nobody ELSE reader
  /\ UNCHANGED <<size, head, handle, cacheVars>>

(* The block is not there: it is asked of Proton, and may come to be there  *)
(* by another handler's hand meanwhile.                                     *)
MissBlock(h) ==
  /\ AtBlock(h) /\ ~ work[h].offline
  /\ Key(work[h]) \notin DOMAIN blocks
  /\ Do(h, [work[h] EXCEPT !.pc = "download"])
  /\ UNCHANGED <<size, head, handle, reader, cacheVars>>

Refused(h) ==
  /\ work[h].pc \in {"revision", "download"}
  /\ Fail(h)

(* ErrOffline.                                                             *)
OfflineMiss(h) ==
  /\ AtBlock(h) /\ work[h].offline
  /\ Key(work[h]) \notin DOMAIN blocks
  /\ Fail(h)

(* PutBlock opens the block's file, which makes it or empties it; the       *)
(* directory may be swept away under it, and the read goes on without.      *)
PutBlock(h) ==
  /\ work[h].pc = "download"
  /\ LET w == [work[h] EXCEPT !.buf = Collect(h, Block(work[h].rev, work[h].idx))]
         k == Key(w)
     IN  \/ /\ Do(h, [w EXCEPT !.pc = "writing"])
            /\ blocks' = [x \in DOMAIN blocks \cup {k} |-> IF x = k THEN 0 ELSE blocks[x]]
            /\ order' = Touched(k)
         \/ /\ k \notin DOMAIN blocks
            /\ Do(h, [w EXCEPT !.pc = "blocks", !.idx = @ + 1])
            /\ UNCHANGED <<blocks, order>>
  /\ UNCHANGED <<size, head, handle, reader, mu, mishaps, excess>>

Store(k, n) ==
  /\ blocks' = IF k \in DOMAIN blocks THEN [blocks EXCEPT ![k] = n] ELSE blocks
  /\ order' = IF k \in DOMAIN blocks THEN Touched(k) ELSE order

(* The bytes are written; a file removed meanwhile stays removed.           *)
WriteBlock(h) ==
  /\ work[h].pc = "writing"
  /\ Store(Key(work[h]), Len(Block(work[h].rev, work[h].idx)))
  /\ Do(h, [work[h] EXCEPT !.pc = "locking"])
  /\ UNCHANGED <<size, head, handle, reader, mu, mishaps, excess>>

(* The write fails part of the way: PutBlock returns at once, the file      *)
(* stays, and the read goes on with the bytes it has.                       *)
WriteFails(h) ==
  /\ work[h].pc = "writing" /\ mishaps < MaxMishaps
  /\ \E n \in 0 .. Len(Block(work[h].rev, work[h].idx)) - 1 : Store(Key(work[h]), n)
  /\ Do(h, [work[h] EXCEPT !.pc = "blocks", !.idx = @ + 1])
  /\ mishaps' = mishaps + 1
  /\ excess' = TRUE
  /\ UNCHANGED <<size, head, handle, reader, mu>>

-----------------------------------------------------------------------------
(* evictIfNeeded, under mu; everybody else goes on without it.              *)

(* The bytes in block files, each told by its file and its place there.     *)
Stored == Cardinality(UNION {{k} \X (1 .. blocks[k]) : k \in DOMAIN blocks})

(* The walk: names, times and sizes as of now.                              *)
Walk(h) ==
  /\ work[h].pc = "locking"
  /\ Do(h, [work[h] EXCEPT
               !.pc = "evicting",
               !.files = IF Stored > MaxCache
                         THEN [i \in DOMAIN order |-> <<order[i], blocks[order[i]]>>]
                         ELSE << >>,
               !.total = Stored])
  /\ mu' = h
  /\ excess' = FALSE
  /\ UNCHANGED <<size, head, handle, reader, blocks, order, mishaps>>

(* Mutant: the mutex is not taken.                                          *)
WalkBlocksUnlocked(h) == Walk(h)

(* Mutant: whoever finds the mutex taken leaves eviction to its holder.     *)
WalkBlocksIfFree(h) ==
  \/ mu = Nobody /\ Walk(h)
  \/ /\ work[h].pc = "locking" /\ mu # Nobody
     /\ Do(h, [work[h] EXCEPT !.pc = "blocks", !.idx = @ + 1])
     /\ UNCHANGED <<size, head, handle, reader, cacheVars>>

(* filepath.Walk, as if the folder stood still while it is walked.          *)
WalkBlocks(h) == mu = Nobody /\ Walk(h)

Forget(key) ==
  /\ blocks' = [k \in DOMAIN blocks \ {key} |-> blocks[k]]
  /\ order' = RemoveFirst(order, key)

(* A file that is gone already is passed over; no removal fails otherwise.  *)
EvictOne(h) ==
  /\ work[h].pc = "evicting" /\ work[h].files # << >> /\ work[h].total > EvictTo
  /\ LET f == Head(work[h].files)
     IN  /\ Forget(f[1])
         /\ Do(h, [work[h] EXCEPT !.files = Tail(@),
                                  !.total = IF f[1] \in DOMAIN blocks THEN @ - f[2] ELSE @])
  /\ UNCHANGED <<size, head, handle, reader, mu, mishaps, excess>>

Evicted(h) ==
  /\ work[h].pc = "evicting"
  /\ work[h].files = << >> \/ work[h].total <= EvictTo
  /\ Do(h, [work[h] EXCEPT !.pc = "blocks", !.idx = @ + 1, !.files = << >>, !.total = 0])
  /\ mu' = Nobody
  /\ UNCHANGED <<size, head, handle, reader, blocks, order, mishaps, excess>>

(* The answer; an abandoned handler's is not read by anybody.               *)
Answer(h) ==
  /\ work[h].pc = "blocks" /\ work[h].idx > work[h].last
  /\ handle' = IF reader = h THEN Advance(work[h], SliceRange(work[h])) ELSE handle
  /\ reader' = IF reader = h THEN Nobody ELSE reader
  /\ Do(h, Idle)
  /\ UNCHANGED <<size, head, cacheVars>>

-----------------------------------------------------------------------------
NewRevision ==
  /\ head < MaxRevisions
  /\ head' = head + 1
  /\ UNCHANGED <<size, handle, reader, work, cacheVars>>

(* The poller, on an event of the file.                                     *)
InvalidateLink ==
  /\ blocks' = << >> /\ order' = << >>
  /\ UNCHANGED <<size, head, handle, reader, work, mu, mishaps, excess>>

(* The helper dies, and with it the mount and its handles.                  *)
HelperCrash ==
  /\ mishaps < MaxMishaps
  /\ mishaps' = mishaps + 1
  /\ excess' = TRUE
  /\ work' = [h \in Handlers |-> Idle]
  /\ handle' = Closed
  /\ reader' = Nobody /\ mu' = Nobody
  /\ UNCHANGED <<size, head, blocks, order>>

HandlerStep(h) ==
  \/ GetRevision(h) \/ GetBlock(h) \/ MissBlock(h) \/ Refused(h) \/ OfflineMiss(h) \/ PutBlock(h)
  \/ WriteBlock(h) \/ WriteFails(h) \/ WalkBlocks(h) \/ EvictOne(h) \/ Evicted(h) \/ Answer(h)

Next ==
  \/ OpenForRead \/ CancelRead \/ CloseRead \/ NewRevision \/ InvalidateLink \/ HelperCrash
  \/ \E h \in Handlers : Read(h) \/ HandlerStep(h)

Spec == Init /\ [][Next]_vars

-----------------------------------------------------------------------------
(* Reads on one handle add up to the file: what a client has read is the    *)
(* beginning of one revision, and all of it at end of file, however blocks  *)
(* are cached, evicted, invalidated or served offline in between -- unless  *)
(* the revision changed under the handle, which names the file by its path, *)
(* or a block file was read before it was whole.                            *)
ReadsAddUp ==
  handle.rev # NoRev /\ ~ handle.spoiled =>
    /\ IsPrefix(handle.data, Content(handle.rev)) /\ Len(handle.data) = handle.offset
    /\ handle.eof => handle.data = Content(handle.rev)

(* "If any required block is absent from the cache, ErrOffline is           *)
(* returned", and only then: the block that is missed holds bytes that were *)
(* asked for -- unless none were, at the end of the file, where the last    *)
(* block is asked for all the same (and an empty file has no block).        *)
OfflineOnlyWhenMissing ==
  [][\A h \in Handlers : OfflineMiss(h) =>
       LET w == work[h]
           asked == w.offset + 1 .. Least(size[w.rev], w.offset + w.length)
           held == w.idx * BlockSize + 1 .. (w.idx + 1) * BlockSize
       IN  asked = {} \/ asked \cap held # {}]_vars

(* The cache keeps its limit: with no PutBlock under way the blocks stored  *)
(* fit, though eviction works from a walk that others have overtaken -- as  *)
(* long as no put was cut short since the last walk.                        *)
CacheBounded ==
  (\A h \in Handlers : work[h].pc \notin {"writing", "locking", "evicting"}) /\ ~ excess
    => Stored <= MaxCache
=============================================================================
